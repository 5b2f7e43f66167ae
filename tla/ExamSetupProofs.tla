-------------------------- MODULE ExamSetupProofs --------------------------
(***************************************************************************)
(* Proofs about ExamSetup: code 0 means a prepared machine, a request       *)
(* without failures succeeds whatever earlier ones left behind, and the     *)
(* rules of the account that exists are all there or none is.  And about    *)
(* FirewallWatch, from the rules on: the application's check counts the     *)
(* filters of each kind it can tell apart and accepts just the counts of    *)
(* what was installed, and the two lists of filters, the setup's and the    *)
(* application's, agree where one hands over to the other.                  *)
(***************************************************************************)
EXTENDS ExamSetup, FiniteSetTheorems, TLAPS

-----------------------------------------------------------------------------
(* The filters that the setup adds.                                        *)

LEMMA AddedType ==
    ASSUME NEW sid \in Nat, NEW h \in Hosts
    PROVE  /\ AddedFilters(sid, h) \in [1 .. 6 -> FilterRecords]
           /\ \A k \in 1 .. 6 : AddedFilters(sid, h)[k].sid = sid
           /\ \A k \in 1 .. 6 : AddedFilters(sid, h)[k].layer = "v4" <=> k # 6
<1> DEFINE f1 == Filter("permit", "v4", sid, ClientAddress(h), FALSE)
           f2 == Filter("permit", "v4", sid, "localhost", FALSE)
           f3 == Filter("permit", "v4", sid, "dns1", TRUE)
           f4 == Filter("permit", "v4", sid, "dns2", TRUE)
           f5 == Filter("block", "v4", sid, "none", FALSE)
           f6 == Filter("block", "v6", sid, "none", FALSE)
<1>1. ClientAddress(h) \in Addresses \cup FixedAddresses
  BY DEF ClientAddress, FixedAddresses
<1>2. f1 \in FilterRecords /\ f1.sid = sid /\ f1.layer = "v4"
  BY <1>1 DEF Filter, FilterRecords
<1>3. f2 \in FilterRecords /\ f2.sid = sid /\ f2.layer = "v4"
  BY DEF Filter, FilterRecords, FixedAddresses
<1>4. f3 \in FilterRecords /\ f3.sid = sid /\ f3.layer = "v4"
  BY DEF Filter, FilterRecords, FixedAddresses
<1>5. f4 \in FilterRecords /\ f4.sid = sid /\ f4.layer = "v4"
  BY DEF Filter, FilterRecords, FixedAddresses
<1>6. f5 \in FilterRecords /\ f5.sid = sid /\ f5.layer = "v4"
  BY DEF Filter, FilterRecords, FixedAddresses
<1>7. f6 \in FilterRecords /\ f6.sid = sid /\ f6.layer = "v6"
  BY DEF Filter, FilterRecords, FixedAddresses
<1>8. AddedFilters(sid, h) = <<f1, f2, f3, f4, f5, f6>>
  BY DEF AddedFilters
<1> HIDE DEF f1, f2, f3, f4, f5, f6
<1> QED BY <1>2, <1>3, <1>4, <1>5, <1>6, <1>7, <1>8

-----------------------------------------------------------------------------
(* Types.                                                                  *)

FiltersOK == \E ids \in SUBSET (1 .. 6) : filters \in [ids -> FilterRecords]

LEMMA EmptyType == <<>> \in [{} -> FilterRecords]
<1>1. DOMAIN <<>> = {}
  OBVIOUS
<1>2. <<>> = [k \in DOMAIN <<>> |-> <<>>[k]]
  OBVIOUS
<1> QED BY <1>1, <1>2

LEMMA InstalledType ==
    ASSUME TypeOK, host \in Hosts
    PROVE  \E ids \in SUBSET (1 .. 6) : AddedFilters(account, host) \in [ids -> FilterRecords]
<1>1. account \in Nat
  BY DEF TypeOK
<1> QED BY <1>1, AddedType

LEMMA RemainingType ==
    ASSUME FiltersOK, NEW kept \in SUBSET DOMAIN filters
    PROVE  \E ids \in SUBSET (1 .. 6) : [k \in kept |-> filters[k]] \in [ids -> FilterRecords]
BY DEF FiltersOK

\* A request at work has a host, and after it has created the account there is one.
HostGiven ==
    /\ pc \in Steps => host \in Hosts
    /\ pc \in Steps \ {"add", "delete", "profiles", "readd"} => account # 0
    /\ pc = "done" /\ code = 0 => host \in Hosts

LEMMA HostStep == ASSUME TypeOK, HostGiven, [Next]_vars PROVE HostGiven'
<1> USE DEF HostGiven, Steps
<1>1. CASE Start \/ Reply \/ Exit \/ Reboot \/ UNCHANGED vars
  BY <1>1 DEF Start, Reply, Exit, Reboot, vars, procVars, userVars
<1>2. CASE (\E h \in Hosts : Request(h)) \/ (\E c \in {10, 20} : Refuse(c))
  BY <1>2 DEF Request, Refuse
<1>3. CASE Account
  BY <1>3 DEF Account, AddUser, UserExists, DeleteUser, CleanupProfiles, ReaddUser, AddToGroup, InitializeProfile,
     UserFails, ProfileFails, NewAccount, Go, Return, userVars, TypeOK
<1>4. CASE Files
  BY <1>4 DEF userVars, Files, OpenConfig, WriteConfig, SilenceConsent, Deploy, DeployFails, SetTask, TaskFails, Go, Return
<1>5. CASE GetSid \/ OpenEngine \/ RulesFailEarly
  BY <1>5 DEF userVars, GetSid, OpenEngine, RulesFailEarly, Go, Return
<1>6. CASE RemoveRules
  BY <1>6 DEF userVars, RemoveRules
<1>7. CASE InstallRules \/ InstallFails
  BY <1>7 DEF userVars, InstallRules, InstallFails, Go
<1> QED BY <1>1, <1>2, <1>3, <1>4, <1>5, <1>6, <1>7 DEF Next, start_exam, Rules

LEMMA TypeStep == ASSUME TypeOK, HostGiven, [Next]_vars PROVE TypeOK'
<1> FiltersOK
  BY DEF TypeOK, FiltersOK
<1> HIDE DEF FiltersOK
<1> DEFINE ProcOK == pc \in {"off", "idle", "done"} \cup Steps /\ host \in Hosts \cup {"none"} /\ code \in Codes /\ clean \in BOOLEAN
           UserOK == created \in Nat /\ account \in 0 .. created /\ profiles \subseteq 1 .. created
           MemberOK == member \in BOOLEAN
           FileOK == /\ config \in Hosts \cup {"none", "broken"} /\ consent \in {"asks", "silent"}
                     /\ app \in {"none", "some", "all"} /\ task \in 0 .. created
           RuleOK == sublayer \in BOOLEAN /\ FiltersOK
           BoundOK == requests \in Nat /\ exits \in Nat
<1>1. TypeOK <=> ProcOK /\ UserOK /\ MemberOK /\ FileOK /\ RuleOK /\ BoundOK
  BY DEF TypeOK, FiltersOK
<1>2. TypeOK' <=> (ProcOK /\ UserOK /\ MemberOK /\ FileOK /\ RuleOK /\ BoundOK)'
  BY DEF TypeOK, FiltersOK
<1>3. /\ UNCHANGED procVars => ProcOK'
      /\ UNCHANGED userVars => UserOK' /\ MemberOK'
      /\ UNCHANGED <<fileVars, created>> => FileOK'
      /\ UNCHANGED ruleVars => RuleOK'
      /\ UNCHANGED boundVars => BoundOK'
  BY <1>1 DEF procVars, userVars, fileVars, ruleVars, boundVars, FiltersOK
<1>4. CASE Start \/ Reply
  <2>1. ProcOK' BY <1>1, <1>4 DEF Start, Reply
  <2> QED BY <1>1, <1>2, <1>3, <1>4, <2>1 DEF Start, Reply, userVars, fileVars
<1>5. CASE Exit \/ Reboot
  <2>1. ProcOK' /\ BoundOK' BY <1>1, <1>5 DEF Exit, Reboot
  <2>2. RuleOK'
    <3>1. CASE Exit
      BY <1>3, <3>1 DEF Exit
    <3>2. CASE Reboot
      BY <3>2, EmptyType DEF Reboot, FiltersOK
    <3> QED BY <1>5, <3>1, <3>2
  <2> QED BY <1>2, <1>3, <1>5, <2>1, <2>2 DEF Exit, Reboot, userVars
<1>6. CASE (\E h \in Hosts : Request(h)) \/ (\E c \in {10, 20} : Refuse(c))
  <2>1. ASSUME NEW h \in Hosts, Request(h) PROVE ProcOK' /\ BoundOK'
    BY <1>1, <2>1 DEF Request, Steps, Codes
  <2>2. ASSUME NEW c \in {10, 20}, Refuse(c) PROVE ProcOK' /\ BoundOK'
    <3>1. clean' \in BOOLEAN
      BY <2>2, Zenon DEF Refuse
    <3> QED BY <1>1, <2>2, <3>1 DEF Refuse, Codes
  <2>3. ProcOK' /\ BoundOK'
    BY <1>6, <2>1, <2>2
  <2> QED BY <1>2, <1>3, <1>6, <2>3 DEF Request, Refuse, userVars
<1>7. ASSUME NEW from \in Steps, NEW to \in Steps \cup {"done"}, Go(from, to) PROVE ProcOK' /\ BoundOK'
  BY <1>1, <1>7 DEF Go, boundVars
<1>8. ASSUME NEW from \in Steps, NEW c \in Codes, Return(from, c) PROVE ProcOK' /\ BoundOK'
  BY <1>1, <1>8 DEF Return, boundVars
<1>9. CASE Account
  <2>1. ProcOK' /\ BoundOK'
    BY <1>7, <1>8, <1>9 DEF Account, AddUser, UserExists, DeleteUser, CleanupProfiles, ReaddUser, AddToGroup,
       InitializeProfile, UserFails, ProfileFails, Steps, Codes
  <2>2. UserOK'
    <3>1. ASSUME NewAccount PROVE UserOK'
      BY <1>1, <3>1 DEF NewAccount
    <3>2. CASE AddUser \/ ReaddUser
      BY <3>1, <3>2 DEF AddUser, ReaddUser
    <3>3. CASE UserExists \/ UserFails
      BY <1>3, <3>3 DEF UserExists, UserFails
    <3>4. CASE DeleteUser
      BY <1>1, <3>4 DEF DeleteUser
    <3>5. CASE CleanupProfiles
      BY <1>1, <3>5 DEF CleanupProfiles
    <3>6. CASE AddToGroup
      BY <1>1, <3>6 DEF AddToGroup
    <3>7. CASE InitializeProfile
      BY <1>1, <3>7 DEF InitializeProfile, Go, HostGiven, Steps
    <3>8. CASE ProfileFails
      BY <1>1, <3>8 DEF ProfileFails, Return, HostGiven, Steps
    <3> QED BY <1>9, <3>2, <3>3, <3>4, <3>5, <3>6, <3>7, <3>8 DEF Account
  <2>3. FileOK' /\ RuleOK'
    BY <1>1, <1>3, <1>9 DEF Account, AddUser, UserExists, DeleteUser, CleanupProfiles, ReaddUser, AddToGroup,
       InitializeProfile, UserFails, ProfileFails, NewAccount, fileVars, userVars
  <2>4. MemberOK'
    BY <1>1, <1>3, <1>9, Zenon DEF Account, AddUser, UserExists, DeleteUser, CleanupProfiles, ReaddUser, AddToGroup,
       InitializeProfile, UserFails, ProfileFails, NewAccount, userVars
  <2> QED BY <1>2, <2>1, <2>2, <2>3, <2>4
<1>10. CASE Files
  <2>1. ProcOK' /\ BoundOK'
    <3>1. CASE WriteConfig
      <4>1. clean' \in BOOLEAN
        BY <3>1, Zenon DEF WriteConfig
      <4> QED BY <1>1, <3>1, <4>1 DEF WriteConfig, Steps, boundVars
    <3>2. CASE Files /\ ~WriteConfig
      BY <1>7, <1>8, <3>2 DEF Files, OpenConfig, SilenceConsent, Deploy, DeployFails, SetTask, TaskFails, Steps, Codes
    <3> QED BY <1>10, <3>1, <3>2
  <2>2. FileOK'
    <3>1. CASE WriteConfig
      BY <1>1, <3>1 DEF WriteConfig, userVars, HostGiven, Steps
    <3>2. CASE Files /\ ~WriteConfig
      BY <1>1, <3>2 DEF Files, OpenConfig, SilenceConsent, Deploy, DeployFails, SetTask, TaskFails, userVars
    <3> QED BY <1>10, <3>1, <3>2
  <2>3. UserOK' /\ MemberOK' /\ RuleOK'
    BY <1>3, <1>10 DEF Files, OpenConfig, WriteConfig, SilenceConsent, Deploy, DeployFails, SetTask, TaskFails
  <2> QED BY <1>2, <2>1, <2>2, <2>3
<1>11. CASE GetSid \/ OpenEngine \/ RulesFailEarly
  <2>1. ProcOK' /\ BoundOK'
    BY <1>7, <1>8, <1>11 DEF GetSid, OpenEngine, RulesFailEarly, Steps, Codes
  <2> QED BY <1>2, <1>3, <1>11, <2>1 DEF GetSid, OpenEngine, RulesFailEarly, userVars
<1>12. CASE RemoveRules
  <2>1. ProcOK' /\ BoundOK'
    BY <1>1, <1>12 DEF RemoveRules, Steps, boundVars
  <2>2. RuleOK'
    BY <1>1, <1>12, RemainingType DEF RemoveRules, FiltersOK
  <2> QED BY <1>2, <1>3, <1>12, <2>1, <2>2 DEF RemoveRules, userVars
<1>13. CASE InstallRules
  <2>1. ProcOK' /\ BoundOK'
    BY <1>7, <1>13 DEF InstallRules, Steps
  <2>2. host \in Hosts
    BY <1>13 DEF InstallRules, Go, HostGiven, Steps
  <2>3. RuleOK'
    BY <1>13, <2>2, InstalledType DEF InstallRules, FiltersOK
  <2> QED BY <1>2, <1>3, <1>13, <2>1, <2>3 DEF InstallRules, userVars
<1>14. CASE InstallFails
  <2>1. ProcOK' /\ BoundOK'
    BY <1>1, <1>14 DEF InstallFails, Codes, boundVars
  <2> QED BY <1>2, <1>3, <1>14, <2>1 DEF InstallFails, userVars
<1>15. CASE UNCHANGED vars
  BY <1>2, <1>3, <1>15 DEF vars, userVars
<1> QED BY <1>4, <1>5, <1>6, <1>9, <1>10, <1>11, <1>12, <1>13, <1>14, <1>15 DEF Next, start_exam, Rules

LEMMA TypeInvariant == Spec => [](TypeOK /\ HostGiven)
<1>1. Init => TypeOK /\ HostGiven
  <2> SUFFICES ASSUME Init PROVE TypeOK /\ HostGiven
    OBVIOUS
  <2>1. filters \in [{} -> FilterRecords]
    BY EmptyType DEF Init
  <2>2. clean \in BOOLEAN /\ member \in BOOLEAN /\ sublayer \in BOOLEAN
    BY Zenon DEF Init
  <2>3. \E ids \in SUBSET (1 .. 6) : filters \in [ids -> FilterRecords]
    BY <2>1
  <2> HIDE DEF FilterRecords
  <2> QED BY <2>2, <2>3 DEF Init, TypeOK, HostGiven, Steps, Codes
<1> QED BY <1>1, TypeStep, HostStep, PTL DEF Spec

\* The process, the account, the files and the rules keep their types.
THEOREM TypeCorrect == Spec => []TypeOK
BY TypeInvariant, PTL

-----------------------------------------------------------------------------
(* What each step of a request can rely on.                                *)

FromGroup == Steps \ {"add", "delete", "profiles", "readd"}
FromLogon == FromGroup \ {"group"}
FromOpen == FromLogon \ {"logon"}
FromConsent == FromOpen \ {"open", "write"}
FromTask == FromConsent \ {"consent", "deploy"}
FromSid == FromTask \ {"task"}

Staged ==
    /\ pc \in Steps => code = 0
    /\ pc \in FromLogon => member
    /\ pc \in FromOpen => account \in profiles
    /\ pc \in FromConsent => config \in {host, "broken"} /\ (clean => config = host)
    /\ pc \in FromTask => app = "all"
    /\ pc \in FromSid => task = account

LEMMA StagedStep ==
    ASSUME Staged, [Next]_vars
    PROVE  Staged'
<1> USE DEF Staged, FromSid, FromTask, FromConsent, FromOpen, FromLogon, FromGroup, Steps
<1>1. CASE Start \/ Reply \/ Exit \/ Reboot
  BY <1>1 DEF Start, Reply, Exit, Reboot
<1>2. CASE (\E h \in Hosts : Request(h)) \/ (\E c \in {10, 20} : Refuse(c))
  BY <1>2 DEF Request, Refuse
<1>3. CASE AddUser \/ UserExists \/ DeleteUser \/ CleanupProfiles \/ ReaddUser
  BY <1>3 DEF AddUser, UserExists, DeleteUser, CleanupProfiles, ReaddUser, Go
<1>4. CASE AddToGroup \/ InitializeProfile
  BY <1>4 DEF AddToGroup, InitializeProfile, Go
<1>5. CASE UserFails \/ ProfileFails \/ DeployFails \/ TaskFails \/ RulesFailEarly \/ InstallFails
  BY <1>5 DEF UserFails, ProfileFails, DeployFails, TaskFails, RulesFailEarly, InstallFails, Return
<1>6. CASE OpenConfig \/ WriteConfig \/ SilenceConsent
  <2>1. CASE OpenConfig \/ SilenceConsent
    BY <2>1 DEF OpenConfig, SilenceConsent, Go, userVars
  <2>2. CASE WriteConfig
    <3>1. config' \in {host', "broken"} /\ (clean' => config' = host')
      BY <2>2, Zenon DEF WriteConfig
    <3>2. pc = "write" /\ pc' = "consent" /\ UNCHANGED <<code, userVars>>
      BY <2>2 DEF WriteConfig
    <3> QED BY <3>1, <3>2 DEF userVars
  <2> QED BY <1>6, <2>1, <2>2
<1>7. CASE Deploy \/ SetTask
  BY <1>7 DEF Deploy, SetTask, Go, userVars
<1>8. CASE GetSid \/ OpenEngine
  BY <1>8 DEF GetSid, OpenEngine, Go, userVars, fileVars
<1>9. CASE RemoveRules
  BY <1>9 DEF RemoveRules, userVars, fileVars
<1>10. CASE InstallRules
  BY <1>10 DEF InstallRules, Go, userVars, fileVars
<1>11. CASE UNCHANGED vars
  BY <1>11 DEF vars, procVars, userVars, fileVars
<1> QED BY <1>1, <1>2, <1>3, <1>4, <1>5, <1>6, <1>7, <1>8, <1>9, <1>10, <1>11
     DEF Next, start_exam, Account, Files, Rules

\* Only the last step of a request answers with code 0.
LEMMA PreparedStep ==
    ASSUME HostGiven, Staged, ZeroMeansPrepared, [Next]_vars
    PROVE  ZeroMeansPrepared'
<1> USE DEF ZeroMeansPrepared
<1>1. CASE UNCHANGED vars
  BY <1>1 DEF vars, procVars, userVars, fileVars, ruleVars, Prepared
<1>2. CASE InstallRules
  BY <1>2 DEF InstallRules, Go, Prepared, HostGiven, Staged, FromSid, FromTask, FromConsent, FromOpen, FromLogon,
     FromGroup, Steps, userVars, fileVars
<1>3. CASE Start \/ Reply \/ Exit \/ Reboot
  BY <1>3 DEF Start, Reply, Exit, Reboot
<1>4. CASE (\E h \in Hosts : Request(h)) \/ (\E c \in {10, 20} : Refuse(c))
  BY <1>4 DEF Request, Refuse
<1>5. CASE Account \/ Files
  BY <1>5 DEF Account, AddUser, UserExists, DeleteUser, CleanupProfiles, ReaddUser, AddToGroup, InitializeProfile,
     UserFails, ProfileFails, Files, OpenConfig, WriteConfig, SilenceConsent, Deploy, DeployFails, SetTask, TaskFails,
     Go, Return
<1>6. CASE GetSid \/ OpenEngine \/ RulesFailEarly \/ RemoveRules \/ InstallFails
  BY <1>6 DEF GetSid, OpenEngine, RulesFailEarly, RemoveRules, InstallFails, Go, Return
<1> QED BY <1>1, <1>2, <1>3, <1>4, <1>5, <1>6 DEF Next, start_exam, Rules

-----------------------------------------------------------------------------
(* The filters of earlier accounts.                                        *)

\* Filters are for accounts that were created, and a new account has none yet.
FiltersOld ==
    /\ \A k \in DOMAIN filters : filters[k].sid \in 1 .. created /\ (filters[k].layer = "v4" <=> k # 6)
    /\ pc \in FromGroup => \A k \in DOMAIN filters : filters[k].sid # account

LEMMA AddedDomain ==
    ASSUME NEW sid \in Nat, NEW h \in Hosts
    PROVE  DOMAIN AddedFilters(sid, h) = 1 .. 6
BY AddedType

LEMMA FiltersOldStep ==
    ASSUME TypeOK, HostGiven, FiltersOld, [Next]_vars
    PROVE  FiltersOld'
<1> USE DEF FiltersOld, FromGroup, Steps
<1>1. created \in Nat /\ account \in 0 .. created
  BY DEF TypeOK
<1>2. CASE UNCHANGED vars
  BY <1>2 DEF vars, procVars, userVars, ruleVars
<1>3. CASE Start \/ Reply \/ Exit
  BY <1>3 DEF Start, Reply, Exit, userVars, ruleVars
<1>4. CASE Reboot
  BY <1>4 DEF Reboot
<1>5. CASE (\E h \in Hosts : Request(h)) \/ (\E c \in {10, 20} : Refuse(c))
  BY <1>5 DEF Request, Refuse, userVars, ruleVars
<1>6. CASE AddUser \/ ReaddUser
  BY <1>1, <1>6 DEF AddUser, ReaddUser, NewAccount, ruleVars
<1>7. CASE UserExists \/ DeleteUser \/ CleanupProfiles
  BY <1>7 DEF UserExists, DeleteUser, CleanupProfiles, Go, userVars, ruleVars
<1>8. CASE AddToGroup \/ InitializeProfile
  BY <1>8 DEF AddToGroup, InitializeProfile, Go, ruleVars
<1>9. CASE UserFails \/ ProfileFails \/ DeployFails \/ TaskFails \/ RulesFailEarly \/ InstallFails
  BY <1>9 DEF UserFails, ProfileFails, DeployFails, TaskFails, RulesFailEarly, InstallFails, Return, userVars, ruleVars
<1>10. CASE OpenConfig \/ WriteConfig \/ SilenceConsent \/ Deploy \/ SetTask
  BY <1>10 DEF OpenConfig, WriteConfig, SilenceConsent, Deploy, SetTask, Go, userVars, ruleVars
<1>11. CASE GetSid \/ OpenEngine
  BY <1>11 DEF GetSid, OpenEngine, Go, userVars, ruleVars
<1>12. CASE RemoveRules
  BY <1>12 DEF RemoveRules, userVars
<1>13. CASE InstallRules
  <2>1. host \in Hosts /\ account \in 1 .. created /\ pc' = "done"
    BY <1>1, <1>13 DEF InstallRules, Go, HostGiven
  <2>2. filters' = AddedFilters(account, host) /\ created' = created
    BY <1>13 DEF InstallRules, userVars
  <2> QED BY <1>1, <2>1, <2>2, AddedType, AddedDomain
<1> QED BY <1>2, <1>3, <1>4, <1>5, <1>6, <1>7, <1>8, <1>9, <1>10, <1>11, <1>12, <1>13
     DEF Next, start_exam, Account, Files, Rules

LEMMA WholeStep ==
    ASSUME TypeOK, HostGiven, FiltersOld, RulesWhole, [Next]_vars
    PROVE  RulesWhole'
<1> USE DEF RulesWhole
<1>1. created \in Nat /\ account \in 0 .. created
  BY DEF TypeOK
<1>2. CASE UNCHANGED vars
  BY <1>2 DEF vars, userVars, ruleVars
<1>3. CASE Start \/ Reply \/ Exit
  BY <1>3 DEF Start, Reply, Exit, userVars, ruleVars
<1>4. CASE Reboot
  BY <1>4 DEF Reboot
<1>5. CASE (\E h \in Hosts : Request(h)) \/ (\E c \in {10, 20} : Refuse(c))
  BY <1>5 DEF Request, Refuse, userVars, ruleVars
<1>6. CASE AddUser \/ ReaddUser
  BY <1>1, <1>6 DEF AddUser, ReaddUser, NewAccount, ruleVars, FiltersOld
<1>7. CASE DeleteUser
  BY <1>1, <1>7 DEF DeleteUser, ruleVars, FiltersOld
<1>8. CASE UserExists \/ CleanupProfiles \/ AddToGroup \/ InitializeProfile
  BY <1>8 DEF UserExists, CleanupProfiles, AddToGroup, InitializeProfile, userVars, ruleVars
<1>9. CASE UserFails \/ ProfileFails \/ DeployFails \/ TaskFails \/ RulesFailEarly \/ InstallFails
  BY <1>9 DEF UserFails, ProfileFails, DeployFails, TaskFails, RulesFailEarly, InstallFails, userVars, ruleVars
<1>10. CASE OpenConfig \/ WriteConfig \/ SilenceConsent \/ Deploy \/ SetTask
  BY <1>10 DEF OpenConfig, WriteConfig, SilenceConsent, Deploy, SetTask, userVars, ruleVars
<1>11. CASE GetSid \/ OpenEngine
  BY <1>11 DEF GetSid, OpenEngine, userVars, ruleVars
<1>12. CASE RemoveRules
  BY <1>12 DEF RemoveRules, userVars, FiltersOld, FromGroup, Steps
<1>13. CASE InstallRules
  BY <1>13 DEF InstallRules, Go, userVars, HostGiven, Steps
<1> QED BY <1>2, <1>3, <1>4, <1>5, <1>6, <1>7, <1>8, <1>9, <1>10, <1>11, <1>12, <1>13
     DEF Next, start_exam, Account, Files, Rules

-----------------------------------------------------------------------------
(* Removing what earlier requests left behind.                             *)

\* With room for the exam's filters one enumeration finds all of them.
LEMMA AllEnumerated ==
    ASSUME TypeOK, FiltersOld, Room >= 5
    PROVE  DOMAIN filters \subseteq Enumerated(filters)
<1> DEFINE ids(l) == {k \in DOMAIN filters : filters[k].layer = l}
<1>1. DOMAIN filters \subseteq 1 .. 6 /\ \A k \in DOMAIN filters : filters[k].layer \in {"v4", "v6"}
  BY DEF TypeOK, FilterRecords
<1>2. ids("v4") \subseteq 1 .. 5 /\ ids("v6") \subseteq {6}
  BY <1>1 DEF FiltersOld
<1>3. ASSUME NEW l \in {"v4", "v6"}, NEW k \in ids(l) PROVE Cardinality({j \in ids(l) : j < k}) < Room
  <2>1. {j \in ids(l) : j < k} \subseteq 1 .. 4
    BY <1>2, <1>3
  <2>2. IsFiniteSet(1 .. 4) /\ Cardinality(1 .. 4) = 4
    <3> DEFINE low == 1
               high == 4
    <3>1. low \in Int /\ high \in Int /\ low <= high /\ high - low + 1 = 4
      OBVIOUS
    <3>2. low .. high = 1 .. 4
      OBVIOUS
    <3> HIDE DEF low, high
    <3>3. IsFiniteSet(low .. high) /\ Cardinality(low .. high) = high - low + 1
      BY <3>1, FS_Interval
    <3> QED BY <3>1, <3>2, <3>3
  <2>3. Cardinality({j \in ids(l) : j < k}) <= 4 /\ Cardinality({j \in ids(l) : j < k}) \in Nat
    BY <2>1, <2>2, FS_Subset, FS_CardinalityType
  <2> QED BY <2>3, RoomAssumption
<1>4. DOMAIN filters = ids("v4") \cup ids("v6")
  BY <1>1
<1> HIDE DEF ids
<1> DEFINE first(l) == {k \in ids(l) : Cardinality({j \in ids(l) : j < k}) < Room}
<1>5. ids("v4") \subseteq first("v4") /\ ids("v6") \subseteq first("v6")
  BY <1>3
<1>6. Enumerated(filters) = first("v4") \cup first("v6")
  BY DEF Enumerated, ids
<1> QED BY <1>4, <1>5, <1>6

\* After a removal without failures there is no sublayer.
Cleared == (pc = "install" /\ clean) => ~sublayer

LEMMA ClearedStep ==
    ASSUME TypeOK, FiltersOld, Cleared, [Next]_vars, Room >= 5
    PROVE  Cleared'
<1> USE DEF Cleared
<1>1. CASE RemoveRules
  BY <1>1, AllEnumerated DEF RemoveRules
<1>2. CASE ~RemoveRules
  BY <1>2 DEF Next, Start, Reply, Exit, Reboot, Request, Refuse, start_exam, Account, AddUser, UserExists, DeleteUser,
     CleanupProfiles, ReaddUser, AddToGroup, InitializeProfile, UserFails, ProfileFails, Files, OpenConfig, WriteConfig,
     SilenceConsent, Deploy, DeployFails, SetTask, TaskFails, Rules, GetSid, OpenEngine, RulesFailEarly, InstallRules,
     InstallFails, Go, Return, vars, procVars, ruleVars
<1> QED BY <1>1, <1>2

LEMMA CleanStep ==
    ASSUME Staged, Cleared, CleanRunSucceeds, [Next]_vars
    PROVE  CleanRunSucceeds'
BY DEF CleanRunSucceeds, Staged, Cleared, Steps, Next, Start, Reply, Exit, Reboot, Request, Refuse, start_exam, Account,
   AddUser, UserExists, DeleteUser, CleanupProfiles, ReaddUser, AddToGroup, InitializeProfile, UserFails, ProfileFails,
   Files, OpenConfig, WriteConfig, SilenceConsent, Deploy, DeployFails, SetTask, TaskFails, Rules, GetSid, OpenEngine,
   RulesFailEarly, RemoveRules, InstallRules, InstallFails, Go, Return, vars, procVars

-----------------------------------------------------------------------------
(* Theorems.                                                               *)

LEMMA InitFacts ==
    Init => Staged /\ FiltersOld /\ Cleared /\ ZeroMeansPrepared /\ RulesWhole /\ CleanRunSucceeds
<1> SUFFICES ASSUME Init
             PROVE  Staged /\ FiltersOld /\ Cleared /\ ZeroMeansPrepared /\ RulesWhole /\ CleanRunSucceeds
  OBVIOUS
<1>1. pc = "off" /\ filters = <<>> /\ DOMAIN filters = {}
  BY DEF Init
<1> QED BY <1>1 DEF Staged, FiltersOld, Cleared, ZeroMeansPrepared, RulesWhole, CleanRunSucceeds, FromSid, FromTask,
     FromConsent, FromOpen, FromLogon, FromGroup, Steps

\* Code 0 means that the machine is prepared for this request and for the account that
\* exists now, whatever earlier requests, failures and exits of start_exam left behind;
\* the configuration may be broken by a write that start_exam does not look at.
THEOREM ZeroTold == Spec => []ZeroMeansPrepared
BY InitFacts, TypeInvariant, StagedStep, PreparedStep, PTL DEF Spec

\* No step of setup_exam_user_wfp, not even a failed one, leaves the account that exists
\* with a part of the rules.
THEOREM WholeRules == Spec => []RulesWhole
BY InitFacts, TypeInvariant, FiltersOldStep, WholeStep, PTL DEF Spec

\* A request during which no call fails is answered with 0, provided one enumeration of
\* filters finds those that the exam itself has added.
THEOREM CleanSucceeds == ASSUME Room >= 5 PROVE Spec => []CleanRunSucceeds
<1>1. TypeOK /\ FiltersOld /\ Cleared /\ [Next]_vars => Cleared'
  BY ClearedStep
<1> QED BY <1>1, InitFacts, TypeInvariant, FiltersOldStep, StagedStep, CleanStep, PTL DEF Spec

-----------------------------------------------------------------------------
(* FirewallWatch, which goes on where ExamSetup ends and looks at the same *)
(* filters.  It is instantiated, so that the lemmas about the rules serve  *)
(* both.  Where the two modules give a variable the same name, it is       *)
(* FirewallWatch's in what follows: its behaviours satisfy Watch!Spec,     *)
(* and nothing here speaks of Spec.                                        *)

CONSTANTS DefaultHost, Alterations, MaxChanges, MaxDrops, MaxWire
VARIABLES BACKEND_HOST, conn, found, wfpStatus, lastStatus, wire, known, told,
          flagged, modified, changes, drops

Watch == INSTANCE FirewallWatch

-----------------------------------------------------------------------------
(* The check of the rules.                                                 *)

LEMMA UnmatchedStages ==
  ASSUME NEW fs, NEW expected, Len(expected) = 6
  PROVE  \E left :
            /\ left[0] = Enumerated(fs)
            /\ \A i \in 1 .. 6 : left[i] = Take(fs, left[i - 1], expected[i])
            /\ Unmatched(fs, expected) = left[6]
<1> DEFINE Stage(f, i) == IF i = 0 THEN Enumerated(fs)
                          ELSE UNION {Take(fs, before, expected[i]) : before \in {f[i - 1]}}
           Stages(f) == f = [i \in 0 .. 6 |-> Stage(f, i)]
           a0 == Enumerated(fs)
           a1 == Take(fs, a0, expected[1])
           a2 == Take(fs, a1, expected[2])
           a3 == Take(fs, a2, expected[3])
           a4 == Take(fs, a3, expected[4])
           a5 == Take(fs, a4, expected[5])
           a6 == Take(fs, a5, expected[6])
           g == [i \in 0 .. 6 |-> IF i = 0 THEN a0 ELSE IF i = 1 THEN a1 ELSE IF i = 2 THEN a2
                                  ELSE IF i = 3 THEN a3 ELSE IF i = 4 THEN a4 ELSE IF i = 5 THEN a5 ELSE a6]
<1>1. \A f, i : i # 0 => Stage(f, i) = Take(fs, f[i - 1], expected[i])
  OBVIOUS
<1>2. \A f : Stage(f, 0) = a0
  OBVIOUS
<1>3. Unmatched(fs, expected) = (CHOOSE f : Stages(f))[6]
  BY DEF Unmatched
<1> HIDE DEF Stage
<1>4. Stages(g)
  <2>1. /\ a1 = Take(fs, a0, expected[1]) /\ a2 = Take(fs, a1, expected[2])
        /\ a3 = Take(fs, a2, expected[3]) /\ a4 = Take(fs, a3, expected[4])
        /\ a5 = Take(fs, a4, expected[5]) /\ a6 = Take(fs, a5, expected[6])
    OBVIOUS
  <2> HIDE DEF a0, a1, a2, a3, a4, a5, a6
  <2>2. /\ g[0] = a0 /\ g[1] = a1 /\ g[2] = a2 /\ g[3] = a3 /\ g[4] = a4 /\ g[5] = a5 /\ g[6] = a6
    OBVIOUS
  <2>3. /\ Stage(g, 0) = a0 /\ Stage(g, 1) = a1 /\ Stage(g, 2) = a2 /\ Stage(g, 3) = a3
        /\ Stage(g, 4) = a4 /\ Stage(g, 5) = a5 /\ Stage(g, 6) = a6
    BY <1>1, <1>2, <2>1, <2>2
  <2> QED
    BY <2>2, <2>3
<1> HIDE DEF g
<1>5. Stages(CHOOSE f : Stages(f))
  <2> HIDE DEF Stages
  <2> QED
    BY <1>4, Zenon
<1>6. PICK left : Stages(left) /\ Unmatched(fs, expected) = left[6]
  <2> HIDE DEF Stages
  <2> QED
    BY <1>3, <1>5, Zenon
<1>7. \A i \in 0 .. 6 : left[i] = Stage(left, i)
  BY <1>6
<1>8. \A i \in 1 .. 6 : left[i] = Take(fs, left[i - 1], expected[i])
  BY <1>1, <1>7
<1>9. left[0] = Enumerated(fs)
  BY <1>2, <1>7
<1> QED
  BY <1>6, <1>8, <1>9

\* For a backend given by its address, a filter is valid for an expected one just if it is
\* of the kind that was added in its place.
LEMMA ValidIsKind ==
  ASSUME NEW h \in Addresses, NEW f \in Watch!FilterRecords, NEW i \in 1 .. 6
  PROVE  validate_filter(f, get_expected_filters(h)[i])
            <=> Watch!Kind(f) = Watch!Kind(AddedFilters(1, h)[i])
<1> DEFINE x == get_expected_filters(h)[i]
           y == AddedFilters(1, h)[i]
<1>1. f.layer \in {"v4", "v6"}
  BY DEF Watch!FilterRecords
<1>2. ClientAddress(h) = h /\ AppAddress(h) = h
  BY DEF ClientAddress, AppAddress
<1>3. /\ x.action = y.action
      /\ i # 6 => ~x.isIPv6Block /\ y.layer = "v4" /\ y.sid # 0 /\ x.ip = y.ip /\ x.dns = y.dns
      /\ i = 6 => x.isIPv6Block /\ y.layer = "v6" /\ Watch!numFilterConditions(y) = 1
  <2> DEFINE e1 == Expected("permit", h, FALSE, FALSE)
             e2 == Expected("permit", "localhost", FALSE, FALSE)
             e3 == Expected("permit", "dns1", TRUE, FALSE)
             e4 == Expected("permit", "dns2", TRUE, FALSE)
             e5 == Expected("block", "none", FALSE, FALSE)
             e6 == Expected("block", "none", FALSE, TRUE)
             f1 == Filter("permit", "v4", 1, h, FALSE)
             f2 == Filter("permit", "v4", 1, "localhost", FALSE)
             f3 == Filter("permit", "v4", 1, "dns1", TRUE)
             f4 == Filter("permit", "v4", 1, "dns2", TRUE)
             f5 == Filter("block", "v4", 1, "none", FALSE)
             f6 == Filter("block", "v6", 1, "none", FALSE)
  <2>1. x = <<e1, e2, e3, e4, e5, e6>>[i] /\ y = <<f1, f2, f3, f4, f5, f6>>[i]
    BY <1>2 DEF get_expected_filters, AddedFilters
  <2> DEFINE Fits(e, a) ==
               /\ e.action = a.action
               /\ ~e.isIPv6Block /\ a.layer = "v4" /\ a.sid # 0 /\ e.ip = a.ip /\ e.dns = a.dns
  <2>2. Fits(e1, f1) /\ Fits(e2, f2) /\ Fits(e3, f3) /\ Fits(e4, f4) /\ Fits(e5, f5)
    BY DEF Expected, Filter
  <2>3. e6.action = f6.action /\ e6.isIPv6Block /\ f6.layer = "v6" /\ Watch!numFilterConditions(f6) = 1
    BY DEF Expected, Filter, Watch!numFilterConditions
  <2> HIDE DEF e1, e2, e3, e4, e5, e6, f1, f2, f3, f4, f5, f6
  <2>4. /\ i = 1 => x = e1 /\ y = f1
        /\ i = 2 => x = e2 /\ y = f2
        /\ i = 3 => x = e3 /\ y = f3
        /\ i = 4 => x = e4 /\ y = f4
        /\ i = 5 => x = e5 /\ y = f5
        /\ i = 6 => x = e6 /\ y = f6
    BY <2>1
  <2> HIDE DEF x, y
  <2>5. i # 6 => Fits(x, y)
    <3> HIDE DEF Fits
    <3> QED
      BY <2>2, <2>4
  <2> QED
    BY <2>3, <2>4, <2>5
<1>4. Watch!numFilterConditions(f) = numFilterConditions(f)
  BY DEF Watch!numFilterConditions, numFilterConditions
<1> HIDE DEF x, y
<1>5. ASSUME i = 6 PROVE validate_filter(f, x) <=> Watch!Kind(f) = Watch!Kind(y)
  <2>1. Watch!Kind(y) = [action |-> y.action, layer |-> "v6", fit |-> TRUE, ip |-> "none", dns |-> FALSE]
    BY <1>3, <1>5 DEF Watch!Kind
  <2>2. Watch!Kind(f) = Watch!Kind(y)
          <=> f.action = y.action /\ f.layer = "v6" /\ numFilterConditions(f) = 1
    <3> DEFINE fit == numFilterConditions(f) = 1
    <3>1. f.layer = "v6" => Watch!Kind(f) = [action |-> f.action, layer |-> "v6", fit |-> fit, ip |-> "none", dns |-> FALSE]
      BY <1>4 DEF Watch!Kind
    <3>2. f.layer # "v6" => Watch!Kind(f).layer = "v4"
      BY DEF Watch!Kind
    <3>3. fit \in BOOLEAN
      OBVIOUS
    <3> HIDE DEF fit
    <3>4. f.layer = "v6" => (Watch!Kind(f) = Watch!Kind(y) <=> f.action = y.action /\ fit)
      BY <2>1, <3>1, <3>3
    <3>5. Watch!Kind(y).layer = "v6"
      BY <2>1
    <3>6. f.layer # "v6" => Watch!Kind(f) # Watch!Kind(y)
      BY <3>2, <3>5
    <3> QED
      BY <3>4, <3>6 DEF fit
  <2>3. validate_filter(f, x)
          <=> f.action = x.action /\ f.layer = "v6" /\ numFilterConditions(f) = 1
    BY <1>3, <1>5 DEF validate_filter
  <2>4. x.action = y.action
    BY <1>3
  <2> QED
    BY <2>2, <2>3, <2>4, Zenon
<1>6. ASSUME i # 6 PROVE validate_filter(f, x) <=> Watch!Kind(f) = Watch!Kind(y)
  <2>1. Watch!Kind(y) = [action |-> y.action, layer |-> "v4", fit |-> TRUE, ip |-> y.ip, dns |-> y.dns]
    BY <1>3, <1>6 DEF Watch!Kind
  <2>2. Watch!Kind(f) = Watch!Kind(y)
          <=> f.action = y.action /\ f.layer = "v4" /\ f.sid # 0 /\ f.ip = y.ip /\ f.dns = y.dns
    <3> DEFINE fit == f.sid # 0
    <3>1. f.layer = "v4" => Watch!Kind(f) = [action |-> f.action, layer |-> "v4", fit |-> fit, ip |-> f.ip, dns |-> f.dns]
      BY DEF Watch!Kind
    <3>2. f.layer # "v4" => Watch!Kind(f).layer = "v6"
      BY <1>1 DEF Watch!Kind
    <3>3. fit \in BOOLEAN
      OBVIOUS
    <3> HIDE DEF fit
    <3>4. f.layer = "v4" => (Watch!Kind(f) = Watch!Kind(y)
             <=> f.action = y.action /\ fit /\ f.ip = y.ip /\ f.dns = y.dns)
      BY <2>1, <3>1, <3>3
    <3>5. Watch!Kind(y).layer = "v4"
      BY <2>1
    <3>6. f.layer # "v4" => Watch!Kind(f) # Watch!Kind(y)
      BY <3>2, <3>5
    <3> QED
      BY <3>4, <3>6 DEF fit
  <2>3. validate_filter(f, x)
          <=> f.action = x.action /\ f.layer = "v4" /\ f.sid # 0 /\ f.ip = x.ip /\ f.dns = x.dns
    BY <1>3, <1>6 DEF validate_filter
  <2>4. x.action = y.action /\ x.ip = y.ip /\ x.dns = y.dns
    BY <1>3, <1>6
  <2> QED
    BY <2>2, <2>3, <2>4, Zenon
<1>7. validate_filter(f, x) <=> Watch!Kind(f) = Watch!Kind(y)
  BY <1>5, <1>6, Zenon
<1> QED
  BY <1>7 DEF x, y

LEMMA LeastFilter ==
  ASSUME NEW S \in SUBSET (1 .. 6), S # {}
  PROVE  Min(S) \in S
<1>1. \E x \in S : \A y \in S : x <= y
  <2>1. CASE 1 \in S
    BY <2>1
  <2>2. CASE 1 \notin S /\ 2 \in S
    BY <2>2
  <2>3. CASE 1 \notin S /\ 2 \notin S /\ 3 \in S
    BY <2>3
  <2>4. CASE 1 \notin S /\ 2 \notin S /\ 3 \notin S /\ 4 \in S
    BY <2>4
  <2>5. CASE 1 \notin S /\ 2 \notin S /\ 3 \notin S /\ 4 \notin S /\ 5 \in S
    BY <2>5
  <2>6. CASE 1 \notin S /\ 2 \notin S /\ 3 \notin S /\ 4 \notin S /\ 5 \notin S
    <3>1. \A y \in S : y = 6
      BY <2>6
    <3>2. 6 \in S
      BY <3>1
    <3> QED
      BY <3>1, <3>2
  <2> QED
    BY <2>1, <2>2, <2>3, <2>4, <2>5, <2>6
<1> QED
  BY <1>1 DEF Min

\* An expected filter takes one that is valid for it, or none is.
LEMMA TakesOne ==
  ASSUME NEW S \in SUBSET (1 .. 6), NEW fs, NEW e
  PROVE  /\ Take(fs, S, e) \subseteq S
         /\ \/ Take(fs, S, e) = S /\ \A k \in S : ~validate_filter(fs[k], e)
            \/ \E k \in S : validate_filter(fs[k], e) /\ Take(fs, S, e) = S \ {k}
<1> DEFINE valid == {k \in S : validate_filter(fs[k], e)}
<1>1. Take(fs, S, e) = S \ (IF valid = {} THEN {} ELSE {Min(valid)})
  BY DEF Take
<1>2. valid # {} => Min(valid) \in valid
  BY LeastFilter
<1> QED
  BY <1>1, <1>2

\* How many filters of S are of kind r, and how many are expected from the i-th on.
Alike(fs, S, r) == Cardinality({k \in S : Watch!Kind(fs[k]) = r})
Due(h, i, r) == Cardinality({j \in i + 1 .. 6 : Watch!Kind(AddedFilters(1, h)[j]) = r})

LEMMA SubsetsFinite ==
  ASSUME NEW S \in SUBSET (1 .. 6)
  PROVE  IsFiniteSet(S) /\ Cardinality(S) \in Nat
<1>1. IsFiniteSet(1 .. 6)
  <2>1. 1 \in Int /\ 6 \in Int
    OBVIOUS
  <2> QED
    BY <2>1, FS_Interval, Zenon
<1> QED
  BY <1>1, FS_Subset, FS_CardinalityType

LEMMA StageCounts ==
  ASSUME NEW h \in Addresses, NEW S \in SUBSET (1 .. 6), NEW fs,
         \A k \in S : fs[k] \in Watch!FilterRecords,
         NEW i \in 1 .. 6, NEW T, T = Take(fs, S, get_expected_filters(h)[i])
  PROVE  LET a == Watch!Kind(AddedFilters(1, h)[i])
         IN  /\ T \subseteq S
             /\ \/ T = S /\ Alike(fs, S, a) = 0
                \/ /\ Cardinality(S) = Cardinality(T) + 1
                   /\ \A r : Alike(fs, S, r) = Alike(fs, T, r) + (IF r = a THEN 1 ELSE 0)
<1> DEFINE a == Watch!Kind(AddedFilters(1, h)[i])
           e == get_expected_filters(h)[i]
           K(k) == Watch!Kind(fs[k])
<1>1. \A k \in S : validate_filter(fs[k], e) <=> K(k) = a
  BY ValidIsKind
<1>0. T = Take(fs, S, e)
  OBVIOUS
<1> HIDE DEF a, e, K
<1>2. /\ T \subseteq S
      /\ \/ T = S /\ \A k \in S : K(k) # a
         \/ \E k \in S : K(k) = a /\ T = S \ {k}
  BY <1>0, <1>1, TakesOne
<1>3. \A R, r : Alike(fs, R, r) = Cardinality({k \in R : K(k) = r})
  BY DEF Alike, K
<1>4. CASE T = S /\ \A k \in S : K(k) # a
  <2>1. {k \in S : K(k) = a} = {}
    BY <1>4
  <2>2. Alike(fs, S, a) = 0
    BY <1>3, <2>1, FS_EmptySet
  <2> QED
    BY <1>4, <2>2 DEF a
<1>5. ASSUME NEW m \in S, K(m) = a, T = S \ {m}
      PROVE  /\ Cardinality(S) = Cardinality(T) + 1
             /\ \A r : Alike(fs, S, r) = Alike(fs, T, r) + (IF r = a THEN 1 ELSE 0)
  <2>1. IsFiniteSet(S) /\ Cardinality(S) \in Nat
    BY SubsetsFinite
  <2>2. Cardinality(T) = Cardinality(S) - 1
    BY <1>5, <2>1, FS_RemoveElement
  <2>3. ASSUME NEW r
        PROVE  Alike(fs, S, r) = Alike(fs, T, r) + (IF r = a THEN 1 ELSE 0)
    <3> DEFINE P == {k \in S : K(k) = r}
               Q == {k \in T : K(k) = r}
    <3>1. P \in SUBSET (1 .. 6)
      OBVIOUS
    <3>2. IsFiniteSet(P) /\ Cardinality(P) \in Nat
      BY <3>1, SubsetsFinite
    <3>3. Q = P \ {m}
      BY <1>5
    <3>4. m \in P <=> r = a
      BY <1>5
    <3>5. Alike(fs, S, r) = Cardinality(P) /\ Alike(fs, T, r) = Cardinality(Q)
      BY <1>3
    <3> HIDE DEF P, Q
    <3>6. Cardinality(Q) = IF m \in P THEN Cardinality(P) - 1 ELSE Cardinality(P)
      BY <3>2, <3>3, FS_RemoveElement
    <3> QED
      BY <3>2, <3>4, <3>5, <3>6
  <2> QED
    BY <2>1, <2>2, <2>3
<1> QED
  BY <1>2, <1>4, <1>5 DEF a

LEMMA DueStep ==
  ASSUME NEW h, NEW i \in 1 .. 6, NEW r
  PROVE  /\ Due(h, i, r) \in Nat
         /\ Due(h, i - 1, r) = Due(h, i, r)
               + (IF r = Watch!Kind(AddedFilters(1, h)[i]) THEN 1 ELSE 0)
<1> DEFINE A(j) == Watch!Kind(AddedFilters(1, h)[j])
           P == {j \in i + 1 .. 6 : A(j) = r}
           Q == {j \in (i - 1) + 1 .. 6 : A(j) = r}
<1>1. Due(h, i, r) = Cardinality(P) /\ Due(h, i - 1, r) = Cardinality(Q)
  BY DEF Due
<1> HIDE DEF A
<1>2. P \in SUBSET (1 .. 6) /\ i \notin P
  OBVIOUS
<1>3. IsFiniteSet(P) /\ Cardinality(P) \in Nat
  BY <1>2, SubsetsFinite
<1>4. Q = IF A(i) = r THEN P \cup {i} ELSE P
  <2>1. \A j : j \in (i - 1) + 1 .. 6 <=> j = i \/ j \in i + 1 .. 6
    OBVIOUS
  <2>2. CASE A(i) = r
    <3>1. \A j : j \in Q <=> j \in P \cup {i}
      BY <2>1, <2>2
    <3> QED
      BY <2>2, <3>1
  <2>3. CASE A(i) # r
    <3>1. \A j : j \in Q <=> j \in P
      BY <2>1, <2>3
    <3> QED
      BY <2>3, <3>1
  <2> QED
    BY <2>2, <2>3
<1> HIDE DEF P, Q
<1>5. Cardinality(P \cup {i}) = Cardinality(P) + 1
  BY <1>2, <1>3, FS_AddElement
<1>6. Due(h, i - 1, r) = Due(h, i, r) + (IF r = A(i) THEN 1 ELSE 0)
  BY <1>1, <1>3, <1>4, <1>5
<1> QED
  BY <1>1, <1>3, <1>6 DEF A

LEMMA RoomForAll ==
  ASSUME NEW fs, DOMAIN fs \in SUBSET (1 .. 6), \A k \in DOMAIN fs : fs[k].layer \in {"v4", "v6"}, Room >= 6
  PROVE  Enumerated(fs) = DOMAIN fs
<1> DEFINE ids(l) == {k \in DOMAIN fs : fs[k].layer = l}
           Before(l, k) == {j \in ids(l) : j < k}
<1>1. \A l : \A k \in 1 .. 6 : Before(l, k) \in SUBSET (1 .. 5)
  OBVIOUS
<1>2. IsFiniteSet(1 .. 5) /\ Cardinality(1 .. 5) = 5
  <2>1. 1 \in Int /\ 5 \in Int /\ (IF 1 > 5 THEN 0 ELSE 5 - 1 + 1) = 5
    OBVIOUS
  <2>2. IsFiniteSet(1 .. 5) /\ Cardinality(1 .. 5) = IF 1 > 5 THEN 0 ELSE 5 - 1 + 1
    BY <2>1, FS_Interval, Zenon
  <2> QED
    BY <2>1, <2>2
<1>3. ASSUME NEW l, NEW k \in ids(l)
      PROVE  Cardinality(Before(l, k)) < Room
  <2>1. Before(l, k) \in SUBSET (1 .. 5)
    BY <1>1
  <2> HIDE DEF Before
  <2>2. Cardinality(Before(l, k)) <= 5 /\ Cardinality(Before(l, k)) \in Nat
    BY <1>2, <2>1, FS_Subset, FS_CardinalityType
  <2> QED
    BY <2>2, RoomAssumption
<1>4. DOMAIN fs = ids("v4") \cup ids("v6")
  OBVIOUS
<1> DEFINE first(l) == {k \in ids(l) : Cardinality(Before(l, k)) < Room}
<1>5. Enumerated(fs) = first("v4") \cup first("v6")
  BY DEF Enumerated
<1> HIDE DEF Before, ids
<1>6. first("v4") = ids("v4") /\ first("v6") = ids("v6")
  BY <1>3
<1> QED
  BY <1>4, <1>5, <1>6

\* The check of the rules, stage by stage: it ends with nothing left of six filters just
\* if there are as many of each kind as were added.
LEMMA CheckCounts ==
  ASSUME NEW h \in Addresses, NEW fs, DOMAIN fs \in SUBSET (1 .. 6),
         \A k \in DOMAIN fs : fs[k] \in Watch!FilterRecords, Enumerated(fs) = DOMAIN fs
  PROVE  (Cardinality(Enumerated(fs)) = 6 /\ Unmatched(fs, get_expected_filters(h)) = {})
            <=> \A r : Alike(fs, DOMAIN fs, r) = Due(h, 0, r)
<1> DEFINE e == get_expected_filters(h)
           a(i) == Watch!Kind(AddedFilters(1, h)[i])
<1>1. PICK left : /\ left[0] = DOMAIN fs
                  /\ \A i \in 1 .. 6 : left[i] = Take(fs, left[i - 1], e[i])
                  /\ Unmatched(fs, e) = left[6]
  <2>1. Len(e) = 6
    BY DEF get_expected_filters
  <2> HIDE DEF e
  <2> QED
    BY <2>1, UnmatchedStages
<1> HIDE DEF e
<1> DEFINE Typed(S) == S \in SUBSET (1 .. 6) /\ \A k \in S : fs[k] \in Watch!FilterRecords
           Taken(i) == Cardinality(left[i - 1]) = Cardinality(left[i]) + 1
           Counted(i) == \A r : Alike(fs, left[i - 1], r) = Alike(fs, left[i], r) + (IF r = a(i) THEN 1 ELSE 0)
           Matches(i) == \A r : Alike(fs, left[i], r) = Due(h, i, r)
<1>2. ASSUME NEW i \in 1 .. 6, Typed(left[i - 1])
      PROVE  /\ Typed(left[i])
             /\ \/ left[i] = left[i - 1] /\ Alike(fs, left[i - 1], a(i)) = 0
                \/ Taken(i) /\ Counted(i)
  <2>1. left[i] = Take(fs, left[i - 1], get_expected_filters(h)[i])
    BY <1>1 DEF e
  <2>2. /\ left[i] \subseteq left[i - 1]
        /\ \/ left[i] = left[i - 1] /\ Alike(fs, left[i - 1], a(i)) = 0
           \/ Taken(i) /\ Counted(i)
    BY <1>2, <2>1, StageCounts
  <2> QED
    BY <1>2, <2>2
<1>3. Typed(left[0])
  BY <1>1
<1> HIDE DEF Typed, Taken, Counted, Matches, a
<1>4. \A i \in 0 .. 6 : Typed(left[i])
  <2>1. /\ 1 - 1 = 0 /\ 2 - 1 = 1 /\ 3 - 1 = 2 /\ 4 - 1 = 3 /\ 5 - 1 = 4 /\ 6 - 1 = 5
    OBVIOUS
  <2>2. \A i \in 1 .. 6 : Typed(left[i - 1]) => Typed(left[i])
    BY <1>2
  <2>3. Typed(left[1]) BY <1>3, <2>1, <2>2
  <2>4. Typed(left[2]) BY <2>1, <2>2, <2>3
  <2>5. Typed(left[3]) BY <2>1, <2>2, <2>4
  <2>6. Typed(left[4]) BY <2>1, <2>2, <2>5
  <2>7. Typed(left[5]) BY <2>1, <2>2, <2>6
  <2>8. Typed(left[6]) BY <2>1, <2>2, <2>7
  <2> QED BY <1>3, <2>3, <2>4, <2>5, <2>6, <2>7, <2>8
<1>5. \A i \in 0 .. 6 : IsFiniteSet(left[i]) /\ Cardinality(left[i]) \in Nat
  BY <1>4, SubsetsFinite DEF Typed
<1>6. ASSUME NEW i \in 0 .. 6, NEW r
      PROVE  Alike(fs, left[i], r) \in Nat
  <2>1. {k \in left[i] : Watch!Kind(fs[k]) = r} \in SUBSET (1 .. 6)
    BY <1>4 DEF Typed
  <2> QED
    BY <2>1, SubsetsFinite DEF Alike
<1>7. ASSUME NEW i \in 1 .. 6
      PROVE  /\ i - 1 \in 0 .. 6
             /\ \/ left[i] = left[i - 1] /\ Alike(fs, left[i - 1], a(i)) = 0
                \/ Taken(i) /\ Counted(i)
             /\ \A r : Due(h, i, r) \in Nat
             /\ \A r : Due(h, i - 1, r) = Due(h, i, r) + (IF r = a(i) THEN 1 ELSE 0)
  <2>1. i - 1 \in 0 .. 6
    OBVIOUS
  <2> QED
    BY <1>2, <1>4, <2>1, DueStep DEF a
<1>8. ASSUME NEW i \in 1 .. 6, Matches(i - 1)
      PROVE  Taken(i) /\ Matches(i)
  <2>1. Due(h, i - 1, a(i)) = Due(h, i, a(i)) + 1 /\ Due(h, i, a(i)) \in Nat
    BY <1>7
  <2>2. Alike(fs, left[i - 1], a(i)) # 0
    BY <1>8, <2>1 DEF Matches
  <2>3. Taken(i) /\ Counted(i)
    BY <1>7, <2>2
  <2>4. ASSUME NEW r
        PROVE  Alike(fs, left[i], r) = Due(h, i, r)
    <3>1. /\ Alike(fs, left[i - 1], r) = Due(h, i - 1, r)
          /\ Alike(fs, left[i - 1], r) = Alike(fs, left[i], r) + (IF r = a(i) THEN 1 ELSE 0)
          /\ Due(h, i - 1, r) = Due(h, i, r) + (IF r = a(i) THEN 1 ELSE 0)
          /\ Alike(fs, left[i], r) \in Nat /\ Due(h, i, r) \in Nat
      BY <1>6, <1>7, <1>8, <2>3 DEF Matches, Counted
    <3> QED
      BY <3>1
  <2> QED
    BY <2>3, <2>4 DEF Matches
<1>9. ASSUME NEW i \in 1 .. 6, Matches(i), Taken(i)
      PROVE  Matches(i - 1)
  <2>1. left[i] # left[i - 1]
    BY <1>5, <1>7, <1>9 DEF Taken
  <2>2. Counted(i)
    BY <1>7, <2>1
  <2> QED
    BY <1>7, <1>9, <2>2 DEF Matches, Counted
<1>10. \A i \in 1 .. 6 : Cardinality(left[i - 1]) <= Cardinality(left[i]) + 1
  <2>1. ASSUME NEW i \in 1 .. 6
        PROVE  Cardinality(left[i - 1]) <= Cardinality(left[i]) + 1
    BY <1>5, <1>7 DEF Taken
  <2> QED
    BY <2>1
<1>11. Cardinality(left[6]) = 0 <=> left[6] = {}
  BY <1>5, FS_EmptySet
<1>12. Matches(6) <=> left[6] = {}
  <2>1. \A r : Due(h, 6, r) = 0
    <3>1. \A r : {j \in 6 + 1 .. 6 : Watch!Kind(AddedFilters(1, h)[j]) = r} = {}
      OBVIOUS
    <3> QED
      BY <3>1, FS_EmptySet DEF Due
  <2>2. ASSUME left[6] = {}
        PROVE  \A r : Alike(fs, left[6], r) = 0
    <3>1. \A r : {k \in left[6] : Watch!Kind(fs[k]) = r} = {}
      BY <2>2
    <3> QED
      BY <3>1, FS_EmptySet DEF Alike
  <2>3. ASSUME NEW k \in left[6]
        PROVE  Alike(fs, left[6], Watch!Kind(fs[k])) # 0
    <3> DEFINE P == {j \in left[6] : Watch!Kind(fs[j]) = Watch!Kind(fs[k])}
    <3>1. P \in SUBSET (1 .. 6) /\ k \in P
      BY <1>4 DEF Typed
    <3>2. Alike(fs, left[6], Watch!Kind(fs[k])) = Cardinality(P)
      BY DEF Alike
    <3> HIDE DEF P
    <3> QED
      BY <3>1, <3>2, SubsetsFinite, FS_EmptySet
  <2> QED
    BY <2>1, <2>2, <2>3 DEF Matches
<1>13. /\ 1 - 1 = 0 /\ 2 - 1 = 1 /\ 3 - 1 = 2 /\ 4 - 1 = 3 /\ 5 - 1 = 4 /\ 6 - 1 = 5
       /\ 1 \in 1 .. 6 /\ 2 \in 1 .. 6 /\ 3 \in 1 .. 6 /\ 4 \in 1 .. 6 /\ 5 \in 1 .. 6 /\ 6 \in 1 .. 6
  OBVIOUS
<1>14. ASSUME Matches(0)
       PROVE  Cardinality(left[0]) = 6 /\ left[6] = {}
  <2>1. Taken(1) /\ Matches(1) BY <1>8, <1>13, <1>14
  <2>2. Taken(2) /\ Matches(2) BY <1>8, <1>13, <2>1
  <2>3. Taken(3) /\ Matches(3) BY <1>8, <1>13, <2>2
  <2>4. Taken(4) /\ Matches(4) BY <1>8, <1>13, <2>3
  <2>5. Taken(5) /\ Matches(5) BY <1>8, <1>13, <2>4
  <2>6. Taken(6) /\ Matches(6) BY <1>8, <1>13, <2>5
  <2>7. left[6] = {}
    BY <1>12, <2>6
  <2> QED
    BY <1>11, <1>13, <2>1, <2>2, <2>3, <2>4, <2>5, <2>6, <2>7 DEF Taken
<1>15. ASSUME Cardinality(left[0]) = 6, left[6] = {}
       PROVE  Matches(0)
  <2>1. Taken(1) /\ Taken(2) /\ Taken(3) /\ Taken(4) /\ Taken(5) /\ Taken(6)
    <3> DEFINE n(i) == Cardinality(left[i])
    <3>1. n(0) = 6 /\ n(6) = 0
      BY <1>11, <1>15
    <3>2. n(1) \in Nat /\ n(2) \in Nat /\ n(3) \in Nat /\ n(4) \in Nat /\ n(5) \in Nat
      BY <1>5
    <3>3. /\ n(0) <= n(1) + 1 /\ n(1) <= n(2) + 1 /\ n(2) <= n(3) + 1
          /\ n(3) <= n(4) + 1 /\ n(4) <= n(5) + 1 /\ n(5) <= n(6) + 1
      BY <1>10, <1>13
    <3>4. \A i : Taken(i) <=> n(i - 1) = n(i) + 1
      BY DEF Taken
    <3> HIDE DEF n
    <3>5. /\ n(0) = n(1) + 1 /\ n(1) = n(2) + 1 /\ n(2) = n(3) + 1
          /\ n(3) = n(4) + 1 /\ n(4) = n(5) + 1 /\ n(5) = n(6) + 1
      BY <3>1, <3>2, <3>3
    <3> QED
      BY <1>13, <3>4, <3>5
  <2>2. Matches(6) BY <1>12, <1>15
  <2>3. Matches(5) BY <1>9, <1>13, <2>1, <2>2
  <2>4. Matches(4) BY <1>9, <1>13, <2>1, <2>3
  <2>5. Matches(3) BY <1>9, <1>13, <2>1, <2>4
  <2>6. Matches(2) BY <1>9, <1>13, <2>1, <2>5
  <2>7. Matches(1) BY <1>9, <1>13, <2>1, <2>6
  <2> QED BY <1>9, <1>13, <2>1, <2>7
<1>16. Matches(0) <=> \A r : Alike(fs, DOMAIN fs, r) = Due(h, 0, r)
  BY <1>1 DEF Matches
<1>17. Enumerated(fs) = left[0]
  BY <1>1
<1> QED
  BY <1>1, <1>14, <1>15, <1>16, <1>17 DEF e

-----------------------------------------------------------------------------
(* FirewallWatch, whose operators on filters are those of ExamRules.       *)

LEMMA SameCardinality == \A S : Watch!Cardinality(S) = Cardinality(S)
  BY DEF Watch!Cardinality, Cardinality

LEMMA SameRules ==
  ASSUME NEW s, NEW fs, NEW h
  PROVE  /\ Watch!AddedFilters(1, h) = AddedFilters(1, h)
         /\ Watch!RulesStatus(s, fs, h) = RulesStatus(s, fs, h)
<1>1. Watch!AddedFilters(1, h) = AddedFilters(1, h)
  BY DEF Watch!AddedFilters, AddedFilters, Watch!Filter, Filter, Watch!ClientAddress, ClientAddress
<1>2. Watch!get_expected_filters(h) = get_expected_filters(h)
  BY DEF Watch!get_expected_filters, get_expected_filters, Watch!Expected, Expected, Watch!AppAddress, AppAddress
<1>3. Watch!Enumerated(fs) = Enumerated(fs)
  BY SameCardinality DEF Watch!Enumerated, Enumerated
<1>4. \A f, e : Watch!validate_filter(f, e) <=> validate_filter(f, e)
  BY DEF Watch!validate_filter, validate_filter, Watch!numFilterConditions, numFilterConditions
<1>5. \A S : Watch!Min(S) = Min(S)
  BY DEF Watch!Min, Min
<1>6. \A left, e : Watch!Take(fs, left, e) = Take(fs, left, e)
  BY <1>4, <1>5 DEF Watch!Take, Take
<1>7. \A e : Watch!Unmatched(fs, e) = Unmatched(fs, e)
  <2> DEFINE v(f, e, i) == IF i = 0 THEN Watch!Enumerated(fs)
                           ELSE UNION {Watch!Take(fs, before, e[i]) : before \in {f[i - 1]}}
             u(f, e, i) == IF i = 0 THEN Enumerated(fs)
                           ELSE UNION {Take(fs, before, e[i]) : before \in {f[i - 1]}}
             V(f, e) == f = [i \in 0 .. Len(e) |-> v(f, e, i)]
             U(f, e) == f = [i \in 0 .. Len(e) |-> u(f, e, i)]
  <2>1. \A e : /\ Watch!Unmatched(fs, e) = (CHOOSE f : V(f, e))[Len(e)]
               /\ Unmatched(fs, e) = (CHOOSE f : U(f, e))[Len(e)]
    BY DEF Watch!Unmatched, Unmatched
  <2>2. \A f, e, i : v(f, e, i) = u(f, e, i)
    <3> SUFFICES ASSUME NEW f, NEW e, NEW i
                 PROVE  v(f, e, i) = u(f, e, i)
      OBVIOUS
    <3>1. UNION {Watch!Take(fs, before, e[i]) : before \in {f[i - 1]}}
             = UNION {Take(fs, before, e[i]) : before \in {f[i - 1]}}
      BY <1>6
    <3>2. CASE i = 0
      BY <1>3, <3>2
    <3>3. CASE i # 0
      BY <3>1, <3>3
    <3> QED
      BY <3>2, <3>3
  <2> HIDE DEF v, u
  <2>4. \A f, e : V(f, e) <=> U(f, e)
    BY <2>2
  <2> HIDE DEF V, U
  <2>3. \A e : (CHOOSE f : V(f, e)) = (CHOOSE f : U(f, e))
    BY <2>4
  <2> QED
    BY <2>1, <2>3
<1>8. Watch!RulesStatus(s, fs, h) = RulesStatus(s, fs, h)
  BY <1>2, <1>3, <1>7, SameCardinality DEF Watch!RulesStatus, RulesStatus
<1> QED
  BY <1>1, <1>8

LEMMA AddedRecords ==
  ASSUME NEW h \in Hosts
  PROVE  /\ DOMAIN AddedFilters(1, h) = 1 .. 6
         /\ \A k \in 1 .. 6 : AddedFilters(1, h)[k] \in Watch!FilterRecords
<1> DEFINE g == AddedFilters(1, h)
<1>1. \A sid \in Nat : /\ AddedFilters(sid, h) \in [1 .. 6 -> FilterRecords]
                       /\ \A k \in 1 .. 6 : AddedFilters(sid, h)[k].sid = sid
  BY AddedType
<1>2. g \in [1 .. 6 -> FilterRecords] /\ \A k \in 1 .. 6 : g[k].sid = 1
  BY <1>1
<1>3. \A f \in FilterRecords : f.sid = 1 => f \in Watch!FilterRecords
  BY DEF FilterRecords, Watch!FilterRecords, FixedAddresses, Watch!FixedAddresses
<1> HIDE DEF g
<1>4. DOMAIN g = 1 .. 6 /\ \A k \in 1 .. 6 : g[k] \in Watch!FilterRecords
  BY <1>2, <1>3
<1> QED
  BY <1>4 DEF g

LEMMA KindsAsCounts ==
  ASSUME NEW h \in Hosts, NEW fs, DOMAIN fs \in SUBSET (1 .. 6)
  PROVE  Watch!SameKinds(fs, AddedFilters(1, h)) <=> \A r : Alike(fs, DOMAIN fs, r) = Due(h, 0, r)
<1> DEFINE g == AddedFilters(1, h)
           F(r) == {k \in DOMAIN fs : Watch!Kind(fs[k]) = r}
           G(r) == {k \in DOMAIN g : Watch!Kind(g[k]) = r}
           R == {Watch!Kind(fs[k]) : k \in DOMAIN fs} \cup {Watch!Kind(g[k]) : k \in DOMAIN g}
<1>1. \A r : Alike(fs, DOMAIN fs, r) = Cardinality(F(r))
  BY DEF Alike
<1>2. \A r : Due(h, 0, r) = Cardinality(G(r))
  <2>1. DOMAIN g = 0 + 1 .. 6
    BY AddedRecords
  <2> QED
    BY <2>1 DEF Due
<1>3. Watch!SameKinds(fs, g) <=> \A r \in R : Cardinality(F(r)) = Cardinality(G(r))
  BY SameCardinality DEF Watch!SameKinds
<1>4. \A r : r \notin R => F(r) = {} /\ G(r) = {}
  OBVIOUS
<1> HIDE DEF g, F, G, R
<1>5. Watch!SameKinds(fs, g) <=> \A r : Cardinality(F(r)) = Cardinality(G(r))
  BY <1>3, <1>4
<1> QED
  BY <1>1, <1>2, <1>5 DEF g

\* Alterations are filters of the two layers, the default host is an address, and the
\* bounds are numbers: the assumptions of FirewallWatch.
WatchAssumptions == Watch!AlterationsAssumption /\ Watch!DefaultAssumption /\ Watch!WatchBounds

FilterMap(fs) == DOMAIN fs \subseteq 1 .. 6 /\ \A k \in DOMAIN fs : fs[k] \in Watch!FilterRecords

\* The conjuncts of the type invariant, thread by thread.
RulesOK == /\ host \in Hosts /\ sublayer \in BOOLEAN /\ modified \in BOOLEAN /\ FilterMap(filters)
           /\ changes \in 0 .. MaxChanges
AppOK == /\ BACKEND_HOST \in {DefaultHost, host} /\ conn \in {"off", "down", "open", "in"}
         /\ drops \in 0 .. MaxDrops
ThreadOK == /\ pc \in {"check", "v4", "v6", "compare", "send"} /\ FilterMap(found)
            /\ wfpStatus \in {0, -1, -2} /\ lastStatus \in {999, 0, -1, -2}
WireOK == wire \in Seq(Watch!Frame) /\ Len(wire) <= MaxWire
BackOK == known \in BOOLEAN /\ told \in {999, 0, -1, -2} /\ flagged \subseteq {-1, -2}

LEMMA WatchParts == Watch!TypeOK <=> RulesOK /\ AppOK /\ ThreadOK /\ WireOK /\ BackOK
  BY DEF Watch!TypeOK, FilterMap, Watch!Hosts, Hosts, RulesOK, AppOK, ThreadOK, WireOK, BackOK

LEMMA EmptyFilters == FilterMap(<<>>)
  BY DEF FilterMap

LEMMA AddedFilterMap ==
  ASSUME NEW h \in Hosts
  PROVE  FilterMap(Watch!AddedFilters(1, h))
  BY AddedRecords, SameRules DEF FilterMap

LEMMA WatchInit == ASSUME WatchAssumptions, Watch!Init PROVE Watch!TypeOK
<1>1. FilterMap(filters) /\ FilterMap(found) /\ host \in Hosts
  BY EmptyFilters, AddedFilterMap DEF Watch!Init, Watch!Hosts, Hosts
<1>2. WireOK
  <2>1. Len(<<>>) = 0 /\ <<>> \in Seq(Watch!Frame)
    OBVIOUS
  <2> QED
    BY <2>1 DEF Watch!Init, WatchAssumptions, Watch!WatchBounds, WireOK
<1>3. changes \in 0 .. MaxChanges /\ drops \in 0 .. MaxDrops
  BY DEF Watch!Init, WatchAssumptions, Watch!WatchBounds
<1>4. RulesOK
  <2>1. sublayer \in BOOLEAN /\ modified \in BOOLEAN
    BY DEF Watch!Init
  <2> QED
    BY <1>1, <1>3, <2>1 DEF RulesOK
<1>5. AppOK /\ ThreadOK
  BY <1>1, <1>3 DEF Watch!Init, AppOK, ThreadOK
<1>6. BackOK
  <2>1. known \in BOOLEAN
    BY DEF Watch!Init
  <2> QED
    BY <2>1 DEF Watch!Init, BackOK
<1> QED
  BY <1>2, <1>4, <1>5, <1>6, WatchParts

\* The frames of the application.
LEMMA WatchFrames ==
    /\ Watch!login \in Watch!Frame /\ \A c \in {0, -1, -2} : Watch!event(c) \in Watch!Frame
    /\ \A f \in Watch!Frame : f.code \in {0, -1, -2}
  BY DEF Watch!login, Watch!event, Watch!Frame

LEMMA WatchStep == ASSUME WatchAssumptions, Watch!TypeOK, [Watch!Next]_(Watch!vars) PROVE Watch!TypeOK'
<1>1. /\ RulesOK /\ AppOK /\ ThreadOK /\ WireOK /\ BackOK
      /\ RulesOK' /\ AppOK' /\ ThreadOK' /\ WireOK' /\ BackOK' => Watch!TypeOK'
  BY DEF Watch!TypeOK, FilterMap, Watch!Hosts, Hosts, RulesOK, AppOK, ThreadOK, WireOK, BackOK
<1>2. /\ UNCHANGED Watch!ruleVars => RulesOK' /\ host' = host
      /\ UNCHANGED Watch!watchVars => ThreadOK'
      /\ UNCHANGED <<Watch!connVars, host>> => AppOK'
      /\ UNCHANGED wire => WireOK'
      /\ UNCHANGED Watch!backVars => BackOK'
  <2>1. UNCHANGED Watch!ruleVars => RulesOK' /\ host' = host
    BY <1>1 DEF Watch!ruleVars, RulesOK, FilterMap
  <2>2. UNCHANGED Watch!watchVars => ThreadOK'
    BY <1>1 DEF Watch!watchVars, ThreadOK, FilterMap
  <2>3. UNCHANGED <<Watch!connVars, host>> => AppOK'
    BY <1>1 DEF Watch!connVars, AppOK
  <2>4. UNCHANGED wire => WireOK'
    BY <1>1 DEF WireOK
  <2>5. UNCHANGED Watch!backVars => BackOK'
    BY <1>1 DEF Watch!backVars, BackOK
  <2> QED
    BY <2>1, <2>2, <2>3, <2>4, <2>5
<1>3. MaxChanges \in Nat /\ MaxDrops \in Nat /\ MaxWire \in Nat
  BY DEF WatchAssumptions, Watch!WatchBounds
<1> USE DEF Watch!Others
<1>4. ASSUME Watch!Change, FilterMap(filters'), sublayer' \in BOOLEAN PROVE Watch!TypeOK'
  <2>1. changes' \in 0 .. MaxChanges /\ host' \in Hosts
    BY <1>1, <1>3, <1>4 DEF Watch!Change, RulesOK
  <2>2. modified' \in BOOLEAN
    BY <1>4 DEF Watch!Change
  <2>3. RulesOK'
    BY <1>4, <2>1, <2>2 DEF RulesOK, FilterMap
  <2> QED
    BY <1>1, <1>2, <1>4, <2>3 DEF Watch!Change
<1>5. ASSUME NEW k \in DOMAIN filters, Watch!DeleteFilter(k) PROVE Watch!TypeOK'
  <2>1. FilterMap(filters')
    BY <1>1, <1>5 DEF Watch!DeleteFilter, FilterMap, RulesOK
  <2>2. sublayer' \in BOOLEAN
    BY <1>1, <1>5 DEF Watch!DeleteFilter, RulesOK
  <2> QED
    BY <1>4, <1>5, <2>1, <2>2 DEF Watch!DeleteFilter
<1>6. ASSUME NEW k \in DOMAIN filters, NEW f \in Alterations, Watch!AlterFilter(k, f) PROVE Watch!TypeOK'
  <2>1. f \in Watch!FilterRecords
    BY DEF WatchAssumptions, Watch!AlterationsAssumption
  <2>2. FilterMap(filters')
    BY <1>1, <1>6, <2>1 DEF Watch!AlterFilter, FilterMap, RulesOK
  <2>3. sublayer' \in BOOLEAN
    BY <1>1, <1>6 DEF Watch!AlterFilter, RulesOK
  <2> QED
    BY <1>4, <1>6, <2>2, <2>3 DEF Watch!AlterFilter
<1>7. CASE Watch!DeleteRules
  <2>1. FilterMap(filters') /\ sublayer' = FALSE
    BY <1>7, EmptyFilters DEF Watch!DeleteRules
  <2> QED
    BY <1>4, <1>7, <2>1 DEF Watch!DeleteRules
<1>8. CASE Watch!SetRules
  <2>1. FilterMap(filters') /\ sublayer' = TRUE
    BY <1>1, <1>8, AddedFilterMap DEF Watch!SetRules, RulesOK
  <2> QED
    BY <1>4, <1>8, <2>1 DEF Watch!SetRules
<1>9. ASSUME NEW c \in {0, -1, -2}, Watch!Outcome(c) PROVE ThreadOK'
  <2>1. FilterMap(found')
    BY <1>9, EmptyFilters DEF Watch!Outcome
  <2> QED
    BY <1>1, <1>9, <2>1 DEF Watch!Outcome, ThreadOK, FilterMap
<1>10. CASE Watch!OpenEngine
  <2>1. ASSUME pc' = "v4", UNCHANGED <<found, wfpStatus, lastStatus>> PROVE ThreadOK'
    BY <1>1, <2>1 DEF ThreadOK, FilterMap
  <2>2. ThreadOK'
    BY <1>9, <1>10, <2>1 DEF Watch!OpenEngine
  <2> QED
    BY <1>1, <1>2, <1>10, <2>2 DEF Watch!OpenEngine, Watch!ruleVars
<1>11. ASSUME NEW layer \in {"v4", "v6"}, NEW next \in {"v6", "compare"}, Watch!EnumerateLayer(layer, next)
       PROVE  Watch!TypeOK'
  <2>1. ASSUME ~Watch!Outcome(-1) PROVE ThreadOK'
    <3> DEFINE ids == {k \in Watch!Enumerated(filters) : filters[k].layer = layer}
               new == [k \in ids \cup DOMAIN found |-> IF k \in ids THEN filters[k] ELSE found[k]]
    <3>1. found' = new /\ pc' = next /\ UNCHANGED <<wfpStatus, lastStatus>>
      BY <1>11, <2>1 DEF Watch!EnumerateLayer
    <3>2. ids \subseteq DOMAIN filters
      BY DEF Watch!Enumerated
    <3> HIDE DEF ids
    <3>3. FilterMap(new)
      BY <1>1, <3>2 DEF FilterMap, RulesOK, ThreadOK
    <3> HIDE DEF new
    <3>4. FilterMap(found')
      BY <3>1, <3>3
    <3> QED
      BY <1>1, <3>1, <3>4 DEF ThreadOK, FilterMap
  <2>2. ThreadOK'
    BY <1>9, <2>1
  <2> QED
    BY <1>1, <1>2, <1>11, <2>2 DEF Watch!EnumerateLayer, Watch!ruleVars
<1>12. CASE Watch!Compare
  <2>1. PICK c \in {0, -1, -2} : c = Watch!RulesStatus(TRUE, found, BACKEND_HOST)
    BY DEF Watch!RulesStatus
  <2>2. Watch!Outcome(c)
    BY <1>12, <2>1 DEF Watch!Compare, Watch!Outcome
  <2>3. ThreadOK'
    BY <1>9, <2>2
  <2> QED
    BY <1>1, <1>2, <1>12, <2>3 DEF Watch!Compare, Watch!ruleVars
<1>13. ASSUME NEW f \in Watch!Frame, Len(wire) < MaxWire, wire' = Append(wire, f) PROVE WireOK'
  <2>1. Append(wire, f) \in Seq(Watch!Frame) /\ Len(Append(wire, f)) = Len(wire) + 1 /\ Len(wire) \in Nat
    BY <1>1 DEF WireOK
  <2> QED
    BY <1>3, <1>13, <2>1 DEF WireOK
<1>14. CASE Watch!Send
  <2>1. WireOK'
    <3>1. wfpStatus \in {0, -1, -2}
      BY <1>1 DEF ThreadOK
    <3>2. Watch!event(wfpStatus) \in Watch!Frame
      BY <3>1, WatchFrames
    <3>3. Len(wire) < MaxWire /\ (wire' = Append(wire, Watch!event(wfpStatus)) \/ wire' = wire)
      BY <1>14 DEF Watch!Send, Watch!Report
    <3>4. PICK f \in Watch!Frame : f = Watch!event(wfpStatus)
      BY <3>2
    <3> QED
      BY <1>2, <1>13, <3>3, <3>4
  <2>2. ThreadOK'
    BY <1>1, <1>14 DEF Watch!Send, Watch!Report, ThreadOK, FilterMap
  <2> QED
    BY <1>1, <1>2, <1>14, <2>1, <2>2 DEF Watch!Send, Watch!ruleVars
<1>15. CASE Watch!LoadConfig \/ Watch!Open \/ Watch!ws_send_login
  <2>1. WireOK'
    <3>1. \/ wire' = wire
          \/ Len(wire) < MaxWire /\ wire' = Append(wire, Watch!login)
      BY <1>15 DEF Watch!LoadConfig, Watch!Open, Watch!ws_send_login
    <3> QED
      BY <1>2, <1>13, <3>1, WatchFrames
  <2>2. host' = host /\ drops' = drops
    BY <1>15 DEF Watch!LoadConfig, Watch!Open, Watch!ws_send_login, Watch!ruleVars
  <2>3. BACKEND_HOST' \in {BACKEND_HOST, host} /\ conn' \in {"down", "open", "in"}
    BY <1>15 DEF Watch!LoadConfig, Watch!Open, Watch!ws_send_login
  <2>4. AppOK'
    BY <1>1, <2>2, <2>3 DEF AppOK
  <2>5. UNCHANGED <<Watch!ruleVars, Watch!watchVars, Watch!backVars>>
    BY <1>15 DEF Watch!LoadConfig, Watch!Open, Watch!ws_send_login
  <2> QED
    BY <1>1, <1>2, <2>1, <2>4, <2>5
<1>16. ASSUME Watch!Lose PROVE WireOK' /\ BackOK' /\ drops' \in 0 .. MaxDrops
  <2>1. Len(<<>>) = 0 /\ <<>> \in Seq(Watch!Frame)
    OBVIOUS
  <2>2. WireOK'
    BY <1>3, <1>16, <2>1 DEF Watch!Lose, WireOK
  <2>3. BackOK'
    <3>1. known' = FALSE /\ told' = told /\ flagged' = flagged
      BY <1>16 DEF Watch!Lose
    <3>2. known' \in BOOLEAN
      BY <3>1
    <3> QED
      BY <1>1, <3>1, <3>2 DEF BackOK
  <2>4. drops' \in 0 .. MaxDrops
    BY <1>1, <1>3, <1>16 DEF Watch!Lose, AppOK
  <2> QED
    BY <2>2, <2>3, <2>4
<1>17. CASE Watch!Drop
  <2>1. host' = host /\ BACKEND_HOST' = BACKEND_HOST /\ conn' = "down"
    BY <1>17 DEF Watch!Drop, Watch!ruleVars
  <2>2. AppOK'
    BY <1>1, <1>16, <1>17, <2>1 DEF Watch!Drop, AppOK
  <2> QED
    BY <1>1, <1>2, <1>16, <1>17, <2>2 DEF Watch!Drop
<1>18. ASSUME Watch!AppStart PROVE ThreadOK'
  <2>1. FilterMap(found')
    BY <1>18, EmptyFilters DEF Watch!AppStart
  <2> QED
    BY <1>18, <2>1 DEF Watch!AppStart, ThreadOK, FilterMap
<1>19. ASSUME Watch!AppStart, Watch!Lose, host' = host PROVE AppOK'
  <2>1. drops' \in 0 .. MaxDrops
    BY <1>16, <1>19
  <2> QED
    BY <1>19, <2>1 DEF Watch!AppStart, AppOK
<1>20. CASE Watch!Restart
  <2>1. Watch!AppStart /\ Watch!Lose /\ UNCHANGED Watch!ruleVars
    BY <1>20 DEF Watch!Restart
  <2> QED
    BY <1>1, <1>2, <1>16, <1>18, <1>19, <2>1
<1>21. CASE Watch!Reboot
  <2>1. /\ Watch!AppStart /\ Watch!Lose
        /\ sublayer' = FALSE /\ filters' = <<>> /\ modified' = TRUE
        /\ host' = host /\ changes' = changes
    BY <1>21 DEF Watch!Reboot
  <2>2. FilterMap(filters') /\ sublayer' \in BOOLEAN /\ modified' \in BOOLEAN
    BY <2>1, EmptyFilters
  <2>3. RulesOK'
    BY <1>1, <2>1, <2>2 DEF RulesOK, FilterMap
  <2> QED
    BY <1>1, <1>16, <1>18, <1>19, <2>1, <2>3
<1>22. CASE Watch!Deliver
  <2>1. Head(wire) \in Watch!Frame /\ Tail(wire) \in Seq(Watch!Frame) /\ Len(Tail(wire)) = Len(wire) - 1
        /\ Len(wire) \in Nat
    BY <1>1, <1>22 DEF Watch!Deliver, WireOK
  <2>2. wire' = Tail(wire)
    BY <1>22 DEF Watch!Deliver
  <2>3. WireOK'
    BY <1>1, <1>3, <2>1, <2>2 DEF WireOK
  <2>4. PICK c \in {0, -1, -2} : c = Head(wire).code
    BY <2>1, WatchFrames
  <2>5. /\ known' = TRUE \/ known' = known
        /\ \/ told' = told /\ flagged' = flagged
           \/ told' = c /\ flagged' = flagged \cup ({c} \ {0})
    BY <1>22, <2>4 DEF Watch!Deliver, Watch!backVars
  <2>6. known' \in BOOLEAN
    <3>1. known \in BOOLEAN
      BY <1>1 DEF BackOK
    <3> QED
      BY <2>5, <3>1, Zenon
  <2>7. told' \in {999, 0, -1, -2} /\ flagged' \subseteq {-1, -2}
    <3>1. told \in {999, 0, -1, -2} /\ flagged \subseteq {-1, -2}
      BY <1>1 DEF BackOK
    <3>2. {c} \ {0} \subseteq {-1, -2}
      BY <2>4
    <3>3. told' = told \/ told' = c
      BY <2>5
    <3>4. flagged' = flagged \/ flagged' = flagged \cup ({c} \ {0})
      BY <2>5
    <3>5. told' \in {999, 0, -1, -2}
      BY <3>1, <3>3
    <3>6. flagged' \subseteq {-1, -2}
      <4> DEFINE all == {-1, -2}
                 more == {c} \ {0}
      <4>1. flagged \subseteq all /\ more \subseteq all /\ (flagged' = flagged \/ flagged' = flagged \cup more)
        BY <3>1, <3>2, <3>4
      <4> HIDE DEF all, more
      <4>2. flagged' \subseteq all
        BY <4>1
      <4> QED
        BY <4>2 DEF all
    <3> QED
      BY <3>5, <3>6
  <2>8. BackOK'
    BY <2>6, <2>7 DEF BackOK
  <2>9. UNCHANGED <<Watch!ruleVars, Watch!watchVars, Watch!connVars>>
    BY <1>22 DEF Watch!Deliver
  <2> QED
    BY <1>1, <1>2, <2>3, <2>8, <2>9
<1>23. CASE UNCHANGED Watch!vars
  <2>1. UNCHANGED <<Watch!ruleVars, Watch!watchVars, Watch!connVars, wire, Watch!backVars>>
    BY <1>23 DEF Watch!vars
  <2> QED
    BY <1>1, <1>2, <2>1
<1>24. CASE Watch!rules_monitor_thread
  BY <1>10, <1>11, <1>12, <1>14, <1>24 DEF Watch!rules_monitor_thread
<1>25. CASE Watch!Environment
  BY <1>5, <1>6, <1>7, <1>8, <1>17, <1>20, <1>21, <1>25 DEF Watch!Environment
<1> QED
  BY <1>15, <1>22, <1>23, <1>24, <1>25 DEF Watch!Next, Watch!websocket_thread

\* Every variable of FirewallWatch keeps its type.
THEOREM WatchTypeCorrect == ASSUME WatchAssumptions PROVE Watch!Spec => []Watch!TypeOK
<1>1. Watch!Init => Watch!TypeOK
  BY WatchInit
<1>2. Watch!TypeOK /\ [Watch!Next]_(Watch!vars) => Watch!TypeOK'
  BY WatchStep
<1> QED
  BY <1>1, <1>2, PTL DEF Watch!Spec

CheckExact == Watch!CheckExact

\* For a backend given by its address, check_rules_intact accepts the sublayer's filters
\* just if there are as many of each kind it can tell apart as the privileged client
\* installs, whatever others did to them.
THEOREM CheckIsExact == ASSUME WatchAssumptions, Room >= 6 PROVE Watch!Spec => []CheckExact
<1>1. ASSUME Watch!TypeOK PROVE CheckExact
  <2> SUFFICES ASSUME host \in Addresses
               PROVE  Watch!RulesStatus(sublayer, filters, host) = 0
                        <=> sublayer /\ Watch!SameKinds(filters, Watch!AddedFilters(1, host))
    BY DEF CheckExact, Watch!CheckExact
  <2>1. /\ DOMAIN filters \in SUBSET (1 .. 6) /\ \A k \in DOMAIN filters : filters[k] \in Watch!FilterRecords
        /\ host \in Hosts /\ sublayer \in BOOLEAN
    BY <1>1, WatchParts DEF FilterMap, RulesOK
  <2>2. RulesStatus(sublayer, filters, host) = 0
          <=> /\ sublayer
              /\ Cardinality(Enumerated(filters)) = 6 /\ Unmatched(filters, get_expected_filters(host)) = {}
    <3>1. Len(get_expected_filters(host)) = 6
      BY DEF get_expected_filters
    <3> QED
      BY <2>1, <3>1 DEF RulesStatus
  <2>3. Enumerated(filters) = DOMAIN filters
    BY <2>1, RoomForAll DEF Watch!FilterRecords
  <2>4. (Cardinality(Enumerated(filters)) = 6 /\ Unmatched(filters, get_expected_filters(host)) = {})
          <=> \A r : Alike(filters, DOMAIN filters, r) = Due(host, 0, r)
    BY <2>1, <2>3, CheckCounts
  <2> QED
    BY <2>1, <2>2, <2>4, KindsAsCounts, SameRules
<1>2. Watch!TypeOK => CheckExact
  BY <1>1
<1> QED
  BY <1>2, WatchTypeCorrect, PTL

-----------------------------------------------------------------------------
(* Where the two meet: what start_exam leaves is what the check looks at.   *)
(* The variables are ExamSetup's again.                                     *)

\* The check does not tell the filters of one account from those of another.
LEMMA AnyAccount ==
  ASSUME NEW sid \in Nat, sid # 0, NEW h \in Hosts
  PROVE  \A k \in 1 .. 6 :
            /\ AddedFilters(sid, h)[k].layer = AddedFilters(1, h)[k].layer
            /\ \A e : validate_filter(AddedFilters(sid, h)[k], e)
                        <=> validate_filter(AddedFilters(1, h)[k], e)
<1> DEFINE Like(f, g) == /\ f.layer = g.layer
                         /\ \A e : validate_filter(f, e) <=> validate_filter(g, e)
<1>1. ASSUME NEW action, NEW layer, NEW ip, NEW dns
      PROVE  Like(Filter(action, layer, sid, ip, dns), Filter(action, layer, 1, ip, dns))
  BY DEF Filter, validate_filter, numFilterConditions
<1> DEFINE a == ClientAddress(h)
<1>2. /\ Like(Filter("permit", "v4", sid, a, FALSE), Filter("permit", "v4", 1, a, FALSE))
      /\ Like(Filter("permit", "v4", sid, "localhost", FALSE), Filter("permit", "v4", 1, "localhost", FALSE))
      /\ Like(Filter("permit", "v4", sid, "dns1", TRUE), Filter("permit", "v4", 1, "dns1", TRUE))
      /\ Like(Filter("permit", "v4", sid, "dns2", TRUE), Filter("permit", "v4", 1, "dns2", TRUE))
      /\ Like(Filter("block", "v4", sid, "none", FALSE), Filter("block", "v4", 1, "none", FALSE))
      /\ Like(Filter("block", "v6", sid, "none", FALSE), Filter("block", "v6", 1, "none", FALSE))
  <2> HIDE DEF Like
  <2> QED
    BY <1>1
<1> DEFINE F(s) == AddedFilters(s, h)
<1>3. \A s : /\ F(s)[1] = Filter("permit", "v4", s, a, FALSE)
             /\ F(s)[2] = Filter("permit", "v4", s, "localhost", FALSE)
             /\ F(s)[3] = Filter("permit", "v4", s, "dns1", TRUE)
             /\ F(s)[4] = Filter("permit", "v4", s, "dns2", TRUE)
             /\ F(s)[5] = Filter("block", "v4", s, "none", FALSE)
             /\ F(s)[6] = Filter("block", "v6", s, "none", FALSE)
  BY DEF AddedFilters
<1> HIDE DEF Like, F, a
<1>4. Like(F(sid)[1], F(1)[1]) /\ Like(F(sid)[2], F(1)[2]) /\ Like(F(sid)[3], F(1)[3])
      /\ Like(F(sid)[4], F(1)[4]) /\ Like(F(sid)[5], F(1)[5]) /\ Like(F(sid)[6], F(1)[6])
  BY <1>2, <1>3
<1>5. \A k \in 1 .. 6 : Like(F(sid)[k], F(1)[k])
  BY <1>4
<1> QED
  BY <1>5 DEF Like, F

\* One enumeration finds all six of them.
LEMMA AddedEnumerated ==
  ASSUME NEW sid \in Nat, NEW h \in Hosts, Room >= 5
  PROVE  DOMAIN AddedFilters(sid, h) = 1 .. 6 /\ Enumerated(AddedFilters(sid, h)) = 1 .. 6
<1> DEFINE fs == AddedFilters(sid, h)
           ids(l) == {k \in DOMAIN fs : fs[k].layer = l}
           Before(l, k) == {j \in ids(l) : j < k}
<1>1. /\ DOMAIN fs = 1 .. 6 /\ ids("v4") \subseteq 1 .. 5 /\ ids("v6") \subseteq {6}
      /\ DOMAIN fs = ids("v4") \cup ids("v6")
  <2>1. /\ fs \in [1 .. 6 -> FilterRecords]
        /\ \A k \in 1 .. 6 : fs[k].layer = "v4" <=> k # 6
    BY AddedType
  <2>2. \A k \in 1 .. 6 : fs[k].layer \in {"v4", "v6"}
    BY <2>1 DEF FilterRecords
  <2> HIDE DEF fs
  <2> QED
    BY <2>1, <2>2
<1>2. IsFiniteSet(1 .. 4) /\ Cardinality(1 .. 4) = 4
  <2>1. 1 \in Int /\ 4 \in Int /\ (IF 1 > 4 THEN 0 ELSE 4 - 1 + 1) = 4
    OBVIOUS
  <2>2. IsFiniteSet(1 .. 4) /\ Cardinality(1 .. 4) = IF 1 > 4 THEN 0 ELSE 4 - 1 + 1
    BY <2>1, FS_Interval, Zenon
  <2> QED
    BY <2>1, <2>2
<1> HIDE DEF fs
<1>3. ASSUME NEW l \in {"v4", "v6"}, NEW k \in ids(l)
      PROVE  Cardinality(Before(l, k)) < Room
  <2>1. Before(l, k) \in SUBSET (1 .. 4)
    BY <1>1
  <2> HIDE DEF Before
  <2>2. Cardinality(Before(l, k)) <= 4 /\ Cardinality(Before(l, k)) \in Nat
    BY <1>2, <2>1, FS_Subset, FS_CardinalityType
  <2> QED
    BY <2>2, RoomAssumption
<1> DEFINE first(l) == {k \in ids(l) : Cardinality(Before(l, k)) < Room}
<1>4. Enumerated(fs) = first("v4") \cup first("v6")
  BY DEF Enumerated
<1> HIDE DEF Before, ids
<1>5. first("v4") = ids("v4") /\ first("v6") = ids("v6")
  BY <1>3
<1> QED
  BY <1>1, <1>4, <1>5 DEF fs

\* What holds before the first of six stages and from each to the next holds at the end.
LEMMA SixStages ==
  ASSUME NEW S, 0 \in S, \A i \in 1 .. 6 : i - 1 \in S => i \in S
  PROVE  6 \in S
<1>1. /\ 1 - 1 = 0 /\ 2 - 1 = 1 /\ 3 - 1 = 2 /\ 4 - 1 = 3 /\ 5 - 1 = 4 /\ 6 - 1 = 5
  OBVIOUS
<1>2. 1 \in S BY <1>1
<1>3. 2 \in S BY <1>1, <1>2
<1>4. 3 \in S BY <1>1, <1>3
<1>5. 4 \in S BY <1>1, <1>4
<1>6. 5 \in S BY <1>1, <1>5
<1> QED BY <1>1, <1>6

\* So the check ends alike for the filters of any account.
LEMMA UnmatchedAnyAccount ==
  ASSUME NEW sid \in Nat, sid # 0, NEW h \in Hosts, NEW e, Len(e) = 6, Room >= 5
  PROVE  Unmatched(AddedFilters(sid, h), e) = Unmatched(AddedFilters(1, h), e)
<1> DEFINE fs == AddedFilters(sid, h)
           gs == AddedFilters(1, h)
<1>1. Enumerated(fs) = 1 .. 6 /\ Enumerated(gs) = 1 .. 6
  BY AddedEnumerated
<1>2. PICK l : /\ l[0] = Enumerated(fs)
               /\ \A i \in 1 .. 6 : l[i] = Take(fs, l[i - 1], e[i])
               /\ Unmatched(fs, e) = l[6]
  BY UnmatchedStages
<1>3. PICK m : /\ m[0] = Enumerated(gs)
               /\ \A i \in 1 .. 6 : m[i] = Take(gs, m[i - 1], e[i])
               /\ Unmatched(gs, e) = m[6]
  BY UnmatchedStages
<1>4. \A k \in 1 .. 6 : \A x : validate_filter(fs[k], x) <=> validate_filter(gs[k], x)
  BY AnyAccount
<1> HIDE DEF fs, gs
<1>5. ASSUME NEW S \in SUBSET (1 .. 6), NEW x
      PROVE  Take(fs, S, x) = Take(gs, S, x) /\ Take(fs, S, x) \in SUBSET (1 .. 6)
  <2>1. {k \in S : validate_filter(fs[k], x)} = {k \in S : validate_filter(gs[k], x)}
    BY <1>4
  <2>2. Take(fs, S, x) = Take(gs, S, x)
    BY <2>1 DEF Take
  <2> QED
    BY <2>2 DEF Take
<1> DEFINE Same == {i \in 0 .. 6 : l[i] = m[i] /\ l[i] \in SUBSET (1 .. 6)}
<1>6. 0 \in Same
  BY <1>1, <1>2, <1>3
<1>7. ASSUME NEW i \in 1 .. 6, i - 1 \in Same
      PROVE  i \in Same
  <2>1. l[i - 1] = m[i - 1] /\ l[i - 1] \in SUBSET (1 .. 6)
    BY <1>7
  <2>2. l[i] = Take(fs, l[i - 1], e[i]) /\ m[i] = Take(gs, l[i - 1], e[i])
    BY <1>2, <1>3, <2>1
  <2> QED
    BY <1>5, <2>1, <2>2
<1> HIDE DEF Same
<1>8. 6 \in Same
  BY <1>6, <1>7, SixStages
<1> QED
  BY <1>2, <1>3, <1>8 DEF Same, fs, gs

\* Rules for a host given by its address pass the check.
LEMMA AddressAccepted ==
  ASSUME NEW h \in Addresses, Room >= 5
  PROVE  Unmatched(AddedFilters(1, h), get_expected_filters(h)) = {}
<1> DEFINE gs == AddedFilters(1, h)
<1>1. h \in Hosts
  BY DEF Hosts
<1>2. Enumerated(gs) = DOMAIN gs /\ DOMAIN gs = 1 .. 6
  BY <1>1, AddedEnumerated
<1>3. \A k \in DOMAIN gs : gs[k] \in Watch!FilterRecords
  BY <1>1, AddedRecords
<1>4. \A r : Alike(gs, DOMAIN gs, r) = Due(h, 0, r)
  <2>1. 0 + 1 = 1
    OBVIOUS
  <2> QED
    BY <1>2, <2>1 DEF Alike, Due
<1>5. DOMAIN gs \in SUBSET (1 .. 6)
  BY <1>2
<1> HIDE DEF gs
<1>6. Unmatched(gs, get_expected_filters(h)) = {}
  BY <1>2, <1>3, <1>4, <1>5, CheckCounts
<1> QED
  BY <1>6 DEF gs

\* The first rule for a host given by a name permits address 0, which nothing expects.
LEMMA NameRefused ==
  ASSUME NEW h \in Names, Room >= 5
  PROVE  Unmatched(AddedFilters(1, h), get_expected_filters(h)) # {}
<1> DEFINE gs == AddedFilters(1, h)
           e == get_expected_filters(h)
<1>1. h \in Hosts /\ h \notin Addresses
  BY HostsAssumption DEF Hosts
<1>2. Enumerated(gs) = 1 .. 6 /\ Len(e) = 6
  <2>1. Len(e) = 6
    BY DEF get_expected_filters
  <2> QED
    BY <1>1, <2>1, AddedEnumerated
<1>3. gs[1] = Filter("permit", "v4", 1, "zero", FALSE)
  BY <1>1 DEF AddedFilters, ClientAddress
<1>4. /\ e[1] = Expected("permit", "broadcast", FALSE, FALSE)
      /\ e[2] = Expected("permit", "localhost", FALSE, FALSE)
      /\ e[3] = Expected("permit", "dns1", TRUE, FALSE)
      /\ e[4] = Expected("permit", "dns2", TRUE, FALSE)
      /\ e[5] = Expected("block", "none", FALSE, FALSE)
      /\ e[6] = Expected("block", "none", FALSE, TRUE)
  BY <1>1 DEF get_expected_filters, AppAddress
<1> HIDE DEF e, gs
<1>5. /\ \A i \in 1 .. 5 : ~e[i].isIPv6Block /\ e[i].ip # "zero"
      /\ e[6].isIPv6Block
  <2>1. /\ ~e[1].isIPv6Block /\ ~e[2].isIPv6Block /\ ~e[3].isIPv6Block /\ ~e[4].isIPv6Block
        /\ ~e[5].isIPv6Block /\ e[6].isIPv6Block
    BY <1>4 DEF Expected
  <2>2. e[1].ip # "zero" /\ e[2].ip # "zero" /\ e[3].ip # "zero" /\ e[4].ip # "zero" /\ e[5].ip # "zero"
    BY <1>4 DEF Expected
  <2> QED
    BY <2>1, <2>2
<1>6. gs[1].layer = "v4" /\ gs[1].ip = "zero"
  BY <1>3 DEF Filter
<1>7. ASSUME NEW i \in 1 .. 6
      PROVE  ~validate_filter(gs[1], e[i])
  <2>1. CASE i = 6
    BY <1>5, <1>6, <2>1 DEF validate_filter
  <2>2. CASE i \in 1 .. 5
    BY <1>5, <1>6, <2>2 DEF validate_filter
  <2> QED
    BY <2>1, <2>2
<1>8. PICK l : /\ l[0] = Enumerated(gs)
               /\ \A i \in 1 .. 6 : l[i] = Take(gs, l[i - 1], e[i])
               /\ Unmatched(gs, e) = l[6]
  BY <1>2, UnmatchedStages
<1> DEFINE Left == {i \in 0 .. 6 : 1 \in l[i] /\ l[i] \in SUBSET (1 .. 6)}
<1>9. 0 \in Left
  BY <1>2, <1>8
<1>10. ASSUME NEW i \in 1 .. 6, i - 1 \in Left
       PROVE  i \in Left
  <2> DEFINE S == l[i - 1]
             T == Take(gs, S, e[i])
  <2>1. S \in SUBSET (1 .. 6) /\ 1 \in S /\ l[i] = T
    BY <1>8, <1>10
  <2> HIDE DEF S
  <2>2. /\ T \subseteq S
        /\ T = S \/ \E k \in S : validate_filter(gs[k], e[i]) /\ T = S \ {k}
    BY <2>1, TakesOne
  <2> HIDE DEF T
  <2>3. 1 \in T
    BY <1>7, <2>1, <2>2
  <2>4. T \in SUBSET (1 .. 6) /\ i \in 0 .. 6
    BY <2>1, <2>2
  <2>5. 1 \in l[i] /\ l[i] \in SUBSET (1 .. 6)
    BY <2>1, <2>3, <2>4
  <2> QED
    BY <2>4, <2>5
<1> HIDE DEF Left
<1>11. 6 \in Left
  BY <1>9, <1>10, SixStages
<1> QED
  BY <1>8, <1>11 DEF Left, gs, e

\* What check_rules_intact says of the rules of setup_exam_user_wfp, for any account.
LEMMA AddedStatus ==
  ASSUME NEW sid \in Nat, sid # 0, NEW h \in Hosts, Room >= 5
  PROVE  RulesStatus(TRUE, AddedFilters(sid, h), h) = 0 <=> h \in Addresses
<1> DEFINE fs == AddedFilters(sid, h)
           gs == AddedFilters(1, h)
           e == get_expected_filters(h)
<1>1. Len(e) = 6
  BY DEF get_expected_filters
<1> HIDE DEF fs, gs, e
<1>2. Cardinality(Enumerated(fs)) = 6
  <2>1. Enumerated(fs) = 1 .. 6
    BY AddedEnumerated DEF fs
  <2>2. 1 \in Int /\ 6 \in Int /\ (IF 1 > 6 THEN 0 ELSE 6 - 1 + 1) = 6
    OBVIOUS
  <2>3. Cardinality(1 .. 6) = IF 1 > 6 THEN 0 ELSE 6 - 1 + 1
    BY <2>2, FS_Interval, Zenon
  <2> QED
    BY <2>1, <2>2, <2>3
<1>3. Unmatched(fs, e) = {} <=> h \in Addresses
  <2>1. Unmatched(fs, e) = Unmatched(gs, e)
    BY <1>1, UnmatchedAnyAccount DEF fs, gs
  <2>2. h \in Addresses => Unmatched(gs, e) = {}
    BY AddressAccepted DEF gs, e
  <2>3. h \notin Addresses => Unmatched(gs, e) # {}
    BY NameRefused DEF Hosts, gs, e
  <2> QED
    BY <2>1, <2>2, <2>3
<1>4. RulesStatus(TRUE, fs, h) =
        IF TRUE /\ Cardinality(Enumerated(fs)) = Len(e) /\ Unmatched(fs, e) = {} THEN 0 ELSE -2
  BY Zenon DEF RulesStatus, e
<1>5. RulesStatus(TRUE, fs, h) = IF h \in Addresses THEN 0 ELSE -2
  BY <1>1, <1>2, <1>3, <1>4, Zenon
<1>6. RulesStatus(TRUE, fs, h) = 0 <=> h \in Addresses
  <2>1. -2 # 0
    OBVIOUS
  <2> QED
    BY <1>5, <2>1, Zenon
<1> QED
  BY <1>6 DEF fs

\* The list of filters in client.cpp and the list in exam_app.cpp agree at the hand-over:
\* when start_exam returns 0, check_rules_intact, run for the host of the request, finds
\* the rules intact just if that is an address.
THEOREM HandedOverIntact == ASSUME Room >= 5 PROVE Spec => []PreparedIsIntact
<1>1. TypeOK /\ HostGiven /\ ZeroMeansPrepared => PreparedIsIntact
  <2> SUFFICES ASSUME TypeOK, HostGiven, ZeroMeansPrepared, pc = "done", code = 0
               PROVE  RulesStatus(sublayer, filters, host) = 0 <=> host \in Addresses
    BY DEF PreparedIsIntact
  <2>1. Prepared
    BY DEF ZeroMeansPrepared
  <2>2. /\ account \in Nat /\ account # 0
        /\ sublayer = TRUE /\ filters = AddedFilters(account, host)
    BY <2>1 DEF Prepared, TypeOK
  <2>3. host \in Hosts
    BY DEF HostGiven
  <2> QED
    BY <2>2, <2>3, AddedStatus
<1> QED
  BY <1>1, TypeInvariant, ZeroTold, PTL
=============================================================================
