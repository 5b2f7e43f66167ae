----------------------------- MODULE ExamSetup -----------------------------
(***************************************************************************)
(* The privileged client: how start_exam prepares the machine for an exam. *)
(*                                                                         *)
(* One request after the other comes from the user interface through the   *)
(* pipe; start_exam recreates the account exam_user, writes the            *)
(* configuration, deploys the application, registers the task that starts  *)
(* it, and sets the firewall rules.  Every call to Windows may fail, which *)
(* ends the request with its code, and the process may end at any step     *)
(* with its user interface; what was done until then stays.                *)
(***************************************************************************)
EXTENDS ExamRules

CONSTANTS
    MaxRequests,  \* bound: requests to continue to the exam
    MaxExits      \* bound: ends of the process and of the machine's session

ASSUME BoundsAssumption == MaxRequests \in Nat /\ MaxExits \in Nat

VARIABLES
    \* the process
    pc,          \* "off", "idle" (reading the pipe), a step of start_exam, or "done"
    host,        \* the request's backend_host
    code,        \* what start_exam returned
    clean,       \* every call of the request succeeded so far
    \* the machine
    created,     \* accounts created so far; an account's number stands for its SID
    account,     \* exam_user's SID, 0 when there is no such account
    member,      \* it is in the group Users
    profiles,    \* SIDs with a profile
    config,      \* backend_host in exam_config.json, "none" or "broken"
    consent,     \* ConsentPromptBehaviorUser: "asks" or "silent"
    app,         \* the application's files: "none", "some", "all"
    task,        \* the SID the task ExamAppUnlock starts the application for, or 0
    sublayer,    \* the exam's sublayer exists
    filters,     \* its filters
    \* for the bounds
    requests, exits

procVars == <<pc, host, code, clean>>
userVars == <<created, account, member, profiles>>
fileVars == <<config, consent, app, task>>
ruleVars == <<sublayer, filters>>
boundVars == <<requests, exits>>
vars == <<procVars, userVars, fileVars, ruleVars, boundVars>>

-----------------------------------------------------------------------------
Steps == {"add", "delete", "profiles", "readd", "group", "logon", "open", "write",
          "consent", "deploy", "task", "sid", "engine", "remove", "install"}

Codes == {0, 10, 11, 12, 13, 14, 15, 16, 20}

FilterRecords ==
    [action : {"permit", "block"}, layer : {"v4", "v6"}, sid : Nat,
     ip : Addresses \cup FixedAddresses, dns : BOOLEAN, more : {0}, rest : {"exam"}]

\* The setup never has other filters in its sublayer than these, or some of them.
TypeOK ==
    /\ pc \in {"off", "idle", "done"} \cup Steps
    /\ host \in Hosts \cup {"none"}
    /\ code \in Codes
    /\ clean \in BOOLEAN
    /\ created \in Nat
    /\ account \in 0 .. created
    /\ member \in BOOLEAN
    /\ profiles \subseteq 1 .. created
    /\ config \in Hosts \cup {"none", "broken"}
    /\ consent \in {"asks", "silent"}
    /\ app \in {"none", "some", "all"}
    /\ task \in 0 .. created
    /\ sublayer \in BOOLEAN
    /\ \E ids \in SUBSET (1 .. 6) : filters \in [ids -> FilterRecords]
    /\ requests \in Nat /\ exits \in Nat

Init ==
    /\ pc = "off" /\ host = "none" /\ code = 0 /\ clean = TRUE
    /\ created = 0 /\ account = 0 /\ member = FALSE /\ profiles = {}
    /\ config = "none" /\ consent = "asks" /\ app = "none" /\ task = 0
    /\ sublayer = FALSE /\ filters = <<>>
    /\ requests = 0 /\ exits = 0

-----------------------------------------------------------------------------
(* The process.                                                            *)

\* The user interface starts client.exe, whose pipe_server_thread it connects to.
Start ==
    /\ pc = "off"
    /\ pc' = "idle"
    /\ UNCHANGED <<host, code, clean, userVars, fileVars, ruleVars, boundVars>>

\* pipe_client: continue_to_exam.
Request(h) ==
    /\ pc = "idle"
    /\ requests < MaxRequests
    /\ requests' = requests + 1
    /\ pc' = "add" /\ host' = h /\ code' = 0 /\ clean' = TRUE
    /\ UNCHANGED <<userVars, fileVars, ruleVars, exits>>

\* Missing fields (20), or a process without administrator rights (10).
Refuse(c) ==
    /\ pc = "idle"
    /\ requests < MaxRequests
    /\ requests' = requests + 1
    /\ pc' = "done" /\ host' = "none" /\ code' = c /\ clean' = FALSE
    /\ UNCHANGED <<userVars, fileVars, ruleVars, exits>>

\* The response is written to the pipe.
Reply ==
    /\ pc = "done"
    /\ pc' = "idle"
    /\ UNCHANGED <<host, code, clean, userVars, fileVars, ruleVars, boundVars>>

\* parent_monitor_thread or pipe_server_thread: the user interface is gone, and the
\* process with it; an open transaction of the firewall is aborted.
Exit ==
    /\ pc # "off"
    /\ exits < MaxExits
    /\ exits' = exits + 1
    /\ pc' = "off"
    /\ UNCHANGED <<host, code, clean, userVars, fileVars, ruleVars, requests>>

\* The machine restarts: sublayer and filters were not added as persistent ones.
Reboot ==
    /\ exits < MaxExits
    /\ exits' = exits + 1
    /\ pc' = "off"
    /\ sublayer' = FALSE /\ filters' = <<>>
    /\ UNCHANGED <<host, code, clean, userVars, fileVars, requests>>

\* The next step of start_exam, or its return with a code.
Go(from, to) == pc = from /\ pc' = to /\ UNCHANGED <<host, code, clean, boundVars>>

Return(from, c) == pc = from /\ pc' = "done" /\ code' = c /\ clean' = FALSE /\ UNCHANGED <<host, boundVars>>

-----------------------------------------------------------------------------
(* The account.                                                            *)

\* Mutant: the account keeps the number that is not counted yet.
NewAccountUncounted ==
    /\ account' = created + 1
    /\ member' = FALSE
    /\ UNCHANGED <<created, profiles>>

\* NetUserAdd of a name that does not exist: a new SID.
NewAccount ==
    /\ created' = created + 1
    /\ account' = created + 1
    /\ member' = FALSE
    /\ UNCHANGED profiles

AddUser ==
    /\ account = 0
    /\ Go("add", "group")
    /\ NewAccount
    /\ UNCHANGED <<fileVars, ruleVars>>

UserExists ==
    /\ account # 0
    /\ Go("add", "delete")
    /\ UNCHANGED <<userVars, fileVars, ruleVars>>

\* kill_user_processes and NetUserDel.
DeleteUser ==
    /\ Go("delete", "profiles")
    /\ account' = 0 /\ member' = FALSE
    /\ UNCHANGED <<created, profiles, fileVars, ruleVars>>

\* cleanup_exam_user_profiles goes on whatever cannot be deleted.
CleanupProfiles ==
    /\ Go("profiles", "readd")
    /\ profiles' \in SUBSET profiles
    /\ UNCHANGED <<created, account, member, fileVars, ruleVars>>

ReaddUser ==
    /\ Go("readd", "group")
    /\ NewAccount
    /\ UNCHANGED <<fileVars, ruleVars>>

AddToGroup ==
    /\ Go("group", "logon")
    /\ member' = TRUE
    /\ UNCHANGED <<created, account, profiles, fileVars, ruleVars>>

\* initialize_user_profile.
InitializeProfile ==
    /\ Go("logon", "open")
    /\ profiles' = profiles \cup {account}
    /\ UNCHANGED <<created, account, member, fileVars, ruleVars>>

UserFails ==
    /\ \/ Return("add", 11) \/ Return("delete", 11) \/ Return("readd", 11)
       \/ Return("group", 12) \/ Return("open", 13)
    /\ UNCHANGED <<userVars, fileVars, ruleVars>>

\* LoadUserProfile has created the profile, or not; what comes after it may fail.
ProfileFails ==
    /\ Return("logon", 13)
    /\ profiles' \in {profiles, profiles \cup {account}}
    /\ UNCHANGED <<created, account, member, fileVars, ruleVars>>

-----------------------------------------------------------------------------
(* The files, the registry and the task.                                   *)

\* Opening exam_config.json empties it.
OpenConfig ==
    /\ Go("open", "write")
    /\ config' = "broken"
    /\ UNCHANGED <<consent, app, task, userVars, ruleVars>>

\* Neither the stream nor close() is looked at: start_exam goes on after a failed write.
WriteConfig ==
    /\ pc = "write"
    /\ pc' = "consent"
    /\ config' \in {host, "broken"}
    /\ clean' = (clean /\ config' = host)
    /\ UNCHANGED <<host, code, boundVars, consent, app, task, userVars, ruleVars>>

\* RegSetKeyValue, whose result is not looked at; nothing sets the value back.
SilenceConsent ==
    /\ Go("consent", "deploy")
    /\ consent' \in {consent, "silent"}
    /\ UNCHANGED <<config, app, task, userVars, ruleVars>>

\* deploy_exam_app copies three files over those of an earlier exam.
Deploy ==
    /\ Go("deploy", "task")
    /\ app' = "all"
    /\ UNCHANGED <<config, consent, task, userVars, ruleVars>>

DeployFails ==
    /\ Return("deploy", 14)
    /\ app' \in {app} \cup (IF app = "none" THEN {"some"} ELSE {})
    /\ UNCHANGED <<config, consent, task, userVars, ruleVars>>

\* Mutant: schtasks is run without /f, so that a task of an earlier exam stays.
KeepTask ==
    /\ Go("task", "sid")
    /\ task' = IF task = 0 THEN account ELSE task
    /\ UNCHANGED <<config, consent, app, userVars, ruleVars>>

\* setup_unlock_hook: schtasks /create /f replaces the task.
SetTask ==
    /\ Go("task", "sid")
    /\ task' = account
    /\ UNCHANGED <<config, consent, app, userVars, ruleVars>>

\* The deletion before it carries a redirection that no shell reads; either outcome.
TaskFails ==
    /\ Return("task", 15)
    /\ task' \in {0, task}
    /\ UNCHANGED <<config, consent, app, userVars, ruleVars>>

-----------------------------------------------------------------------------
(* setup_exam_user_wfp.                                                    *)

\* get_user_sid.
GetSid == Go("sid", "engine") /\ UNCHANGED <<userVars, fileVars, ruleVars>>

\* The engine, the security descriptors, the access to the filter container.
OpenEngine == Go("engine", "remove") /\ UNCHANGED <<userVars, fileVars, ruleVars>>

\* No SID, or a failure before the first transaction is committed.
RulesFailEarly ==
    /\ Return("sid", 16) \/ Return("engine", 16) \/ Return("remove", 16)
    /\ UNCHANGED <<userVars, fileVars, ruleVars>>

\* The first transaction: every filter found is deleted, then the sublayer unless it
\* still has one; failures of the deletions are printed and the rest is committed.
RemoveRules ==
    /\ pc = "remove"
    /\ \E kept \in SUBSET DOMAIN filters :
        /\ DOMAIN filters \ Enumerated(filters) \subseteq kept
        /\ filters' = [k \in kept |-> filters[k]]
        /\ sublayer' \in IF kept = {} THEN {FALSE, sublayer} ELSE {sublayer}
        /\ clean' = (clean /\ kept \cap Enumerated(filters) = {} /\ (kept = {} => ~sublayer'))
    /\ pc' = "install"
    /\ UNCHANGED <<host, code, boundVars, userVars, fileVars>>

\* The second transaction: the sublayer, which must not exist, and all filters.
InstallRules ==
    /\ ~sublayer
    /\ Go("install", "done")
    /\ sublayer' = TRUE
    /\ filters' = AddedFilters(account, host)
    /\ UNCHANGED <<userVars, fileVars>>

\* Mutant: the transaction is committed with the filters added until then.
InstallCommitsPart ==
    /\ pc = "install"
    /\ pc' = "done" /\ code' = 16 /\ clean' = FALSE
    /\ sublayer' = TRUE
    /\ filters' = IF sublayer THEN filters ELSE SubSeq(AddedFilters(account, host), 1, 3)
    /\ UNCHANGED <<host, boundVars, userVars, fileVars>>

\* It is aborted as a whole.
InstallFails ==
    /\ pc = "install"
    /\ pc' = "done" /\ code' = 16
    /\ clean' = (clean /\ sublayer)
    /\ UNCHANGED <<host, boundVars, userVars, fileVars, ruleVars>>

-----------------------------------------------------------------------------
Account == AddUser \/ UserExists \/ DeleteUser \/ CleanupProfiles \/ ReaddUser
           \/ AddToGroup \/ InitializeProfile \/ UserFails \/ ProfileFails

Files == OpenConfig \/ WriteConfig \/ SilenceConsent \/ Deploy \/ DeployFails \/ SetTask \/ TaskFails

Rules == GetSid \/ OpenEngine \/ RulesFailEarly \/ RemoveRules \/ InstallRules \/ InstallFails

start_exam == Account \/ Files \/ Rules

Next ==
    \/ Start \/ Reply \/ Exit \/ Reboot
    \/ \E h \in Hosts : Request(h)
    \/ \E c \in {10, 20} : Refuse(c)
    \/ start_exam

Spec == Init /\ [][Next]_vars

-----------------------------------------------------------------------------
(* Properties.                                                             *)

\* What an exam needs of the machine: a fresh account with its profile, a configuration
\* of this request, the application and its task for this account, and rules for it.
Prepared ==
    /\ account # 0 /\ member /\ account \in profiles
    /\ config \in {host, "broken"}
    /\ app = "all" /\ task = account
    /\ sublayer /\ filters = AddedFilters(account, host)

\* Whatever earlier requests, failures and exits have left behind, code 0 means that
\* the machine is prepared for this request, for the account that exists now; of the
\* configuration it only means that it is not an earlier one, unless no call failed.
ZeroMeansPrepared == (pc = "done" /\ code = 0) => Prepared /\ (clean => config = host)

\* A request during which no call fails gets code 0, whatever was left behind: a failed
\* preparation can always be repeated.
CleanRunSucceeds == (pc = "done" /\ clean) => code = 0

\* No step of a request, not even a failed one, leaves the account that exists with a
\* part of the rules: those of its SID are all there or none is.
RulesWhole ==
    (\E k \in DOMAIN filters : filters[k].sid = account) =>
        \E h \in Hosts : filters = AddedFilters(account, h)

\* client.exe and the exam application each have a list of the exam's filters and a way
\* of their own to read the host.  They agree where one hands the machine over to the
\* other: rules that code 0 was returned for pass the application's check for the host
\* it was requested for if that is an address, and never if it is a name.
PreparedIsIntact ==
    (pc = "done" /\ code = 0) =>
        (RulesStatus(sublayer, filters, host) = 0 <=> host \in Addresses)

-----------------------------------------------------------------------------
(* What a message, a comment or the form says, and what does not hold (README.md). *)

\* The user interface is told of an account set up for the exam with the request's
\* configuration.
ZeroMeansConfigured == (pc = "done" /\ code = 0) => config = host

\* The application, started by its task and watching, says "All rules intact" only of
\* rules for the account it runs under.
Watching == pc = "idle" /\ account # 0 /\ task = account /\ app = "all" /\ config \in Hosts

IntactMeansConfined ==
    (Watching /\ RulesStatus(sublayer, filters, config) = 0) =>
        \A k \in DOMAIN filters : filters[k].sid = account
=============================================================================
