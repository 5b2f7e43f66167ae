--------------------------- MODULE FirewallWatch ---------------------------
(***************************************************************************)
(* The exam application's watch over the firewall: rules_monitor_thread    *)
(* looks at the rules once a second and reports a change of its outcome    *)
(* over the connection that websocket_thread keeps, if there is one.       *)
(*                                                                         *)
(* A check is not one step: the rules may change between its calls to the  *)
(* filtering engine, and the address it expects is a global that the other *)
(* thread loads from the configuration.  Frames arrive in order until the  *)
(* connection is lost; the login is taken to be accepted.                  *)
(***************************************************************************)
EXTENDS ExamRules

CONSTANTS
    DefaultHost,  \* the value BACKEND_HOST is initialised with
    Alterations,  \* filters that others put in the place of one of the exam's
    MaxChanges,   \* bound: changes of the rules
    MaxDrops,     \* bound: lost connections and ends of the application
    MaxWire       \* bound: frames on their way

\* The sublayer's filters of the two layers; those of other layers nobody looks at.
FilterRecords ==
    [action : {"permit", "block"}, layer : {"v4", "v6"}, sid : {0, 1},
     ip : Addresses \cup FixedAddresses, dns : BOOLEAN, more : Nat, rest : {"exam", "other"}]

ASSUME AlterationsAssumption == Alterations \subseteq FilterRecords
ASSUME DefaultAssumption == DefaultHost \in Addresses
ASSUME WatchBounds == MaxChanges \in Nat /\ MaxDrops \in Nat /\ MaxWire \in Nat \ {0}

VARIABLES
    \* the machine
    host,          \* backend_host of exam_config.json
    sublayer, filters,
    \* the application
    BACKEND_HOST,
    conn,          \* "off" (nothing loaded), "down", "open" (before the login is sent), "in"
    pc,            \* where rules_monitor_thread stands
    found,         \* ourFilters
    wfpStatus, lastStatus,
    \* the connection and the backend
    wire,          \* frames on their way
    known,         \* the connection has logged in
    told,          \* the code of the last firewall event the backend took, 999 before
    flagged,       \* the codes for which the student has a flag
    \* history and bounds
    modified,      \* the rules were changed since they were set up
    changes, drops

ruleVars == <<host, sublayer, filters, modified, changes>>
watchVars == <<pc, found, wfpStatus, lastStatus>>
connVars == <<BACKEND_HOST, conn, drops>>
backVars == <<known, told, flagged>>
vars == <<ruleVars, watchVars, connVars, wire, backVars>>

-----------------------------------------------------------------------------
Frame == [method : {"login", "event"}, code : {0, -1, -2}]
login == [method |-> "login", code |-> 0]
event(c) == [method |-> "event", code |-> c]

\* Proved in ExamSetupProofs (WatchTypeCorrect).
TypeOK ==
    /\ host \in Hosts /\ sublayer \in BOOLEAN /\ modified \in BOOLEAN
    /\ DOMAIN filters \subseteq 1 .. 6 /\ \A k \in DOMAIN filters : filters[k] \in FilterRecords
    /\ BACKEND_HOST \in {DefaultHost, host}
    /\ conn \in {"off", "down", "open", "in"}
    /\ pc \in {"check", "v4", "v6", "compare", "send"}
    /\ DOMAIN found \subseteq 1 .. 6 /\ \A k \in DOMAIN found : found[k] \in FilterRecords
    /\ wfpStatus \in {0, -1, -2} /\ lastStatus \in {999, 0, -1, -2}
    /\ wire \in Seq(Frame) /\ Len(wire) <= MaxWire
    /\ known \in BOOLEAN /\ told \in {999, 0, -1, -2} /\ flagged \subseteq {-1, -2}
    /\ changes \in 0 .. MaxChanges /\ drops \in 0 .. MaxDrops

\* The application is started by its task after start_exam set the rules for its account.
Init ==
    /\ host \in Hosts
    /\ sublayer = TRUE /\ filters = AddedFilters(1, host)
    /\ BACKEND_HOST = DefaultHost /\ conn = "off"
    /\ pc = "check" /\ found = <<>> /\ wfpStatus = 0 /\ lastStatus = 999
    /\ wire = <<>> /\ known = FALSE /\ told = 999 /\ flagged = {}
    /\ modified = FALSE /\ changes = 0 /\ drops = 0

-----------------------------------------------------------------------------
(* The rules, as others change them.                                       *)

Change ==
    /\ changes < MaxChanges
    /\ changes' = changes + 1
    /\ modified' = TRUE
    /\ UNCHANGED <<host, watchVars, connVars, wire, backVars>>

DeleteFilter(k) ==
    /\ Change
    /\ filters' = [j \in DOMAIN filters \ {k} |-> filters[j]]
    /\ UNCHANGED sublayer

AlterFilter(k, f) ==
    /\ Change
    /\ f # filters[k]
    /\ filters' = [filters EXCEPT ![k] = f]
    /\ UNCHANGED sublayer

DeleteRules ==
    /\ Change
    /\ sublayer
    /\ sublayer' = FALSE /\ filters' = <<>>

\* The privileged client, or another administrator, sets the rules again.
SetRules ==
    /\ Change
    /\ sublayer' = TRUE
    /\ filters' = AddedFilters(1, host)

-----------------------------------------------------------------------------
(* rules_monitor_thread.                                                   *)

Outcome(c) ==
    /\ wfpStatus' = c
    /\ pc' = "send"
    /\ found' = <<>>
    /\ UNCHANGED lastStatus

Others == UNCHANGED <<ruleVars, connVars, wire, backVars>>

\* FwpmEngineOpen0, FwpmSubLayerGetByKey0.
OpenEngine ==
    /\ pc = "check"
    /\ \/ Outcome(-1)
       \/ ~sublayer /\ Outcome(-2)
       \/ sublayer /\ pc' = "v4" /\ UNCHANGED <<found, wfpStatus, lastStatus>>
    /\ Others

\* enumerate_layer.
EnumerateLayer(layer, next) ==
    /\ pc = layer
    /\ \/ Outcome(-1)
       \/ LET ids == {k \in Enumerated(filters) : filters[k].layer = layer}
          IN  /\ found' = [k \in ids \cup DOMAIN found |-> IF k \in ids THEN filters[k] ELSE found[k]]
              /\ pc' = next
              /\ UNCHANGED <<wfpStatus, lastStatus>>
    /\ Others

\* The filters found are matched with those expected for BACKEND_HOST as it is now.
Compare ==
    /\ pc = "compare"
    /\ Outcome(RulesStatus(TRUE, found, BACKEND_HOST))
    /\ Others

Connected == conn \in {"open", "in"}

\* Mutant: only what is wrong is reported.
ReportTrouble ==
    /\ lastStatus' = wfpStatus
    /\ wire' = IF Connected /\ wfpStatus # lastStatus /\ wfpStatus # 0
               THEN Append(wire, event(wfpStatus)) ELSE wire

\* ws_send_event sends nothing without a connection; the status counts as reported.
Report ==
    /\ lastStatus' = wfpStatus
    /\ wire' = IF Connected /\ wfpStatus # lastStatus THEN Append(wire, event(wfpStatus)) ELSE wire

Send ==
    /\ pc = "send"
    /\ Len(wire) < MaxWire
    /\ pc' = "check"
    /\ Report
    /\ UNCHANGED <<found, wfpStatus, ruleVars, connVars, backVars>>

-----------------------------------------------------------------------------
(* websocket_thread and the backend.                                       *)

LoadConfig ==
    /\ conn = "off"
    /\ conn' = "down"
    /\ BACKEND_HOST' = host
    /\ UNCHANGED <<drops, ruleVars, watchVars, wire, backVars>>

\* on_ws_open: the connection counts before the login is sent.
Open ==
    /\ conn = "down"
    /\ conn' = "open"
    /\ UNCHANGED <<BACKEND_HOST, drops, ruleVars, watchVars, wire, backVars>>

ws_send_login ==
    /\ conn = "open"
    /\ Len(wire) < MaxWire
    /\ conn' = "in"
    /\ wire' = Append(wire, login)
    /\ UNCHANGED <<BACKEND_HOST, drops, ruleVars, watchVars, backVars>>

Lose ==
    /\ drops < MaxDrops
    /\ drops' = drops + 1
    /\ wire' = <<>> /\ known' = FALSE
    /\ UNCHANGED <<told, flagged>>

\* on_ws_close, on_ws_fail.
Drop ==
    /\ Connected
    /\ Lose
    /\ conn' = "down"
    /\ UNCHANGED <<BACKEND_HOST, ruleVars, watchVars>>

AppStart ==
    /\ conn' = "off" /\ BACKEND_HOST' = DefaultHost
    /\ pc' = "check" /\ found' = <<>> /\ wfpStatus' = 0 /\ lastStatus' = 999

\* The session ends; the task starts the application with the next one.
Restart == AppStart /\ Lose /\ UNCHANGED ruleVars

\* The machine restarts: sublayer and filters were not added as persistent ones.
Reboot ==
    /\ AppStart /\ Lose
    /\ sublayer' = FALSE /\ filters' = <<>>
    /\ modified' = TRUE
    /\ UNCHANGED <<host, changes>>

\* wsLogin, and wsEvent with CheatingState.Update.
Deliver ==
    /\ wire # <<>>
    /\ wire' = Tail(wire)
    /\ LET f == Head(wire)
       IN  \/ /\ f.method = "login"
              /\ known' = TRUE
              /\ UNCHANGED <<told, flagged>>
           \/ /\ f.method = "event" /\ known
              /\ told' = f.code
              /\ flagged' = flagged \cup ({f.code} \ {0})
              /\ UNCHANGED known
           \/ /\ f.method = "event" /\ ~known
              /\ UNCHANGED backVars
    /\ UNCHANGED <<ruleVars, watchVars, connVars>>

-----------------------------------------------------------------------------
rules_monitor_thread ==
    \/ OpenEngine \/ EnumerateLayer("v4", "v6") \/ EnumerateLayer("v6", "compare")
    \/ Compare \/ Send

websocket_thread == LoadConfig \/ Open \/ ws_send_login

Environment ==
    \/ \E k \in DOMAIN filters :
        \/ DeleteFilter(k)
        \/ \E f \in Alterations : AlterFilter(k, f)
    \/ DeleteRules \/ SetRules
    \/ Drop \/ Restart \/ Reboot

Next == rules_monitor_thread \/ websocket_thread \/ Deliver \/ Environment

Spec == Init /\ [][Next]_vars

\* The rules alone, with nobody looking.
RulesSpec == Init /\ [][Environment]_vars

\* The application's threads run, the backend is there, and frames arrive.
FairSpec == Spec /\ WF_vars(rules_monitor_thread) /\ WF_vars(websocket_thread) /\ WF_vars(Deliver)

-----------------------------------------------------------------------------
(* Properties.                                                             *)

\* What the check sees of a filter: of the IPv6 layer whether it has just one condition,
\* of the other its conditions on address, protocol and port, and whether it has a user.
Kind(f) ==
    IF f.layer = "v6"
    THEN [action |-> f.action, layer |-> "v6", fit |-> numFilterConditions(f) = 1, ip |-> "none", dns |-> FALSE]
    ELSE [action |-> f.action, layer |-> "v4", fit |-> f.sid # 0, ip |-> f.ip, dns |-> f.dns]

SameKinds(f, g) ==
    \A r \in {Kind(f[k]) : k \in DOMAIN f} \cup {Kind(g[k]) : k \in DOMAIN g} :
        Cardinality({k \in DOMAIN f : Kind(f[k]) = r}) = Cardinality({k \in DOMAIN g : Kind(g[k]) = r})

\* For a backend given by its address, the application's list of expected filters and
\* its matching in order accept just those sets of filters that have as many of each
\* kind as the set the privileged client installs, duplicates included.
CheckExact ==
    host \in Addresses =>
        (RulesStatus(sublayer, filters, host) = 0
            <=> sublayer /\ SameKinds(filters, AddedFilters(1, host)))

Now == RulesStatus(sublayer, filters, BACKEND_HOST)

\* While the application is logged in, a state of the rules that differs from the last
\* one it has noted and stays is what the backend comes to be told, unless the engine
\* cannot be asked or the connection is lost.
ChangeHeard ==
    \A s \in {0, -2} :
        (conn = "in" /\ pc = "check" /\ Now = s /\ lastStatus # s)
            ~> (told = s \/ conn # "in" \/ Now # s \/ (pc = "send" /\ wfpStatus = -1))

-----------------------------------------------------------------------------
(* What a message, a comment or the form says, and what does not hold (README.md). *)

\* "All rules intact" is said of the rules as they were installed.
IntactMeansInstalled == RulesStatus(sublayer, filters, host) = 0 => filters = AddedFilters(1, host)

\* The flag "firewall rules were modified" is raised for rules that were modified.
TamperedMeansModified == -2 \in flagged => modified

\* The report "sublayer_missing" is made of a sublayer that is missing.
MissingMeansMissing == -1 \in flagged => modified

\* Rules that the application has noted as tampered, and that stay so, are made known
\* to the backend once it stays connected.
TamperingTold == (lastStatus = -2 /\ conn = "in") ~> (told = -2 \/ lastStatus # -2 \/ conn # "in")
=============================================================================
