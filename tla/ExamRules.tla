----------------------------- MODULE ExamRules -----------------------------
(***************************************************************************)
(* The firewall rules of an exam: the filters the privileged client adds   *)
(* to the exam's sublayer of the Windows Filtering Platform, and the check *)
(* by which the exam application tells whether they are still there.       *)
(*                                                                         *)
(* The filters of the sublayer are a function from their ids, which grow   *)
(* in the order of their creation, to records.  An address is a model      *)
(* value or one of the fixed ones below.                                   *)
(***************************************************************************)
EXTENDS Integers, Sequences, FiniteSets, FiniteSetsExt

CONSTANTS
    Addresses,  \* backend hosts given as an IPv4 address
    Names,      \* backend hosts given by a name
    Room        \* filters of the sublayer among the first 100 of a layer

FixedAddresses == {"localhost", "dns1", "dns2", "zero", "broadcast", "none"}

ASSUME HostsAssumption ==
    /\ Addresses \cap Names = {}
    /\ (Addresses \cup Names) \cap {"none", "broken", "zero", "broadcast"} = {}

ASSUME RoomAssumption == Room \in Nat

Hosts == Addresses \cup Names

-----------------------------------------------------------------------------
\* What inet_addr makes of a host: the client takes an invalid one for address 0,
\* the application compares with INADDR_NONE, which is 255.255.255.255.
ClientAddress(host) == IF host \in Addresses THEN host ELSE "zero"
AppAddress(host) == IF host \in Addresses THEN host ELSE "broadcast"

\* sid: the user condition (0: no such condition), ip: the address condition,
\* dns: the conditions on protocol and port, more: how many conditions there are under
\* other keys, rest: weight, flags and match types, as the exam's own filters have them
\* or others.
Filter(action, layer, sid, ip, dns) ==
    [action |-> action, layer |-> layer, sid |-> sid, ip |-> ip, dns |-> dns,
     more |-> 0, rest |-> "exam"]

\* The filters of setup_exam_user_wfp, in order.
AddedFilters(sid, host) ==
    <<Filter("permit", "v4", sid, ClientAddress(host), FALSE),
      Filter("permit", "v4", sid, "localhost", FALSE),
      Filter("permit", "v4", sid, "dns1", TRUE),
      Filter("permit", "v4", sid, "dns2", TRUE),
      Filter("block", "v4", sid, "none", FALSE),
      Filter("block", "v6", sid, "none", FALSE)>>

Expected(action, ip, dns, v6) == [action |-> action, ip |-> ip, dns |-> dns, isIPv6Block |-> v6]

\* Mutant: the check knows of one name server, the setup of two.
get_expected_filters_one_server(host) ==
    <<Expected("permit", AppAddress(host), FALSE, FALSE),
      Expected("permit", "localhost", FALSE, FALSE),
      Expected("permit", "dns1", TRUE, FALSE),
      Expected("block", "none", FALSE, FALSE),
      Expected("block", "none", FALSE, TRUE)>>

get_expected_filters(host) ==
    <<Expected("permit", AppAddress(host), FALSE, FALSE),
      Expected("permit", "localhost", FALSE, FALSE),
      Expected("permit", "dns1", TRUE, FALSE),
      Expected("permit", "dns2", TRUE, FALSE),
      Expected("block", "none", FALSE, FALSE),
      Expected("block", "none", FALSE, TRUE)>>

numFilterConditions(f) ==
    (IF f.sid = 0 THEN 0 ELSE 1) + (IF f.ip = "none" THEN 0 ELSE 1) + (IF f.dns THEN 2 ELSE 0) + f.more

\* Mutant: the conditions on protocol and port are not looked at.
validate_filter_any_port(f, e) ==
    /\ f.action = e.action
    /\ IF e.isIPv6Block THEN f.layer = "v6" /\ numFilterConditions(f) = 1
                        ELSE f.layer = "v4" /\ f.sid # 0 /\ f.ip = e.ip

\* Of an IPv6 block only the number of conditions is looked at; of a filter of the other
\* layer that it has a user condition, not whose, and neither "more" nor "rest".
validate_filter(f, e) ==
    /\ f.action = e.action
    /\ IF e.isIPv6Block THEN f.layer = "v6" /\ numFilterConditions(f) = 1
                        ELSE f.layer = "v4" /\ f.sid # 0 /\ f.ip = e.ip /\ f.dns = e.dns

\* Mutant: the filters of the IPv6 layer are forgotten.
EnumeratedV4(filters) == {k \in DOMAIN filters : filters[k].layer = "v4"}

\* The ids that one enumeration of 100 filters per layer returns.
Enumerated(filters) ==
    LET ids(l) == {k \in DOMAIN filters : filters[k].layer = l}
        first(l) == {k \in ids(l) : Cardinality({j \in ids(l) : j < k}) < Room}
    IN  first("v4") \cup first("v6")

\* Of the filters left, an expected one takes the first that is valid for it.
Take(filters, left, e) ==
    LET valid == {k \in left : validate_filter(filters[k], e)}
    IN  left \ (IF valid = {} THEN {} ELSE {Min(valid)})

\* Each expected filter in turn takes one; what is left over when one finds none is never
\* empty.  (The union over a single set makes TLC evaluate it once.)
Unmatched(filters, expected) ==
    LET left[i \in 0 .. Len(expected)] ==
            IF i = 0 THEN Enumerated(filters)
            ELSE UNION {Take(filters, before, expected[i]) : before \in {left[i - 1]}}
    IN  left[Len(expected)]

\* check_rules_intact, with the engine open.
RulesStatus(sublayer, filters, host) ==
    LET expected == get_expected_filters(host)
    IN  IF /\ sublayer
           /\ Cardinality(Enumerated(filters)) = Len(expected)
           /\ Unmatched(filters, expected) = {}
        THEN 0 ELSE -2
=============================================================================
