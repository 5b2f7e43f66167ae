-------------------------- MODULE MCFirewallWatch --------------------------
(* FirewallWatch on small instances.                                       *)
EXTENDS FirewallWatch

LocalHost == Filter("permit", "v4", 1, "localhost", FALSE)
BlockV6 == Filter("block", "v6", 1, "none", FALSE)

\* What one of the exam's filters becomes: one that permits the first name server on any
\* port, a second one for the local host, one that permits the whole IPv6 layer, and two
\* that the check takes for the exam's: a filter with a further condition and another
\* weight, and a block of IPv6 whose single condition is not the user.
SomeAlterations ==
    {Filter("permit", "v4", 1, "dns1", FALSE), LocalHost, [BlockV6 EXCEPT !.action = "permit"],
     [LocalHost EXCEPT !.more = 1, !.rest = "other"], [BlockV6 EXCEPT !.sid = 0, !.more = 1]}
=============================================================================
