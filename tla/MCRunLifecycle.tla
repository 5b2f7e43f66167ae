--------------------------- MODULE MCRunLifecycle ---------------------------
(* RunLifecycle on small instances.                                        *)
EXTENDS RunLifecycle

CONSTANTS h1, h2

\* One handler is sent every kind of request, the other what overlaps most.
EveryAndSome == [h \in {h1, h2} |-> IF h = h1 THEN AllKinds ELSE {"register", "delete_run"}]
=============================================================================
