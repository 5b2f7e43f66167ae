-------------------------- MODULE MCBackendLocks --------------------------
(***************************************************************************)
(* Small instances of BackendLocks.                                        *)
(***************************************************************************)
EXTENDS BackendLocks, TLC

CONSTANTS s1, s2, t1, d1, alice

OneStudent == {s1, t1}
TwoSessions == {s1, s2}
OneTeacher == {t1}
OnePerson == {alice}
OneDaemon == {d1}
OwnerOfOne == [c \in {s1} |-> alice]
OwnerOfTwo == [c \in {s1, s2} |-> alice]
Nobody == {}
JustRunEnd == {"run_end"}
AllDuties == {"heartbeat", "run_end", "clear"}

\* The sessions of one student differ in nothing.
Symmetry == Permutations(TwoSessions)
=============================================================================
