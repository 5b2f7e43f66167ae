-------------------------- MODULE MCStudentSession --------------------------
(* StudentSession on small instances.                                      *)
EXTENDS StudentSession, TLC

\* Connections differ in nothing but their names.
Symmetry == Permutations(Conn)
=============================================================================
