-------------------------- MODULE MCTeacherMonitor --------------------------
(***************************************************************************)
(* Small instances of TeacherMonitor.                                      *)
(***************************************************************************)
EXTENDS TeacherMonitor
=============================================================================
