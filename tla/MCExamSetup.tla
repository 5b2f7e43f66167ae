---------------------------- MODULE MCExamSetup ----------------------------
(* ExamSetup on small instances.                                           *)
EXTENDS ExamSetup
=============================================================================
