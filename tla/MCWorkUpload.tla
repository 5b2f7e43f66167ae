---------------------------- MODULE MCWorkUpload ----------------------------
(* WorkUpload on small instances.                                          *)
EXTENDS WorkUpload
=============================================================================
