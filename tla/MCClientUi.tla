---------------------------- MODULE MCClientUi ----------------------------
(***************************************************************************)
(* Small instances of ClientUi.                                            *)
(***************************************************************************)
EXTENDS ClientUi
=============================================================================
