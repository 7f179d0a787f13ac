---------------------------- MODULE MC_ClearAuth ----------------------------
(* Instances of ClearAuth for TLC.                                          *)
EXTENDS ClearAuth
=============================================================================
