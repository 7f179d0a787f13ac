-------------------------- MODULE MC_WSConnection --------------------------
(* Instances of WSConnection for TLC.                                       *)
EXTENDS WSConnection
=============================================================================
