---------------------------- MODULE MC_BlindAuth ----------------------------
(* Instances of BlindAuth for TLC.                                          *)
EXTENDS BlindAuth
=============================================================================
