------------------------------ MODULE Outcomes ------------------------------
(* What may stand in place of a value.                                      *)
CONSTANTS Null,      \* null, or nothing yet
          Absent,    \* undefined
          Throws     \* the call throws
=============================================================================
