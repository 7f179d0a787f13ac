---------------------------- MODULE MC_KeyChain -----------------------------
(* Instances of KeyChain for TLC.                                           *)
EXTENDS KeyChain, TLC

CONSTANTS a, b  \* b is the keyset that a wallet prefers
ByName == [k \in Ids |-> IF k = b THEN 1 ELSE 2]

Old     == [k \in Ids |-> IF k = a THEN "active" ELSE "unlisted"]
Rotated == [k \in Ids |-> IF k = a THEN "inactive" ELSE "active"]

\* The mint has a only, or it has replaced a by b; keys of one are held.
Loads == {<<Old, {a}>>, <<Rotated, {a}>>, <<Rotated, {b}>>}

CallSymmetry == Permutations(Implicit)
=============================================================================
