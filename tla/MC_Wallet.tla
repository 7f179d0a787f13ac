------------------------------ MODULE MC_Wallet ------------------------------
(* The counters of wallet operations over restarts, and transactions with   *)
(* a mint, for TLC.  A behaviour is about one of them (the bound `using`):  *)
(* transactions claim their counters in one step, as WalletCounters shows   *)
(* that they may.                                                           *)
EXTENDS WalletCounters, WalletTransactions, TLC

ASSUME BinaryAssumption == BinaryKeys

VARIABLE using   \* what the behaviour is about: "counters" or "transactions"

OT(c, n) == [counter |-> c, size |-> n]
Parted(a, b) == [p \in Parts |-> IF p = "send" THEN a ELSE b]

\* Automatic counters on either side, on both, and no deterministic output.
AutoRequests == {Parted(OT(0, 1), OT(0, 0)), Parted(OT(0, 2), OT(0, 1)), Parted(OT(0, 0), OT(0, 0))}

\* Manual ranges that touch, overlap, leave a gap or hold no denominations,
\* mixed with automatic counters.
MixedRequests ==
  AutoRequests \cup
  {Parted(OT(1, 1), OT(2, 1)), Parted(OT(2, 1), OT(1, 2)), Parted(OT(4, 1), OT(2, 1)),
   Parted(OT(2, 2), OT(0, 1)), Parted(OT(0, 1), OT(3, 1)), Parted(OT(5, 0), OT(0, 2)),
   Parted(OT(1, 2), OT(0, 0))}

\* Operations are interchangeable, and transactions are: only safety is checked.
WalletSymmetry == Permutations(Ops) \cup Permutations(Transactions)

MCStored == {[id |-> 0, amount |-> 4], [id |-> 1, amount |-> 2]}
MCToken  == {[id |-> -1, amount |-> 4]}

\* Seeded calls and random ones, that keep their preview or not, and melts with and without
\* change.
Call(kinds, det, kept, more) ==
  [kinds |-> kinds, det |-> det, kept |-> kept, includeFees |-> more, sigAll |-> more,
   locked |-> more, change |-> ~more]
MCOptions == {Call({"send", "melt"}, TRUE, TRUE, FALSE), Call({"receive", "mint"}, TRUE, FALSE, TRUE),
              Call({"send", "melt"}, FALSE, FALSE, TRUE), Call({"send", "melt"}, FALSE, TRUE, FALSE)}

MCInit == using \in {"counters", "transactions"} /\ Init /\ TransactionInit

MCNext == \/ using = "counters" /\ Next /\ UNCHANGED <<transactionVars, using>>
          \/ using = "transactions" /\ TransactionNext /\ UNCHANGED <<vars, using>>

MCSpec == MCInit /\ [][MCNext]_<<vars, transactionVars, using>>
=============================================================================
