------------------------------ MODULE Selection ------------------------------
(***************************************************************************)
(* Coin selection: selectProofsRGLI, a randomized greedy selection with a  *)
(* local improvement and a last trim, and selectProofsRotating, which      *)
(* first spends the stalest keysets and delegates the rest of the target.  *)
(*                                                                         *)
(* Every shuffle is a choice, so all orders of a trial are explored.  A    *)
(* call is a list of attempts: a pool of proofs, what to select from it    *)
(* and the proofs forced besides.                                          *)
(***************************************************************************)
EXTENDS Integers, Sequences, FiniteSets, FiniteSetsExt, SequencesExt

CONSTANTS Universe,    \* the proofs there are, with amount and keyset
          FeePpk,      \* FeePpk[k]: input_fee_ppk of a keyset
          Staleness,   \* Staleness[k]: its bucket, the lower the staler
          UnitKeysets, \* the keysets of the wallet's unit
          Targets,     \* amounts to select
          Largest,     \* bound on the proofs of a call
          MaxTrials,   \* MAX_TRIALS
          Undefined    \* undefined

ASSUME TrialsAssumption == MaxTrials \in Nat \ {0} /\ Targets \subseteq Nat
ASSUME UniverseAssumption ==
  IsFiniteSet(Universe) /\ \A p \in Universe : Staleness[p.keyset] \in Int
ASSUME FeesAssumption == \A p \in Universe : FeePpk[p.keyset] \in Nat /\ p.amount \in Nat

VARIABLES
  pick,      \* the call: target, includeFees, exactMatch, rotating, repeated (a duplicate)
  coins,     \* its proofs
  attempts,  \* the attempts that are left
  phase,     \* "start", "attempt", "greedy", "improve", "trim", "judge", "end", "failed"
  chosen,    \* S
  visit,     \* what a loop has not visited yet
  best,      \* bestSubset
  trial,     \* the trial of this attempt
  answer     \* what is returned: the proofs to send, or Undefined

selectionVars == <<pick, coins, attempts, phase, chosen, visit, best, trial, answer>>
-----------------------------------------------------------------------------
(* Sums, with or without the one ceil of the fees.                          *)

Gross(P) == MapThenSumSet(LAMBDA p : p.amount, P)
Ppk(P)   == MapThenSumSet(LAMBDA p : FeePpk[p.keyset], P)
Net(P)   == Gross(P) - (IF pick.includeFees THEN (Ppk(P) + 999) \div 1000 ELSE 0)

\* What a proof is worth on its own, its fee rounded down.
ExFee(p) == p.amount - (IF pick.includeFees THEN FeePpk[p.keyset] \div 1000 ELSE 0)

Delta(P, target) == 1000 * Gross(P) + Ppk(P) - 1000 * target

Economical(pool) == IF pick.includeFees THEN {p \in pool : ExFee(p) > 0} ELSE pool

\* Variant: the bound of an exact match without the rounding of its one fee.
NotTooLargeTight(E, target) ==
  LET bigger == {ExFee(p) : p \in {p \in E : ExFee(p) >= target}}
  IN IF pick.exactMatch THEN {p \in E : ExFee(p) <= target}
     ELSE IF bigger = {} THEN E ELSE {p \in E : ExFee(p) <= Min(bigger)}

\* Proofs too large to be useful are removed.
NotTooLarge(E, target) ==
  LET bigger == {ExFee(p) : p \in {p \in E : ExFee(p) >= target}}
  IN IF pick.exactMatch THEN {p \in E : ExFee(p) <= target + 1}
     ELSE IF bigger = {} THEN E ELSE {p \in E : ExFee(p) <= Min(bigger)}

Attempt == Head(attempts)
Spendable == NotTooLarge(Economical(Attempt.pool), Attempt.target)
MaxOver   == IF Attempt.target < Net(Spendable) THEN Attempt.target ELSE Net(Spendable)

Acceptable(P) ==
  \/ Net(P) = Attempt.target
  \/ ~pick.exactMatch /\ Net(P) >= Attempt.target /\ Net(P) <= MaxOver
-----------------------------------------------------------------------------
(* A call and its attempts.                                                 *)

SelectionInit ==
  /\ pick \in [target : Targets, includeFees : BOOLEAN, exactMatch : BOOLEAN,
               rotating : BOOLEAN, repeated : BOOLEAN]
  /\ coins \in {P \in SUBSET Universe : Cardinality(P) \in 1..Largest}
  /\ attempts = <<>> /\ phase = "start" /\ chosen = {} /\ visit = {}
  /\ best = Undefined /\ trial = 0 /\ answer = Undefined

Plain == [pool |-> coins, target |-> pick.target, forced |-> {}]

Bucket(k)  == {p \in coins : Staleness[p.keyset] = k}
Upto(k)    == {p \in coins : Staleness[p.keyset] <= k}
BucketKeys == {Staleness[p.keyset] : p \in coins}

\* Whole buckets are forced while they stay below the target; the first that does not is
\* selected from, then that one and the fresher ones, then everything.
RotatingAttempts ==
  LET boundary == {k \in BucketKeys : \A j \in BucketKeys : Net(Upto(j)) > pick.target => k <= j}
      over == {k \in boundary : Net(Upto(k)) > pick.target}
  IN IF over = {} THEN <<Plain>>
     ELSE LET k == Min(over)
              forced == Upto(k) \ Bucket(k)
              Residual(pool) == [pool |-> pool, target |-> pick.target - Net(forced), forced |-> forced]
          IN IF coins = Upto(k) THEN <<Residual(Bucket(k)), Plain>>
             ELSE <<Residual(Bucket(k)), Residual(coins \ forced), Plain>>

\* The walk ends where forced buckets hit the target exactly.
ForcedExactly == {k \in BucketKeys : /\ Net(Upto(k)) = pick.target
                                     /\ \A j \in BucketKeys : j < k => Net(Upto(j)) < pick.target}

\* Proofs of other units and duplicates throw; with nothing to rotate there is one attempt.
StartSelection ==
  /\ phase = "start"
  /\ IF pick.repeated \/ \E p \in coins : p.keyset \notin UnitKeysets
     THEN phase' = "failed" /\ UNCHANGED <<attempts, answer>>
     ELSE IF pick.rotating /\ pick.target # 0 /\ Cardinality(BucketKeys) > 1
     THEN IF ForcedExactly # {}
          THEN /\ answer' = Upto(Min(ForcedExactly)) /\ phase' = "end"
               /\ UNCHANGED attempts
          ELSE /\ attempts' = RotatingAttempts /\ phase' = "attempt" /\ UNCHANGED answer
     ELSE attempts' = <<Plain>> /\ phase' = "attempt" /\ UNCHANGED answer
  /\ UNCHANGED <<pick, coins, chosen, visit, best, trial>>

\* An attempt has nothing to send (or, for an exact match, took too long): the next one, if
\* there is one.
Gives(send) ==
  IF send = {} /\ Len(attempts) > 1
  THEN attempts' = Tail(attempts) /\ phase' = "attempt" /\ UNCHANGED answer
  ELSE answer' = send \cup (IF send = {} THEN {} ELSE Attempt.forced)
       /\ phase' = "end" /\ UNCHANGED attempts

\* Variant: forced and selected proofs are taken together unchecked.
MergedUnchecked(send) == TRUE

\* Forced and selected proofs pay one fee together, which must still fit.
MergedFits(send) ==
  LET net == Net(send \cup Attempt.forced)
  IN IF pick.exactMatch THEN net = pick.target ELSE net >= pick.target

\* An attempt begins: nothing is selected if the spendable proofs do not cover the target.
StartAttempt ==
  /\ phase = "attempt"
  /\ IF Attempt.target = 0 \/ Attempt.target > Net(Spendable)
     THEN Gives({}) /\ UNCHANGED <<chosen, visit, trial>>
     ELSE phase' = "greedy" /\ chosen' = {} /\ visit' = Spendable /\ trial' = 1
          /\ UNCHANGED <<attempts, answer>>
  /\ best' = Undefined /\ UNCHANGED <<pick, coins>>
-----------------------------------------------------------------------------
(* A trial.                                                                 *)

\* Phase 1: proofs in any order up to the target, or past it.
Greedy ==
  /\ phase = "greedy"
  /\ \E p \in visit :
       LET net == Net(chosen \cup {p})
           ends == \/ pick.exactMatch /\ net > Attempt.target
                   \/ net >= Attempt.target \/ visit = {p}
       IN /\ chosen' = IF pick.exactMatch /\ net > Attempt.target THEN chosen ELSE chosen \cup {p}
          /\ visit' = IF ends THEN chosen' ELSE visit \ {p}
          /\ phase' = IF ends THEN "improve" ELSE "greedy"
  /\ UNCHANGED <<pick, coins, attempts, best, trial, answer>>

\* The unchosen proofs that come closest to what is missing without p.
Replacements(p) ==
  LET missing == Attempt.target - Net(chosen \ {p})
      others == Spendable \ chosen
      fit == IF pick.exactMatch THEN {q \in others : ExFee(q) <= missing}
             ELSE {q \in others : ExFee(q) >= missing}
      Closest(q) == \A r \in fit : IF pick.exactMatch THEN ExFee(r) <= ExFee(q)
                                   ELSE ExFee(r) >= ExFee(q)
  IN {q \in fit : /\ Closest(q)
                  /\ pick.exactMatch => ExFee(q) > ExFee(p)
                  /\ missing >= 0 \/ ExFee(q) <= ExFee(p)}

\* Phase 2: each position once, in any order, until the selection is acceptable.
Improve ==
  /\ phase = "improve" /\ visit # {} /\ ~Acceptable(chosen)
  /\ \E p \in visit :
       /\ visit' = visit \ {p}
       /\ IF Replacements(p) = {} THEN UNCHANGED chosen
          ELSE \E q \in Replacements(p) : chosen' = (chosen \ {p}) \cup {q}
  /\ UNCHANGED <<pick, coins, attempts, phase, best, trial, answer>>

\* The selection of the trial, if it reaches the target, becomes the best one or not.
Compare ==
  /\ phase = "improve" /\ (visit = {} \/ Acceptable(chosen))
  /\ IF /\ Net(chosen) >= Attempt.target
        /\ best = Undefined \/ Delta(chosen, Attempt.target) < Delta(best, Attempt.target)
     THEN best' = chosen /\ visit' = chosen /\ phase' = "trim"
     ELSE phase' = "judge" /\ visit' = {} /\ UNCHANGED best
  /\ UNCHANGED <<pick, coins, attempts, chosen, trial, answer>>

\* Phase 3: from the smallest proof on, what is not needed is left out.
Trim ==
  /\ phase = "trim"
  /\ \E p \in visit :
       /\ \A q \in visit : ExFee(p) <= ExFee(q)
       /\ IF /\ Cardinality(visit) > 1 /\ Delta(best, Attempt.target) > 0
             /\ Net(visit \ {p}) >= Attempt.target
          THEN best' = visit \ {p} /\ visit' = visit \ {p} /\ UNCHANGED phase
          ELSE phase' = "judge" /\ visit' = {} /\ UNCHANGED best
  /\ UNCHANGED <<pick, coins, attempts, chosen, trial, answer>>

\* The attempt ends with an acceptable selection, after the last trial or when its time is
\* up; otherwise another trial starts.
Judge ==
  /\ phase = "judge"
  /\ LET send == IF best = Undefined THEN {} ELSE best
         fits == IF Attempt.forced = {} \/ send = {} THEN send
                 ELSE IF MergedFits(send) THEN send ELSE {}
     IN \/ /\ trial = MaxTrials \/ (best # Undefined /\ Acceptable(best))
           /\ Gives(fits) /\ UNCHANGED <<chosen, visit, trial>>
        \/ /\ ~(best # Undefined /\ Acceptable(best)) /\ ~pick.exactMatch
           /\ Gives(fits) /\ UNCHANGED <<chosen, visit, trial>>
        \/ /\ ~(best # Undefined /\ Acceptable(best)) /\ pick.exactMatch
           /\ IF Len(attempts) > 1 THEN Gives({}) ELSE
                phase' = "failed" /\ UNCHANGED <<attempts, answer>>
           /\ UNCHANGED <<chosen, visit, trial>>
        \/ /\ trial < MaxTrials /\ ~(best # Undefined /\ Acceptable(best))
           /\ phase' = "greedy" /\ chosen' = {} /\ visit' = Spendable /\ trial' = trial + 1
           /\ UNCHANGED <<attempts, answer>>
  /\ UNCHANGED <<pick, coins, best>>

SelectionNext == StartSelection \/ StartAttempt \/ Greedy \/ Improve \/ Compare \/ Trim \/ Judge
SelectionSpec == SelectionInit /\ [][SelectionNext]_selectionVars
-----------------------------------------------------------------------------
(* Properties.                                                              *)

Selected == phase = "end"

\* Whatever is selected, in whatever order the shuffles come, is made of the proofs given and
\* pays the target and its own fees, to the sat if the match is exact.
SelectionCovers ==
  (Selected /\ answer # {}) =>
    /\ answer \subseteq coins
    /\ IF pick.exactMatch THEN Net(answer) = pick.target ELSE Net(answer) >= pick.target

\* An exact match loses no solution by leaving out proofs: each set of proofs worth their
\* fees that nets the target survives the removal of those too large.
ExactKeepsSolutions ==
  (phase = "greedy" /\ pick.exactMatch) =>
    \A P \in SUBSET Economical(Attempt.pool) :
      Net(P) = Attempt.target => P \subseteq Spendable
=============================================================================
