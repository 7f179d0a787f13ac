------------------------------- MODULE Amounts -------------------------------
(***************************************************************************)
(* Amounts and what the wallet computes with them: the checked arithmetic  *)
(* of Amount, the split of a total into the denominations of a keyset, the *)
(* denominations worth keeping, input fees, the outputs that pay a         *)
(* receiver's fee, and the number of blank outputs of a melt.              *)
(*                                                                         *)
(* A keyset is the set of its denominations; a split is a sequence of them.*)
(***************************************************************************)
EXTENDS Integers, Sequences, FiniteSets, SequencesExt, Outcomes

CONSTANTS MaxAmount,        \* U64_MAX
          MaxSafe,          \* Number.MAX_SAFE_INTEGER
          MaxSplitOutputs,  \* MAX_SPLIT_OUTPUTS
          MaxFeeSteps       \* maxIters of receiveFeeAmounts

ASSUME AmountBounds == MaxAmount \in Nat /\ MaxSafe \in Nat /\ MaxSplitOutputs \in Nat /\ MaxFeeSteps \in Nat
ASSUME ThrowsAssumption == Throws \notin Nat /\ Throws \notin Seq(Nat)
-----------------------------------------------------------------------------
(* Amount: every result is checked against the ceiling, intermediates are not. *)

AmountOf(n) == IF n \in 0..MaxAmount THEN n ELSE Throws

\* Amount.from: the inputs are bigints, numbers, strings and anything else; `plain` says
\* that a number is a finite integer, a string a canonical decimal.
From(x) ==
  IF x.type = "other" \/ ~x.plain \/ (x.type = "number" /\ x.value > MaxSafe) THEN Throws
  ELSE AmountOf(x.value)

\* toNumber refuses what a number cannot hold; toString and toJSON hold everything.
ToNumber(a) == IF a > MaxSafe THEN Throws ELSE [type |-> "number", plain |-> TRUE, value |-> a]
ToDecimal(a) == [type |-> "string", plain |-> TRUE, value |-> a]

Sum2(a, b)       == AmountOf(a + b)
Subtract(a, b)   == AmountOf(a - b)
MultiplyBy(a, b) == AmountOf(a * b)
DivideBy(a, d)   == IF d = 0 THEN Throws ELSE a \div d
Modulo(a, d)     == IF d = 0 THEN Throws ELSE a % d

CeilPercent(a, n, d)  == IF d = 0 THEN Throws ELSE AmountOf((a * n + (d - 1)) \div d)
FloorPercent(a, n, d) == IF d = 0 THEN Throws ELSE AmountOf((a * n) \div d)
ScaledBy(a, n, d) ==
  IF n = 0 THEN 0 ELSE IF d = 0 THEN Throws ELSE AmountOf((2 * a * n + d) \div (2 * d))

InRange(a, lo, hi) == IF lo > hi THEN Throws ELSE a \in lo..hi
Clamp(a, lo, hi) ==
  IF lo > hi THEN Throws ELSE IF a < lo THEN lo ELSE IF a > hi THEN hi ELSE a

CompareTo(a, b) == IF a < b THEN -1 ELSE IF a > b THEN 1 ELSE 0

\* AmountWithUnit: operations on two of them need the same unit, those with a factor keep
\* it, and a sum has the unit asked for or the one of its first value.
WithUnit(a, unit) == IF a = Throws \/ unit = "" THEN Throws ELSE [amount |-> a, unit |-> unit]
SumOfUnits(x, y)     == IF x.unit # y.unit THEN Throws ELSE WithUnit(Sum2(x.amount, y.amount), x.unit)
ScaledUnit(x, n, d)  == WithUnit(ScaledBy(x.amount, n, d), x.unit)
ComparedUnits(x, y)  == IF x.unit # y.unit THEN Throws ELSE CompareTo(x.amount, y.amount)
ClampUnits(x, lo, hi) ==
  IF {x.unit, lo.unit, hi.unit} # {x.unit} THEN Throws
  ELSE WithUnit(Clamp(x.amount, lo.amount, hi.amount), x.unit)
SumUnits(s, unit) ==
  LET units == {s[i].unit : i \in DOMAIN s} \cup ({unit} \ {""})
  IN IF Cardinality(units) # 1 THEN Throws
     ELSE WithUnit(AmountOf(FoldFunction(LAMBDA x, sum : x.amount + sum, 0, s)), CHOOSE u \in units : TRUE)

AmountSum(s) == LET sum[i \in 0..Len(s)] == IF i = 0 THEN 0 ELSE sum[i - 1] + s[i] IN sum[Len(s)]
-----------------------------------------------------------------------------
(* Splits.                                                                  *)

Desc(S) == [i \in 1..Cardinality(S) |->
              CHOOSE a \in S : Cardinality({b \in S : b > a}) = i - 1]
Asc(S)  == Reverse(Desc(S))
Sorted(s) == SortSeq(s, LAMBDA a, b : a < b)

Repeat(a, n) == [i \in 1..n |-> a]

\* The loop of splitAmount: as many of each denomination, from the largest, as fit.
Fill(value, keys, given) ==
  LET desc == Desc(keys \ {0})
      taken[i \in 0..Len(desc)] ==
        IF i = 0 THEN [rest |-> value, out |-> given]
        ELSE LET acc   == taken[i - 1]
                 count == acc.rest \div desc[i]
                 left  == MaxSplitOutputs - Len(acc.out)
             IN IF acc.rest = 0 \/ acc.out = Throws THEN acc
                ELSE IF left <= 0 \/ count > left THEN [acc EXCEPT !.out = Throws]
                ELSE [rest |-> acc.rest - desc[i] * count,
                      out |-> acc.out \o Repeat(desc[i], count)]
      end == taken[Len(desc)]
  IN IF keys = {} \/ end.rest # 0 THEN Throws ELSE end.out

\* splitAmount, without its optional order.  Zeros are only kept when all is zero: such
\* outputs are the blanks of a restore or a melt.
SplitAmount(value, keys, split) ==
  LET positive == SelectSeq(split, LAMBDA a : a # 0)
      given    == AmountSum(positive)
  IN IF split = <<>> THEN Fill(value, keys, <<>>)
     ELSE IF value = 0 /\ given = 0 THEN split
     ELSE IF given > value \/ ~(ToSet(positive) \subseteq keys) THEN Throws
     ELSE IF given = value THEN positive
     ELSE Fill(value - given, keys, positive)

\* How many more proofs of a denomination are wanted.
Wanted(have, d, target) ==
  LET n == Cardinality({i \in DOMAIN have : have[i] = d}) IN IF n < target THEN target - n ELSE 0

\* As many as are wanted and fit.
TakeKept(rest, wanted, d) == IF rest \div d < wanted THEN rest \div d ELSE wanted

\* getKeepAmounts: from the smallest denomination, enough of each to reach the target
\* count beside the proofs we have, as long as they fit; the rest is split.  The first one
\* that does not fit is added before it is compared, which must not pass the ceiling.
KeepAmounts(have, amount, keys, target) ==
  LET asc == Asc(keys)
      want[i \in 0..Len(asc)] ==
        IF i = 0 THEN <<>>
        ELSE LET acc == want[i - 1]
                 rest == amount - AmountSum(acc)
                 n == Wanted(have, asc[i], target)
             IN IF acc = Throws \/ (rest \div asc[i] < n /\ AmountSum(acc) + (rest \div asc[i] + 1) * asc[i] > MaxAmount)
                THEN Throws
                ELSE acc \o Repeat(asc[i], TakeKept(rest, n, asc[i]))
      kept == want[Len(asc)]
      rest == IF kept = Throws THEN Throws
              ELSE IF AmountSum(kept) = amount THEN <<>>
              ELSE IF AmountSum(kept) > amount THEN Throws
              ELSE SplitAmount(amount - AmountSum(kept), keys, <<>>)
  IN IF rest = Throws THEN Throws ELSE Sorted(kept \o rest)
-----------------------------------------------------------------------------
(* Fees.                                                                    *)

\* getFeesForKeyset, and getFeesForProofs of proofs with these fees.
FeesForKeyset(n, ppk) == CeilPercent(n, ppk, 1000)
FeesForProofs(ppks)   == (AmountSum(ppks) + 999) \div 1000

\* Variant: the fee of the outputs alone, without that of the outputs that pay it.
ReceiveFeeOnce(n, keys, ppk) == SplitAmount(FeesForKeyset(n, ppk), keys, <<>>)

\* receiveFeeAmounts: the fee is raised by one until it also covers the outputs it adds.
ReceiveFeeAmounts(n, keys, ppk) ==
  LET first == FeesForKeyset(n, ppk)
      tries == {[fee |-> fee, split |-> SplitAmount(fee, keys, <<>>)] : fee \in first..(first + MaxFeeSteps + 1)}
      Due(try) == IF try.fee > MaxAmount \/ try.split = Throws THEN Throws
                  ELSE FeesForKeyset(n + Len(try.split), ppk)
      stops == {try \in tries : Due(try) = Throws \/ Due(try) <= try.fee}
      last  == CHOOSE try \in stops : \A other \in stops : try.fee <= other.fee
  IN IF first = Throws \/ stops = {} \/ Due(last) = Throws THEN Throws ELSE last.split

\* The receiver's fee on top of an amount; their sum must not pass the ceiling.
OnTop(amount, split, fees) ==
  IF split = Throws \/ fees = Throws \/ amount + AmountSum(fees) > MaxAmount
  THEN Throws ELSE split \o fees

\* configureOutputs for an output type that is not custom: the denominations asked for,
\* or those worth keeping, filled up, and the receiver's fee on top.
ConfigureOutputs(amount, keys, denominations, includeFees, ppk, have, target) ==
  LET asked == IF denominations = <<>> /\ have # <<>>
               THEN KeepAmounts(have, amount, keys, target) ELSE denominations
      split == IF asked = Throws THEN Throws ELSE SplitAmount(amount, keys, asked)
      fees  == IF split = Throws \/ ~includeFees THEN <<>>
               ELSE ReceiveFeeAmounts(Len(split), keys, ppk)
  IN OnTop(amount, split, fees)

\* configureOutputs for a custom type: its total is the amount and no fee is added.
CustomOutputs(amount, data, includeFees) ==
  IF includeFees \/ AmountSum(data) # amount THEN Throws ELSE data

FeesToInclude(amount, keys, ppk, nOutputs) ==
  LET fees == ReceiveFeeAmounts(nOutputs, keys, ppk) IN IF fees = Throws THEN Throws ELSE AmountSum(fees)

MaxSpendableAfterFees(amounts, ppks, reserve) ==
  LET overhead == FeesForProofs(ppks) + reserve
  IN IF overhead >= AmountSum(amounts) THEN 0 ELSE AmountSum(amounts) - overhead
-----------------------------------------------------------------------------
(* Blanks.                                                                  *)

\* The powers of two up to the n-th.
Powers(n) == LET power[k \in 0..n] == IF k = 0 THEN 1 ELSE 2 * power[k - 1] IN power

\* ceilLog2: the length in binary of n - 1.
CeilLog2(n) == Cardinality({k \in 0..n : Powers(n)[k] <= n - 1})

\* Variant: at most one blank instead of at least one.
BlankCountAtMost(reserve) == IF CeilLog2(reserve) > 1 THEN 1 ELSE CeilLog2(reserve)

\* The number of blank outputs prepareMelt makes for an overpaid amount.
BlankCount(reserve) == IF CeilLog2(reserve) > 1 THEN CeilLog2(reserve) ELSE 1
-----------------------------------------------------------------------------
(* What the calculations promise.                                           *)

\* The outputs for an amount are denominations of the keyset and worth the amount; with the
\* receiver's fee included, the receiver nets it after paying the fee of all of them, and one
\* sat less of fee would not do.  They exist if the keyset has a coin of 1 and the amount in
\* such coins would not be too many.
SplitIsExact(amount, keys, denominations, includeFees, ppk, have, target) ==
  LET out  == ConfigureOutputs(amount, keys, denominations, includeFees, ppk, have, target)
      bare == ConfigureOutputs(amount, keys, denominations, FALSE, ppk, have, target)
      pays(fee) == LET split == SplitAmount(fee, keys, <<>>)
                       due   == FeesForKeyset(Len(bare) + Len(split), ppk)
                   IN split # Throws /\ due # Throws /\ due <= fee
  IN /\ out # Throws =>
          /\ amount > 0 => ToSet(out) \subseteq keys
          /\ IF ~includeFees THEN AmountSum(out) = amount
             ELSE /\ AmountSum(out) - FeesForKeyset(Len(out), ppk) >= amount
                  /\ \A fee \in 0..(AmountSum(out) - amount - 1) : ~pays(fee)
     /\ denominations = <<>> /\ ~includeFees /\ 1 \in keys /\ amount <= MaxSplitOutputs => out # Throws

\* Scaling rounds to the nearest amount, percentages round up or down, and what a decimal or
\* a number carries is read back; nothing passes the ceiling unseen.
ArithmeticIsExact(a, n, d) ==
  LET near == ScaledBy(a, n, d)
      up   == CeilPercent(a, n, d)
      down == FloorPercent(a, n, d)
  IN /\ near \notin {Throws, 0} => 2 * a * n \in (d * (2 * near - 1))..(d * (2 * near + 1) - 1)
     /\ up # Throws => down # Throws /\ up * d >= a * n /\ (up - 1) * d < a * n /\ down * d <= a * n
     /\ From(ToDecimal(a)) = a
     /\ ToNumber(a) # Throws => From(ToNumber(a)) = a
     /\ SumUnits(<<WithUnit(a, "sat"), WithUnit(n, "sat")>>, "") = SumOfUnits(WithUnit(a, "sat"), WithUnit(n, "sat"))
     /\ SumUnits(<<WithUnit(a, "sat"), WithUnit(n, "usd")>>, "sat") = Throws
     /\ Subtract(a, n) # Throws => Sum2(Subtract(a, n), n) = a
     /\ d # 0 => MultiplyBy(DivideBy(a, d), d) + Modulo(a, d) = a
     /\ n <= d => InRange(Clamp(a, n, d), n, d) /\ (InRange(a, n, d) => CompareTo(Clamp(a, n, d), a) = 0)
=============================================================================
