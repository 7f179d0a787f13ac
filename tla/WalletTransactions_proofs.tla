--------------------- MODULE WalletTransactions_proofs ---------------------
(***************************************************************************)
(* Proofs about WalletTransactions, for any operations, options, keysets,  *)
(* amounts and numbers of transactions, restores and crashes.              *)
(*                                                                         *)
(* The invariant says that outputs have ids of their own, that the mint    *)
(* signs the outputs of what it answers and no others, that what a caller  *)
(* accepts is what the mint has signed, that the inputs of a payment under *)
(* way are nobody else's, and that what was signed for a kept preview stays*)
(* in somebody's hands.  It rests on what the operators do: a request is a *)
(* permutation of the outputs that is undone when the proofs come back, a  *)
(* split consists of denominations, and a restore finds exactly what was   *)
(* signed as far as the gap limit reaches.  Recursive functions are        *)
(* reasoned about by their smallest counterexample.                        *)
(***************************************************************************)
EXTENDS WalletTransactions, SequenceTheorems, FiniteSetTheorems, TLAPS

-----------------------------------------------------------------------------
(* Sequences, orders and recursion.                                        *)

\* The elements of a sequence.
LEMMA SeqElements ==
  ASSUME NEW S, NEW s \in Seq(S)
  PROVE  /\ DOMAIN s = 1..Len(s) /\ Len(s) \in Nat /\ s = [i \in 1..Len(s) |-> s[i]]
         /\ \A i \in DOMAIN s : s[i] \in S
BY ElementOfSeq

\* A nonempty set of natural numbers has a smallest element.
LEMMA SmallestNat ==
  ASSUME NEW N \in SUBSET Nat, N # {}
  PROVE  \E n \in N : \A m \in N : n <= m
<1> DEFINE R == {ss \in Nat \X Nat : ss[1] < ss[2]}
<1>1. IsWellFoundedOn(R, Nat)
  BY NatLessThanWellFounded DEF OpToRel
<1> HIDE DEF R
<1>2. PICK n \in N : \A m \in N : ~(<<m, n>> \in R)
  BY <1>1, WFMin
<1>3. \A m \in N : ~(m < n)
  BY <1>2 DEF R
<1>4. QED
  BY <1>3

\* A bounded one has a largest.
LEMMA LargestNat ==
  ASSUME NEW S, NEW n \in Nat, S \subseteq 0..n, S # {}
  PROVE  /\ Max(S) \in S /\ Max(S) \in Nat
         /\ \A x \in S : x <= Max(S)
<1> DEFINE N == {n - x : x \in S}
<1>1. \A x \in S : x \in Nat /\ n - x \in Nat
  OBVIOUS
<1>2. N \in SUBSET Nat /\ N # {}
  BY <1>1
<1>3. PICK k \in N : \A m \in N : k <= m
  BY <1>2, SmallestNat
<1>4. PICK x \in S : k = n - x
  OBVIOUS
<1>5. \A y \in S : x >= y
  <2> TAKE y \in S
  <2>1. k <= n - y
    BY <1>3
  <2>2. QED
    BY <1>1, <1>4, <2>1
<1> HIDE DEF N
<1>6. \E z \in S : \A y \in S : z >= y
  BY <1>5
<1>7. Max(S) \in S /\ \A y \in S : Max(S) >= y
  BY <1>6 DEF Max
<1>8. Max(S) \in Nat
  BY <1>1, <1>7, Zenon
<1>9. QED
  BY <1>1, <1>7, <1>8

\* Induction over 0..n, for a set.
LEMMA Induct ==
  ASSUME NEW n \in Nat, NEW G, 0 \in G, \A i \in 1..n : i - 1 \in G => i \in G
  PROVE  \A i \in 0..n : i \in G
<1> DEFINE N == {i \in 0..n : i \notin G}
<1> SUFFICES ASSUME N # {}
             PROVE  FALSE
  OBVIOUS
<1>1. N \in SUBSET Nat
  OBVIOUS
<1>2. PICK m \in N : \A k \in N : m <= k
  BY <1>1, SmallestNat
<1>3. m \in 1..n /\ m - 1 \in 0..n
  <2>1. m # 0
    BY <1>2
  <2>2. QED
    BY <2>1, <1>2
<1>4. m - 1 \notin N
  BY <1>2, <1>3
<1>5. QED
  BY <1>2, <1>3, <1>4

\* What a recursive definition over 0..n with values in T defines: first is its value at 0
\* and step[i][x] its value at i after x.
Follows(f, n, T, first, step) ==
  f \in [0..n -> T] /\ f[0] = first /\ \A i \in 1..n : f[i] = step[i][f[i - 1]]

\* What is defined by recursion over 0..n exists and has its values in T.
LEMMA Recursion ==
  ASSUME NEW n \in Nat, NEW T, NEW first \in T, NEW step \in [1..n -> [T -> T]]
  PROVE  \E f : Follows(f, n, T, first, step)
<1> DEFINE Solves(f, m) == /\ f \in [0..m -> T] /\ f[0] = first
                           /\ \A i \in 1..m : f[i] = step[i][f[i - 1]]
           N == {m \in 0..n : ~\E f : Solves(f, m)}
<1>1. N = {}
  <2> SUFFICES ASSUME N # {}
               PROVE  FALSE
    OBVIOUS
  <2>1. N \in SUBSET Nat
    OBVIOUS
  <2>2. PICK m \in N : \A k \in N : m <= k
    BY <2>1, SmallestNat
  <2>3. m \in 0..n /\ ~\E f : Solves(f, m)
    OBVIOUS
  <2>4. CASE m = 0
    <3>1. Solves([i \in 0..0 |-> first], 0)
      OBVIOUS
    <3>2. QED
      BY <2>3, <2>4, <3>1
  <2>5. CASE m # 0
    <3>0. m - 1 \in 0..n
      BY <2>3, <2>5
    <3>1. m - 1 \notin N
      <4>1. m - 1 \in N => m <= m - 1
        BY <2>2
      <4>2. QED
        BY <2>3, <4>1
    <3>2. PICK f : Solves(f, m - 1)
      BY <3>0, <3>1
    <3> DEFINE g == [i \in 0..m |-> IF i = m THEN step[m][f[m - 1]] ELSE f[i]]
    <3>3. f[m - 1] \in T /\ step[m][f[m - 1]] \in T
      BY <2>3, <2>5, <3>2
    <3>4. g \in [0..m -> T] /\ g[0] = first
      BY <2>3, <2>5, <3>2, <3>3
    <3>5. ASSUME NEW i \in 1..m PROVE g[i] = step[i][g[i - 1]]
      BY <2>3, <3>2, <3>5
    <3>6. Solves(g, m)
      BY <3>4, <3>5
    <3>7. QED
      BY <2>3, <3>6
  <2>6. QED
    BY <2>4, <2>5
<1>2. \E f : Solves(f, n)
  <2>1. n \in 0..n
    OBVIOUS
  <2> HIDE DEF Solves
  <2>2. QED
    BY <1>1, <2>1
<1>3. QED
  BY <1>2 DEF Follows

\* A strict total order on S, and that in it the elements before one give it its place.
Orders(R, S) ==
  /\ \A a \in S : <<a, a>> \notin R
  /\ \A a, b, c \in S : <<a, b>> \in R /\ <<b, c>> \in R => <<a, c>> \in R
  /\ \A a, b \in S : a # b => <<a, b>> \in R \/ <<b, a>> \in R

Place(R, S, a) == Cardinality({b \in S : <<b, a>> \in R})

HasPlaces(R, S) ==
  /\ Cardinality(S) \in Nat
  /\ \A a \in S : Place(R, S, a) \in 0..(Cardinality(S) - 1)
  /\ \A a, c \in S : Place(R, S, a) = Place(R, S, c) => a = c
  /\ \A i \in 1..Cardinality(S) : \E a \in S : Place(R, S, a) = i - 1

\* In a strict total order on n elements the places are the numbers from 0 to n - 1.
LEMMA Places ==
  ASSUME NEW S, IsFiniteSet(S), NEW R, Orders(R, S)
  PROVE  HasPlaces(R, S)
<1> DEFINE Below(a) == {b \in S : <<b, a>> \in R}
           n == Cardinality(S)
           f == [a \in S |-> Cardinality(Below(a))]
<1>1. n \in Nat
  BY FS_CardinalityType
<1>2. ASSUME NEW a \in S
      PROVE  IsFiniteSet(Below(a)) /\ Cardinality(Below(a)) \in Nat
  BY FS_Subset, FS_CardinalityType
<1>3. ASSUME NEW a \in S, NEW T \in SUBSET S, a \in T
      PROVE  Cardinality(T \ {a}) = Cardinality(T) - 1 /\ IsFiniteSet(T) /\ IsFiniteSet(T \ {a})
  BY <1>3, FS_Subset, FS_RemoveElement
<1>4. ASSUME NEW a \in S PROVE Cardinality(Below(a)) \in 0..(n - 1)
  <2>1. Below(a) \in SUBSET (S \ {a})
    BY DEF Orders
  <2>2. Cardinality(Below(a)) <= Cardinality(S \ {a})
    BY <1>3, <2>1, FS_Subset
  <2>3. Cardinality(S \ {a}) = n - 1
    BY <1>3
  <2>4. QED
    BY <1>1, <1>2, <2>2, <2>3
<1>5. ASSUME NEW a \in S, NEW c \in S, <<a, c>> \in R
      PROVE  Cardinality(Below(a)) < Cardinality(Below(c))
  <2>1. Below(a) \in SUBSET (Below(c) \ {a}) /\ a \in Below(c) /\ Below(c) \in SUBSET S
    BY <1>5 DEF Orders
  <2>2. Cardinality(Below(c) \ {a}) = Cardinality(Below(c)) - 1 /\ IsFiniteSet(Below(c) \ {a})
    BY <1>3, <2>1
  <2>3. Cardinality(Below(a)) <= Cardinality(Below(c) \ {a})
    BY <2>1, <2>2, FS_Subset
  <2>4. Cardinality(Below(a)) \in Nat /\ Cardinality(Below(c)) \in Nat
    BY <1>2
  <2> HIDE DEF Below
  <2>5. QED
    BY <2>2, <2>3, <2>4
<1>6. \A a, c \in S : Cardinality(Below(a)) = Cardinality(Below(c)) => a = c
  <2> SUFFICES ASSUME NEW a \in S, NEW c \in S, Cardinality(Below(a)) = Cardinality(Below(c)), a # c
               PROVE  FALSE
    OBVIOUS
  <2>0. <<a, c>> \in R \/ <<c, a>> \in R
    BY DEF Orders
  <2> HIDE DEF Below
  <2>1. Cardinality(Below(a)) < Cardinality(Below(c)) \/ Cardinality(Below(c)) < Cardinality(Below(a))
    BY <1>5, <2>0
  <2>2. QED
    BY <1>2, <2>1
<1> HIDE DEF Below, n
<1>7. f \in Injection(S, 0..(n - 1))
  BY <1>4, <1>6 DEF Injection, IsInjective
<1>8. IsFiniteSet(0..(n - 1)) /\ Cardinality(0..(n - 1)) = n
  BY <1>1, FS_Interval
<1>9. f \in Surjection(S, 0..(n - 1))
  <2> HIDE DEF f
  <2>1. QED
    BY <1>7, <1>8, FS_Injection DEF n
<1>10. ASSUME NEW i \in 1..n PROVE \E a \in S : Cardinality(Below(a)) = i - 1
  <2>1. i - 1 \in 0..(n - 1)
    BY <1>1
  <2>2. QED
    BY <1>9, <2>1 DEF Surjection
<1>11. \A a \in S : Place(R, S, a) = Cardinality(Below(a))
  BY DEF Place, Below
<1>12. QED
  BY <1>1, <1>4, <1>6, <1>10, <1>11 DEF HasPlaces, n

\* The denominations in descending order are the denominations, all of them.
LEMMA Descending ==
  ASSUME NEW S \in SUBSET Nat, IsFiniteSet(S)
  PROVE  /\ Desc(S) \in Seq(S) /\ Len(Desc(S)) = Cardinality(S)
         /\ \A a \in S : \E i \in 1..Cardinality(S) : Desc(S)[i] = a
<1> DEFINE R == {p \in S \X S : p[1] > p[2]}
<1>1. \A a, b \in S : <<b, a>> \in R <=> b > a
  OBVIOUS
<1>2. \A a \in S : {b \in S : <<b, a>> \in R} = {b \in S : b > a}
  BY <1>1
<1> HIDE DEF R
<1>3. Orders(R, S)
  BY <1>1 DEF Orders
<1>4. HasPlaces(R, S)
  BY <1>3, Places
<1>5. Cardinality(S) \in Nat /\ \A i \in 1..Cardinality(S) : \E a \in S : Cardinality({b \in S : b > a}) = i - 1
  BY <1>2, <1>4 DEF HasPlaces, Place
<1>6. \A i \in 1..Cardinality(S) : (CHOOSE a \in S : Cardinality({b \in S : b > a}) = i - 1) \in S
  BY <1>5
<1>7. Desc(S) \in [1..Cardinality(S) -> S]
  BY <1>6, Zenon DEF Desc
<1>8. ASSUME NEW a \in S PROVE \E i \in 1..Cardinality(S) : Desc(S)[i] = a
  <2> DEFINE Above(c) == Cardinality({b \in S : b > c})
  <2>1. Above(a) \in 0..(Cardinality(S) - 1) /\ \A c \in S : Above(c) = Above(a) => c = a
    BY <1>2, <1>4 DEF HasPlaces, Place
  <2>2. PICK i : i = Above(a) + 1
    OBVIOUS
  <2>3. i \in 1..Cardinality(S) /\ Above(a) = i - 1
    BY <1>5, <2>1, <2>2
  <2>4. Desc(S)[i] = CHOOSE c \in S : Above(c) = i - 1
    BY <2>3 DEF Desc
  <2> HIDE DEF Above
  <2>5. (CHOOSE c \in S : Above(c) = i - 1) = a
    BY <2>1, <2>3
  <2>6. QED
    BY <2>3, <2>4, <2>5
<1>9. QED
  BY <1>5, <1>7, <1>8

-----------------------------------------------------------------------------
(* What amounts are split into.                                            *)

Positive == Nat \ {0}

\* Some of a denomination.
LEMMA RepeatTyped ==
  ASSUME NEW X, NEW a \in X, NEW n \in Nat
  PROVE  Repeat(a, n) \in Seq(X) /\ Len(Repeat(a, n)) = n
<1>1. Repeat(a, n) \in [1..n -> X]
  BY DEF Repeat
<1>2. QED
  BY <1>1

\* As much of a denomination as fits leaves a rest.
LEMMA Quotient ==
  ASSUME NEW a \in Nat, NEW d \in Positive
  PROVE  a \div d \in Nat /\ a - d * (a \div d) \in Nat
<1>1. d \in Nat /\ d > 0
  BY DEF Positive
<1>2. a \div d \in Int /\ d * (a \div d) <= a /\ a \div d >= 0
  BY <1>1
<1>3. d * (a \div d) \in Int
  BY <1>1, <1>2
<1>4. QED
  BY <1>2, <1>3

\* As much of a denomination as fits is no more than there is.
LEMMA AtMostAll ==
  ASSUME NEW a \in Nat, NEW d \in Positive
  PROVE  a \div d \in Nat /\ a \div d <= a /\ (d = 1 => a \div d = a)
<1>1. d \in Nat /\ d >= 1
  BY DEF Positive
<1>2. a \div d \in Nat /\ a - d * (a \div d) \in Nat
  BY Quotient
<1>3. PICK q : q = a \div d
  OBVIOUS
<1>4. q \in Nat /\ d * q <= a
  BY <1>1, <1>2, <1>3
<1>5. d * q = q + (d - 1) * q /\ (d - 1) * q >= 0
  BY <1>1, <1>4
<1>6. (d - 1) * q \in Int
  BY <1>1, <1>4
<1>7. q <= a
  BY <1>4, <1>5, <1>6
<1>8. a \div 1 = a
  OBVIOUS
<1>9. QED
  BY <1>3, <1>4, <1>7, <1>8

\* A running total of s.
Totals(f, s) == f \in [0..Len(s) -> Nat] /\ f[0] = 0 /\ \A i \in 1..Len(s) : f[i] = f[i - 1] + s[i]

\* There is only one, and AmountSum is its last value.
LEMMA SumIsTotal ==
  ASSUME NEW s \in Seq(Nat)
  PROVE  \E f : Totals(f, s) /\ AmountSum(s) = f[Len(s)]
<1> DEFINE n == Len(s)
           Solves(g) == g = [i \in 0..n |-> IF i = 0 THEN 0 ELSE g[i - 1] + s[i]]
           sum == CHOOSE g : Solves(g)
           step == [i \in 1..n |-> [x \in Nat |-> x + s[i]]]
<1>1. n \in Nat /\ \A i \in 1..n : s[i] \in Nat
  BY SeqElements
<1>2. step \in [1..n -> [Nat -> Nat]]
  BY <1>1
<1>3. \A i \in 1..n : \A x \in Nat : step[i][x] = x + s[i]
  OBVIOUS
<1> HIDE DEF step
<1>4. PICK f : Follows(f, n, Nat, 0, step)
  BY <1>1, <1>2, Recursion
<1>5. \A i \in 1..n : f[i] = f[i - 1] + s[i]
  <2> TAKE i \in 1..n
  <2>1. i - 1 \in 0..n
    BY <1>1
  <2>2. QED
    BY <1>3, <1>4, <2>1 DEF Follows
<1>6. Solves(f)
  BY <1>1, <1>4, <1>5 DEF Follows
<1>7. Solves(sum)
  BY <1>6
<1>8. AmountSum(s) = sum[n]
  BY DEF AmountSum
<1> HIDE DEF sum
<1>9. sum[0] = 0 /\ \A i \in 1..n : sum[i] = sum[i - 1] + s[i]
  BY <1>1, <1>7
<1>10. \A i \in 0..n : sum[i] = f[i]
  <2> DEFINE G == {i \in 0..n : sum[i] = f[i]}
  <2>1. 0 \in G
    BY <1>1, <1>4, <1>9 DEF Follows
  <2>2. \A i \in 1..n : i - 1 \in G => i \in G
    BY <1>1, <1>5, <1>9
  <2> HIDE DEF G
  <2>3. \A i \in 0..n : i \in G
    BY <1>1, <2>1, <2>2, Induct
  <2>4. QED
    BY <2>3 DEF G
<1>11. Totals(f, s)
  BY <1>4, <1>5 DEF Follows, Totals
<1>12. n \in 0..n
  BY <1>1
<1>13. QED
  BY <1>8, <1>10, <1>11, <1>12

\* An empty sequence sums up to nothing.
LEMMA SumOfNone == AmountSum(<<>>) = 0
<1>1. PICK f : Totals(f, <<>>) /\ AmountSum(<<>>) = f[Len(<<>>)]
  <2>1. <<>> \in Seq(Nat)
    OBVIOUS
  <2>2. QED
    BY <2>1, SumIsTotal
<1>2. QED
  BY <1>1 DEF Totals

\* A sum of amounts is an amount.
LEMMA SumTyped ==
  ASSUME NEW s \in Seq(Nat)
  PROVE  AmountSum(s) \in Nat
<1>1. PICK f : Totals(f, s) /\ AmountSum(s) = f[Len(s)]
  BY SumIsTotal
<1>2. Len(s) \in 0..Len(s)
  BY SeqElements
<1>3. QED
  BY <1>1, <1>2 DEF Totals

\* Sums add up.
LEMMA SumOfBoth ==
  ASSUME NEW s \in Seq(Nat), NEW t \in Seq(Nat)
  PROVE  AmountSum(s \o t) = AmountSum(s) + AmountSum(t)
<1> DEFINE n == Len(s)
           m == Len(t)
<1>1. n \in Nat /\ m \in Nat /\ s \o t \in Seq(Nat)
  BY SeqElements
<1>2. Len(s \o t) = n + m
  OBVIOUS
<1>3. /\ \A i \in 1..n : (s \o t)[i] = s[i]
      /\ \A j \in 1..m : (s \o t)[n + j] = t[j]
  OBVIOUS
<1>4. PICK h : Totals(h, s \o t) /\ AmountSum(s \o t) = h[n + m]
  BY <1>1, <1>2, SumIsTotal
<1>5. PICK f : Totals(f, s) /\ AmountSum(s) = f[n]
  BY SumIsTotal
<1>6. PICK g : Totals(g, t) /\ AmountSum(t) = g[m]
  BY SumIsTotal
<1>7. PICK st : st = s \o t
  OBVIOUS
<1>8. /\ h \in [0..(n + m) -> Nat] /\ h[0] = 0 /\ \A i \in 1..(n + m) : h[i] = h[i - 1] + st[i]
      /\ f \in [0..n -> Nat] /\ f[0] = 0 /\ \A i \in 1..n : f[i] = f[i - 1] + s[i]
      /\ g \in [0..m -> Nat] /\ g[0] = 0 /\ \A i \in 1..m : g[i] = g[i - 1] + t[i]
  BY <1>2, <1>4, <1>5, <1>6, <1>7 DEF Totals
<1>9. /\ \A i \in 1..n : st[i] = s[i] /\ s[i] \in Nat
      /\ \A j \in 1..m : st[n + j] = t[j] /\ t[j] \in Nat
  BY <1>3, <1>7, SeqElements
<1> HIDE DEF n, m
<1>10. \A i \in 0..n : h[i] = f[i]
  <2> DEFINE G == {i \in 0..n : h[i] = f[i]}
  <2>1. 0 \in G
    BY <1>1, <1>8
  <2>2. ASSUME NEW i \in 1..n, i - 1 \in G PROVE i \in G
    <3>1. i \in 1..(n + m)
      BY <1>1
    <3>2. h[i] = h[i - 1] + st[i] /\ f[i] = f[i - 1] + s[i] /\ st[i] = s[i]
      BY <1>8, <1>9, <3>1
    <3>3. QED
      BY <2>2, <3>2
  <2> HIDE DEF G
  <2>3. \A i \in 0..n : i \in G
    BY <1>1, <2>1, <2>2, Induct
  <2>4. QED
    BY <2>3 DEF G
<1>11. \A j \in 0..m : h[n + j] = f[n] + g[j]
  <2>0. f[n] \in Nat
    BY <1>1, <1>8
  <2> DEFINE G == {j \in 0..m : h[n + j] = f[n] + g[j]}
  <2>1. 0 \in G
    <3>1. h[n] = f[n] /\ f[n] \in Nat
      BY <1>1, <1>8, <1>10
    <3>2. QED
      BY <1>1, <1>8, <3>1
  <2>2. ASSUME NEW j \in 1..m, j - 1 \in G PROVE j \in G
    <3>1. n + j \in 1..(n + m) /\ (n + j) - 1 = n + (j - 1) /\ j - 1 \in 0..m
      BY <1>1
    <3>2. h[n + j] = h[n + (j - 1)] + st[n + j] /\ g[j] = g[j - 1] + t[j] /\ st[n + j] = t[j]
      BY <1>8, <1>9, <3>1
    <3>3. h[n + (j - 1)] = f[n] + g[j - 1]
      BY <2>2
    <3>4. g[j - 1] \in Nat
      BY <1>8, <3>1
    <3>5. t[j] \in Nat
      BY <1>9
    <3> HIDE DEF G
    <3>6. h[n + j] = f[n] + g[j] /\ j \in 0..m
      BY <1>1, <2>0, <3>2, <3>3, <3>4, <3>5
    <3>7. QED
      BY <3>6 DEF G
  <2> HIDE DEF G
  <2>3. \A j \in 0..m : j \in G
    BY <1>1, <2>1, <2>2, Induct
  <2>4. QED
    BY <2>3 DEF G
<1>12. m \in 0..m
  BY <1>1
<1>13. QED
  BY <1>4, <1>5, <1>6, <1>11, <1>12

\* The sum of equal amounts.
LEMMA SumOfEqual ==
  ASSUME NEW a \in Nat, NEW n \in Nat
  PROVE  AmountSum(Repeat(a, n)) = a * n
<1>1. Repeat(a, n) \in Seq(Nat) /\ Len(Repeat(a, n)) = n /\ \A i \in 1..n : Repeat(a, n)[i] = a
  BY RepeatTyped DEF Repeat
<1>2. PICK r : r = Repeat(a, n)
  OBVIOUS
<1>3. PICK f : Totals(f, r) /\ AmountSum(r) = f[n]
  BY <1>1, <1>2, SumIsTotal
<1>4. f \in [0..n -> Nat] /\ f[0] = 0 /\ \A i \in 1..n : f[i] = f[i - 1] + a
  BY <1>1, <1>2, <1>3 DEF Totals
<1> DEFINE G == {i \in 0..n : f[i] = a * i}
<1>5. 0 \in G
  BY <1>4
<1>6. ASSUME NEW i \in 1..n, i - 1 \in G PROVE i \in G
  <2>1. f[i] = a * (i - 1) + a
    BY <1>4, <1>6
  <2>2. a * (i - 1) + a = a * i
    OBVIOUS
  <2>3. QED
    BY <2>1, <2>2
<1> HIDE DEF G
<1>7. \A i \in 0..n : i \in G
  BY <1>5, <1>6, Induct
<1>8. n \in 0..n
  OBVIOUS
<1>9. QED
  BY <1>2, <1>3, <1>7, <1>8 DEF G

\* Coins that are worth something are no more than they are worth.
LEMMA CoinsAtMostSum ==
  ASSUME NEW s \in Seq(Positive)
  PROVE  s \in Seq(Nat) /\ Len(s) <= AmountSum(s)
<1>1. Len(s) \in Nat /\ \A i \in 1..Len(s) : s[i] \in Nat /\ s[i] >= 1
  BY SeqElements DEF Positive
<1>2. s \in Seq(Nat)
  <2>1. s \in [1..Len(s) -> Nat]
    BY <1>1, SeqElements
  <2>2. QED
    BY <1>1, <2>1
<1>3. PICK f : Totals(f, s) /\ AmountSum(s) = f[Len(s)]
  BY <1>2, SumIsTotal
<1>4. PICK n : n = Len(s)
  OBVIOUS
<1>5. n \in Nat /\ f \in [0..n -> Nat] /\ f[0] = 0 /\ \A i \in 1..n : f[i] = f[i - 1] + s[i]
  BY <1>1, <1>3, <1>4 DEF Totals
<1> DEFINE G == {i \in 0..n : i <= f[i]}
<1>6. 0 \in G
  BY <1>5
<1>7. ASSUME NEW i \in 1..n, i - 1 \in G PROVE i \in G
  BY <1>1, <1>4, <1>5, <1>7
<1> HIDE DEF G
<1>8. \A i \in 0..n : i \in G
  BY <1>5, <1>6, <1>7, Induct
<1>9. n \in 0..n
  BY <1>5
<1>10. QED
  BY <1>2, <1>3, <1>4, <1>8, <1>9 DEF G

\* Where the loop of splitAmount may be: what is left and what it has chosen, which together
\* are worth what there was to begin with.
Fills(value, keys, chosen) ==
  {acc \in [rest : Nat, out : Seq(Positive) \cup {Throws}] :
     acc.out # Throws => /\ acc.out \in Seq(Positive)
                         /\ AmountSum(acc.out) + acc.rest = value + AmountSum(chosen)
                         /\ ToSet(acc.out) \subseteq keys \cup ToSet(chosen)}

\* One denomination of it.
FillStep(acc, d) ==
  IF acc.rest = 0 \/ acc.out = Throws THEN acc
  ELSE IF MaxSplitOutputs - Len(acc.out) <= 0 \/ acc.rest \div d > MaxSplitOutputs - Len(acc.out)
       THEN [acc EXCEPT !.out = Throws]
  ELSE [rest |-> acc.rest - d * (acc.rest \div d), out |-> acc.out \o Repeat(d, acc.rest \div d)]

FillRun(g, value, keys, chosen) ==
  LET desc == Desc(keys \ {0})
  IN /\ g[0] = [rest |-> value, out |-> chosen]
     /\ \A i \in 1..Len(desc) : g[i] = FillStep(g[i - 1], desc[i])
     /\ \A i \in 0..Len(desc) : g[i] \in Fills(value, keys, chosen)
     /\ Fill(value, keys, chosen) =
          IF keys = {} \/ g[Len(desc)].rest # 0 THEN Throws ELSE g[Len(desc)].out

\* What joins a sequence.
LEMMA MembersOfBoth ==
  ASSUME NEW X, NEW s \in Seq(X), NEW t \in Seq(X)
  PROVE  ToSet(s \o t) = ToSet(s) \cup ToSet(t)
<1>1. /\ s \o t \in Seq(X) /\ Len(s \o t) = Len(s) + Len(t)
      /\ \A i \in 1..Len(s) : (s \o t)[i] = s[i]
      /\ \A j \in 1..Len(t) : (s \o t)[Len(s) + j] = t[j]
  OBVIOUS
<1>2. /\ DOMAIN s = 1..Len(s) /\ DOMAIN t = 1..Len(t) /\ DOMAIN (s \o t) = 1..Len(s \o t)
      /\ Len(s) \in Nat /\ Len(t) \in Nat
  BY <1>1, SeqElements
<1>3. PICK st, n, m : st = s \o t /\ n = Len(s) /\ m = Len(t)
  OBVIOUS
<1>4. /\ n \in Nat /\ m \in Nat /\ DOMAIN s = 1..n /\ DOMAIN t = 1..m /\ DOMAIN st = 1..(n + m)
      /\ \A i \in 1..n : st[i] = s[i]
      /\ \A j \in 1..m : st[n + j] = t[j]
  BY <1>1, <1>2, <1>3
<1>5. ASSUME NEW x \in ToSet(st) PROVE x \in ToSet(s) \cup ToSet(t)
  <2>1. PICK k \in 1..(n + m) : x = st[k]
    BY <1>4 DEF ToSet
  <2>2. CASE k <= n
    <3>1. k \in 1..n
      BY <1>4, <2>2
    <3>2. QED
      BY <1>4, <2>1, <3>1 DEF ToSet
  <2>3. CASE ~(k <= n)
    <3>1. k - n \in 1..m /\ n + (k - n) = k
      BY <1>4, <2>3
    <3>2. x = t[k - n]
      BY <1>4, <2>1, <3>1
    <3>3. QED
      BY <1>4, <3>1, <3>2 DEF ToSet
  <2>4. QED
    BY <2>2, <2>3
<1>6. ASSUME NEW x \in ToSet(s) \cup ToSet(t) PROVE x \in ToSet(st)
  <2>1. CASE x \in ToSet(s)
    <3>1. PICK k \in 1..n : x = s[k]
      BY <1>4, <2>1 DEF ToSet
    <3>2. k \in 1..(n + m) /\ x = st[k]
      BY <1>4, <3>1
    <3>3. QED
      BY <1>4, <3>2 DEF ToSet
  <2>2. CASE x \in ToSet(t)
    <3>1. PICK k \in 1..m : x = t[k]
      BY <1>4, <2>2 DEF ToSet
    <3>2. n + k \in 1..(n + m) /\ x = st[n + k]
      BY <1>4, <3>1
    <3>3. QED
      BY <1>4, <3>2 DEF ToSet
  <2>3. QED
    BY <1>6, <2>1, <2>2
<1>7. QED
  BY <1>3, <1>5, <1>6

\* Taking one denomination neither gains nor loses anything.
LEMMA FillStepKeeps ==
  ASSUME NEW value \in Nat, NEW keys, NEW chosen \in Seq(Positive), NEW d \in Positive, d \in keys,
         NEW acc \in Fills(value, keys, chosen)
  PROVE  FillStep(acc, d) \in Fills(value, keys, chosen)
<1> DEFINE count == acc.rest \div d
           rest == acc.rest - d * count
           out == acc.out \o Repeat(d, count)
<1>0. acc \in [rest : Nat, out : Seq(Positive) \cup {Throws}]
  BY DEF Fills
<1>1. count \in Nat /\ rest \in Nat /\ acc.rest \in Nat /\ d \in Nat
  BY <1>0, Quotient DEF Positive
<1>2. Repeat(d, count) \in Seq(Positive)
  BY <1>1, RepeatTyped
<1>3. [acc EXCEPT !.out = Throws] \in Fills(value, keys, chosen)
  BY <1>0 DEF Fills
<1>4. ASSUME acc.out # Throws
      PROVE  [rest |-> rest, out |-> out] \in Fills(value, keys, chosen)
  <2>1. /\ acc.out \in Seq(Positive)
        /\ AmountSum(acc.out) + acc.rest = value + AmountSum(chosen)
        /\ ToSet(acc.out) \subseteq keys \cup ToSet(chosen)
    BY <1>4 DEF Fills
  <2>2. out \in Seq(Positive)
    BY <1>2, <2>1
  <2>3. acc.out \in Seq(Nat) /\ Repeat(d, count) \in Seq(Nat) /\ chosen \in Seq(Nat)
    BY <1>2, <2>1, CoinsAtMostSum
  <2>4. AmountSum(out) = AmountSum(acc.out) + d * count
    BY <1>1, <2>3, SumOfBoth, SumOfEqual
  <2>5. AmountSum(acc.out) \in Nat /\ AmountSum(chosen) \in Nat /\ d * count \in Int
    <3>1. \A c \in Nat : d * c \in Int
      BY <1>1
    <3>2. d * count \in Int
      BY <1>1, <3>1
    <3>3. AmountSum(acc.out) \in Nat /\ AmountSum(chosen) \in Nat
      BY <2>3, SumTyped
    <3>4. QED
      BY <3>2, <3>3
  <2>6. AmountSum(out) + rest = value + AmountSum(chosen)
    <3>1. \A o, a, r, p, total \in Int : o = a + p /\ a + r = total => o + (r - p) = total
      OBVIOUS
    <3>2. PICK o, a, p, total : o = AmountSum(out) /\ a = AmountSum(acc.out) /\ p = d * count /\ total = value + AmountSum(chosen)
      OBVIOUS
    <3>3. o = a + p /\ a + acc.rest = total /\ a \in Int /\ p \in Int /\ acc.rest \in Int
      BY <1>1, <2>1, <2>4, <2>5, <3>2
    <3>4. total \in Int /\ o \in Int
      BY <2>5, <3>2, <3>3
    <3>5. o + (acc.rest - p) = total
      BY <3>1, <3>3, <3>4
    <3>6. QED
      BY <3>2, <3>5
  <2>7. ToSet(Repeat(d, count)) \subseteq keys
    BY DEF Repeat, ToSet
  <2>8. ToSet(out) \subseteq keys \cup ToSet(chosen)
    BY <1>2, <2>1, <2>7, MembersOfBoth
  <2> HIDE DEF rest, out
  <2>9. QED
    BY <1>1, <2>2, <2>6, <2>8 DEF Fills
<1>5. \/ FillStep(acc, d) = acc
      \/ FillStep(acc, d) = [acc EXCEPT !.out = Throws]
      \/ acc.out # Throws /\ FillStep(acc, d) = [rest |-> rest, out |-> out]
  BY DEF FillStep
<1>6. QED
  BY <1>3, <1>4, <1>5

\* The denominations in descending order, all of them.
LEMMA DescendingCoins ==
  ASSUME NEW keys \in SUBSET Nat, IsFiniteSet(keys)
  PROVE  /\ Len(Desc(keys \ {0})) \in Nat
         /\ \A i \in 1..Len(Desc(keys \ {0})) : Desc(keys \ {0})[i] \in Positive \cap keys
<1>1. keys \ {0} \in SUBSET Nat /\ IsFiniteSet(keys \ {0})
  BY FS_RemoveElement
<1> DEFINE desc == Desc(keys \ {0})
<1>2. desc \in Seq(keys \ {0})
  BY <1>1, Descending
<1> HIDE DEF desc
<1>3. Len(desc) \in Nat /\ \A i \in 1..Len(desc) : desc[i] \in keys \ {0}
  BY <1>2, SeqElements
<1>4. QED
  BY <1>3 DEF desc, Positive

\* The loop of splitAmount runs, step by step.
LEMMA FillRuns ==
  ASSUME NEW value \in Nat, NEW keys \in SUBSET Nat, IsFiniteSet(keys), NEW chosen \in Seq(Positive)
  PROVE  \E g : FillRun(g, value, keys, chosen)
<1> DEFINE desc == Desc(keys \ {0})
           n == Len(desc)
           T == Fills(value, keys, chosen)
           first == [rest |-> value, out |-> chosen]
           step == [i \in 1..n |-> [acc \in T |-> FillStep(acc, desc[i])]]
           Solves(g) == g = [i \in 0..n |-> IF i = 0 THEN first ELSE FillStep(g[i - 1], desc[i])]
           taken == CHOOSE g : Solves(g)
<1>1. n \in Nat /\ \A i \in 1..n : desc[i] \in Positive /\ desc[i] \in keys
  BY DescendingCoins
<1>2. first \in T
  <2>1. AmountSum(chosen) \in Nat
    BY CoinsAtMostSum, SumTyped
  <2>2. QED
    BY <2>1 DEF Fills
<1>3. \A i \in 1..n : \A acc \in T : FillStep(acc, desc[i]) \in T
  BY <1>1, FillStepKeeps
<1> HIDE DEF T, first, n, desc
<1>4. step \in [1..n -> [T -> T]]
  BY <1>3
<1>5. \A i \in 1..n : \A acc \in T : step[i][acc] = FillStep(acc, desc[i])
  OBVIOUS
<1> HIDE DEF step
<1>6. PICK f : Follows(f, n, T, first, step)
  BY <1>1, <1>2, <1>4, Recursion
<1>7. ASSUME NEW i \in 1..n PROVE f[i] = FillStep(f[i - 1], desc[i])
  <2>1. i - 1 \in 0..n
    BY <1>1
  <2>2. f[i - 1] \in T
    BY <1>6, <2>1 DEF Follows
  <2>3. QED
    BY <1>5, <1>6, <2>2 DEF Follows
<1>8. Solves(f)
  BY <1>1, <1>6, <1>7 DEF Follows
<1>9. Solves(taken)
  BY <1>8
<1>10. Fill(value, keys, chosen) = IF keys = {} \/ taken[n].rest # 0 THEN Throws ELSE taken[n].out
  BY DEF Fill, FillStep, taken, first, n, desc
<1> HIDE DEF taken
<1>11. taken[0] = first /\ \A i \in 1..n : taken[i] = FillStep(taken[i - 1], desc[i])
  BY <1>1, <1>9
<1>12. \A i \in 0..n : taken[i] \in T
  <2> DEFINE G == {i \in 0..n : taken[i] \in T}
  <2>1. 0 \in G
    BY <1>1, <1>2, <1>11
  <2>2. \A i \in 1..n : i - 1 \in G => i \in G
    BY <1>1, <1>3, <1>11
  <2> HIDE DEF G
  <2>3. \A i \in 0..n : i \in G
    BY <1>1, <2>1, <2>2, Induct
  <2>4. QED
    BY <2>3 DEF G
<1>13. QED
  BY <1>10, <1>11, <1>12 DEF FillRun, T, first, n, desc

\* A fill is worth what was to be filled, in denominations of the keyset.
LEMMA FillExact ==
  ASSUME NEW value \in Nat, NEW keys \in SUBSET Nat, IsFiniteSet(keys), NEW chosen \in Seq(Positive),
         Fill(value, keys, chosen) # Throws
  PROVE  /\ Fill(value, keys, chosen) \in Seq(Positive)
         /\ AmountSum(Fill(value, keys, chosen)) = value + AmountSum(chosen)
         /\ ToSet(Fill(value, keys, chosen)) \subseteq keys \cup ToSet(chosen)
<1>1. PICK g : FillRun(g, value, keys, chosen)
  BY FillRuns
<1> DEFINE n == Len(Desc(keys \ {0}))
<1>2. n \in Nat /\ n \in 0..n
  BY DescendingCoins
<1>3. g[n] \in Fills(value, keys, chosen) /\ g[n].rest = 0 /\ Fill(value, keys, chosen) = g[n].out
  BY <1>1, <1>2 DEF FillRun
<1>4. /\ g[n].out \in Seq(Positive)
      /\ AmountSum(g[n].out) + 0 = value + AmountSum(chosen)
      /\ ToSet(g[n].out) \subseteq keys \cup ToSet(chosen)
  BY <1>3 DEF Fills
<1>5. AmountSum(g[n].out) \in Nat
  BY <1>4, CoinsAtMostSum, SumTyped
<1> HIDE DEF n
<1>6. AmountSum(g[n].out) = value + AmountSum(chosen)
  BY <1>4, <1>5
<1>7. QED
  BY <1>3, <1>4, <1>6

\* The amount is split if there is a coin of 1 and so many of them are not too many.
LEMMA FillSucceeds ==
  ASSUME NEW value \in Nat, NEW keys \in SUBSET Nat, IsFiniteSet(keys), 1 \in keys, value <= MaxSplitOutputs
  PROVE  Fill(value, keys, <<>>) # Throws
<1> DEFINE desc == Desc(keys \ {0})
           n == Len(desc)
           T == Fills(value, keys, <<>>)
<1>0. <<>> \in Seq(Positive) /\ <<>> \in Seq(Nat)
  OBVIOUS
<1>1. PICK g : FillRun(g, value, keys, <<>>)
  BY <1>0, FillRuns
<1>2. n \in Nat /\ \A i \in 1..n : desc[i] \in Positive
  BY DescendingCoins
<1>3. PICK p \in 1..n : desc[p] = 1
  <2>1. keys \ {0} \in SUBSET Nat /\ IsFiniteSet(keys \ {0}) /\ 1 \in keys \ {0}
    BY FS_RemoveElement
  <2>2. QED
    BY <2>1, Descending
<1>4. ASSUME NEW acc \in T, acc.out # Throws
      PROVE  acc.rest \in Nat /\ acc.out \in Seq(Positive) /\ Len(acc.out) \in Nat /\ Len(acc.out) + acc.rest <= value
  <2>1. acc.rest \in Nat /\ acc.out \in Seq(Positive) /\ AmountSum(acc.out) + acc.rest = value + AmountSum(<<>>)
    BY <1>4 DEF Fills
  <2>2. Len(acc.out) \in Nat /\ AmountSum(acc.out) \in Nat /\ Len(acc.out) <= AmountSum(acc.out)
    BY <2>1, CoinsAtMostSum, SumTyped
  <2>3. QED
    BY <2>1, <2>2, SumOfNone
<1>5. ASSUME NEW acc \in T, acc.out # Throws, NEW d \in Positive
      PROVE  /\ FillStep(acc, d).out # Throws
             /\ d = 1 \/ acc.rest = 0 => FillStep(acc, d).rest = 0
  <2> DEFINE count == acc.rest \div d
  <2>1. acc.rest \in Nat /\ acc.out \in Seq(Positive) /\ Len(acc.out) \in Nat /\ Len(acc.out) + acc.rest <= value
    BY <1>4, <1>5
  <2>2. count \in Nat /\ count <= acc.rest /\ (d = 1 => count = acc.rest)
    BY <2>1, AtMostAll
  <2>3. CASE acc.rest = 0
    BY <1>5, <2>3 DEF FillStep
  <2>4. CASE acc.rest # 0
    <3>1. Repeat(d, count) \in Seq(Positive)
      BY <2>2, RepeatTyped
    <3> HIDE DEF count
    <3>2. ~(MaxSplitOutputs - Len(acc.out) <= 0 \/ count > MaxSplitOutputs - Len(acc.out))
      BY <2>1, <2>2, <2>4, AmountBounds
    <3>3. FillStep(acc, d) = [rest |-> acc.rest - d * count, out |-> acc.out \o Repeat(d, count)]
      BY <1>5, <2>4, <3>2 DEF FillStep, count
    <3>4. acc.out \o Repeat(d, count) \in Seq(Positive)
      BY <2>1, <3>1
    <3>5. acc.out \o Repeat(d, count) # Throws
      BY <3>4, CoinsAtMostSum, ThrowsAssumption
    <3>6. d = 1 => acc.rest - d * count = 0
      BY <2>1, <2>2
    <3>7. QED
      BY <2>4, <3>3, <3>5, <3>6
  <2>5. QED
    BY <2>3, <2>4
<1>6. /\ g[0] = [rest |-> value, out |-> <<>>]
      /\ \A i \in 1..n : g[i] = FillStep(g[i - 1], desc[i])
      /\ \A i \in 0..n : g[i] \in T
      /\ Fill(value, keys, <<>>) = IF keys = {} \/ g[n].rest # 0 THEN Throws ELSE g[n].out
  BY <1>1 DEF FillRun
<1> HIDE DEF n, desc, T
<1>7. \A i \in 1..n : i \in 0..n /\ i - 1 \in 0..n
  BY <1>2
<1> DEFINE G == {i \in 0..n : g[i].out # Throws /\ (i >= p => g[i].rest = 0)}
<1>8. 0 \in G
  <2>1. ~(0 >= p)
    BY <1>3
  <2>2. <<>> # Throws
    BY <1>0, ThrowsAssumption
  <2>3. QED
    BY <1>2, <1>6, <2>1, <2>2
<1>9. ASSUME NEW i \in 1..n, i - 1 \in G PROVE i \in G
  <2>1. g[i - 1] \in T /\ g[i - 1].out # Throws
    BY <1>6, <1>7, <1>9
  <2>2. /\ g[i].out # Throws
        /\ desc[i] = 1 \/ g[i - 1].rest = 0 => g[i].rest = 0
    BY <1>2, <1>5, <1>6, <2>1
  <2>3. ASSUME i >= p PROVE desc[i] = 1 \/ g[i - 1].rest = 0
    <3>1. i = p \/ i - 1 >= p
      BY <1>2, <1>3, <2>3
    <3>2. QED
      BY <1>3, <1>9, <3>1
  <2>4. QED
    BY <1>7, <2>2, <2>3
<1> HIDE DEF G
<1>10. n \in G /\ n >= p
  BY <1>2, <1>3, <1>8, <1>9, Induct
<1>11. QED
  BY <1>6, <1>10 DEF G

\* A larger number of inputs has no smaller fee.
LEMMA FeesGrow ==
  ASSUME NEW n \in Nat, NEW m \in Nat, n <= m, NEW ppk \in Nat, FeesForKeyset(m, ppk) # Throws
  PROVE  FeesForKeyset(n, ppk) \in Nat /\ FeesForKeyset(m, ppk) \in Nat /\ FeesForKeyset(n, ppk) <= FeesForKeyset(m, ppk)
<1> DEFINE Rounded(k) == (k * ppk + (1000 - 1)) \div 1000
<1>1. \A k \in Nat : FeesForKeyset(k, ppk) = AmountOf(Rounded(k))
  BY DEF FeesForKeyset, CeilPercent
<1>2. n * ppk \in Nat /\ m * ppk \in Nat /\ n * ppk <= m * ppk
  <2>1. PICK more \in Nat : m = n + more
    <3>1. m - n \in Nat /\ m = n + (m - n)
      OBVIOUS
    <3>2. QED
      BY <3>1
  <2>2. m * ppk = n * ppk + more * ppk /\ more * ppk \in Nat /\ n * ppk \in Nat
    BY <2>1
  <2>3. QED
    BY <2>2
<1>3. \A x, y \in Nat : x <= y => /\ (x + (1000 - 1)) \div 1000 \in Nat /\ (y + (1000 - 1)) \div 1000 \in Nat
                                  /\ (x + (1000 - 1)) \div 1000 <= (y + (1000 - 1)) \div 1000
  OBVIOUS
<1>4. Rounded(n) \in Nat /\ Rounded(m) \in Nat /\ Rounded(n) <= Rounded(m)
  BY <1>2, <1>3
<1> HIDE DEF Rounded
<1>5. Rounded(m) \in 0..MaxAmount
  BY <1>1 DEF AmountOf
<1>6. Rounded(n) \in 0..MaxAmount
  BY <1>4, <1>5, AmountBounds
<1>7. QED
  BY <1>1, <1>4, <1>5, <1>6 DEF AmountOf

\* The fee pays for n outputs and those it is split into.
FeePays(n, keys, ppk, fee) ==
  LET split == SplitAmount(fee, keys, <<>>)
      due   == FeesForKeyset(n + Len(split), ppk)
  IN split # Throws /\ due # Throws /\ due <= fee

\* The default split is the fill.
LEMMA DefaultSplit ==
  ASSUME NEW value \in Nat, NEW keys \in SUBSET Nat, IsFiniteSet(keys), SplitAmount(value, keys, <<>>) # Throws
  PROVE  LET split == SplitAmount(value, keys, <<>>)
         IN split \in Seq(Nat) /\ AmountSum(split) = value /\ ToSet(split) \subseteq keys /\ Len(split) \in Nat
<1>0. <<>> \in Seq(Positive) /\ ToSet(<<>>) = {}
  BY DEF ToSet
<1>1. SplitAmount(value, keys, <<>>) = Fill(value, keys, <<>>)
  BY DEF SplitAmount
<1> DEFINE split == Fill(value, keys, <<>>)
<1>2. split \in Seq(Positive) /\ AmountSum(split) = value + 0 /\ ToSet(split) \subseteq keys
  BY <1>0, <1>1, FillExact, SumOfNone
<1> HIDE DEF split
<1>3. split \in Seq(Nat) /\ Len(split) \in Nat
  BY <1>2, CoinsAtMostSum
<1>4. QED
  BY <1>1, <1>2, <1>3 DEF split

\* The outputs of a receiver's fee are the split of the first fee, from that of the others on,
\* that pays.
LEMMA ReceiveFeeIs ==
  ASSUME NEW n, NEW keys, NEW ppk, ReceiveFeeAmounts(n, keys, ppk) # Throws
  PROVE  \E last \in Nat :
           /\ FeesForKeyset(n, ppk) \in 0..last
           /\ ReceiveFeeAmounts(n, keys, ppk) = SplitAmount(last, keys, <<>>)
           /\ FeePays(n, keys, ppk, last)
           /\ \A fee \in FeesForKeyset(n, ppk)..(last - 1) : ~FeePays(n, keys, ppk, fee)
<1> DEFINE first == FeesForKeyset(n, ppk)
           steps == first..(first + MaxFeeSteps + 1)
           Attempt(fee) == [fee |-> fee, split |-> SplitAmount(fee, keys, <<>>)]
           tries == {Attempt(fee) : fee \in steps}
           Due(try) == IF try.fee > MaxAmount \/ try.split = Throws THEN Throws
                       ELSE FeesForKeyset(n + Len(try.split), ppk)
           stops == {try \in tries : Due(try) = Throws \/ Due(try) <= try.fee}
           last  == CHOOSE try \in stops : \A other \in stops : try.fee <= other.fee
           N == {fee \in steps : Attempt(fee) \in stops}
<1>1. /\ first # Throws /\ stops # {} /\ Due(last) # Throws
      /\ ReceiveFeeAmounts(n, keys, ppk) = last.split
  BY DEF ReceiveFeeAmounts
<1>2. first \in Nat /\ steps \subseteq Nat
  <2>1. first \in Nat
    <3>1. FeesForKeyset(n, ppk) \in 0..MaxAmount \cup {Throws}
      BY DEF FeesForKeyset, CeilPercent, AmountOf
    <3>2. FeesForKeyset(n, ppk) # Throws
      BY <1>1
    <3>3. QED
      BY <3>1, <3>2, AmountBounds
  <2>2. QED
    BY <2>1, AmountBounds
<1>3. stops \subseteq tries /\ \A fee \in steps : Attempt(fee).fee = fee
  OBVIOUS
<1> HIDE DEF stops, steps
<1>4. last \in stops /\ \A other \in stops : last.fee <= other.fee
  <2>1. N \in SUBSET Nat /\ N # {}
    BY <1>1, <1>2, <1>3
  <2>2. PICK fee \in N : \A other \in N : fee <= other
    BY <2>1, SmallestNat
  <2>3. ASSUME NEW try \in stops PROVE \E other \in N : try = Attempt(other) /\ try.fee = other
    BY <1>3
  <2> HIDE DEF Attempt
  <2>4. Attempt(fee) \in stops /\ Attempt(fee).fee = fee
    BY <1>3, <2>2
  <2>5. \A try \in stops : Attempt(fee).fee <= try.fee
    BY <2>2, <2>3, <2>4
  <2>6. \E try \in stops : \A other \in stops : try.fee <= other.fee
    BY <2>4, <2>5
  <2>7. QED
    BY <2>6
<1> HIDE DEF last
<1>5. PICK fee \in steps : last = Attempt(fee)
  BY <1>3, <1>4
<1>6. last.fee = fee /\ last.split = SplitAmount(fee, keys, <<>>)
  BY <1>5
<1>7. fee \in Nat /\ first <= fee /\ fee <= first + MaxFeeSteps + 1
  BY <1>2, AmountBounds DEF steps
<1>8. Due(last) <= last.fee /\ last.split # Throws /\ Due(last) = FeesForKeyset(n + Len(last.split), ppk)
  BY <1>1, <1>4 DEF stops
<1>9. FeePays(n, keys, ppk, fee)
  BY <1>1, <1>6, <1>8 DEF FeePays
<1>10. ASSUME NEW less \in first..(fee - 1) PROVE ~FeePays(n, keys, ppk, less)
  <2>1. less \in steps /\ ~(fee <= less)
    BY <1>2, <1>7, AmountBounds DEF steps
  <2>2. Attempt(less) \in tries /\ Attempt(less).fee = less /\ Attempt(less).split = SplitAmount(less, keys, <<>>)
    BY <2>1
  <2>3. Attempt(less) \notin stops
    BY <1>4, <1>6, <2>1, <2>2
  <2>4. Due(Attempt(less)) # Throws /\ ~(Due(Attempt(less)) <= less)
    BY <2>2, <2>3 DEF stops
  <2>5. ~(FeesForKeyset(n + Len(SplitAmount(less, keys, <<>>)), ppk) <= less)
    BY <2>2, <2>4
  <2>6. QED
    BY <2>5 DEF FeePays
<1>11. first \in 0..fee
  BY <1>2, <1>7
<1>12. QED
  BY <1>1, <1>6, <1>7, <1>9, <1>10, <1>11

\* They pay for themselves and the others, and a smaller fee would not.
LEMMA ReceiveFeeExact ==
  ASSUME NEW n \in Nat, NEW keys \in SUBSET Nat, IsFiniteSet(keys), NEW ppk \in Nat,
         ReceiveFeeAmounts(n, keys, ppk) # Throws
  PROVE  LET fees == ReceiveFeeAmounts(n, keys, ppk)
         IN /\ fees \in Seq(Nat) /\ ToSet(fees) \subseteq keys
            /\ FeesForKeyset(n + Len(fees), ppk) \in 0..AmountSum(fees)
            /\ \A fee \in 0..(AmountSum(fees) - 1) : ~FeePays(n, keys, ppk, fee)
<1> DEFINE first == FeesForKeyset(n, ppk)
           SplitOf(fee) == SplitAmount(fee, keys, <<>>)
           Due(fee) == FeesForKeyset(n + Len(SplitOf(fee)), ppk)
<1>1. PICK last \in Nat :
        /\ first \in 0..last
        /\ ReceiveFeeAmounts(n, keys, ppk) = SplitOf(last)
        /\ FeePays(n, keys, ppk, last)
        /\ \A fee \in first..(last - 1) : ~FeePays(n, keys, ppk, fee)
  BY ReceiveFeeIs
<1>2. SplitOf(last) # Throws /\ Due(last) # Throws /\ Due(last) <= last
  BY <1>1 DEF FeePays
<1>3. /\ SplitOf(last) \in Seq(Nat) /\ AmountSum(SplitOf(last)) = last
      /\ ToSet(SplitOf(last)) \subseteq keys /\ Len(SplitOf(last)) \in Nat
  BY <1>1, <1>2, DefaultSplit
<1>4. Due(last) \in 0..last
  <2>1. n + Len(SplitOf(last)) \in Nat
    BY <1>3
  <2>2. Due(last) \in Nat
    BY <1>2, <2>1, FeesGrow
  <2>3. QED
    BY <1>1, <1>2, <2>2
<1>5. ASSUME NEW fee \in 0..(last - 1) PROVE ~FeePays(n, keys, ppk, fee)
  <2>1. fee \in Nat /\ first \in Nat /\ fee < last
    BY <1>1
  <2>2. CASE first <= fee
    BY <1>1, <2>1, <2>2
  <2>3. CASE ~(first <= fee)
    <3>1. SUFFICES ASSUME SplitOf(fee) # Throws, Due(fee) # Throws, Due(fee) <= fee
                   PROVE  FALSE
      BY DEF FeePays
    <3>2. Len(SplitOf(fee)) \in Nat
      BY <2>1, <3>1, DefaultSplit
    <3>3. n + Len(SplitOf(fee)) \in Nat /\ n <= n + Len(SplitOf(fee))
      BY <3>2
    <3>4. Due(fee) \in Nat /\ first <= Due(fee)
      BY <3>1, <3>3, FeesGrow
    <3>5. QED
      BY <2>1, <2>3, <3>1, <3>4
  <2>4. QED
    BY <2>2, <2>3
<1>6. QED
  BY <1>1, <1>3, <1>4, <1>5

\* Amounts.SplitIsExact for the outputs the wallet makes when neither denominations nor proofs
\* already held are given: whatever the keyset, the amount and the fee.
THEOREM DefaultSplitsAreExact ==
  ASSUME NEW amount \in 0..MaxAmount, NEW keys \in SUBSET Nat, IsFiniteSet(keys),
         NEW includeFees \in BOOLEAN, NEW ppk \in Nat, NEW target
  PROVE  SplitIsExact(amount, keys, <<>>, includeFees, ppk, <<>>, target)
<1> DEFINE split == SplitAmount(amount, keys, <<>>)
           fees == ReceiveFeeAmounts(Len(split), keys, ppk)
           Out(include) == ConfigureOutputs(amount, keys, <<>>, include, ppk, <<>>, target)
           out == Out(includeFees)
           bare == Out(FALSE)
<1>0. amount \in Nat /\ amount <= MaxAmount /\ <<>> # Throws
  <2>1. <<>> \in Seq(Nat)
    OBVIOUS
  <2>2. <<>> # Throws
    BY <2>1, ThrowsAssumption
  <2>3. amount \in Nat /\ amount <= MaxAmount
    BY AmountBounds
  <2>4. QED
    BY <2>2, <2>3
<1>1. split = Throws => out = Throws
  BY DEF ConfigureOutputs, OnTop
<1>2. 1 \in keys /\ amount <= MaxSplitOutputs => split # Throws
  BY <1>0, FillSucceeds DEF SplitAmount
<1>3. CASE split = Throws
  BY <1>1, <1>2, <1>3, ThrowsAssumption DEF SplitIsExact
<1>4. ASSUME split # Throws
      PROVE  SplitIsExact(amount, keys, <<>>, includeFees, ppk, <<>>, target)
  <2>1. split \in Seq(Nat) /\ AmountSum(split) = amount /\ ToSet(split) \subseteq keys /\ Len(split) \in Nat
    BY <1>0, <1>4, DefaultSplit
  <2>2. bare = split
    <3>1. bare = IF amount + AmountSum(<<>>) > MaxAmount THEN Throws ELSE split \o <<>>
      BY <1>0, <1>4 DEF ConfigureOutputs, OnTop
    <3>2. amount + 0 = amount /\ ~(amount > MaxAmount)
      BY <1>0, AmountBounds
    <3>3. split \o <<>> = split
      BY <2>1
    <3> HIDE DEF split, bare
    <3>4. QED
      BY <3>1, <3>2, <3>3, SumOfNone
  <2>3. CASE ~includeFees
    <3>1. out = split
      BY <2>2, <2>3
    <3>2. QED
      BY <1>4, <2>1, <2>3, <3>1 DEF SplitIsExact
  <2>4. CASE includeFees
    <3>1. out = IF fees = Throws \/ amount + AmountSum(fees) > MaxAmount THEN Throws ELSE split \o fees
      BY <1>0, <1>4, <2>4 DEF ConfigureOutputs, OnTop
    <3>2. CASE out = Throws
      BY <2>4, <3>2 DEF SplitIsExact
    <3>3. CASE out # Throws
      <4>1. fees # Throws /\ out = split \o fees
        BY <3>1, <3>3
      <4>2. /\ fees \in Seq(Nat) /\ ToSet(fees) \subseteq keys
            /\ FeesForKeyset(Len(split) + Len(fees), ppk) \in 0..AmountSum(fees)
            /\ \A fee \in 0..(AmountSum(fees) - 1) : ~FeePays(Len(split), keys, ppk, fee)
        BY <2>1, <4>1, ReceiveFeeExact
      <4> HIDE DEF split, fees, out, bare
      <4>3. Len(out) = Len(split) + Len(fees) /\ ToSet(out) \subseteq keys
        BY <2>1, <4>1, <4>2, MembersOfBoth
      <4>4. AmountSum(out) = amount + AmountSum(fees) /\ AmountSum(fees) \in Nat
        BY <2>1, <4>1, <4>2, SumOfBoth, SumTyped
      <4>5. AmountSum(out) - FeesForKeyset(Len(out), ppk) >= amount
        BY <1>0, <4>2, <4>3, <4>4
      <4>6. AmountSum(out) - amount - 1 = AmountSum(fees) - 1
        BY <1>0, <4>4
      <4>7. \A fee \in 0..(AmountSum(out) - amount - 1) : ~FeePays(Len(bare), keys, ppk, fee)
        BY <2>2, <4>2, <4>6
      <4>8. QED
        BY <2>4, <4>3, <4>5, <4>7 DEF SplitIsExact, FeePays, out, bare
    <3>4. QED
      BY <3>2, <3>3
  <2>5. QED
    BY <2>3, <2>4
<1>5. QED
  BY <1>3, <1>4

\* An amount is split into denominations that are worth something.
LEMMA SplitAmountTyped ==
  ASSUME NEW value \in Nat, SplitAmount(value, Keys, <<>>) # Throws
  PROVE  SplitAmount(value, Keys, <<>>) \in Seq(Positive)
<1>1. SplitAmount(value, Keys, <<>>) = Fill(value, Keys, <<>>)
  BY DEF SplitAmount
<1>2. <<>> \in Seq(Positive)
  OBVIOUS
<1>3. QED
  BY <1>1, <1>2, KeysAssumption, FillExact

\* The denominations that pay a receiver's fee.
LEMMA FeeAmountsTyped ==
  ASSUME NEW n, ReceiveFeeAmounts(n, Keys, InputFeePpk) # Throws
  PROVE  ReceiveFeeAmounts(n, Keys, InputFeePpk) \in Seq(Positive)
<1> DEFINE fees == ReceiveFeeAmounts(n, Keys, InputFeePpk)
<1>1. PICK fee \in Nat : fees = SplitAmount(fee, Keys, <<>>)
  BY ReceiveFeeIs
<1>2. QED
  BY <1>1, SplitAmountTyped

\* What an amount is split into is worth something.
LEMMA SplitTyped ==
  ASSUME NEW a \in 0..MaxAmount
  PROVE  /\ Split[a] # Throws => Split[a] \in Seq(Positive)
         /\ SplitWithFees[a] # Throws => SplitWithFees[a] \in Seq(Positive)
<1> DEFINE split == SplitAmount(a, Keys, <<>>)
           fees == ReceiveFeeAmounts(Len(split), Keys, InputFeePpk)
<1>1. a \in Nat
  BY AmountBounds
<1>2. Split[a] # Throws => split # Throws /\ Split[a] = split \o <<>>
  BY DEF Split, ConfigureOutputs, OnTop
<1>3. SplitWithFees[a] # Throws => split # Throws /\ fees # Throws /\ SplitWithFees[a] = split \o fees
  BY DEF SplitWithFees, ConfigureOutputs, OnTop
<1>4. split # Throws => split \in Seq(Positive)
  BY <1>1, SplitAmountTyped
<1>5. fees # Throws => fees \in Seq(Positive)
  BY FeeAmountsTyped
<1> HIDE DEF split, fees
<1>6. \A s, t \in Seq(Positive) : s \o t \in Seq(Positive)
  OBVIOUS
<1>7. <<>> \in Seq(Positive)
  OBVIOUS
<1>8. Split[a] # Throws => Split[a] \in Seq(Positive)
  BY <1>2, <1>4, <1>6, <1>7
<1>9. SplitWithFees[a] # Throws => SplitWithFees[a] \in Seq(Positive)
  BY <1>3, <1>4, <1>5, <1>6
<1>10. QED
  BY <1>8, <1>9

\* A melt has at least no blanks.
LEMMA BlanksTyped ==
  ASSUME NEW n \in Nat
  PROVE  BlankCount(n) \in Nat
<1>1. {k \in 0..n : Powers(n)[k] <= n - 1} \in SUBSET (0..n) /\ IsFiniteSet(0..n)
  BY FS_Interval
<1>2. CeilLog2(n) \in Nat
  BY <1>1, FS_Subset, FS_CardinalityType DEF CeilLog2
<1>3. QED
  BY <1>2 DEF BlankCount

-----------------------------------------------------------------------------
(* batchRestore: a scan in waves of batches.                               *)

\* Multiplying keeps the order.
LEMMA TimesGrows ==
  ASSUME NEW i \in Int, NEW j \in Int, i <= j, NEW b \in Nat
  PROVE  i * b \in Int /\ j * b \in Int /\ i * b <= j * b
<1>1. (j - i) * b >= 0
  OBVIOUS
<1>2. (j - i) * b = j * b - i * b
  OBVIOUS
<1>3. QED
  BY <1>1, <1>2

\* The batch a counter falls into, of k batches.
LEMMA BatchOf ==
  ASSUME NEW y \in Nat, NEW b \in Positive, NEW k \in Nat, y < k * b
  PROVE  \E i \in 0..(k - 1) : i * b <= y /\ y < i * b + b
<1> DEFINE i == y \div b
<1>1. b \in Nat /\ b > 0
  BY DEF Positive
<1>2. i \in Nat /\ b * i <= y /\ y < b * i + b
  BY <1>1
<1> HIDE DEF i
<1>3. b * i = i * b
  BY <1>1, <1>2
<1>4. i < k
  <2>1. CASE k <= i
    <3>1. k * b <= i * b /\ k * b \in Int /\ i * b \in Int
      BY <2>1, <1>1, <1>2, TimesGrows
    <3>2. QED
      BY <3>1, <1>2, <1>3
  <2>2. QED
    BY <1>2, <2>1
<1>5. QED
  BY <1>2, <1>3, <1>4

\* A consists of starts of batches lo to hi of a wave: there are at most as many.
StartsIn(A, counter, b, lo, hi) == \A s \in A : \E i \in lo..hi : s = counter + i * b

\* There are no more starts than batches they are the starts of.
LEMMA CountStarts ==
  ASSUME NEW A, NEW counter \in Nat, NEW b \in Nat, NEW lo \in Nat, NEW hi \in Int,
         StartsIn(A, counter, b, lo, hi)
  PROVE  /\ IsFiniteSet(A) /\ Cardinality(A) \in Nat
         /\ Cardinality(A) <= IF lo > hi THEN 0 ELSE hi - lo + 1
<1> DEFINE f == [s \in A |-> CHOOSE i \in lo..hi : s = counter + i * b]
<1>1. \A s \in A : f[s] \in lo..hi /\ s = counter + f[s] * b
  BY DEF StartsIn
<1>2. DOMAIN f = A /\ f \in [A -> lo..hi]
  BY <1>1
<1> HIDE DEF f
<1>3. \A s, t \in A : f[s] = f[t] => s = t
  BY <1>1
<1>4. f \in Injection(A, lo..hi)
  BY <1>2, <1>3 DEF Injection, IsInjective
<1>5. IsFiniteSet(lo..hi) /\ Cardinality(lo..hi) = IF lo > hi THEN 0 ELSE hi - lo + 1
  BY FS_Interval
<1>6. IsFiniteSet(A) /\ Cardinality(A) <= Cardinality(lo..hi)
  BY <1>4, <1>5, FS_Injection
<1>7. QED
  BY <1>5, <1>6, FS_CardinalityType

\* No counter of S is among the last e batches before k.
Unsigned(S, k, e, b) ==
  e * b <= k /\ \A x \in S : ~(k - e * b <= x /\ x < k)

Count(s, b, bound) == IF b < bound - s + 1 THEN b ELSE bound - s + 1
Hits(S, counter, b, bound) ==
  {s \in WaveStarts(counter, b, bound) : RestoreBatch(S, s, Count(s, b, bound)) # {}}

\* A wave in terms of its batches with a signature.
LEMMA WaveIs ==
  ASSUME NEW S, NEW counter, NEW b, NEW bound, NEW empty
  PROVE  Wave(S, counter, b, bound, empty) =
           [found |-> UNION {RestoreBatch(S, s, Count(s, b, bound)) : s \in WaveStarts(counter, b, bound)},
            empty |-> IF Hits(S, counter, b, bound) = {} THEN empty + Cardinality(WaveStarts(counter, b, bound))
                      ELSE Cardinality({s \in WaveStarts(counter, b, bound) : s > Max(Hits(S, counter, b, bound))})]
BY DEF Wave, Hits, Count

\* The starts of a wave are those of its PoolSize batches up to the bound.
LEMMA StartsOf ==
  ASSUME NEW counter \in Nat, NEW b \in Positive, NEW bound \in Int
  PROVE  /\ \A s \in WaveStarts(counter, b, bound) :
              s \in 0..bound /\ \E i \in 0..(PoolSize - 1) : s = counter + i * b
         /\ \A i \in 0..(PoolSize - 1) : counter + i * b <= bound => counter + i * b \in WaveStarts(counter, b, bound)
<1>1. b \in Nat
  BY DEF Positive
<1>2. \A i \in 0..(PoolSize - 1) : i * b \in Nat
  BY <1>1, PoolSizeAssumption
<1>3. \A i \in 0..(PoolSize - 1) : counter + i * b <= bound => counter + i * b \in 0..bound
  BY <1>2
<1>4. QED
  BY <1>3 DEF WaveStarts

\* A wave finds nothing that was not signed, and counts empty batches.
LEMMA WaveTyped ==
  ASSUME NEW S, NEW counter \in Nat, NEW b \in Positive, NEW bound \in Int, NEW empty \in Nat
  PROVE  /\ Wave(S, counter, b, bound, empty).found \subseteq S
         /\ Wave(S, counter, b, bound, empty).empty \in Nat
<1> DEFINE starts == WaveStarts(counter, b, bound)
           wave == Wave(S, counter, b, bound, empty)
           later == {s \in starts : s > Max(Hits(S, counter, b, bound))}
<1>1. starts \in SUBSET (0..bound) /\ IsFiniteSet(0..bound)
  <2>1. 0 \in Int
    OBVIOUS
  <2>2. IsFiniteSet(0..bound)
    BY <2>1, FS_Interval
  <2>3. QED
    BY <2>2, StartsOf
<1>2. IsFiniteSet(starts) /\ Cardinality(starts) \in Nat
  BY <1>1, FS_Subset, FS_CardinalityType
<1>3. later \in SUBSET starts
  OBVIOUS
<1>4. Cardinality(later) \in Nat
  BY <1>2, <1>3, FS_Subset, FS_CardinalityType
<1>5. \A s : RestoreBatch(S, s, Count(s, b, bound)) \subseteq S
  BY DEF RestoreBatch
<1>6. wave.found \subseteq S
  BY <1>5, WaveIs
<1>7. wave.empty \in {empty + Cardinality(starts), Cardinality(later)}
  BY WaveIs
<1> HIDE DEF later, starts, wave
<1>8. wave.empty \in Nat
  BY <1>2, <1>4, <1>7
<1>9. QED
  BY <1>6, <1>8 DEF wave

\* A counter in a batch of a wave is found in it.
LEMMA InBatch ==
  ASSUME NEW S, NEW counter \in Nat, NEW b \in Positive, NEW bound \in Int,
         NEW x \in S, x \in Nat, counter <= x, x < counter + b * PoolSize, x <= bound
  PROVE  \E i \in 0..(PoolSize - 1) :
           /\ counter + i * b \in WaveStarts(counter, b, bound)
           /\ counter + i * b <= x /\ x < counter + i * b + b
           /\ x \in RestoreBatch(S, counter + i * b, Count(counter + i * b, b, bound))
<1>1. b \in Nat /\ b > 0 /\ PoolSize \in Nat
  BY PoolSizeAssumption DEF Positive
<1>2. x - counter \in Nat /\ x - counter < PoolSize * b
  BY <1>1
<1>3. PICK i \in 0..(PoolSize - 1) : i * b <= x - counter /\ x - counter < i * b + b
  BY <1>1, <1>2, BatchOf
<1> DEFINE s == counter + i * b
<1>4. i * b \in Nat
  BY <1>1
<1>5. s \in Nat /\ s <= x /\ x < s + b
  BY <1>1, <1>3, <1>4
<1>6. s \in WaveStarts(counter, b, bound)
  BY <1>5, StartsOf
<1> HIDE DEF s
<1>7. Count(s, b, bound) \in Int /\ x <= s + Count(s, b, bound) - 1
  BY <1>1, <1>5 DEF Count
<1>8. x \in s..(s + Count(s, b, bound) - 1)
  BY <1>5, <1>7
<1>9. x \in RestoreBatch(S, s, Count(s, b, bound))
  BY <1>8 DEF RestoreBatch
<1>10. QED
  BY <1>5, <1>6, <1>9 DEF s

\* A wave finds every counter it covers.
LEMMA WaveFinds ==
  ASSUME NEW S, NEW counter \in Nat, NEW b \in Positive, NEW bound \in Int, NEW empty,
         NEW x \in S, x \in Nat, counter <= x, x < counter + b * PoolSize, x <= bound
  PROVE  x \in Wave(S, counter, b, bound, empty).found
<1>1. PICK i \in 0..(PoolSize - 1) :
        /\ counter + i * b \in WaveStarts(counter, b, bound)
        /\ x \in RestoreBatch(S, counter + i * b, Count(counter + i * b, b, bound))
  BY InBatch
<1>2. x \in UNION {RestoreBatch(S, s, Count(s, b, bound)) : s \in WaveStarts(counter, b, bound)}
  BY <1>1
<1>3. QED
  BY <1>2, WaveIs

\* After a wave below the bound the gap is what it was before and the wave, or it begins after
\* the last batch that was found.
LEMMA WaveGap ==
  ASSUME NEW S \in SUBSET Nat, NEW counter \in Nat, NEW b \in Positive, NEW bound \in Int, NEW empty \in Nat,
         counter + b * PoolSize <= bound, Unsigned(S, counter, empty, b)
  PROVE  Unsigned(S, counter + b * PoolSize, Wave(S, counter, b, bound, empty).empty, b)
<1> DEFINE starts == WaveStarts(counter, b, bound)
           hits == Hits(S, counter, b, bound)
           e == Wave(S, counter, b, bound, empty).empty
           W == b * PoolSize
<1>1. b \in Nat /\ b > 0 /\ PoolSize \in Nat /\ PoolSize > 0
  BY PoolSizeAssumption DEF Positive
<1>2. W \in Nat /\ W = PoolSize * b /\ W > 0 /\ bound \in Nat /\ PoolSize - 1 \in Int /\ 0 \in Nat
  BY <1>1
<1>3. e \in Nat
  BY WaveTyped
<1>4. empty * b \in Nat /\ empty * b <= counter /\ e * b \in Nat
  BY <1>1, <1>3 DEF Unsigned
<1>5. ASSUME NEW x \in S, counter <= x, x < counter + W
      PROVE  \E i \in 0..(PoolSize - 1) : /\ counter + i * b \in hits
                                          /\ x < counter + i * b + b
  <2>1. x <= bound /\ x \in Nat
    BY <1>2, <1>5
  <2>2. PICK i \in 0..(PoolSize - 1) :
          /\ counter + i * b \in WaveStarts(counter, b, bound)
          /\ counter + i * b <= x /\ x < counter + i * b + b
          /\ x \in RestoreBatch(S, counter + i * b, Count(counter + i * b, b, bound))
    BY <1>5, <2>1, InBatch
  <2>3. counter + i * b \in hits
    BY <2>2 DEF Hits
  <2>4. QED
    BY <2>2, <2>3
<1>6. \A s \in starts : s \in 0..bound /\ \E i \in 0..(PoolSize - 1) : s = counter + i * b
  BY StartsOf
<1>7. hits \subseteq starts
  BY DEF Hits
<1> SUFFICES Unsigned(S, counter + W, e, b)
  OBVIOUS
<1>8. CASE hits = {}
  <2>1. e = empty + Cardinality(starts)
    BY <1>8, WaveIs
  <2>1a. StartsIn(starts, counter, b, 0, PoolSize - 1)
    BY <1>6 DEF StartsIn
  <2>2. Cardinality(starts) \in Nat /\ Cardinality(starts) <= PoolSize
    <3> HIDE DEF starts
    <3>1. Cardinality(starts) <= IF 0 > PoolSize - 1 THEN 0 ELSE (PoolSize - 1) - 0 + 1
      BY <1>1, <1>2, <2>1a, CountStarts, Zenon
    <3>2. Cardinality(starts) \in Nat
      BY <1>1, <1>2, <2>1a, CountStarts, Zenon
    <3>3. QED
      BY <1>1, <3>1, <3>2
  <2>3. e <= empty + PoolSize
    BY <1>1, <2>1, <2>2
  <2>4. e * b <= (empty + PoolSize) * b
    BY <1>1, <1>3, <2>3, TimesGrows
  <2>5. (empty + PoolSize) * b = empty * b + W
    BY <1>1, <1>2
  <2>6. e * b <= empty * b + W
    BY <2>4, <2>5
  <2> HIDE DEF e, W, hits, starts
  <2>7. ASSUME NEW x \in S, (counter + W) - e * b <= x, x < counter + W PROVE FALSE
    <3>1. x \in Nat /\ x < counter
      BY <1>2, <1>5, <1>8, <2>7
    <3>2. counter - empty * b <= x
      BY <1>2, <1>4, <2>6, <2>7, <3>1
    <3>3. QED
      BY <3>1, <3>2 DEF Unsigned
  <2>8. e * b <= counter + W
    BY <1>2, <1>4, <2>6
  <2>9. \A x \in S : ~((counter + W) - e * b <= x /\ x < counter + W)
    BY <2>7
  <2>10. Unsigned(S, counter + W, e, b)
    BY <2>8, <2>9 DEF Unsigned
  <2>11. QED
    BY <2>10
<1>9. CASE hits # {}
  <2> DEFINE h == Max(hits)
             later == {s \in starts : s > h}
  <2>1. hits \subseteq 0..bound
    BY <1>6, <1>7
  <2>2. h \in hits /\ \A s \in hits : s <= h
    <3> HIDE DEF hits
    <3>1. QED
      BY <1>2, <1>9, <2>1, LargestNat
  <2>3. e = Cardinality(later)
    BY <1>9, WaveIs
  <2> HIDE DEF h
  <2>4. PICK j \in 0..(PoolSize - 1) : h = counter + j * b
    BY <1>6, <1>7, <2>2
  <2>5. j + 1 \in Nat /\ j * b \in Nat /\ (j + 1) * b \in Nat /\ (j + 1) * b = j * b + b
    BY <1>1
  <2>6. ASSUME NEW s \in later PROVE \E i \in (j + 1)..(PoolSize - 1) : s = counter + i * b
    <3>1. PICK i \in 0..(PoolSize - 1) : s = counter + i * b
      BY <1>6
    <3>2. s > h
      OBVIOUS
    <3>3. i > j
      <4>1. CASE i <= j
        <5>1. i * b <= j * b /\ i * b \in Int
          BY <1>1, <4>1, TimesGrows
        <5>2. QED
          BY <2>4, <2>5, <3>1, <3>2, <5>1
      <4>2. QED
        BY <4>1
    <3>4. QED
      BY <3>1, <3>3
  <2>6a. StartsIn(later, counter, b, j + 1, PoolSize - 1)
    BY <2>6 DEF StartsIn
  <2> HIDE DEF later
  <2>7. e <= PoolSize - 1 - j
    <3>1. Cardinality(later) <= IF j + 1 > PoolSize - 1 THEN 0 ELSE (PoolSize - 1) - (j + 1) + 1
      BY <1>1, <1>2, <2>5, <2>6a, CountStarts, Zenon
    <3>2. QED
      BY <1>1, <1>3, <2>3, <3>1
  <2>8. e * b <= (PoolSize - 1 - j) * b
    BY <1>1, <1>3, <2>7, TimesGrows
  <2>9. (PoolSize - 1 - j) * b = W - (j + 1) * b
    BY <1>1, <1>2
  <2>10. e * b <= W - (j + 1) * b
    BY <2>8, <2>9
  <2> HIDE DEF e, W
  <2>11. ASSUME NEW x \in S, (counter + W) - e * b <= x, x < counter + W PROVE FALSE
    <3>1. x \in Nat /\ counter + (j + 1) * b <= x
      BY <1>2, <1>4, <2>5, <2>10, <2>11
    <3>2. counter <= x
      BY <2>5, <3>1
    <3>3. PICK i \in 0..(PoolSize - 1) : counter + i * b \in hits /\ x < counter + i * b + b
      BY <1>5, <2>11, <3>2
    <3>4. i * b \in Nat /\ i * b <= j * b
      <4>1. i * b \in Nat
        BY <1>1
      <4>2. counter + i * b <= h
        BY <2>2, <3>3
      <4>3. QED
        BY <2>4, <2>5, <4>1, <4>2
    <3>5. x < counter + j * b + b
      BY <1>1, <2>5, <3>1, <3>3, <3>4
    <3>6. QED
      BY <1>1, <2>5, <3>1, <3>5
  <2>12. e * b <= counter + W
    BY <1>2, <1>4, <2>5, <2>10
  <2>13. \A x \in S : ~((counter + W) - e * b <= x /\ x < counter + W)
    BY <2>11
  <2>14. Unsigned(S, counter + W, e, b)
    BY <2>12, <2>13 DEF Unsigned
  <2>15. QED
    BY <2>14
<1>10. QED
  BY <1>8, <1>9

\* The scan of batchRestore as a sequence of waves: `s` after w - 1 waves is followed by
\* WaveAfter(s, w, ..).
LastOf(S) == IF S = {} THEN 0 ELSE Max(S)
WavesOf(S, b) == LastOf(S) \div (b * PoolSize) + 1
FirstScan(g, b) == [found |-> {}, empty |-> 0, go |-> RequiredEmptyBatches(g, b) > 0]
WaveAfter(s, w, S, g, b, bound) ==
  LET wave == Wave(S, (w - 1) * (b * PoolSize), b, bound, s.empty)
  IN IF ~s.go \/ (w - 1) * (b * PoolSize) > bound THEN [s EXCEPT !.go = FALSE]
     ELSE [found |-> s.found \cup wave.found, empty |-> wave.empty,
           go |-> wave.empty < RequiredEmptyBatches(g, b)]
Scans(S) == [found : SUBSET S, empty : Nat, go : BOOLEAN]

ScansTo(f, S, g, b, bound) ==
  /\ f[0] = FirstScan(g, b)
  /\ \A w \in 1..WavesOf(S, b) : f[w] = WaveAfter(f[w - 1], w, S, g, b, bound)
  /\ \A w \in 0..WavesOf(S, b) : f[w] \in Scans(S)
  /\ BatchRestore(S, g, b, bound) = f[WavesOf(S, b)].found

\* The scan of batchRestore, a recursive function, has values, and the last one is the result.
LEMMA ScanExists ==
  ASSUME NEW m \in Nat, NEW S \in SUBSET (0..m), NEW g \in Nat, NEW b \in Positive, NEW bound \in Int
  PROVE  WavesOf(S, b) \in Nat /\ \E f : ScansTo(f, S, g, b, bound)
<1> DEFINE n == WavesOf(S, b)
           T == Scans(S)
           first == FirstScan(g, b)
           Step(w, s) == WaveAfter(s, w, S, g, b, bound)
           Solves(h) == h = [w \in 0..n |-> IF w = 0 THEN first ELSE Step(w, h[w - 1])]
           scan == CHOOSE h : Solves(h)
<1>1. b \in Nat /\ b > 0 /\ b * PoolSize \in Positive
  BY PoolSizeAssumption DEF Positive
<1>2. LastOf(S) \in Nat
  <2>1. CASE S = {}
    BY <2>1 DEF LastOf
  <2>2. CASE S # {}
    <3>1. Max(S) \in Nat
      BY <2>2, LargestNat
    <3>2. LastOf(S) = Max(S)
      BY <2>2, Zenon DEF LastOf
    <3>3. QED
      BY <3>1, <3>2
  <2>3. QED
    BY <2>1, <2>2
<1>3. n \in Nat
  <2>1. LastOf(S) \div (b * PoolSize) \in Nat
    BY <1>1, <1>2, Quotient
  <2>2. QED
    BY <2>1 DEF WavesOf
<1>4. first \in T
  BY DEF FirstScan, Scans
<1>5. ASSUME NEW w \in 1..n, NEW s \in T PROVE Step(w, s) \in T
  <2> DEFINE counter == (w - 1) * (b * PoolSize)
             wave == Wave(S, counter, b, bound, s.empty)
  <2>1. counter \in Nat
    BY <1>1 DEF Positive
  <2>2. s.empty \in Nat /\ s.found \in SUBSET S
    BY DEF Scans
  <2> HIDE DEF counter
  <2>3. wave.found \subseteq S /\ wave.empty \in Nat
    BY <2>1, <2>2, WaveTyped
  <2> HIDE DEF wave
  <2>4. [s EXCEPT !.go = FALSE] \in T
    BY DEF Scans
  <2>5. [found |-> s.found \cup wave.found, empty |-> wave.empty,
         go |-> wave.empty < RequiredEmptyBatches(g, b)] \in T
    BY <2>2, <2>3 DEF Scans
  <2>6. Step(w, s) = IF ~s.go \/ counter > bound THEN [s EXCEPT !.go = FALSE]
                     ELSE [found |-> s.found \cup wave.found, empty |-> wave.empty,
                           go |-> wave.empty < RequiredEmptyBatches(g, b)]
    BY DEF WaveAfter, wave, counter
  <2> HIDE DEF Step, T
  <2>7. QED
    BY <2>4, <2>5, <2>6
<1>6. BatchRestore(S, g, b, bound) = scan[n].found
  BY DEF BatchRestore, WavesOf, LastOf, FirstScan, WaveAfter
<1> HIDE DEF Step, T, n, first
<1>7. \E h : Solves(h)
  <2> DEFINE step == [w \in 1..n |-> [s \in T |-> Step(w, s)]]
  <2>1. step \in [1..n -> [T -> T]]
    BY <1>5
  <2>2. \A w \in 1..n : \A s \in T : step[w][s] = Step(w, s)
    OBVIOUS
  <2> HIDE DEF step
  <2>3. PICK f : Follows(f, n, T, first, step)
    BY <1>3, <1>4, <2>1, Recursion
  <2>4. ASSUME NEW w \in 1..n PROVE f[w] = Step(w, f[w - 1])
    <3>1. w - 1 \in 0..n
      BY <1>3
    <3>2. f[w - 1] \in T
      BY <2>3, <3>1 DEF Follows
    <3>3. QED
      BY <2>2, <2>3, <3>2 DEF Follows
  <2>5. Solves(f)
    BY <1>3, <2>3, <2>4 DEF Follows
  <2>6. QED
    BY <2>5
<1>8. Solves(scan)
  BY <1>7
<1> HIDE DEF scan
<1>9. /\ scan[0] = first
      /\ \A w \in 1..n : scan[w] = Step(w, scan[w - 1])
  BY <1>3, <1>8
<1>10. \A w \in 0..n : scan[w] \in T
  <2> DEFINE N == {w \in 0..n : scan[w] \notin T}
  <2> SUFFICES ASSUME N # {}
               PROVE  FALSE
    OBVIOUS
  <2>1. N \in SUBSET Nat
    BY <1>3
  <2>2. PICK w \in N : \A k \in N : w <= k
    BY <2>1, SmallestNat
  <2>3. w # 0
    BY <1>4, <1>9
  <2>4. w \in 1..n /\ w - 1 \in 0..n
    BY <1>3, <2>3
  <2>5. w - 1 \notin N
    BY <2>2, <2>4
  <2>6. QED
    BY <1>5, <1>9, <2>4, <2>5
<1>11. ScansTo(scan, S, g, b, bound)
  BY <1>6, <1>9, <1>10 DEF ScansTo, n, T, first, Step
<1>12. QED
  BY <1>3, <1>11 DEF n

\* A restore finds nothing that was not signed.
LEMMA RestoreSound ==
  ASSUME NEW m \in Nat, NEW S \in SUBSET (0..m), NEW g \in Nat, NEW b \in Positive, NEW bound \in Int
  PROVE  BatchRestore(S, g, b, bound) \subseteq S
<1>1. WavesOf(S, b) \in Nat /\ \E f : ScansTo(f, S, g, b, bound)
  BY ScanExists
<1>2. PICK f : ScansTo(f, S, g, b, bound)
  BY <1>1
<1>3. WavesOf(S, b) \in 0..WavesOf(S, b)
  BY <1>1
<1>4. f[WavesOf(S, b)] \in Scans(S)
  BY <1>2, <1>3 DEF ScansTo
<1>5. QED
  BY <1>2, <1>4 DEF ScansTo, Scans

\* Before a counter within the gap limit the scan goes on.
Going(f, w, S, g, b) ==
  /\ f[w].go /\ f[w].empty < RequiredEmptyBatches(g, b)
  /\ Unsigned(S, w * (b * PoolSize), f[w].empty, b)

\* The empty batches that end a scan are at least as long as the gap limit.
LEMMA EnoughBatches ==
  ASSUME NEW g \in Nat, NEW b \in Positive
  PROVE  RequiredEmptyBatches(g, b) \in Nat /\ g <= RequiredEmptyBatches(g, b) * b
<1> DEFINE r == (g + b - 1) \div b
<1>1. b \in Nat /\ b > 0 /\ g + b - 1 \in Nat
  BY DEF Positive
<1>2. r \in Nat /\ g + b - 1 < b * r + b
  BY <1>1
<1> HIDE DEF r
<1>3. b * r = r * b /\ r * b \in Nat
  BY <1>1, <1>2
<1>4. g <= r * b
  BY <1>1, <1>2, <1>3
<1>5. QED
  BY <1>2, <1>4 DEF RequiredEmptyBatches, r

\* A gap that long before c is longer than the gap limit.
LEMMA TooFar ==
  ASSUME NEW S \in SUBSET Nat, NEW c \in Nat, NEW g \in Nat, NEW b \in Positive, NEW bound \in Int,
         WithinGap(S, c, g, bound), NEW k \in Nat, k <= c, NEW e \in Nat, Unsigned(S, k, e, b)
  PROVE  e < RequiredEmptyBatches(g, b)
<1> DEFINE r == RequiredEmptyBatches(g, b)
<1>1. r \in Nat /\ g <= r * b
  BY EnoughBatches
<1>2. b \in Nat /\ b > 0
  BY DEF Positive
<1> HIDE DEF r
<1> SUFFICES ASSUME r <= e
             PROVE  FALSE
  BY <1>1 DEF r
<1>3. r * b \in Int /\ e * b \in Int /\ r * b <= e * b /\ e * b <= k
  BY <1>1, <1>2, TimesGrows DEF Unsigned
<1> DEFINE s == k - r * b
<1>4. s \in 0..c /\ s + g - 1 < k /\ k - e * b <= s /\ s + g - 1 \in Int
  BY <1>1, <1>3
<1> HIDE DEF s
<1>5. s..(s + g - 1) \subseteq 0..c
  BY <1>4
<1>6. (s..(s + g - 1)) \cap S # {}
  BY <1>4, <1>5 DEF WithinGap
<1>7. PICK x \in S : x \in s..(s + g - 1)
  BY <1>6
<1>8. k - e * b <= x /\ x < k
  BY <1>3, <1>4, <1>7
<1>9. QED
  BY <1>8 DEF Unsigned

\* A restore finds every counter that comes within the gap limit.
LEMMA RestoreComplete ==
  ASSUME NEW m \in Nat, NEW S \in SUBSET (0..m), NEW g \in Nat, NEW b \in Positive, NEW bound \in Int,
         NEW c \in Nat, WithinGap(S, c, g, bound)
  PROVE  c \in BatchRestore(S, g, b, bound)
<1> DEFINE W == b * PoolSize
           n == WavesOf(S, b)
           w0 == c \div W
<1>1. n \in Nat /\ \E f : ScansTo(f, S, g, b, bound)
  BY ScanExists
<1>2. PICK f : ScansTo(f, S, g, b, bound)
  BY <1>1
<1>3. W \in Nat /\ W > 0 /\ W \in Positive
  BY PoolSizeAssumption DEF Positive
<1>4. w0 \in Nat /\ W * w0 <= c /\ c < W * w0 + W
  BY <1>3
<1>5. c \in S /\ c <= bound
  BY DEF WithinGap
<1>6. w0 + 1 \in 1..n
  <2>1. c <= LastOf(S) /\ LastOf(S) \in Nat
    <3>1. S # {}
      BY <1>5
    <3>2. Max(S) \in Nat /\ \A x \in S : x <= Max(S)
      BY <3>1, LargestNat
    <3>3. LastOf(S) = Max(S)
      BY <3>1, Zenon DEF LastOf
    <3>4. QED
      BY <1>5, <3>2, <3>3, Zenon
  <2> HIDE DEF W
  <2>2. c \div W <= LastOf(S) \div W
    BY <1>3, <2>1
  <2>3. LastOf(S) \div W \in Nat
    BY <1>3, <2>1
  <2>4. n = LastOf(S) \div W + 1
    BY DEF WavesOf, W
  <2>5. QED
    BY <1>4, <2>2, <2>3, <2>4
<1> HIDE DEF w0, n
<1>7. \A w \in 0..n : f[w].empty \in Nat /\ f[w].found \subseteq S
  BY <1>2 DEF ScansTo, Scans, n
<1>8. ASSUME NEW w \in 0..w0
      PROVE  w * W \in Nat /\ w * W <= W * w0 /\ w * W <= c
  <2>1. w * W <= w0 * W /\ w * W \in Int /\ w0 * W \in Int
    BY <1>3, <1>4, TimesGrows
  <2>2. w0 * W = W * w0 /\ w * W >= 0
    BY <1>3, <1>4
  <2>3. QED
    BY <1>4, <2>1, <2>2
<1>9. Going(f, 0, S, g, b)
  <2>1. Unsigned(S, 0, 0, b)
    BY DEF Unsigned, Positive
  <2>2. 0 < RequiredEmptyBatches(g, b)
    BY <2>1, TooFar
  <2>3. f[0] = FirstScan(g, b)
    BY <1>2 DEF ScansTo
  <2>3a. RequiredEmptyBatches(g, b) > 0
    BY <2>2
  <2>3b. FirstScan(g, b).go = (RequiredEmptyBatches(g, b) > 0) /\ FirstScan(g, b).empty = 0
    BY Zenon DEF FirstScan
  <2>4. f[0].go /\ f[0].empty = 0
    BY <2>3, <2>3a, <2>3b, Zenon
  <2>5. 0 * (b * PoolSize) = 0
    BY <1>3
  <2>6. QED
    BY <2>1, <2>2, <2>4, <2>5 DEF Going
<1>10. ASSUME NEW w \in 1..w0, Going(f, w - 1, S, g, b)
       PROVE  Going(f, w, S, g, b)
  <2> DEFINE counter == (w - 1) * W
             wave == Wave(S, counter, b, bound, f[w - 1].empty)
  <2>1. w - 1 \in 0..w0 /\ w \in 0..w0 /\ w \in 1..n /\ w - 1 \in 0..n
    BY <1>1, <1>4, <1>6
  <2>2. counter \in Nat /\ counter <= c /\ w * W \in Nat /\ w * W <= c
    BY <1>8, <2>1
  <2>3. counter + W = w * W
    BY <1>3
  <2>4. f[w] = WaveAfter(f[w - 1], w, S, g, b, bound)
    BY <1>2, <2>1 DEF ScansTo, n
  <2>5. f[w - 1].go /\ f[w - 1].empty \in Nat /\ counter <= bound /\ counter + W <= bound
    BY <1>5, <1>7, <1>10, <2>1, <2>2, <2>3 DEF Going
  <2>6. f[w] = [found |-> f[w - 1].found \cup wave.found, empty |-> wave.empty,
                go |-> wave.empty < RequiredEmptyBatches(g, b)]
    <3> HIDE DEF counter
    <3>1. ~(counter > bound)
      BY <2>2, <2>5
    <3>2. QED
      BY <2>4, <2>5, <3>1 DEF WaveAfter, wave, counter, W
  <2>7. Unsigned(S, counter, f[w - 1].empty, b)
    BY <1>10 DEF Going, counter, W
  <2> HIDE DEF counter
  <2>8. Unsigned(S, counter + W, wave.empty, b)
    BY <2>2, <2>5, <2>7, WaveGap
  <2>9. wave.empty \in Nat
    BY <2>2, <2>5, WaveTyped
  <2> HIDE DEF wave, W
  <2>10. Unsigned(S, w * W, wave.empty, b)
    BY <2>3, <2>8
  <2>11. wave.empty < RequiredEmptyBatches(g, b)
    BY <2>2, <2>9, <2>10, TooFar
  <2> DEFINE after == [found |-> f[w - 1].found \cup wave.found, empty |-> wave.empty,
                       go |-> wave.empty < RequiredEmptyBatches(g, b)]
  <2>11a. after.go = (wave.empty < RequiredEmptyBatches(g, b)) /\ after.empty = wave.empty
    BY Zenon
  <2>11b. f[w] = after
    BY <2>6, Zenon
  <2> HIDE DEF after
  <2>12. f[w].go /\ f[w].empty = wave.empty
    BY <2>11, <2>11a, <2>11b, Zenon
  <2>13. QED
    BY <2>10, <2>11, <2>12 DEF Going, W
<1>11. Going(f, w0, S, g, b)
  <2> DEFINE N == {w \in 0..w0 : ~Going(f, w, S, g, b)}
  <2>1. N = {}
    <3> SUFFICES ASSUME N # {}
                 PROVE  FALSE
      OBVIOUS
    <3>1. N \in SUBSET Nat
      BY <1>4
    <3>2. PICK w \in N : \A k \in N : w <= k
      BY <3>1, SmallestNat
    <3>3. w # 0
      BY <1>9
    <3>4. w \in 1..w0 /\ w - 1 \in 0..w0
      BY <1>4, <3>3
    <3>5. w - 1 \notin N
      BY <3>2, <3>4
    <3>6. QED
      BY <1>10, <3>4, <3>5
  <2>2. QED
    BY <1>4, <2>1
<1>12. c \in f[w0 + 1].found
  <2> DEFINE counter == w0 * W
             wave == Wave(S, counter, b, bound, f[w0].empty)
  <2>1. w0 \in 0..w0 /\ w0 \in 0..n /\ (w0 + 1) - 1 = w0
    BY <1>1, <1>4, <1>6
  <2>2. counter \in Nat /\ counter = W * w0
    BY <1>3, <1>4
  <2>3. f[w0 + 1] = WaveAfter(f[w0], w0 + 1, S, g, b, bound)
    BY <1>2, <1>6, <2>1 DEF ScansTo, n
  <2>4. f[w0].go /\ counter <= bound
    BY <1>4, <1>5, <1>11, <2>2 DEF Going
  <2>5. f[w0 + 1].found = f[w0].found \cup wave.found
    <3> HIDE DEF counter
    <3>1. ~(counter > bound) /\ counter = ((w0 + 1) - 1) * (b * PoolSize)
      BY <1>3, <1>5, <2>1, <2>2, <2>4 DEF counter, W
    <3>2. QED
      BY <2>3, <2>4, <3>1 DEF WaveAfter, wave
  <2> HIDE DEF counter
  <2>6. c \in wave.found
    BY <1>3, <1>4, <1>5, <2>2, WaveFinds
  <2>7. QED
    BY <2>5, <2>6
<1>13. ASSUME NEW w \in (w0 + 2)..n, c \in f[w - 1].found
       PROVE  c \in f[w].found
  <2>1. w \in 1..n
    BY <1>1, <1>4
  <2>2. f[w] = WaveAfter(f[w - 1], w, S, g, b, bound)
    BY <1>2, <2>1 DEF ScansTo, n
  <2>3. w - 1 \in 0..n /\ f[w - 1] \in Scans(S)
    BY <1>1, <1>2, <2>1 DEF ScansTo, n
  <2>4. QED
    BY <1>13, <2>2, <2>3 DEF WaveAfter, Scans
<1>14. c \in f[n].found
  <2> DEFINE N == {w \in (w0 + 1)..n : c \notin f[w].found}
  <2>1. N = {}
    <3> SUFFICES ASSUME N # {}
                 PROVE  FALSE
      OBVIOUS
    <3>1. N \in SUBSET Nat
      BY <1>1, <1>4
    <3>2. PICK w \in N : \A k \in N : w <= k
      BY <3>1, SmallestNat
    <3>3. w # w0 + 1
      BY <1>12
    <3>4. w \in (w0 + 2)..n /\ w - 1 \in (w0 + 1)..n
      BY <1>1, <1>4, <3>3
    <3>5. w - 1 \notin N
      BY <1>1, <1>4, <3>2, <3>4
    <3>6. QED
      BY <1>13, <3>4, <3>5
  <2>2. n \in (w0 + 1)..n
    BY <1>1, <1>4, <1>6
  <2>3. QED
    BY <2>1, <2>2
<1>15. QED
  BY <1>2, <1>14 DEF ScansTo, n

-----------------------------------------------------------------------------
(* The order of a request and back.                                        *)

Permutes(p, n) ==
  /\ p \in [1..n -> 1..n]
  /\ \A i, j \in 1..n : p[i] = p[j] => i = j
  /\ \A a \in 1..n : \E i \in 1..n : p[i] = a

\* The order of a request is a permutation of the outputs.
LEMMA SortedIndicesPermute ==
  ASSUME NEW t, Merged(t) \in Seq(ProofRecords)
  PROVE  Permutes(SortedIndices(t), Len(Merged(t)))
<1> DEFINE m == Merged(t)
           n == Len(m)
           p == SortedIndices(t)
<1>1. n \in Nat /\ DOMAIN m = 1..n
  OBVIOUS
<1>2. CASE t.sigAll \/ t.kind \in {"mint", "melt"}
  <2>1. p = [i \in 1..n |-> i]
    BY <1>1, <1>2 DEF SortedIndices
  <2> HIDE DEF p, n
  <2>2. QED
    BY <1>1, <2>1 DEF Permutes, p, n
<1>3. CASE ~(t.sigAll \/ t.kind \in {"mint", "melt"})
  <2> DEFINE S == 1..n
             R == {x \in S \X S : Before(m, x[1], x[2])}
  <2>1. \A a, b \in S : <<a, b>> \in R <=> Before(m, a, b)
    OBVIOUS
  <2>2. \A a \in S : m[a].amount \in Nat /\ a \in Nat
    <3>1. \A a \in S : m[a] \in ProofRecords /\ a \in Nat
      BY <1>1
    <3> HIDE DEF m
    <3>2. QED
      BY <3>1 DEF ProofRecords
  <2>3. IsFiniteSet(S) /\ Cardinality(S) = n
    BY <1>1, FS_Interval
  <2> HIDE DEF R, S
  <2>4. Orders(R, S)
    <3>1. \A a \in S : <<a, a>> \notin R
      BY <2>1, <2>2 DEF Before
    <3>2. ASSUME NEW a \in S, NEW b \in S, NEW c \in S, <<a, b>> \in R, <<b, c>> \in R
          PROVE  <<a, c>> \in R
      <4>1. Before(m, a, b) /\ Before(m, b, c)
        BY <2>1, <3>2
      <4> HIDE DEF m
      <4>2. Before(m, a, c)
        BY <2>2, <4>1 DEF Before
      <4>3. QED
        BY <2>1, <4>2
    <3>3. \A a, b \in S : a # b => <<a, b>> \in R \/ <<b, a>> \in R
      BY <2>1, <2>2 DEF Before
    <3>4. QED
      BY <3>1, <3>2, <3>3 DEF Orders
  <2>5. HasPlaces(R, S)
    BY <2>3, <2>4, Places
  <2>6. \A a \in S : Place(R, S, a) = Cardinality({b \in S : Before(m, b, a)})
    <3>1. \A a \in S : {b \in S : <<b, a>> \in R} = {b \in S : Before(m, b, a)}
      BY <2>1
    <3>2. QED
      BY <3>1 DEF Place
  <2>7. p = [i \in S |-> CHOOSE a \in S : Cardinality({b \in S : Before(m, b, a)}) = i - 1]
    BY <1>1, <1>3 DEF SortedIndices, S
  <2>8. \A i \in S : \E a \in S : Cardinality({b \in S : Before(m, b, a)}) = i - 1
    BY <2>3, <2>5, <2>6 DEF HasPlaces, S
  <2> HIDE DEF p, m
  <2>9. ASSUME NEW i \in S PROVE p[i] \in S /\ Place(R, S, p[i]) = i - 1
    <3>1. p[i] = CHOOSE a \in S : Cardinality({b \in S : Before(m, b, a)}) = i - 1
      BY <2>7
    <3>2. p[i] \in S /\ Cardinality({b \in S : Before(m, b, p[i])}) = i - 1
      BY <2>8, <3>1
    <3>3. QED
      BY <2>6, <3>2
  <2>10. p \in [S -> S]
    BY <2>7, <2>9
  <2>11. \A i, j \in S : p[i] = p[j] => i = j
    BY <2>2, <2>9
  <2>12. ASSUME NEW a \in S PROVE \E i \in S : p[i] = a
    <3>1. Place(R, S, a) \in 0..(n - 1)
      BY <2>3, <2>5 DEF HasPlaces
    <3>2. Place(R, S, a) + 1 \in S
      BY <1>1, <3>1 DEF S
    <3>3. Place(R, S, p[Place(R, S, a) + 1]) = Place(R, S, a)
      BY <2>9, <3>1, <3>2
    <3>4. p[Place(R, S, a) + 1] = a
      BY <2>5, <2>9, <3>2, <3>3 DEF HasPlaces
    <3>5. QED
      BY <3>2, <3>4
  <2> HIDE DEF n
  <2>13. QED
    BY <2>10, <2>11, <2>12 DEF Permutes, S, p, n, m
<1>4. QED
  BY <1>2, <1>3

\* The request lists every output once, and the proofs come back in the order of the outputs.
LEMMA OutputsAreMerged ==
  ASSUME NEW t, Merged(t) \in Seq(ProofRecords)
  PROVE  /\ OutputData(t) \in Seq(ProofRecords) /\ Len(OutputData(t)) = Len(Merged(t))
         /\ \A i \in 1..Len(Merged(t)) : SortedIndices(t)[i] \in 1..Len(Merged(t))
                                         /\ OutputData(t)[i] = Merged(t)[SortedIndices(t)[i]]
         /\ Reordered(t, OutputData(t)) = Merged(t)
<1> DEFINE m == Merged(t)
           n == Len(m)
           p == SortedIndices(t)
<1>1. n \in Nat /\ DOMAIN m = 1..n /\ m = [i \in 1..n |-> m[i]] /\ \A i \in 1..n : m[i] \in ProofRecords
  OBVIOUS
<1>2. Permutes(p, n)
  BY SortedIndicesPermute
<1>3. OutputData(t) = [i \in 1..n |-> m[p[i]]]
  BY <1>1 DEF OutputData
<1> HIDE DEF m, n, p
<1>4. \A i \in 1..n : p[i] \in 1..n
  BY <1>2 DEF Permutes
<1>5. OutputData(t) \in [1..n -> ProofRecords] /\ DOMAIN OutputData(t) = 1..n
  BY <1>1, <1>3, <1>4
<1>6. OutputData(t) \in Seq(ProofRecords) /\ Len(OutputData(t)) = n
  BY <1>1, <1>5
<1>7. Reordered(t, OutputData(t)) = [s \in 1..n |-> OutputData(t)[CHOOSE i \in 1..n : p[i] = s]]
  BY <1>5 DEF Reordered, p
<1>8. ASSUME NEW s \in 1..n PROVE OutputData(t)[CHOOSE i \in 1..n : p[i] = s] = m[s]
  <2>1. \E i \in 1..n : p[i] = s
    BY <1>2 DEF Permutes
  <2>2. QED
    BY <1>3, <2>1
<1>9. Reordered(t, OutputData(t)) = m
  BY <1>1, <1>7, <1>8
<1>10. QED
  BY <1>3, <1>4, <1>6, <1>9 DEF m, n, p

-----------------------------------------------------------------------------
(* The invariant.                                                          *)

\* The ids handed out so far: counters, and the random ones.
Used == (0..(nextCounter - 1)) \cup {-(1000 + n) : n \in 0..(randoms - 1)}

OutputIds(t) == {Merged(t)[i].id : i \in DOMAIN Merged(t)}

\* A preview whose outputs have ids of their own, and where only blanks have no amount.
Drawn(t) ==
  /\ t \in Previews
  /\ \A i, j \in DOMAIN Merged(t) : Merged(t)[i].id = Merged(t)[j].id => i = j
  /\ IF t.kind = "melt" THEN t.inputs # {} /\ t.send = <<>>
     ELSE \A i \in DOMAIN Merged(t) : Merged(t)[i].amount # 0

\* Signatures belong to the outputs of t in the order of the request.
Belongs(t, sigs) ==
  /\ sigs \in Seq(Signatures)
  /\ IF t.kind = "melt" THEN Len(sigs) <= Len(OutputData(t)) ELSE Len(sigs) = Len(OutputData(t))
  /\ \A i \in DOMAIN sigs : /\ sigs[i].b = OutputData(t)[i].id
                            /\ t.kind # "melt" => sigs[i].amount = OutputData(t)[i].amount

Preparations ==
  /\ nextCounter \in Nat /\ Cardinality(Stored) <= nextCounter /\ randoms \in Nat
  /\ txn \in [Transactions -> Previews \cup {None}]
  /\ \A o \in Transactions : txn[o] # None => Drawn(txn[o]) /\ OutputIds(txn[o]) \subseteq Used
  /\ \A o, p \in Transactions : txn[o] # None /\ txn[p] # None /\ o # p =>
       OutputIds(txn[o]) \cap OutputIds(txn[p]) = {}
  /\ held \subseteq {o \in Transactions : txn[o] # None}

\* What a proof is worth to the mint.
Real(p) == p.id \in DOMAIN signed /\ signed[p.id] = p.amount

\* Whatever is signed was there from the start or is an output the mint answered for.
Signing ==
  /\ signed = [c \in DOMAIN signed |-> signed[c]]
  /\ \A c \in DOMAIN signed : c \in Int /\ signed[c] \in Nat
  /\ answers \in [Transactions -> Seq(Signatures) \cup {None}]
  /\ \A o \in Transactions : answers[o] # None =>
       /\ txn[o] # None /\ Belongs(txn[o], answers[o])
       /\ \A i \in DOMAIN answers[o] : answers[o][i].b \in DOMAIN signed
                                       /\ signed[answers[o][i].b] = answers[o][i].amount
  /\ \A c \in DOMAIN signed : \/ c \in Ids(Stored \cup Token)
                              \/ \E o \in Transactions : txn[o] # None /\ c \in OutputIds(txn[o])
  /\ \A o \in Transactions : txn[o] # None => \A c \in OutputIds(txn[o]) \cap DOMAIN signed :
       answers[o] # None /\ \E i \in DOMAIN answers[o] : answers[o][i].b = c

\* A payment under way holds its inputs and nothing is signed for it yet; inputs of what is
\* answered are spent for good.
Paying ==
  /\ payment = [o \in Transactions |-> payment[o]]
  /\ \A o \in Transactions : payment[o] # None => txn[o] # None /\ txn[o].kind = "melt"
  /\ \A o \in Transactions : payment[o] = "PENDING" =>
       OutputIds(txn[o]) \cap DOMAIN signed = {} /\ Ids(txn[o].inputs) \subseteq spent
  /\ \A o, p \in Transactions : payment[o] = "PENDING" /\ payment[p] = "PENDING" /\ o # p =>
       Ids(txn[o].inputs) \cap Ids(txn[p].inputs) = {}
  /\ \A o \in Transactions : payment[o] = "PAID" => answers[o] # None
  /\ \A o \in Transactions : answers[o] # None => Ids(txn[o].inputs) \subseteq Spent

\* What the caller accepts is what the mint signed, or the answer of a payment under way.
Wires ==
  /\ wire = [o \in Transactions |-> wire[o]]
  /\ \A o \in Transactions : wire[o] # None => txn[o] # None
  /\ \A o \in Transactions :
       wire[o] # None /\ wire[o].type = "answer" => wire[o].sigs \in Seq(Signatures)
  /\ \A o \in Transactions :
       wire[o] # None /\ wire[o].type = "answer" /\ Acceptable(txn[o], wire[o].sigs) =>
         \/ answers[o] # None /\ wire[o].sigs = answers[o]
         \/ txn[o].kind = "melt" /\ wire[o].sigs = <<>>

Storing ==
  /\ store \subseteq ProofRecords /\ \A p \in store : Real(p)
  /\ given = [o \in Transactions |-> given[o]]
  /\ \A o \in Transactions : given[o] # <<>> =>
       /\ txn[o] # None /\ given[o] = txn[o].send
       /\ \A i \in DOMAIN given[o] : Real(given[o][i])

\* Stored or handed out.
InHand(c) ==
  \/ c \in Ids(store)
  \/ \E p \in Transactions : \E i \in DOMAIN given[p] : given[p][i].id = c

\* What was signed for a kept preview is in somebody's hands until it is spent for good.
Keeping ==
  \A o \in Transactions : txn[o] # None /\ txn[o].kept /\ o \notin held =>
    /\ answers[o] # None
    /\ \A c \in OutputIds(txn[o]) \cap DOMAIN signed : InHand(c) \/ c \in Spent

TransactionInv == Preparations /\ Signing /\ Paying /\ Wires /\ Storing /\ Keeping

\* The parts of a preview.
LEMMA PreviewTypes ==
  ASSUME NEW t \in Previews
  PROVE  /\ Merged(t) \in Seq(ProofRecords) /\ Len(Merged(t)) = Len(t.keep) + Len(t.send)
         /\ t.keep \in Seq(ProofRecords) /\ t.send \in Seq(ProofRecords)
         /\ t.inputs \subseteq ProofRecords /\ t.kind \in {"receive", "send", "mint", "melt"}
         /\ t.kept \in BOOLEAN /\ OutputIds(t) \subseteq Int
<1>1. /\ t.keep \in Seq(ProofRecords) /\ t.send \in Seq(ProofRecords)
      /\ t.inputs \subseteq ProofRecords /\ t.kind \in {"receive", "send", "mint", "melt"}
      /\ t.kept \in BOOLEAN
  BY DEF Previews
<1>2. Merged(t) \in Seq(ProofRecords) /\ Len(Merged(t)) = Len(t.keep) + Len(t.send)
  BY <1>1 DEF Merged
<1>3. \A i \in DOMAIN Merged(t) : Merged(t)[i] \in ProofRecords /\ Merged(t)[i].id \in Int
  <2>1. \A i \in DOMAIN Merged(t) : Merged(t)[i] \in ProofRecords
    BY <1>2, SeqElements
  <2>2. QED
    BY <2>1 DEF ProofRecords
<1>4. QED
  BY <1>1, <1>2, <1>3 DEF OutputIds

\* The outputs and the signatures of what is answered for.
LEMMA BelongsTo ==
  ASSUME NEW t \in Previews, NEW sigs, Belongs(t, sigs)
  PROVE  \A i \in DOMAIN sigs : sigs[i].b \in OutputIds(t)
<1>1. Merged(t) \in Seq(ProofRecords)
  BY PreviewTypes
<1>2. /\ OutputData(t) \in Seq(ProofRecords) /\ Len(OutputData(t)) = Len(Merged(t))
      /\ \A i \in 1..Len(Merged(t)) : SortedIndices(t)[i] \in 1..Len(Merged(t))
                                      /\ OutputData(t)[i] = Merged(t)[SortedIndices(t)[i]]
  BY <1>1, OutputsAreMerged
<1> SUFFICES ASSUME NEW i \in DOMAIN sigs
             PROVE  sigs[i].b \in OutputIds(t)
  OBVIOUS
<1>3. Len(sigs) <= Len(OutputData(t)) /\ sigs \in Seq(Signatures)
  BY <1>2 DEF Belongs
<1>4. i \in 1..Len(Merged(t))
  BY <1>1, <1>2, <1>3
<1>5. sigs[i].b = Merged(t)[SortedIndices(t)[i]].id /\ SortedIndices(t)[i] \in DOMAIN Merged(t)
  BY <1>1, <1>2, <1>4 DEF Belongs
<1>6. QED
  BY <1>5 DEF OutputIds

\* Ids of received proofs are apart from counters and from random ids.
LEMMA TokenIds ==
  ASSUME NEW p \in Token
  PROVE  p.id \in Int /\ p.id < 0 /\ -1000 < p.id /\ p.amount \in Nat
<1>1. p \in [id : -999..-1, amount : Keys] /\ Keys \subseteq Nat
  BY TokenAssumption, KeysAssumption
<1>2. p.id \in -999..-1 /\ p.amount \in Keys
  BY <1>1
<1>a. \A i \in -999..-1 : i \in Int /\ -999 <= i /\ i <= -1
  OBVIOUS
<1>3. p.id \in Int /\ -999 <= p.id /\ p.id <= -1
  BY <1>2, <1>a
<1>4. p.amount \in Nat
  BY <1>1, <1>2
<1>5. -1000 < p.id
  BY <1>3
<1>6. p.id < 0
  BY <1>3
<1>7. QED
  BY <1>3, <1>4, <1>5, <1>6

\* The proofs the wallet starts with are real, and have used the first counters.
LEMMA TransactionInvInit == TransactionInit => TransactionInv
<1> SUFFICES ASSUME TransactionInit
             PROVE  TransactionInv
  OBVIOUS
<1> USE DEF TransactionInit
<1>1. Preparations
  <2>1. Cardinality(Stored) \in Nat
    BY StoredAssumption, FS_CardinalityType
  <2>2. \A o \in Transactions : txn[o] = None
    OBVIOUS
  <2>3. QED
    BY <2>1, <2>2 DEF Preparations
<1>a. \A p \in Stored : p.id \in Nat /\ p.amount \in Nat /\ p \in ProofRecords
  <2> TAKE p \in Stored
  <2>1. p \in [id : Nat, amount : Keys] /\ Keys \subseteq Nat
    BY StoredAssumption, KeysAssumption
  <2>2. p.id \in Nat /\ p.amount \in Nat /\ p = [id |-> p.id, amount |-> p.amount]
    BY <2>1
  <2>3. p \in ProofRecords
    BY <2>2 DEF ProofRecords
  <2>4. QED
    BY <2>2, <2>3
<1>c. \A p \in Token : p.id \in Int /\ p.id < 0 /\ p.amount \in Nat
  BY TokenIds
<1>2. ASSUME NEW p \in Stored \cup Token, NEW q \in Stored \cup Token, p.id = q.id PROVE p = q
  <2>1. CASE p \in Stored /\ q \in Stored
    BY <1>2, <2>1, StoredAssumption
  <2>2. CASE p \in Token /\ q \in Token
    BY <1>2, <2>2, TokenAssumption
  <2>3. ~(p \in Stored /\ q \in Token) /\ ~(p \in Token /\ q \in Stored)
    BY <1>2, <1>a, <1>c
  <2>4. QED
    BY <2>1, <2>2, <2>3
<1>3. \A p \in Stored \cup Token : p.id \in Int /\ p.amount \in Nat
  BY <1>a, <1>c
<1>4. DOMAIN signed = Ids(Stored \cup Token)
  OBVIOUS
<1>5. \A p \in Stored \cup Token : Real(p)
  <2> TAKE p \in Stored \cup Token
  <2>1. p.id \in Ids(Stored \cup Token)
    BY DEF Ids
  <2>2. (CHOOSE q \in Stored \cup Token : q.id = p.id) = p
    BY <1>2
  <2>3. QED
    BY <2>1, <2>2 DEF Real
<1>6. Signing
  <2>1. signed = [c \in DOMAIN signed |-> signed[c]]
    OBVIOUS
  <2>2. ASSUME NEW c \in DOMAIN signed PROVE c \in Int /\ signed[c] \in Nat
    <3>1. PICK p \in Stored \cup Token : p.id = c
      BY <1>4 DEF Ids
    <3>2. QED
      BY <1>3, <1>5, <3>1 DEF Real
  <2>3. answers \in [Transactions -> Seq(Signatures) \cup {None}]
    OBVIOUS
  <2>4. QED
    BY <1>4, <2>1, <2>2, <2>3 DEF Signing
<1>7. Paying
  <2>1. \A o \in Transactions : payment[o] = None /\ None # "PENDING" /\ None # "PAID"
    BY NoneAssumption
  <2>2. QED
    BY <2>1 DEF Paying
<1>8. Wires
  BY DEF Wires
<1>9. Storing
  <2>1. store \subseteq ProofRecords
    BY <1>a
  <2>2. \A p \in store : Real(p)
    BY <1>5
  <2>3. QED
    BY <2>1, <2>2 DEF Storing
<1>10. Keeping
  BY DEF Keeping
<1>11. QED
  BY <1>1, <1>6, <1>7, <1>8, <1>9, <1>10 DEF TransactionInv

-----------------------------------------------------------------------------
(* Preparing: outputs with new ids.                                        *)

\* The id of the k-th output of an operation whose first is `first`.
IdOf(first, k, det) == IF det THEN first + k - 1 ELSE -(1000 + first + k - 1)

\* The outputs of t are numbered from first, in whatever order, and there are n of them.
Numbered(t, first, det, n) ==
  \E p \in [DOMAIN Merged(t) -> 1..n] :
    /\ \A i, j \in DOMAIN Merged(t) : p[i] = p[j] => i = j
    /\ \A i \in DOMAIN Merged(t) : Merged(t)[i].id = IdOf(first, p[i], det)

\* createOutputData makes one output for each amount, with the ids in order.
LEMMA Created ==
  ASSUME NEW amounts \in Seq(Nat), NEW first \in Nat, NEW det \in BOOLEAN
  PROVE  /\ CreateOutputs(amounts, first, det) \in Seq(ProofRecords)
         /\ Len(CreateOutputs(amounts, first, det)) = Len(amounts)
         /\ \A i \in 1..Len(amounts) :
              /\ CreateOutputs(amounts, first, det)[i].id = IdOf(first, i, det)
              /\ CreateOutputs(amounts, first, det)[i].amount = amounts[i]
<1> DEFINE n == Len(amounts)
           outs == CreateOutputs(amounts, first, det)
<1>1. n \in Nat /\ DOMAIN amounts = 1..n /\ \A i \in 1..n : amounts[i] \in Nat
  BY SeqElements
<1>2. outs = [i \in 1..n |-> [id |-> IF det THEN first + i - 1 ELSE -(1000 + first + i - 1), amount |-> amounts[i]]]
  BY <1>1 DEF CreateOutputs
<1> HIDE DEF n, outs
<1>3. ASSUME NEW i \in 1..n
      PROVE  outs[i].id = IdOf(first, i, det) /\ outs[i].amount = amounts[i] /\ outs[i] \in ProofRecords
  <2>1. outs[i] = [id |-> IF det THEN first + i - 1 ELSE -(1000 + first + i - 1), amount |-> amounts[i]]
    BY <1>2
  <2>2. (IF det THEN first + i - 1 ELSE -(1000 + first + i - 1)) \in Int
    BY <1>1
  <2>3. amounts[i] \in Nat
    BY <1>1
  <2>4. outs[i] \in ProofRecords
    BY <2>1, <2>2, <2>3 DEF ProofRecords
  <2>5. QED
    BY <2>1, <2>4 DEF IdOf
<1>4. outs \in [1..n -> ProofRecords]
  BY <1>2, <1>3
<1>5. outs \in Seq(ProofRecords) /\ Len(outs) = n
  BY <1>1, <1>4
<1>6. QED
  BY <1>3, <1>5 DEF n, outs

\* Ids that are claimed are new.
LEMMA Claimed ==
  ASSUME nextCounter \in Nat, randoms \in Nat, NEW n \in Nat, NEW det \in BOOLEAN, ClaimCounters(n, det)
  PROVE  /\ nextCounter' \in Nat /\ randoms' \in Nat /\ nextCounter <= nextCounter'
         /\ First(det) \in Nat /\ Used \subseteq Used'
         /\ \A k \in 1..n : IdOf(First(det), k, det) \in Used' /\ IdOf(First(det), k, det) \notin Used
         /\ \A k, l \in 1..n : IdOf(First(det), k, det) = IdOf(First(det), l, det) => k = l
<1>1. CASE det
  <2>1. nextCounter' = nextCounter + n /\ randoms' = randoms /\ First(det) = nextCounter
    BY <1>1 DEF ClaimCounters, First
  <2>2. \A k \in 1..n : IdOf(First(det), k, det) = nextCounter + k - 1
    BY <1>1, <2>1 DEF IdOf
  <2>3. Used \subseteq Used'
    BY <2>1 DEF Used
  <2>4. ASSUME NEW k \in 1..n
        PROVE  IdOf(First(det), k, det) \in Used' /\ IdOf(First(det), k, det) \notin Used
    <3>1. nextCounter + k - 1 \in 0..(nextCounter' - 1)
      BY <2>1
    <3>2. nextCounter + k - 1 \notin 0..(nextCounter - 1)
      OBVIOUS
    <3>3. \A m \in 0..(randoms - 1) : nextCounter + k - 1 # -(1000 + m)
      OBVIOUS
    <3>4. QED
      BY <2>2, <3>1, <3>2, <3>3 DEF Used
  <2>5. QED
    BY <2>1, <2>2, <2>3, <2>4
<1>2. CASE ~det
  <2>1. randoms' = randoms + n /\ nextCounter' = nextCounter /\ First(det) = randoms
    BY <1>2 DEF ClaimCounters, First
  <2>2. \A k \in 1..n : IdOf(First(det), k, det) = -(1000 + randoms + k - 1)
    BY <1>2, <2>1 DEF IdOf
  <2>3. \A m \in 0..(randoms - 1) : m \in 0..(randoms' - 1)
    BY <2>1
  <2>4. Used \subseteq Used'
    BY <2>1, <2>3 DEF Used
  <2>5. ASSUME NEW k \in 1..n
        PROVE  IdOf(First(det), k, det) \in Used' /\ IdOf(First(det), k, det) \notin Used
    <3>1. randoms + k - 1 \in 0..(randoms' - 1) /\ -(1000 + randoms + k - 1) = -(1000 + (randoms + k - 1))
      BY <2>1
    <3>2. -(1000 + randoms + k - 1) \notin 0..(nextCounter - 1)
      OBVIOUS
    <3>3. \A m \in 0..(randoms - 1) : -(1000 + randoms + k - 1) # -(1000 + m)
      OBVIOUS
    <3>4. IdOf(First(det), k, det) \in Used'
      BY <2>2, <3>1 DEF Used
    <3>5. QED
      BY <2>2, <3>2, <3>3, <3>4 DEF Used
  <2>6. QED
    BY <2>1, <2>2, <2>4, <2>5
<1>3. QED
  BY <1>1, <1>2

\* What an operation claims was never signed.
LEMMA ClaimedIsUnsigned ==
  ASSUME Preparations, Signing, NEW n \in Nat, NEW det \in BOOLEAN, ClaimCounters(n, det)
  PROVE  \A k \in 1..n : IdOf(First(det), k, det) \notin DOMAIN signed
<1> SUFFICES ASSUME NEW k \in 1..n
             PROVE  IdOf(First(det), k, det) \notin DOMAIN signed
  OBVIOUS
<1> DEFINE id == IdOf(First(det), k, det)
<1>1. nextCounter \in Nat /\ randoms \in Nat /\ Cardinality(Stored) <= nextCounter
  BY DEF Preparations
<1>2. First(det) \in Nat /\ id \notin Used
  BY <1>1, Claimed
<1> HIDE DEF id
<1>3. id \in Int /\ (id >= 0 \/ id <= -1000)
  <2>1. k \in Nat /\ k >= 1
    OBVIOUS
  <2>a. First(det) \in Nat
    BY <1>2
  <2>2. CASE det
    <3>1. id = First(det) + k - 1
      BY <2>2 DEF id, IdOf
    <3>2. QED
      BY <2>a, <2>1, <3>1
  <2>3. CASE ~det
    <3>1. id = -(1000 + First(det) + k - 1)
      BY <2>3 DEF id, IdOf
    <3>2. QED
      BY <2>a, <2>1, <3>1
  <2>4. QED
    BY <2>2, <2>3
<1>4. id \notin Ids(Token)
  BY <1>3, TokenIds DEF Ids
<1>5. \A p \in Stored : p.id \in 0..(nextCounter - 1)
  <2> TAKE p \in Stored
  <2>1. p \in [id : Nat, amount : Keys] /\ p.id < Cardinality(Stored) /\ Cardinality(Stored) \in Nat
    BY StoredAssumption, FS_CardinalityType
  <2>2. p.id \in Nat
    BY <2>1
  <2>3. QED
    BY <1>1, <2>1, <2>2
<1>6. id \notin Ids(Stored)
  BY <1>2, <1>5 DEF Ids, Used
<1>7. id \notin Ids(Stored \cup Token)
  BY <1>4, <1>6 DEF Ids
<1>8. \A o \in Transactions : txn[o] # None => id \notin OutputIds(txn[o])
  BY <1>2 DEF Preparations
<1>9. QED
  BY <1>7, <1>8 DEF Signing, id

\* An operation is prepared: its outputs are nobody else's and not signed yet.
LEMMA PrepareStep ==
  ASSUME TransactionInv, NEW o \in Transactions, txn[o] = None, NEW t \in Previews,
         IF t.kind = "melt" THEN t.inputs # {} /\ t.send = <<>>
         ELSE \A i \in DOMAIN Merged(t) : Merged(t)[i].amount # 0,
         NEW n \in Nat, NEW det \in BOOLEAN, ClaimCounters(n, det),
         Numbered(t, First(det), det, n), Prepared(o, t)
  PROVE  TransactionInv'
<1> USE DEF TransactionInv
<1>1. /\ txn' = [txn EXCEPT ![o] = t] /\ held' = held \cup {o}
      /\ store' = store /\ given' = given /\ call' = call /\ wire' = wire
      /\ signed' = signed /\ spent' = spent /\ answers' = answers /\ payment' = payment
  BY DEF Prepared, mintVars
<1>2. nextCounter \in Nat /\ randoms \in Nat /\ Cardinality(Stored) <= nextCounter
      /\ Cardinality(Stored) \in Nat /\ t # None /\ txn \in [Transactions -> Previews \cup {None}]
  BY NoneAssumption, StoredAssumption, FS_CardinalityType DEF Preparations
<1>3. /\ nextCounter' \in Nat /\ randoms' \in Nat /\ nextCounter <= nextCounter'
      /\ Used \subseteq Used'
      /\ \A k \in 1..n : IdOf(First(det), k, det) \in Used' /\ IdOf(First(det), k, det) \notin Used
      /\ \A k, l \in 1..n : IdOf(First(det), k, det) = IdOf(First(det), l, det) => k = l
  BY <1>2, Claimed
<1>4. /\ \A i, j \in DOMAIN Merged(t) : Merged(t)[i].id = Merged(t)[j].id => i = j
      /\ \A i \in DOMAIN Merged(t) : \E k \in 1..n : Merged(t)[i].id = IdOf(First(det), k, det)
  <2>1. PICK p \in [DOMAIN Merged(t) -> 1..n] :
          /\ \A i, j \in DOMAIN Merged(t) : p[i] = p[j] => i = j
          /\ \A i \in DOMAIN Merged(t) : Merged(t)[i].id = IdOf(First(det), p[i], det)
    BY DEF Numbered
  <2>2. \A i \in DOMAIN Merged(t) : p[i] \in 1..n
    BY <2>1
  <2>3. QED
    BY <1>3, <2>1, <2>2
<1>5. Drawn(t)
  BY <1>4 DEF Drawn
<1>6. \A c \in OutputIds(t) : c \in Used' /\ c \notin Used /\ c \notin DOMAIN signed
  BY <1>3, <1>4, ClaimedIsUnsigned DEF OutputIds
<1>7. txn'[o] = t /\ \A p \in Transactions \ {o} : txn'[p] = txn[p]
  BY <1>1, <1>2
<1>8. Preparations'
  <2>1. nextCounter' \in Nat /\ Cardinality(Stored) <= nextCounter' /\ randoms' \in Nat
    BY <1>2, <1>3
  <2>2. txn' \in [Transactions -> Previews \cup {None}]
    BY <1>1, <1>2
  <2>3. ASSUME NEW p \in Transactions, txn'[p] # None
        PROVE  Drawn(txn'[p]) /\ OutputIds(txn'[p]) \subseteq Used'
    BY <1>3, <1>5, <1>6, <1>7, <2>3 DEF Preparations
  <2>4. ASSUME NEW p \in Transactions, NEW q \in Transactions, txn'[p] # None, txn'[q] # None, p # q
        PROVE  OutputIds(txn'[p]) \cap OutputIds(txn'[q]) = {}
    <3>1. CASE p # o /\ q # o
      BY <1>7, <2>4, <3>1 DEF Preparations
    <3>2. CASE p = o
      <4>1. OutputIds(txn[q]) \subseteq Used /\ txn'[q] = txn[q] /\ txn'[p] = t
        BY <1>7, <2>4, <3>2 DEF Preparations
      <4>2. QED
        BY <1>6, <4>1
    <3>3. CASE q = o
      <4>1. OutputIds(txn[p]) \subseteq Used /\ txn'[p] = txn[p] /\ txn'[q] = t
        BY <1>7, <2>4, <3>3 DEF Preparations
      <4>2. QED
        BY <1>6, <4>1
    <3>4. QED
      BY <3>1, <3>2, <3>3
  <2>5. held' \subseteq {p \in Transactions : txn'[p] # None}
    BY <1>1, <1>2, <1>7 DEF Preparations
  <2>6. QED
    BY <2>1, <2>2, <2>3, <2>4, <2>5 DEF Preparations
<1>9. Signing'
  <2>1. \A p \in Transactions : answers[p] # None => p # o /\ txn'[p] = txn[p]
    BY <1>7 DEF Signing
  <2>2. \A p \in Transactions : txn[p] # None => p # o /\ txn'[p] = txn[p]
    BY <1>7
  <2>3. OutputIds(t) \cap DOMAIN signed = {}
    BY <1>6
  <2>4. ASSUME NEW p \in Transactions, answers'[p] # None
        PROVE  /\ txn'[p] # None /\ Belongs(txn'[p], answers'[p])
               /\ \A i \in DOMAIN answers'[p] : answers'[p][i].b \in DOMAIN signed'
                                       /\ signed'[answers'[p][i].b] = answers'[p][i].amount
    BY <1>1, <2>1, <2>4 DEF Signing
  <2>5. ASSUME NEW c \in DOMAIN signed'
        PROVE  \/ c \in Ids(Stored \cup Token)
               \/ \E p \in Transactions : txn'[p] # None /\ c \in OutputIds(txn'[p])
    BY <1>1, <2>2 DEF Signing
  <2>6. ASSUME NEW p \in Transactions, txn'[p] # None, NEW c \in OutputIds(txn'[p]) \cap DOMAIN signed'
        PROVE  answers'[p] # None /\ \E i \in DOMAIN answers'[p] : answers'[p][i].b = c
    <3>1. p # o /\ txn'[p] = txn[p]
      BY <1>1, <1>7, <2>3, <2>6
    <3>2. QED
      BY <1>1, <2>6, <3>1 DEF Signing
  <2>7. /\ signed' = [c \in DOMAIN signed' |-> signed'[c]]
        /\ \A c \in DOMAIN signed' : c \in Int /\ signed'[c] \in Nat
        /\ answers' \in [Transactions -> Seq(Signatures) \cup {None}]
    BY <1>1 DEF Signing
  <2>8. QED
    BY <2>4, <2>5, <2>6, <2>7 DEF Signing
<1>10. \A p \in Transactions : payment[p] # None => p # o /\ txn'[p] = txn[p]
  BY <1>7 DEF Paying
<1>11. Spent' = Spent
  <2>1. None # "PENDING"
    BY NoneAssumption
  <2>2. \A p \in {q \in Transactions : payment[q] = "PENDING"} : txn'[p] = txn[p]
    BY <1>10, <2>1
  <2>3. Pending' = Pending
    BY <1>1, <2>2 DEF Pending
  <2>4. QED
    BY <1>1, <2>3 DEF Spent
<1>12. Paying'
  <2>1. None # "PENDING" /\ None # "PAID"
    BY NoneAssumption
  <2>2. \A p \in Transactions : answers[p] # None => p # o /\ txn'[p] = txn[p]
    BY <1>7 DEF Signing
  <2>3. \A p \in Transactions : payment'[p] = "PENDING" => txn'[p] = txn[p]
    BY <1>1, <1>10, <2>1
  <2>4. \A p \in Transactions : payment'[p] = "PENDING" =>
          OutputIds(txn'[p]) \cap DOMAIN signed' = {} /\ Ids(txn'[p].inputs) \subseteq spent'
    BY <1>1, <2>3 DEF Paying
  <2>5. \A p, q \in Transactions : payment'[p] = "PENDING" /\ payment'[q] = "PENDING" /\ p # q =>
          Ids(txn'[p].inputs) \cap Ids(txn'[q].inputs) = {}
    BY <1>1, <2>3 DEF Paying
  <2>6. \A p \in Transactions : answers'[p] # None => Ids(txn'[p].inputs) \subseteq Spent'
    BY <1>1, <1>11, <2>2 DEF Paying
  <2>7. \A p \in Transactions : payment'[p] # None => txn'[p] # None /\ txn'[p].kind = "melt"
    BY <1>1, <1>10 DEF Paying
  <2>8. payment' = [p \in Transactions |-> payment'[p]]
        /\ \A p \in Transactions : payment'[p] = "PAID" => answers'[p] # None
    BY <1>1 DEF Paying
  <2>9. QED
    BY <2>4, <2>5, <2>6, <2>7, <2>8 DEF Paying
<1>13. Wires'
  <2>1. \A p \in Transactions : wire[p] # None => p # o /\ txn'[p] = txn[p]
    BY <1>7 DEF Wires
  <2>2. QED
    BY <1>1, <2>1 DEF Wires
<1>14. Storing'
  <2>1. \A p : Real(p)' <=> Real(p)
    BY <1>1 DEF Real
  <2>2. \A p \in Transactions : given[p] # <<>> => p # o /\ txn'[p] = txn[p]
    BY <1>7 DEF Storing
  <2>3. store' \subseteq ProofRecords /\ \A p \in store' : Real(p)'
    BY <1>1, <2>1 DEF Storing
  <2>4. given' = [p \in Transactions |-> given'[p]]
    BY <1>1 DEF Storing
  <2>5. \A p \in Transactions : given'[p] # <<>> =>
          /\ txn'[p] # None /\ given'[p] = txn'[p].send
          /\ \A i \in DOMAIN given'[p] : given'[p][i].id \in DOMAIN signed'
                                       /\ signed'[given'[p][i].id] = given'[p][i].amount
    BY <1>1, <2>2 DEF Storing, Real
  <2>6. QED
    BY <2>3, <2>4, <2>5 DEF Storing, Real
<1>15. Keeping'
  <2> SUFFICES ASSUME NEW p \in Transactions, txn'[p] # None, txn'[p].kept, p \notin held'
               PROVE  /\ answers'[p] # None
                      /\ \A c \in OutputIds(txn'[p]) \cap DOMAIN signed' :
                           InHand(c)' \/ c \in Spent'
    BY DEF Keeping
  <2>1. p # o /\ txn'[p] = txn[p] /\ p \notin held
    BY <1>1, <1>7
  <2>2. \A c : InHand(c)' <=> InHand(c)
    BY <1>1 DEF InHand
  <2>3. QED
    BY <1>1, <1>11, <2>1, <2>2 DEF Keeping
<1>16. QED
  BY <1>8, <1>9, <1>12, <1>13, <1>14, <1>15

\* The elements of a concatenation.
LEMMA Concatenated ==
  ASSUME NEW S, NEW a \in Seq(S), NEW b \in Seq(S)
  PROVE  /\ a \o b \in Seq(S) /\ Len(a) \in Nat /\ Len(b) \in Nat
         /\ Len(a \o b) = Len(a) + Len(b) /\ DOMAIN (a \o b) = 1..(Len(a) + Len(b))
         /\ \A i \in 1..(Len(a) + Len(b)) : (a \o b)[i] = IF i <= Len(a) THEN a[i] ELSE b[i - Len(a)]
<1>1. Len(a) \in Nat /\ Len(b) \in Nat /\ a \o b \in Seq(S) /\ Len(a \o b) = Len(a) + Len(b)
  OBVIOUS
<1>2. DOMAIN (a \o b) = 1..(Len(a) + Len(b))
  BY <1>1
<1>3. \A i \in 1..(Len(a) + Len(b)) : (a \o b)[i] = IF i <= Len(a) THEN a[i] ELSE b[i - Len(a)]
  OBVIOUS
<1>4. QED
  BY <1>1, <1>2, <1>3

\* Outputs to be sent come first in the numbering, what is kept after them.
LEMMA NumberedOutputs ==
  ASSUME NEW t \in Previews, NEW first \in Nat, NEW det \in BOOLEAN,
         \A i \in 1..Len(t.send) : t.send[i].id = IdOf(first, i, det),
         \A i \in 1..Len(t.keep) : t.keep[i].id = IdOf(first, Len(t.send) + i, det)
  PROVE  Numbered(t, first, det, Len(t.send) + Len(t.keep))
<1> DEFINE s == Len(t.send)
           k == Len(t.keep)
           m == Merged(t)
           p == [i \in 1..(k + s) |-> IF i <= k THEN s + i ELSE i - k]
<1>0. t.keep \in Seq(ProofRecords) /\ t.send \in Seq(ProofRecords)
  BY PreviewTypes
<1>1. s \in Nat /\ k \in Nat
  BY <1>0, Concatenated
<1>2. /\ m \in Seq(ProofRecords) /\ Len(m) = k + s /\ DOMAIN m = 1..(k + s)
      /\ \A i \in 1..(k + s) : m[i] = IF i <= k THEN t.keep[i] ELSE t.send[i - k]
  <2>1. m = t.keep \o t.send
    BY DEF Merged
  <2>2. m \in Seq(ProofRecords) /\ Len(m) = k + s /\ DOMAIN m = 1..(k + s)
    BY <1>0, <2>1, Concatenated
  <2>3. \A i \in 1..(k + s) : m[i] = IF i <= k THEN t.keep[i] ELSE t.send[i - k]
    BY <1>0, <2>1, Concatenated
  <2>4. QED
    BY <2>2, <2>3
<1> HIDE DEF s, k, m
<1>3. p \in [1..(k + s) -> 1..(s + k)] /\ \A i, j \in 1..(k + s) : p[i] = p[j] => i = j
  BY <1>1
<1>4. ASSUME NEW i \in 1..(k + s) PROVE m[i].id = IdOf(first, p[i], det)
  <2>1. CASE i <= k
    <3>1. i \in 1..k /\ m[i] = t.keep[i] /\ p[i] = s + i
      BY <1>1, <1>2, <2>1
    <3>2. QED
      BY <3>1 DEF s, k
  <2>2. CASE ~(i <= k)
    <3>1. i - k \in 1..s /\ m[i] = t.send[i - k] /\ p[i] = i - k
      BY <1>1, <1>2, <2>2
    <3>2. QED
      BY <3>1 DEF s, k
  <2>3. QED
    BY <2>1, <2>2
<1>5. Numbered(t, first, det, s + k)
  <2> HIDE DEF p
  <2>1. p \in [DOMAIN Merged(t) -> 1..(s + k)]
    BY <1>2, <1>3 DEF m
  <2>2. QED
    BY <1>2, <1>3, <1>4, <2>1 DEF Numbered, m
<1>6. QED
  BY <1>5 DEF s, k

\* No output of a swap or a mint is a blank.
LEMMA NoBlanks ==
  ASSUME NEW t \in Previews, \A i \in 1..Len(t.send) : t.send[i].amount # 0,
         \A i \in 1..Len(t.keep) : t.keep[i].amount # 0
  PROVE  \A i \in DOMAIN Merged(t) : Merged(t)[i].amount # 0
<1> DEFINE s == Len(t.send)
           k == Len(t.keep)
           m == Merged(t)
<1>1. t.keep \in Seq(ProofRecords) /\ t.send \in Seq(ProofRecords) /\ m = t.keep \o t.send
  BY PreviewTypes DEF Merged
<1>2. s \in Nat /\ k \in Nat /\ DOMAIN m = 1..(k + s)
  BY <1>1, Concatenated
<1>3. \A i \in 1..(k + s) : m[i] = IF i <= k THEN t.keep[i] ELSE t.send[i - k]
  BY <1>1, Concatenated
<1>4. \A i \in 1..s : t.send[i].amount # 0
  OBVIOUS
<1>5. \A i \in 1..k : t.keep[i].amount # 0
  OBVIOUS
<1> HIDE DEF s, k, m
<1>6. ASSUME NEW i \in 1..(k + s) PROVE m[i].amount # 0
  <2>1. CASE i <= k
    <3>1. i \in 1..k /\ m[i] = t.keep[i]
      BY <1>2, <1>3, <2>1
    <3>2. QED
      BY <1>5, <3>1
  <2>2. CASE ~(i <= k)
    <3>1. i - k \in 1..s /\ m[i] = t.send[i - k]
      BY <1>2, <1>3, <2>2
    <3>2. QED
      BY <1>4, <3>1
  <2>3. QED
    BY <2>1, <2>2
<1>7. QED
  BY <1>2, <1>6 DEF m

\* Amounts of outputs are natural numbers, none of them 0 in a split.
LEMMA SplitAmounts ==
  ASSUME NEW amounts \in Seq(Positive)
  PROVE  amounts \in Seq(Nat) /\ \A i \in 1..Len(amounts) : amounts[i] # 0
<1>1. /\ DOMAIN amounts = 1..Len(amounts) /\ Len(amounts) \in Nat
      /\ amounts = [i \in 1..Len(amounts) |-> amounts[i]]
      /\ \A i \in DOMAIN amounts : amounts[i] \in Positive
  BY SeqElements
<1>2. \A i \in 1..Len(amounts) : amounts[i] \in Nat /\ amounts[i] # 0
  BY <1>1 DEF Positive
<1>3. QED
  BY <1>1, <1>2

\* A token consists of proofs.
LEMMA TokenIsProofs == Token \subseteq ProofRecords
<1> SUFFICES ASSUME NEW p \in Token
             PROVE  p \in ProofRecords
  OBVIOUS
<1>1. p \in [id : -999..-1, amount : Keys] /\ Keys \subseteq Nat
  BY TokenAssumption, KeysAssumption
<1>2. p = [id |-> p.id, amount |-> p.amount]
  BY <1>1
<1>3. QED
  BY <1>2, TokenIds DEF ProofRecords

\* The empty sequence.
LEMMA SeqEmpty ==
  ASSUME NEW S
  PROVE  <<>> \in Seq(S) /\ Len(<<>>) = 0
OBVIOUS

\* prepareSwapToReceive keeps the invariant.
LEMMA ReceivePrepares ==
  ASSUME TransactionInv, NEW o \in Transactions, txn[o] = None,
         NEW det \in BOOLEAN, NEW kept \in BOOLEAN, PrepareReceive(o, det, kept)
  PROVE  TransactionInv'
<1> DEFINE amount == AmountOfProofs(Token) - Fee(Cardinality(Token))
<1>1. amount \in 1..MaxAmount
      /\ \E amounts \in {Split[amount]} \ {Throws} :
         \E outs \in {CreateOutputs(amounts, First(det), det)} :
          /\ ClaimCounters(Len(outs), det)
          /\ Prepared(o, [kind |-> "receive", inputs |-> Token, keep |-> outs, send |-> <<>>,
                          quote |-> 0, sigAll |-> FALSE, kept |-> kept, legacy |-> FALSE])
  BY Zenon DEF PrepareReceive
<1> HIDE DEF amount
<1>2. PICK amounts \in {Split[amount]} \ {Throws} :
         \E outs \in {CreateOutputs(amounts, First(det), det)} :
          /\ ClaimCounters(Len(outs), det)
          /\ Prepared(o, [kind |-> "receive", inputs |-> Token, keep |-> outs, send |-> <<>>,
                          quote |-> 0, sigAll |-> FALSE, kept |-> kept, legacy |-> FALSE])
  BY <1>1, Zenon
<1> DEFINE outs == CreateOutputs(amounts, First(det), det)
           t == [kind |-> "receive", inputs |-> Token, keep |-> outs, send |-> <<>>,
                 quote |-> 0, sigAll |-> FALSE, kept |-> kept, legacy |-> FALSE]
<1>3. ClaimCounters(Len(outs), det) /\ Prepared(o, t)
  BY <1>2
<1>4. amounts \in Seq(Positive)
  <2>1. amount \in 0..MaxAmount
    BY <1>1, AmountBounds
  <2>2. QED
    BY <1>2, <2>1, SplitTyped
<1>5. First(det) \in Nat
  BY DEF First, TransactionInv, Preparations
<1>6. /\ outs \in Seq(ProofRecords) /\ Len(outs) = Len(amounts) /\ Len(amounts) \in Nat
      /\ \A i \in 1..Len(outs) : outs[i].id = IdOf(First(det), i, det) /\ outs[i].amount # 0
  BY <1>4, <1>5, SplitAmounts, SeqElements, Created
<1> HIDE DEF outs
<1>7. t \in Previews
  BY <1>6, TokenIsProofs, SeqEmpty DEF Previews
<1>8. /\ t.kind # "melt" /\ t.keep = outs /\ t.send = <<>> /\ Len(t.send) = 0
  BY SeqEmpty
<1> HIDE DEF t
<1>9. \A i \in DOMAIN Merged(t) : Merged(t)[i].amount # 0
  BY <1>6, <1>7, <1>8, NoBlanks
<1>10. Numbered(t, First(det), det, Len(t.send) + Len(t.keep))
  <2>1. \A i \in 1..Len(t.keep) : t.keep[i].id = IdOf(First(det), Len(t.send) + i, det)
    BY <1>6, <1>8
  <2>2. \A i \in 1..Len(t.send) : t.send[i].id = IdOf(First(det), i, det)
    BY <1>8
  <2>3. QED
    BY <1>5, <1>7, <2>1, <2>2, NumberedOutputs
<1>11. Len(t.send) + Len(t.keep) = Len(outs) /\ Len(outs) \in Nat
  BY <1>6, <1>8
<1>12. QED
  BY <1>3, <1>7, <1>8, <1>9, <1>10, <1>11, PrepareStep

\* prepareMint keeps the invariant.
LEMMA MintPrepares ==
  ASSUME TransactionInv, NEW o \in Transactions, txn[o] = None, NEW amount \in QuoteAmounts,
         NEW det \in BOOLEAN, NEW kept \in BOOLEAN, NEW locked \in BOOLEAN,
         PrepareMint(o, amount, det, kept, locked)
  PROVE  TransactionInv'
<1>1. amount \in 1..MaxAmount
  BY AmountAssumption
<1>2. PICK amounts \in {Split[amount]} \ {Throws} :
         \E outs \in {CreateOutputs(amounts, First(det), det)} :
          /\ ClaimCounters(Len(outs), det)
          /\ Prepared(o, [kind |-> "mint", inputs |-> {}, keep |-> outs, send |-> <<>>,
                          quote |-> amount, sigAll |-> FALSE, kept |-> kept, legacy |-> locked])
  BY Zenon DEF PrepareMint
<1> DEFINE outs == CreateOutputs(amounts, First(det), det)
           t == [kind |-> "mint", inputs |-> {}, keep |-> outs, send |-> <<>>,
                 quote |-> amount, sigAll |-> FALSE, kept |-> kept, legacy |-> locked]
<1>3. ClaimCounters(Len(outs), det) /\ Prepared(o, t)
  BY <1>2
<1>4. amounts \in Seq(Positive) /\ amount \in Nat
  <2>1. amount \in 0..MaxAmount /\ amount \in Nat
    BY <1>1, AmountBounds
  <2>2. QED
    BY <1>2, <2>1, SplitTyped
<1>5. First(det) \in Nat
  BY DEF First, TransactionInv, Preparations
<1>6. /\ outs \in Seq(ProofRecords) /\ Len(outs) = Len(amounts) /\ Len(amounts) \in Nat
      /\ \A i \in 1..Len(outs) : outs[i].id = IdOf(First(det), i, det) /\ outs[i].amount # 0
  BY <1>4, <1>5, SplitAmounts, SeqElements, Created
<1> HIDE DEF outs
<1>7. t \in Previews
  BY <1>4, <1>6, SeqEmpty DEF Previews
<1>8. /\ t.kind # "melt" /\ t.keep = outs /\ t.send = <<>> /\ Len(t.send) = 0
  BY SeqEmpty
<1> HIDE DEF t
<1>9. \A i \in DOMAIN Merged(t) : Merged(t)[i].amount # 0
  BY <1>6, <1>7, <1>8, NoBlanks
<1>10. Numbered(t, First(det), det, Len(t.send) + Len(t.keep))
  <2>1. \A i \in 1..Len(t.keep) : t.keep[i].id = IdOf(First(det), Len(t.send) + i, det)
    BY <1>6, <1>8
  <2>2. \A i \in 1..Len(t.send) : t.send[i].id = IdOf(First(det), i, det)
    BY <1>8
  <2>3. QED
    BY <1>5, <1>7, <2>1, <2>2, NumberedOutputs
<1>11. Len(t.send) + Len(t.keep) = Len(outs) /\ Len(outs) \in Nat
  BY <1>6, <1>8
<1>12. QED
  BY <1>3, <1>7, <1>8, <1>9, <1>10, <1>11, PrepareStep

\* prepareSwapToSend keeps the invariant.
LEMMA SendPrepares ==
  ASSUME TransactionInv, NEW o \in Transactions, txn[o] = None, NEW amount \in SendAmounts,
         NEW P \in SUBSET store, NEW includeFees,
         NEW det \in BOOLEAN, NEW kept \in BOOLEAN, NEW sigAll \in BOOLEAN,
         PrepareSend(o, amount, P, includeFees, det, kept, sigAll)
  PROVE  TransactionInv'
<1> DEFINE sends(amounts) == CreateOutputs(amounts, First(det), det)
           keeps(amounts, rest) == CreateOutputs(rest, First(det) + Len(sends(amounts)), det)
           preview(amounts, rest) ==
             [kind |-> "send", inputs |-> P, keep |-> keeps(amounts, rest), send |-> sends(amounts),
              quote |-> 0, sigAll |-> sigAll, kept |-> kept, legacy |-> FALSE]
<1>1. PICK amounts \in {(IF includeFees THEN SplitWithFees ELSE Split)[amount]} \ {Throws},
           change \in 0..MaxAmount :
         \E rest \in {Split[change]} \ {Throws} :
           /\ ClaimCounters(Len(sends(amounts)) + Len(keeps(amounts, rest)), det)
           /\ Prepared(o, preview(amounts, rest))
  BY DEF PrepareSend
<1>a. PICK rest \in {Split[change]} \ {Throws} :
         /\ ClaimCounters(Len(sends(amounts)) + Len(keeps(amounts, rest)), det)
         /\ Prepared(o, preview(amounts, rest))
  BY <1>1
<1> DEFINE s == sends(amounts)
           k == keeps(amounts, rest)
           t == preview(amounts, rest)
<1>2. ClaimCounters(Len(s) + Len(k), det) /\ Prepared(o, t)
  BY <1>a
<1>3. t = [kind |-> "send", inputs |-> P, keep |-> k, send |-> s,
           quote |-> 0, sigAll |-> sigAll, kept |-> kept, legacy |-> FALSE]
  OBVIOUS
<1>4. amounts \in Seq(Positive) /\ rest \in Seq(Positive)
  <2>1. amount \in 0..MaxAmount
    BY AmountAssumption, AmountBounds
  <2>2. amounts \in Seq(Positive)
    <3>1. amounts # Throws /\ (amounts = SplitWithFees[amount] \/ amounts = Split[amount])
      OBVIOUS
    <3>2. QED
      BY <2>1, <3>1, SplitTyped
  <2>3. rest \in Seq(Positive)
    BY SplitTyped
  <2>4. QED
    BY <2>2, <2>3
<1>5. First(det) \in Nat
  BY DEF First, TransactionInv, Preparations
<1>6. /\ s \in Seq(ProofRecords) /\ Len(s) = Len(amounts) /\ Len(amounts) \in Nat
      /\ \A i \in 1..Len(s) : s[i].id = IdOf(First(det), i, det) /\ s[i].amount # 0
  BY <1>4, <1>5, SplitAmounts, SeqElements, Created
<1>7. k = CreateOutputs(rest, First(det) + Len(s), det)
  OBVIOUS
<1> HIDE DEF s, k, t
<1>8. First(det) + Len(s) \in Nat
  BY <1>5, <1>6
<1>9. /\ k \in Seq(ProofRecords) /\ Len(k) = Len(rest) /\ Len(rest) \in Nat
      /\ \A i \in 1..Len(k) : k[i].id = IdOf(First(det) + Len(s), i, det) /\ k[i].amount # 0
  BY <1>4, <1>7, <1>8, SplitAmounts, SeqElements, Created
<1>10. \A i \in 1..Len(k) : k[i].id = IdOf(First(det), Len(s) + i, det)
  <2> SUFFICES ASSUME NEW i \in 1..Len(k)
               PROVE  IdOf(First(det) + Len(s), i, det) = IdOf(First(det), Len(s) + i, det)
    BY <1>9
  <2> DEFINE f == First(det)
             l == Len(s)
  <2>1. f \in Nat /\ l \in Nat /\ i \in Int
    BY <1>5, <1>6
  <2> HIDE DEF f, l
  <2>2. f + l + i - 1 = f + (l + i) - 1 /\ -(1000 + (f + l) + i - 1) = -(1000 + f + (l + i) - 1)
    BY <2>1
  <2>3. IdOf(f + l, i, det) = IdOf(f, l + i, det)
    BY <2>2 DEF IdOf
  <2>4. QED
    BY <2>3 DEF f, l
<1>11. t \in Previews
  <2>1. P \subseteq ProofRecords
    BY DEF TransactionInv, Storing
  <2>2. QED
    BY <1>3, <1>6, <1>9, <2>1 DEF Previews
<1>12. t.kind # "melt" /\ t.keep = k /\ t.send = s
  BY <1>3
<1>13. \A i \in DOMAIN Merged(t) : Merged(t)[i].amount # 0
  BY <1>6, <1>9, <1>11, <1>12, NoBlanks
<1>14. Numbered(t, First(det), det, Len(t.send) + Len(t.keep))
  <2>1. \A i \in 1..Len(t.send) : t.send[i].id = IdOf(First(det), i, det)
    BY <1>6, <1>12
  <2>2. \A i \in 1..Len(t.keep) : t.keep[i].id = IdOf(First(det), Len(t.send) + i, det)
    BY <1>10, <1>12
  <2>3. QED
    BY <1>5, <1>11, <2>1, <2>2, NumberedOutputs
<1>15. ClaimCounters(Len(t.send) + Len(t.keep), det)
  BY <1>2, <1>12
<1>16. Len(t.send) + Len(t.keep) \in Nat
  BY <1>6, <1>9, <1>12
<1>17. QED
  BY <1>2, <1>11, <1>12, <1>13, <1>14, <1>15, <1>16, PrepareStep

\* The blanks of a melt, if it asks for change.
Blanks(change, reserve, det) ==
  IF change /\ reserve > 0 THEN CreateOutputs(Repeat(0, BlankCount(reserve)), First(det), det)
  ELSE <<>>

\* Blanks are outputs with ids in order.
LEMMA BlankOutputs ==
  ASSUME NEW change, NEW reserve \in Nat, NEW det \in BOOLEAN, First(det) \in Nat
  PROVE  /\ Blanks(change, reserve, det) \in Seq(ProofRecords)
         /\ Len(Blanks(change, reserve, det)) \in Nat
         /\ \A i \in 1..Len(Blanks(change, reserve, det)) :
              Blanks(change, reserve, det)[i].id = IdOf(First(det), i, det)
<1>1. CASE change /\ reserve > 0
  <2>1. Blanks(change, reserve, det) = CreateOutputs(Repeat(0, BlankCount(reserve)), First(det), det)
    BY <1>1 DEF Blanks
  <2>2. BlankCount(reserve) \in Nat
    BY BlanksTyped
  <2>3. Repeat(0, BlankCount(reserve)) \in Seq(Nat) /\ Len(Repeat(0, BlankCount(reserve))) = BlankCount(reserve)
    BY <2>2, RepeatTyped
  <2>4. QED
    BY <2>1, <2>2, <2>3, Created
<1>2. CASE ~(change /\ reserve > 0)
  <2>1. Blanks(change, reserve, det) = <<>>
    BY <1>2 DEF Blanks
  <2>2. QED
    BY <2>1, SeqEmpty
<1>3. QED
  BY <1>1, <1>2

\* prepareMelt keeps the invariant.
LEMMA MeltPrepares ==
  ASSUME TransactionInv, NEW o \in Transactions, txn[o] = None, NEW amount \in QuoteAmounts,
         NEW P \in SUBSET store, NEW change, NEW det \in BOOLEAN, NEW kept \in BOOLEAN,
         PrepareMelt(o, amount, P, change, det, kept)
  PROVE  TransactionInv'
<1> DEFINE preview(reserve) ==
             [kind |-> "melt", inputs |-> P, keep |-> Blanks(change, reserve, det), send |-> <<>>,
              quote |-> amount, sigAll |-> FALSE, kept |-> kept, legacy |-> FALSE]
<1>1. PICK reserve \in 0..MaxAmount :
         /\ P # {}
         /\ ClaimCounters(Len(Blanks(change, reserve, det)), det)
         /\ Prepared(o, preview(reserve))
  BY Zenon DEF PrepareMelt, Blanks
<1> DEFINE outs == Blanks(change, reserve, det)
           t == preview(reserve)
<1>2. ClaimCounters(Len(outs), det) /\ Prepared(o, t) /\ P # {}
  BY <1>1
<1>3. t = [kind |-> "melt", inputs |-> P, keep |-> outs, send |-> <<>>,
           quote |-> amount, sigAll |-> FALSE, kept |-> kept, legacy |-> FALSE]
  OBVIOUS
<1>4. reserve \in Nat /\ amount \in Nat
  BY AmountAssumption, AmountBounds
<1>5. First(det) \in Nat
  BY DEF First, TransactionInv, Preparations
<1>6. /\ outs \in Seq(ProofRecords) /\ Len(outs) \in Nat
      /\ \A i \in 1..Len(outs) : outs[i].id = IdOf(First(det), i, det)
  BY <1>4, <1>5, BlankOutputs
<1> HIDE DEF outs, t
<1>7. t \in Previews
  <2>1. P \subseteq ProofRecords
    BY DEF TransactionInv, Storing
  <2>2. QED
    BY <1>3, <1>4, <1>6, <2>1, SeqEmpty DEF Previews
<1>8. /\ t.kind = "melt" /\ t.keep = outs /\ t.send = <<>> /\ Len(t.send) = 0 /\ t.inputs # {}
  BY <1>2, <1>3, SeqEmpty
<1>9. Numbered(t, First(det), det, Len(t.send) + Len(t.keep))
  <2>1. \A i \in 1..Len(t.keep) : t.keep[i].id = IdOf(First(det), Len(t.send) + i, det)
    BY <1>6, <1>8
  <2>2. \A i \in 1..Len(t.send) : t.send[i].id = IdOf(First(det), i, det)
    BY <1>8
  <2>3. QED
    BY <1>5, <1>7, <2>1, <2>2, NumberedOutputs
<1>10. Len(t.send) + Len(t.keep) = Len(outs) /\ Len(outs) \in Nat
  BY <1>6, <1>8
<1>11. QED
  BY <1>2, <1>7, <1>8, <1>9, <1>10, PrepareStep

\* Preparing keeps the invariant, whatever the options.
LEMMA PrepareHolds ==
  ASSUME TransactionInv, NEW o \in Transactions, Prepare(o)
  PROVE  TransactionInv'
<1>1. txn[o] = None
  BY DEF Prepare
<1>2. PICK x \in Options :
        \/ "receive" \in x.kinds /\ PrepareReceive(o, x.det, x.kept)
        \/ \E amount \in SendAmounts, P \in SUBSET store :
             /\ "send" \in x.kinds
             /\ PrepareSend(o, amount, P, x.includeFees, x.det, x.kept, x.sigAll)
        \/ \E amount \in QuoteAmounts :
             "mint" \in x.kinds /\ PrepareMint(o, amount, x.det, x.kept, x.locked)
        \/ \E amount \in QuoteAmounts, P \in SUBSET store :
             "melt" \in x.kinds /\ PrepareMelt(o, amount, P, x.change, x.det, x.kept)
  BY Zenon DEF Prepare
<1>3. x.det \in BOOLEAN /\ x.kept \in BOOLEAN /\ x.sigAll \in BOOLEAN /\ x.locked \in BOOLEAN
  BY OptionsAssumption
<1>4. CASE PrepareReceive(o, x.det, x.kept)
  BY <1>1, <1>3, <1>4, ReceivePrepares
<1>5. CASE \E amount \in SendAmounts, P \in SUBSET store :
             PrepareSend(o, amount, P, x.includeFees, x.det, x.kept, x.sigAll)
  BY <1>1, <1>3, <1>5, SendPrepares
<1>6. CASE \E amount \in QuoteAmounts : PrepareMint(o, amount, x.det, x.kept, x.locked)
  BY <1>1, <1>3, <1>6, MintPrepares
<1>7. CASE \E amount \in QuoteAmounts, P \in SUBSET store :
             PrepareMelt(o, amount, P, x.change, x.det, x.kept)
  BY <1>1, <1>3, <1>7, MeltPrepares
<1>8. QED
  BY <1>2, <1>4, <1>5, <1>6, <1>7, Zenon

-----------------------------------------------------------------------------
(* What the mint signs.                                                    *)

\* No two signatures are for the same output.
LEMMA SignaturesDiffer ==
  ASSUME NEW t, Drawn(t), NEW sigs, Belongs(t, sigs)
  PROVE  \A i, j \in DOMAIN sigs : sigs[i].b = sigs[j].b => i = j
<1> DEFINE m == Merged(t)
           n == Len(m)
           p == SortedIndices(t)
<1>1. t \in Previews /\ \A i, j \in DOMAIN m : m[i].id = m[j].id => i = j
  BY DEF Drawn
<1>2. m \in Seq(ProofRecords) /\ DOMAIN m = 1..n /\ n \in Nat
  BY <1>1, PreviewTypes, SeqElements
<1>3. /\ p \in [1..n -> 1..n] /\ \A i, j \in 1..n : p[i] = p[j] => i = j
  BY <1>2, SortedIndicesPermute DEF Permutes
<1>4. /\ Len(OutputData(t)) = n
      /\ \A i \in 1..n : p[i] \in 1..n /\ OutputData(t)[i] = m[p[i]]
  BY <1>2, OutputsAreMerged
<1>5. /\ sigs \in Seq(Signatures) /\ Len(sigs) <= n
      /\ \A i \in DOMAIN sigs : sigs[i].b = OutputData(t)[i].id
  BY <1>2, <1>4 DEF Belongs
<1>6. DOMAIN sigs = 1..Len(sigs) /\ Len(sigs) \in Nat
  BY <1>5, SeqElements
<1> HIDE DEF m, n, p
<1>7. \A i \in DOMAIN sigs : i \in 1..n /\ sigs[i].b = m[p[i]].id /\ p[i] \in 1..n
  BY <1>2, <1>4, <1>5, <1>6
<1>8. ASSUME NEW i \in DOMAIN sigs, NEW j \in DOMAIN sigs, sigs[i].b = sigs[j].b
      PROVE  i = j
  <2>1. m[p[i]].id = m[p[j]].id /\ p[i] \in DOMAIN m /\ p[j] \in DOMAIN m
    BY <1>2, <1>7, <1>8
  <2>2. p[i] = p[j]
    BY <1>1, <2>1 DEF m
  <2>3. QED
    BY <1>3, <1>7, <2>2
<1>9. QED
  BY <1>8

\* The mint answers an operation nothing was signed for.
LEMMA Signs ==
  ASSUME TransactionInv, NEW o \in Transactions, txn[o] # None, NEW sigs, Belongs(txn[o], sigs),
         OutputIds(txn[o]) \cap DOMAIN signed = {},
         signed' = SignedNow(sigs), answers' = [answers EXCEPT ![o] = sigs], txn' = txn
  PROVE  /\ Signing' /\ answers'[o] = sigs /\ answers'[o] # None
         /\ \A p \in Transactions \ {o} : answers'[p] = answers[p]
         /\ \A c \in DOMAIN signed : c \in DOMAIN signed' /\ signed'[c] = signed[c]
         /\ \A c \in DOMAIN signed' : c \in DOMAIN signed \/ c \in OutputIds(txn[o])
         /\ \A i \in DOMAIN sigs : sigs[i].b \in DOMAIN signed' /\ signed'[sigs[i].b] = sigs[i].amount
<1> USE DEF TransactionInv
<1>1. Drawn(txn[o]) /\ txn[o] \in Previews
  BY DEF Preparations, Drawn
<1>2. \A i, j \in DOMAIN sigs : sigs[i].b = sigs[j].b => i = j
  BY <1>1, SignaturesDiffer
<1>3. \A i \in DOMAIN sigs : sigs[i].b \in OutputIds(txn[o])
  BY <1>1, BelongsTo
<1>4. sigs \in Seq(Signatures) /\ sigs # None
  BY NoneAssumption DEF Belongs
<1>5. \A i \in DOMAIN sigs : sigs[i].b \in Int /\ sigs[i].amount \in Nat
  <2>1. \A i \in DOMAIN sigs : sigs[i] \in Signatures
    BY <1>4, SeqElements
  <2>2. QED
    BY <2>1 DEF Signatures
<1>6. /\ DOMAIN signed' = DOMAIN signed \cup {sigs[i].b : i \in DOMAIN sigs}
      /\ signed' = [c \in DOMAIN signed' |-> signed'[c]]
      /\ \A c \in DOMAIN signed : signed'[c] = signed[c]
      /\ \A c \in DOMAIN signed' \ DOMAIN signed :
           signed'[c] = sigs[CHOOSE i \in DOMAIN sigs : sigs[i].b = c].amount
  BY DEF SignedNow
<1>7. \A i \in DOMAIN sigs : sigs[i].b \notin DOMAIN signed
  BY <1>3
<1>8. ASSUME NEW i \in DOMAIN sigs
      PROVE  sigs[i].b \in DOMAIN signed' /\ signed'[sigs[i].b] = sigs[i].amount
  <2>1. (CHOOSE j \in DOMAIN sigs : sigs[j].b = sigs[i].b) = i
    BY <1>2
  <2>2. sigs[i].b \in DOMAIN signed' \ DOMAIN signed
    BY <1>6, <1>7
  <2>3. QED
    BY <1>6, <2>1, <2>2
<1>9. /\ answers'[o] = sigs /\ answers' \in [Transactions -> Seq(Signatures) \cup {None}]
      /\ \A p \in Transactions \ {o} : answers'[p] = answers[p]
  BY <1>4 DEF Signing
<1>10. \A c \in DOMAIN signed' : c \in DOMAIN signed \/ \E i \in DOMAIN sigs : c = sigs[i].b
  BY <1>6
<1>11. \A c \in DOMAIN signed' : c \in DOMAIN signed \/ c \in OutputIds(txn[o])
  BY <1>3, <1>10
<1>12. \A c \in DOMAIN signed' : c \in Int /\ signed'[c] \in Nat
  BY <1>5, <1>6, <1>8, <1>10 DEF Signing
<1>13. ASSUME NEW p \in Transactions, answers'[p] # None
       PROVE  /\ txn'[p] # None /\ Belongs(txn'[p], answers'[p])
              /\ \A i \in DOMAIN answers'[p] : answers'[p][i].b \in DOMAIN signed'
                                       /\ signed'[answers'[p][i].b] = answers'[p][i].amount
  <2>1. CASE p = o
    BY <1>8, <1>9, <2>1
  <2>2. CASE p # o
    BY <1>6, <1>9, <1>13, <2>2 DEF Signing
  <2>3. QED
    BY <2>1, <2>2
<1>14. ASSUME NEW c \in DOMAIN signed'
       PROVE  \/ c \in Ids(Stored \cup Token)
              \/ \E p \in Transactions : txn'[p] # None /\ c \in OutputIds(txn'[p])
  BY <1>11 DEF Signing
<1>15. ASSUME NEW p \in Transactions, txn'[p] # None, NEW c \in OutputIds(txn'[p]) \cap DOMAIN signed'
       PROVE  answers'[p] # None /\ \E i \in DOMAIN answers'[p] : answers'[p][i].b = c
  <2>1. CASE p = o
    BY <1>4, <1>9, <1>10, <2>1
  <2>2. CASE p # o
    <3>1. c \notin OutputIds(txn[o])
      BY <1>15, <2>2 DEF Preparations
    <3>2. c \in DOMAIN signed
      BY <1>11, <3>1
    <3>3. QED
      BY <1>9, <1>15, <2>2, <3>2 DEF Signing
  <2>3. QED
    BY <2>1, <2>2
<1>16. Signing'
  BY <1>6, <1>9, <1>12, <1>13, <1>14, <1>15 DEF Signing
<1>17. QED
  BY <1>4, <1>6, <1>8, <1>9, <1>11, <1>16

\* What the mint signs for a swap or a mint.
LEMMA SwapSignatures ==
  ASSUME NEW t, Drawn(t), t.kind # "melt", NEW sigs,
         sigs = Sign(OutputData(t), [i \in DOMAIN OutputData(t) |-> OutputData(t)[i].amount])
  PROVE  Belongs(t, sigs)
<1> DEFINE outs == OutputData(t)
           n == Len(outs)
<1>1. t \in Previews
  BY DEF Drawn
<1>2. outs \in Seq(ProofRecords)
  BY <1>1, PreviewTypes, OutputsAreMerged
<1>3. DOMAIN outs = 1..n /\ n \in Nat /\ \A i \in DOMAIN outs : outs[i] \in ProofRecords
  BY <1>2, SeqElements
<1>4. \A i \in DOMAIN outs : outs[i].id \in Int /\ outs[i].amount \in Nat
  BY <1>3 DEF ProofRecords
<1>5. sigs = [i \in DOMAIN outs |-> [b |-> outs[i].id, amount |-> outs[i].amount, ours |-> TRUE]]
  BY DEF Sign
<1> HIDE DEF outs, n
<1>6. sigs \in [1..n -> Signatures]
  <2>1. \A i \in 1..n : [b |-> outs[i].id, amount |-> outs[i].amount, ours |-> TRUE] \in Signatures
    BY <1>3, <1>4 DEF Signatures
  <2>2. QED
    BY <1>3, <1>5, <2>1
<1>7. sigs \in Seq(Signatures) /\ Len(sigs) = n
  BY <1>3, <1>6
<1>8. \A i \in DOMAIN sigs : sigs[i].b = outs[i].id /\ sigs[i].amount = outs[i].amount
  BY <1>5
<1>9. QED
  BY <1>7, <1>8 DEF Belongs, outs, n

\* The outputs of a melt are its blanks, in their order.
LEMMA MeltOutputs ==
  ASSUME NEW t, Drawn(t), t.kind = "melt"
  PROVE  OutputData(t) = t.keep /\ Merged(t) = t.keep /\ t.keep \in Seq(ProofRecords)
<1>1. t \in Previews /\ t.send = <<>>
  BY DEF Drawn
<1>2. t.keep \in Seq(ProofRecords)
  BY <1>1, PreviewTypes
<1>3. Merged(t) = t.keep
  BY <1>1, <1>2 DEF Merged
<1> DEFINE m == t.keep
<1>4. DOMAIN m = 1..Len(m) /\ m = [i \in 1..Len(m) |-> m[i]]
  BY <1>2, SeqElements
<1>5. SortedIndices(t) = [i \in DOMAIN m |-> i]
  BY <1>3 DEF SortedIndices
<1>6. OutputData(t) = [i \in DOMAIN m |-> m[SortedIndices(t)[i]]]
  BY <1>3 DEF OutputData
<1>7. OutputData(t) = [i \in DOMAIN m |-> m[i]]
  BY <1>5, <1>6
<1>8. OutputData(t) = m
  BY <1>4, <1>7
<1>9. QED
  BY <1>2, <1>3, <1>8

\* What it signs for the change of a melt.
LEMMA ChangeSignatures ==
  ASSUME NEW t, Drawn(t), t.kind = "melt", NEW amounts \in Seq(Positive), NEW sigs,
         sigs = Sign(t.keep, SubSeq(amounts, 1, IF Len(amounts) < Len(t.keep) THEN Len(amounts)
                                                ELSE Len(t.keep)))
  PROVE  Belongs(t, sigs)
<1> DEFINE outs == t.keep
           n == Len(outs)
           l == IF Len(amounts) < n THEN Len(amounts) ELSE n
           fit == SubSeq(amounts, 1, l)
<1>1. OutputData(t) = outs /\ outs \in Seq(ProofRecords)
  BY MeltOutputs
<1>2. DOMAIN outs = 1..n /\ n \in Nat /\ \A i \in DOMAIN outs : outs[i] \in ProofRecords
  BY <1>1, SeqElements
<1>3. \A i \in DOMAIN outs : outs[i].id \in Int
  BY <1>2 DEF ProofRecords
<1>4. Len(amounts) \in Nat /\ \A i \in 1..Len(amounts) : amounts[i] \in Nat
  BY SplitAmounts
<1>5. l \in Nat /\ l <= n /\ l <= Len(amounts)
  BY <1>2, <1>4
<1>6. sigs = Sign(outs, fit)
  OBVIOUS
<1> HIDE DEF outs, n, l
<1>7. fit = [i \in 1..l |-> amounts[i]]
  BY <1>4, <1>5
<1>8. sigs = [i \in 1..l |-> [b |-> outs[i].id, amount |-> amounts[i], ours |-> TRUE]]
  BY <1>6, <1>7 DEF Sign
<1>9. \A i \in 1..l : i \in DOMAIN outs /\ amounts[i] \in Nat
  BY <1>2, <1>4, <1>5
<1>10. sigs \in [1..l -> Signatures]
  <2>1. \A i \in 1..l : [b |-> outs[i].id, amount |-> amounts[i], ours |-> TRUE] \in Signatures
    BY <1>3, <1>9 DEF Signatures
  <2>2. QED
    BY <1>8, <2>1
<1>11. sigs \in Seq(Signatures) /\ Len(sigs) = l
  BY <1>5, <1>10
<1>12. \A i \in DOMAIN sigs : sigs[i].b = outs[i].id
  <2>1. DOMAIN sigs = 1..l
    BY <1>8
  <2>2. \A i \in 1..l : sigs[i] = [b |-> outs[i].id, amount |-> amounts[i], ours |-> TRUE]
    BY <1>8
  <2>3. ASSUME NEW i \in DOMAIN sigs PROVE sigs[i].b = outs[i].id
    <3>1. sigs[i] = [b |-> outs[i].id, amount |-> amounts[i], ours |-> TRUE]
      BY <2>1, <2>2
    <3>2. QED
      BY <3>1
  <2>4. QED
    BY <2>3
<1>13. QED
  BY <1>1, <1>5, <1>11, <1>12 DEF Belongs, outs, n

-----------------------------------------------------------------------------
(* What a step must show for the invariant.                                *)

\* Nothing leaves the caller's hands before it is stored, handed out or spent.
LEMMA KeepingStep ==
  ASSUME TransactionInv, txn' = txn,
         \A p \in Transactions : answers[p] # None =>
           answers'[p] # None /\ OutputIds(txn[p]) \cap DOMAIN signed' \subseteq DOMAIN signed,
         \A c : InHand(c) => InHand(c)' \/ c \in Spent',
         Spent \subseteq Spent',
         \A p \in held : p \notin held' /\ txn[p].kept =>
           answers'[p] # None /\ \A c \in OutputIds(txn[p]) \cap DOMAIN signed' : InHand(c)'
  PROVE  Keeping'
<1> SUFFICES ASSUME NEW p \in Transactions, txn[p] # None, txn[p].kept, p \notin held'
             PROVE  /\ answers'[p] # None
                    /\ \A c \in OutputIds(txn[p]) \cap DOMAIN signed' : InHand(c)' \/ c \in Spent'
  BY DEF Keeping
<1>1. CASE p \in held
  BY <1>1
<1>2. CASE p \notin held
  <2>1. /\ answers[p] # None
        /\ \A c \in OutputIds(txn[p]) \cap DOMAIN signed : InHand(c) \/ c \in Spent
    BY <1>2 DEF TransactionInv, Keeping
  <2>2. answers'[p] # None /\ OutputIds(txn[p]) \cap DOMAIN signed' \subseteq DOMAIN signed
    BY <2>1
  <2>3. QED
    BY <2>1, <2>2
<1>3. QED
  BY <1>1, <1>2

\* What the mint does leaves the wallet alone.
LEMMA MintStep ==
  ASSUME TransactionInv, UNCHANGED <<appVars, nextCounter, randoms>>,
         \A c \in DOMAIN signed : c \in DOMAIN signed' /\ signed'[c] = signed[c],
         \A p \in Transactions : answers[p] # None =>
           answers'[p] # None /\ OutputIds(txn[p]) \cap DOMAIN signed' \subseteq DOMAIN signed,
         Spent \subseteq Spent'
  PROVE  Preparations' /\ Storing' /\ Keeping'
<1> USE DEF TransactionInv
<1>1. /\ txn' = txn /\ held' = held /\ store' = store /\ given' = given
      /\ nextCounter' = nextCounter /\ randoms' = randoms
  BY DEF appVars
<1>2. Preparations'
  <2>1. Used' = Used
    BY <1>1 DEF Used
  <2>2. QED
    BY <1>1, <2>1 DEF Preparations
<1>3. Storing'
  <2>1. \A p : Real(p) => Real(p)'
    BY DEF Real
  <2>2. store' \subseteq ProofRecords /\ \A p \in store' : Real(p)'
    BY <1>1, <2>1 DEF Storing
  <2>3. \A p \in Transactions : given'[p] # <<>> =>
          /\ txn'[p] # None /\ given'[p] = txn'[p].send
          /\ \A i \in DOMAIN given'[p] : given'[p][i].id \in DOMAIN signed'
                                       /\ signed'[given'[p][i].id] = given'[p][i].amount
    BY <1>1 DEF Storing, Real
  <2>4. given' = [p \in Transactions |-> given'[p]]
    BY <1>1 DEF Storing
  <2>5. QED
    BY <2>2, <2>3, <2>4 DEF Storing, Real
<1>4. Keeping'
  <2>1. \A c : InHand(c) => InHand(c)'
    BY <1>1 DEF InHand
  <2>2. \A p \in held : p \notin held' /\ txn[p].kept =>
           answers'[p] # None /\ \A c \in OutputIds(txn[p]) \cap DOMAIN signed' : InHand(c)'
    BY <1>1
  <2>3. QED
    BY <1>1, <2>1, <2>2, KeepingStep
<1>5. QED
  BY <1>2, <1>3, <1>4

\* What may travel to the caller of o.
Honest(o, w) ==
  w # None /\ w.type = "answer" =>
    /\ w.sigs \in Seq(Signatures)
    /\ Acceptable(txn[o], w.sigs) => \/ answers[o] # None /\ w.sigs = answers[o]
                                     \/ txn[o].kind = "melt" /\ w.sigs = <<>>

\* An honest message takes the place of what was under way for o.
LEMMA WireStep ==
  ASSUME TransactionInv, NEW o \in Transactions, txn[o] # None, NEW w,
         wire' = [wire EXCEPT ![o] = w], txn' = txn,
         \A p \in Transactions : answers[p] # None => answers'[p] = answers[p],
         Honest(o, w)'
  PROVE  Wires'
<1> USE DEF TransactionInv
<1>1. /\ wire' = [p \in Transactions |-> wire'[p]]
      /\ wire'[o] = w /\ \A p \in Transactions \ {o} : wire'[p] = wire[p]
  BY DEF Wires
<1>2. \A p \in Transactions : wire'[p] # None => txn'[p] # None
  BY <1>1 DEF Wires
<1>3. ASSUME NEW p \in Transactions, wire'[p] # None, wire'[p].type = "answer"
      PROVE  /\ wire'[p].sigs \in Seq(Signatures)
             /\ Acceptable(txn'[p], wire'[p].sigs) =>
                   \/ answers'[p] # None /\ wire'[p].sigs = answers'[p]
                   \/ txn'[p].kind = "melt" /\ wire'[p].sigs = <<>>
  <2>1. CASE p = o
    BY <1>1, <1>3, <2>1 DEF Honest
  <2>2. CASE p # o
    BY <1>1, <1>3, <2>2 DEF Wires
  <2>3. QED
    BY <2>1, <2>2
<1>4. QED
  BY <1>1, <1>2, <1>3 DEF Wires

\* Nothing new travels.
LEMMA WireSame ==
  ASSUME TransactionInv, wire' = wire, txn' = txn,
         \A p \in Transactions : answers[p] # None => answers'[p] = answers[p]
  PROVE  Wires'
BY DEF TransactionInv, Wires

\* What is signed stays as it is.
LEMMA SigningSame ==
  ASSUME Signing, signed' = signed, answers' = answers, txn' = txn
  PROVE  Signing'
<1>1. /\ signed' = [c \in DOMAIN signed' |-> signed'[c]]
      /\ \A c \in DOMAIN signed' : c \in Int /\ signed'[c] \in Nat
      /\ answers' \in [Transactions -> Seq(Signatures) \cup {None}]
  BY DEF Signing
<1>2. \A o \in Transactions : answers'[o] # None =>
       /\ txn'[o] # None /\ Belongs(txn'[o], answers'[o])
       /\ \A i \in DOMAIN answers'[o] : answers'[o][i].b \in DOMAIN signed'
                                       /\ signed'[answers'[o][i].b] = answers'[o][i].amount
  BY DEF Signing
<1>3. \A c \in DOMAIN signed' : \/ c \in Ids(Stored \cup Token)
                               \/ \E o \in Transactions : txn'[o] # None /\ c \in OutputIds(txn'[o])
  BY DEF Signing
<1>4. \A o \in Transactions : txn'[o] # None => \A c \in OutputIds(txn'[o]) \cap DOMAIN signed' :
       answers'[o] # None /\ \E i \in DOMAIN answers'[o] : answers'[o][i].b = c
  BY DEF Signing
<1>5. QED
  BY <1>1, <1>2, <1>3, <1>4 DEF Signing

\* The ids in a payment under way.
LEMMA InPending ==
  \A c : c \in Pending <=> \E p \in Transactions : payment[p] = "PENDING" /\ c \in Ids(txn[p].inputs)
BY DEF Pending

-----------------------------------------------------------------------------
(* The mint and the network.                                               *)

\* What is answered for is spent for good, so it is not in a payment under way.
LEMMA AnsweredIsSettled ==
  ASSUME TransactionInv, NEW o \in Transactions, payment[o] = "PENDING"
  PROVE  answers[o] = None
<1> USE DEF TransactionInv
<1>1. SUFFICES ASSUME answers[o] # None PROVE FALSE
  OBVIOUS
<1>2. Ids(txn[o].inputs) \subseteq Pending /\ Ids(txn[o].inputs) \subseteq Spent
  BY <1>1, InPending DEF Paying
<1>3. txn[o] # None /\ txn[o].kind = "melt"
  BY NoneAssumption DEF Paying
<1>4. Ids(txn[o].inputs) # {}
  <2>1. txn[o].inputs # {}
    BY <1>3 DEF Preparations, Drawn
  <2>2. QED
    BY <2>1 DEF Ids
<1>5. QED
  BY <1>2, <1>4 DEF Spent

\* A swap or a mint is executed: its inputs are spent and all its outputs signed.
LEMMA ExecutesHolds ==
  ASSUME TransactionInv, NEW o \in Transactions, Executes(o)
  PROVE  TransactionInv'
<1> USE DEF TransactionInv
<1> DEFINE t == txn[o]
           outs == OutputData(t)
           sigs == Sign(outs, [i \in DOMAIN outs |-> outs[i].amount])
<1>1. /\ wire[o] # None /\ t.kind # "melt" /\ answers[o] = None
      /\ Ids(t.inputs) \cap spent = {} /\ OutputIds(t) \cap DOMAIN signed = {}
      /\ UNCHANGED <<appVars, nextCounter, randoms, payment>>
  BY DEF Executes, Fresh, Waits, OutputIds
<1>2. /\ signed' = SignedNow(sigs) /\ spent' = spent \cup Ids(t.inputs)
      /\ answers' = [answers EXCEPT ![o] = sigs]
      /\ wire' = [wire EXCEPT ![o] = [type |-> "answer", sigs |-> sigs]]
  BY DEF Executes, Reply
<1>3. t # None /\ Drawn(t) /\ txn' = txn /\ payment' = payment
  BY <1>1 DEF Wires, Preparations, appVars
<1>4. Belongs(t, sigs)
  BY <1>1, <1>3, SwapSignatures
<1> HIDE DEF t, outs, sigs
<1>5. /\ Signing' /\ answers'[o] = sigs /\ answers'[o] # None
      /\ \A p \in Transactions \ {o} : answers'[p] = answers[p]
      /\ \A c \in DOMAIN signed : c \in DOMAIN signed' /\ signed'[c] = signed[c]
      /\ \A c \in DOMAIN signed' : c \in DOMAIN signed \/ c \in OutputIds(t)
  BY <1>1, <1>2, <1>3, <1>4, Signs DEF t
<1>6. \A p \in Transactions : answers[p] # None => p # o /\ answers'[p] = answers[p]
  BY <1>1, <1>5
<1>7. \A p \in Transactions : p # o /\ txn[p] # None =>
        OutputIds(txn[p]) \cap DOMAIN signed' = OutputIds(txn[p]) \cap DOMAIN signed
  <2> SUFFICES ASSUME NEW p \in Transactions, p # o, txn[p] # None
               PROVE  OutputIds(txn[p]) \cap DOMAIN signed' = OutputIds(txn[p]) \cap DOMAIN signed
    OBVIOUS
  <2>1. OutputIds(txn[p]) \cap OutputIds(t) = {}
    BY <1>3 DEF Preparations, t
  <2>2. QED
    BY <1>5, <2>1
<1>8. Pending' = Pending
  BY <1>3 DEF Pending
<1>9. Ids(t.inputs) \cap Pending = {}
  <2>1. Pending \subseteq spent
    BY InPending DEF Paying
  <2>2. QED
    BY <1>1, <2>1
<1>10. Spent' = Spent \cup Ids(t.inputs)
  <2>1. spent' = spent \cup Ids(t.inputs)
    BY <1>2
  <2>2. QED
    BY <1>8, <1>9, <2>1 DEF Spent
<1>11. Preparations' /\ Storing' /\ Keeping'
  <2>1. Spent \subseteq Spent'
    BY <1>10
  <2>2. \A p \in Transactions : answers[p] # None =>
           answers'[p] # None /\ OutputIds(txn[p]) \cap DOMAIN signed' \subseteq DOMAIN signed
    BY <1>6, <1>7 DEF Signing
  <2>3. QED
    BY <1>1, <1>5, <2>1, <2>2, MintStep
<1>12. Wires'
  <2>1. PICK a, w : a = sigs /\ w = [type |-> "answer", sigs |-> a]
    OBVIOUS
  <2>2. a \in Seq(Signatures) /\ answers'[o] = a
    BY <1>4, <1>5, <2>1 DEF Belongs
  <2>3. w.type = "answer" /\ w.sigs = a
    BY <2>1
  <2>4. Honest(o, w)'
    BY <1>5, <2>2, <2>3 DEF Honest
  <2>5. \A p \in Transactions : answers[p] # None => answers'[p] = answers[p]
    BY <1>6
  <2>6. wire' = [wire EXCEPT ![o] = w] /\ txn[o] # None /\ txn' = txn
    BY <1>2, <1>3, <2>1 DEF t
  <2>7. QED
    BY <2>4, <2>5, <2>6, WireStep
<1>13. Paying'
  <2>1. \A p \in Transactions : payment[p] = "PENDING" =>
          /\ OutputIds(txn[p]) \cap DOMAIN signed' = {} /\ Ids(txn[p].inputs) \subseteq spent'
    <3> SUFFICES ASSUME NEW p \in Transactions, payment[p] = "PENDING"
                 PROVE  /\ OutputIds(txn[p]) \cap DOMAIN signed' = {} /\ Ids(txn[p].inputs) \subseteq spent'
      OBVIOUS
    <3>1. txn[p] # None /\ txn[p].kind = "melt" /\ p # o
      BY <1>1, NoneAssumption DEF Paying, t
    <3>2. OutputIds(txn[p]) \cap DOMAIN signed = {} /\ Ids(txn[p].inputs) \subseteq spent
      BY DEF Paying
    <3>3. QED
      BY <1>2, <1>7, <3>1, <3>2
  <2>2. \A p \in Transactions : answers'[p] # None => Ids(txn[p].inputs) \subseteq Spent'
    <3> SUFFICES ASSUME NEW p \in Transactions, answers'[p] # None
                 PROVE  Ids(txn[p].inputs) \subseteq Spent'
      OBVIOUS
    <3>1. CASE p = o
      BY <1>10, <3>1 DEF t
    <3>2. CASE p # o
      BY <1>5, <1>10, <3>2 DEF Paying
    <3>3. QED
      BY <3>1, <3>2
  <2>3. \A p \in Transactions : payment[p] = "PAID" => answers'[p] # None
    BY <1>5 DEF Paying
  <2>4. \A p \in Transactions : payment'[p] = "PENDING" =>
          /\ OutputIds(txn'[p]) \cap DOMAIN signed' = {} /\ Ids(txn'[p].inputs) \subseteq spent'
    BY <1>3, <2>1
  <2>5. \A p \in Transactions : answers'[p] # None => Ids(txn'[p].inputs) \subseteq Spent'
    BY <1>3, <2>2
  <2>6. \A p, q \in Transactions : payment'[p] = "PENDING" /\ payment'[q] = "PENDING" /\ p # q =>
          Ids(txn'[p].inputs) \cap Ids(txn'[q].inputs) = {}
    BY <1>3 DEF Paying
  <2>7. /\ payment' = [p \in Transactions |-> payment'[p]]
        /\ \A p \in Transactions : payment'[p] # None => txn'[p] # None /\ txn'[p].kind = "melt"
        /\ \A p \in Transactions : payment'[p] = "PAID" => answers'[p] # None
    BY <1>3, <2>3 DEF Paying
  <2>8. QED
    BY <2>4, <2>5, <2>6, <2>7 DEF Paying
<1>14. QED
  BY <1>5, <1>11, <1>12, <1>13

\* A payment starts: its inputs are pending, which is not spent.
LEMMA StartsHolds ==
  ASSUME TransactionInv, NEW o \in Transactions, NEW async \in BOOLEAN, Starts(o, async)
  PROVE  TransactionInv'
<1> USE DEF TransactionInv
<1> DEFINE t == txn[o]
<1>1. /\ wire[o] # None /\ t.kind = "melt" /\ payment[o] # "PENDING"
      /\ Ids(t.inputs) \cap spent = {} /\ OutputIds(t) \cap DOMAIN signed = {}
      /\ UNCHANGED <<appVars, nextCounter, randoms, signed, answers>>
  BY DEF Starts, Fresh, Waits, OutputIds
<1>2. /\ spent' = spent \cup Ids(t.inputs) /\ payment' = [payment EXCEPT ![o] = "PENDING"]
      /\ \/ wire' = [wire EXCEPT ![o] = [type |-> "answer", sigs |-> <<>>]]
         \/ wire' = wire
  BY DEF Starts, Reply
<1>3. t # None /\ Drawn(t) /\ txn' = txn /\ signed' = signed /\ answers' = answers
  BY <1>1 DEF Wires, Preparations, appVars
<1> HIDE DEF t
<1>4. payment'[o] = "PENDING" /\ \A p \in Transactions \ {o} : payment'[p] = payment[p]
  BY <1>2 DEF Paying
<1>5. \A c : c \in Pending' <=> c \in Pending \/ c \in Ids(t.inputs)
  <2>1. \A c : c \in Pending' <=> \E p \in Transactions : payment'[p] = "PENDING" /\ c \in Ids(txn'[p].inputs)
    BY DEF Pending
  <2>2. \A c : c \in Pending' <=> \E p \in Transactions : payment'[p] = "PENDING" /\ c \in Ids(txn[p].inputs)
    BY <1>3, <2>1
  <2>3. QED
    BY <1>1, <1>4, <2>2, InPending DEF t
<1>6. Spent' = Spent
  <2>1. \A c : c \in Spent' <=> c \in spent' /\ c \notin Pending'
    BY DEF Spent
  <2>2. \A c : c \in Spent <=> c \in spent /\ c \notin Pending
    BY DEF Spent
  <2>3. QED
    BY <1>1, <1>2, <1>5, <2>1, <2>2
<1>7. Preparations' /\ Storing' /\ Keeping'
  <2>1. \A p \in Transactions : answers[p] # None =>
           answers'[p] # None /\ OutputIds(txn[p]) \cap DOMAIN signed' \subseteq DOMAIN signed
    BY <1>3
  <2>2. QED
    BY <1>1, <1>3, <1>6, <2>1, MintStep
<1>8. Signing'
  BY <1>3, SigningSame
<1>9. Wires'
  <2>1. CASE wire' = [wire EXCEPT ![o] = [type |-> "answer", sigs |-> <<>>]]
    <3>1. Honest(o, [type |-> "answer", sigs |-> <<>>])'
      BY <1>1, <1>3, SeqEmpty DEF Honest, t
    <3>2. txn[o] # None /\ \A p \in Transactions : answers[p] # None => answers'[p] = answers[p]
      BY <1>3 DEF t
    <3>3. QED
      BY <1>3, <2>1, <3>1, <3>2, WireStep
  <2>2. CASE wire' = wire
    BY <1>3, <2>2, WireSame
  <2>3. QED
    BY <1>2, <2>1, <2>2
<1>10. Paying'
  <2>1. \A p \in Transactions : payment'[p] = "PENDING" =>
          /\ OutputIds(txn'[p]) \cap DOMAIN signed' = {} /\ Ids(txn'[p].inputs) \subseteq spent'
    <3> SUFFICES ASSUME NEW p \in Transactions, payment'[p] = "PENDING"
                 PROVE  /\ OutputIds(txn[p]) \cap DOMAIN signed = {}
                        /\ Ids(txn[p].inputs) \subseteq spent \cup Ids(t.inputs)
      BY <1>2, <1>3
    <3>1. CASE p = o
      BY <1>1, <3>1 DEF t
    <3>2. CASE p # o
      BY <1>4, <3>2 DEF Paying
    <3>3. QED
      BY <3>1, <3>2
  <2>2. \A p, q \in Transactions : payment'[p] = "PENDING" /\ payment'[q] = "PENDING" /\ p # q =>
          Ids(txn'[p].inputs) \cap Ids(txn'[q].inputs) = {}
    <3> SUFFICES ASSUME NEW p \in Transactions, NEW q \in Transactions,
                        payment'[p] = "PENDING", payment'[q] = "PENDING", p # q
                 PROVE  Ids(txn[p].inputs) \cap Ids(txn[q].inputs) = {}
      BY <1>3
    <3>0. \A r \in Transactions \ {o} : payment'[r] = "PENDING" => Ids(txn[r].inputs) \subseteq spent
      BY <1>4 DEF Paying
    <3>1. CASE p # o /\ q # o
      BY <1>4, <3>1 DEF Paying
    <3>2. CASE p = o
      BY <1>1, <3>0, <3>2 DEF t
    <3>3. CASE q = o
      BY <1>1, <3>0, <3>3 DEF t
    <3>4. QED
      BY <3>1, <3>2, <3>3
  <2>3. /\ payment' = [p \in Transactions |-> payment'[p]]
        /\ \A p \in Transactions : payment'[p] # None => txn'[p] # None /\ txn'[p].kind = "melt"
        /\ \A p \in Transactions : payment'[p] = "PAID" => answers'[p] # None
    <3>1. payment' = [p \in Transactions |-> payment'[p]]
      BY <1>2 DEF Paying
    <3>2. \A p \in Transactions : payment'[p] # None => txn'[p] # None /\ txn'[p].kind = "melt"
      BY <1>1, <1>3, <1>4 DEF Paying, t
    <3>3. \A p \in Transactions : payment'[p] = "PAID" => answers'[p] # None
      BY <1>3, <1>4 DEF Paying
    <3>4. QED
      BY <3>1, <3>2, <3>3
  <2>4. \A p \in Transactions : answers'[p] # None => Ids(txn'[p].inputs) \subseteq Spent'
    BY <1>3, <1>6 DEF Paying
  <2>5. QED
    BY <2>1, <2>2, <2>3, <2>4 DEF Paying
<1>11. QED
  BY <1>7, <1>8, <1>9, <1>10

\* What holds of the mint still does if only the wallet moves.
LEMMA MintSame ==
  ASSUME TransactionInv, UNCHANGED <<mintVars, txn>>
  PROVE  Signing' /\ Paying' /\ Spent' = Spent
<1> USE DEF TransactionInv
<1>1. signed' = signed /\ answers' = answers /\ txn' = txn /\ payment' = payment /\ spent' = spent
  BY DEF mintVars
<1>2. Signing'
  BY <1>1, SigningSame
<1>3. Pending' = Pending
  BY <1>1 DEF Pending
<1>4. Spent' = Spent
  BY <1>1, <1>3 DEF Spent
<1>5. /\ payment' = [o \in Transactions |-> payment'[o]]
      /\ \A o \in Transactions : payment'[o] # None => txn'[o] # None /\ txn'[o].kind = "melt"
      /\ \A o \in Transactions : payment'[o] = "PAID" => answers'[o] # None
  BY <1>1 DEF Paying
<1>6. /\ \A o \in Transactions : payment'[o] = "PENDING" =>
           OutputIds(txn'[o]) \cap DOMAIN signed' = {} /\ Ids(txn'[o].inputs) \subseteq spent'
      /\ \A o, p \in Transactions : payment'[o] = "PENDING" /\ payment'[p] = "PENDING" /\ o # p =>
           Ids(txn'[o].inputs) \cap Ids(txn'[p].inputs) = {}
  BY <1>1 DEF Paying
<1>7. \A o \in Transactions : answers'[o] # None => Ids(txn'[o].inputs) \subseteq Spent'
  BY <1>1, <1>4 DEF Paying
<1>8. Paying'
  BY <1>5, <1>6, <1>7 DEF Paying
<1>9. QED
  BY <1>2, <1>4, <1>8

\* Only the wire changes.
LEMMA WireOnly ==
  ASSUME TransactionInv, NEW o \in Transactions, txn[o] # None, NEW w,
         wire' = [wire EXCEPT ![o] = w], Honest(o, w),
         UNCHANGED <<appVars, nextCounter, randoms, mintVars>>
  PROVE  TransactionInv'
<1>1. txn' = txn /\ answers' = answers /\ signed' = signed
  BY DEF appVars, mintVars
<1>2. Signing' /\ Paying' /\ Spent' = Spent
  BY <1>1, MintSame
<1>3. Preparations' /\ Storing' /\ Keeping'
  BY <1>1, <1>2, MintStep
<1>4. Honest(o, w)'
  BY <1>1 DEF Honest
<1>5. Wires'
  BY <1>1, <1>4, WireStep
<1>6. QED
  BY <1>2, <1>3, <1>5 DEF TransactionInv

\* The mint answers from its cache.
LEMMA RepeatsHolds ==
  ASSUME TransactionInv, NEW o \in Transactions, Repeats(o)
  PROVE  TransactionInv'
<1>1. wire[o] # None /\ answers[o] # None /\ UNCHANGED <<appVars, nextCounter, randoms, mintVars>>
  BY DEF Repeats, Waits
<1>2. PICK w : w = [type |-> "answer", sigs |-> answers[o]]
  OBVIOUS
<1>3. wire' = [wire EXCEPT ![o] = w]
  BY <1>2 DEF Repeats, Reply
<1>4. txn[o] # None /\ answers[o] \in Seq(Signatures)
  BY <1>1 DEF TransactionInv, Wires, Signing, Belongs
<1>5. Honest(o, w)
  BY <1>1, <1>2, <1>4 DEF Honest
<1>6. QED
  BY <1>1, <1>3, <1>4, <1>5, WireOnly

\* The mint refuses a request.
LEMMA RefusesHolds ==
  ASSUME TransactionInv, NEW o \in Transactions, NEW bySignature, Refuses(o, bySignature)
  PROVE  TransactionInv'
<1>1. wire[o] # None /\ UNCHANGED <<appVars, nextCounter, randoms, mintVars>>
  BY DEF Refuses, Waits
<1>2. PICK w : w = [type |-> "error", signature |-> bySignature, legacy |-> wire[o].legacy]
  OBVIOUS
<1>3. wire' = [wire EXCEPT ![o] = w]
  BY <1>2 DEF Refuses, Error, Reply
<1>4. txn[o] # None
  BY <1>1 DEF TransactionInv, Wires
<1>5. Honest(o, w)
  BY <1>2 DEF Honest
<1>6. QED
  BY <1>1, <1>3, <1>4, <1>5, WireOnly

\* A message is lost.
LEMMA LosesHolds ==
  ASSUME TransactionInv, NEW o \in Transactions, Loses(o)
  PROVE  TransactionInv'
<1>1. txn[o] # None /\ Honest(o, None)
  BY DEF Loses, TransactionInv, Wires, Honest
<1>2. QED
  BY <1>1, WireOnly DEF Loses

\* The caller accepts no damaged answer.
LEMMA DamagesHolds ==
  ASSUME TransactionInv, NEW o \in Transactions, Damages(o)
  PROVE  TransactionInv'
<1> USE DEF TransactionInv
<1> DEFINE t == txn[o]
           outs == OutputData(t)
<1>1. /\ wire[o] # None /\ wire[o].type = "answer" /\ wire[o].sigs = answers[o] /\ answers[o] # <<>>
      /\ UNCHANGED <<appVars, nextCounter, randoms, mintVars>>
  BY DEF Damages
<1>2. t # None /\ answers[o] \in Seq(Signatures) /\ Belongs(t, answers[o]) /\ Drawn(t) /\ t \in Previews
  <2>1. t # None /\ answers[o] \in Seq(Signatures)
    BY <1>1 DEF Wires
  <2>2. answers[o] # None
    BY <2>1, NoneAssumption
  <2>3. QED
    BY <2>1, <2>2 DEF Signing, Preparations, Drawn
<1>3. PICK sigs \in Seq(Signatures) : sigs = answers[o]
  BY <1>2
<1> DEFINE n == Len(sigs)
<1>4. PICK bad \in {Front(sigs), [sigs EXCEPT ![n].ours = FALSE], [sigs EXCEPT ![1].amount = @ + 1]} :
        /\ bad # Front(sigs) \/ t.kind # "melt"
        /\ (t.kind = "melt" => bad[1].amount = sigs[1].amount)
        /\ wire' = [wire EXCEPT ![o] = [type |-> "answer", sigs |-> bad]]
  BY <1>1, <1>3 DEF Damages, Reply
<1>5. n \in Nat /\ n >= 1 /\ DOMAIN sigs = 1..n /\ \A i \in 1..n : sigs[i] \in Signatures
  <2>1. n \in Nat /\ DOMAIN sigs = 1..n /\ \A i \in 1..n : sigs[i] \in Signatures
    BY SeqElements
  <2>2. n # 0
    BY <1>1, <1>3
  <2>3. QED
    BY <2>1, <2>2
<1>6. \A i \in 1..n : sigs[i].b \in Int /\ sigs[i].amount \in Nat /\ sigs[i].ours \in BOOLEAN
  BY <1>5 DEF Signatures
<1>7. /\ IF t.kind = "melt" THEN n <= Len(outs) ELSE n = Len(outs)
      /\ t.kind # "melt" => \A i \in 1..n : sigs[i].amount = outs[i].amount
  BY <1>2, <1>3, <1>5 DEF Belongs
<1>8. t.kind # "melt" => \A i \in 1..Len(outs) : outs[i].amount # 0
  <2> SUFFICES ASSUME t.kind # "melt", NEW i \in 1..Len(outs)
               PROVE  outs[i].amount # 0
    OBVIOUS
  <2>1. /\ Merged(t) \in Seq(ProofRecords)
        /\ \A j \in DOMAIN Merged(t) : Merged(t)[j].amount # 0
    BY <1>2, PreviewTypes DEF Drawn
  <2>2. DOMAIN Merged(t) = 1..Len(Merged(t))
    BY <2>1, SeqElements
  <2>3. QED
    BY <2>1, <2>2, OutputsAreMerged
<1> HIDE DEF t, outs, n
<1>9. bad \in Seq(Signatures) /\ ~Acceptable(t, bad)
  <2>1. CASE bad = Front(sigs)
    <3>1. bad \in Seq(Signatures) /\ Len(bad) = n - 1
      BY <1>5, <2>1 DEF Front, n
    <3>2. t.kind # "melt" /\ Len(outs) = n
      BY <1>4, <1>7, <2>1
    <3>3. Len(bad) # Len(outs)
      BY <1>5, <3>1, <3>2
    <3>4. QED
      BY <3>1, <3>2, <3>3 DEF Acceptable, outs
  <2>2. CASE bad = [sigs EXCEPT ![n].ours = FALSE]
    <3>1. bad \in Seq(Signatures)
      <4>0. sigs[n] \in Signatures
        BY <1>5
      <4>1. [sigs[n] EXCEPT !.ours = FALSE] \in Signatures
        BY <4>0, Zenon DEF Signatures
      <4>2. bad = [sigs EXCEPT ![n] = [sigs[n] EXCEPT !.ours = FALSE]]
        BY <2>2
      <4>3. QED
        BY <1>5, <4>1, <4>2
    <3>2. n \in DOMAIN bad /\ bad[n].ours = FALSE
      BY <1>5, <2>2 DEF Signatures
    <3>3. ~Pairs(outs[n], bad[n])
      BY <3>2 DEF Pairs
    <3>4. QED
      BY <3>1, <3>2, <3>3 DEF Acceptable, outs
  <2>3. CASE bad = [sigs EXCEPT ![1].amount = @ + 1]
    <3>0. sigs[1].amount \in Nat /\ sigs[1] \in Signatures
      BY <1>5, <1>6
    <3>1. bad \in Seq(Signatures)
      <4>1. [sigs[1] EXCEPT !.amount = sigs[1].amount + 1] \in Signatures
        BY <3>0 DEF Signatures
      <4>2. bad = [sigs EXCEPT ![1] = [sigs[1] EXCEPT !.amount = sigs[1].amount + 1]]
        BY <2>3
      <4>3. QED
        BY <1>5, <4>1, <4>2
    <3>2. 1 \in DOMAIN bad /\ bad[1].amount = sigs[1].amount + 1
      BY <1>5, <2>3, <3>0 DEF Signatures
    <3>3. t.kind # "melt"
      BY <1>4, <3>0, <3>2
    <3>4. outs[1].amount = sigs[1].amount /\ outs[1].amount # 0
      BY <1>5, <1>7, <1>8, <3>3
    <3>5. ~Pairs(outs[1], bad[1])
      BY <3>0, <3>2, <3>4 DEF Pairs
    <3>6. QED
      BY <3>1, <3>2, <3>5 DEF Acceptable, outs
  <2>4. QED
    BY <1>4, <2>1, <2>2, <2>3
<1>10. PICK w : w = [type |-> "answer", sigs |-> bad]
  OBVIOUS
<1>11. Honest(o, w)
  BY <1>9, <1>10 DEF Honest, t
<1>12. wire' = [wire EXCEPT ![o] = w] /\ txn[o] # None
  BY <1>2, <1>4, <1>10 DEF t
<1>13. QED
  BY <1>1, <1>11, <1>12, WireOnly

\* A payment ends well: its inputs are spent and the change is signed on the first blanks.
LEMMA PaysHolds ==
  ASSUME TransactionInv, NEW o \in Transactions, payment[o] = "PENDING",
         NEW over \in 0..MaxAmount, Pays(o, over)
  PROVE  TransactionInv'
<1> USE DEF TransactionInv
<1> DEFINE t == txn[o]
           fit(amounts) == SubSeq(amounts, 1, IF Len(amounts) < Len(t.keep) THEN Len(amounts)
                                              ELSE Len(t.keep))
<1>1. PICK amounts \in {Split[over]} \ {Throws} :
        /\ payment' = [payment EXCEPT ![o] = "PAID"]
        /\ signed' = SignedNow(Sign(t.keep, fit(amounts)))
        /\ answers' = [answers EXCEPT ![o] = Sign(t.keep, fit(amounts))]
        /\ \/ wire[o] # None
              /\ wire' = [wire EXCEPT ![o] = [type |-> "answer", sigs |-> Sign(t.keep, fit(amounts))]]
           \/ wire' = wire
        /\ UNCHANGED <<appVars, nextCounter, randoms, spent>>
  BY DEF Pays, Waits, Reply
<1>2. amounts \in Seq(Positive)
  BY SplitTyped
<1>3. t # None /\ t.kind = "melt" /\ Drawn(t) /\ OutputIds(t) \cap DOMAIN signed = {}
      /\ Ids(t.inputs) \subseteq spent
  BY NoneAssumption DEF Paying, Preparations
<1>4. PICK sigs : sigs = Sign(t.keep, fit(amounts))
  OBVIOUS
<1>5. Belongs(t, sigs)
  BY <1>2, <1>3, <1>4, ChangeSignatures
<1>6. /\ signed' = SignedNow(sigs) /\ answers' = [answers EXCEPT ![o] = sigs]
      /\ payment' = [payment EXCEPT ![o] = "PAID"]
      /\ \/ wire' = [wire EXCEPT ![o] = [type |-> "answer", sigs |-> sigs]]
         \/ wire' = wire
      /\ UNCHANGED <<appVars, nextCounter, randoms, spent>>
  BY <1>1, <1>4
<1>7. txn' = txn /\ answers[o] = None
  BY <1>6, AnsweredIsSettled DEF appVars
<1> HIDE DEF t, fit
<1>8. /\ Signing' /\ answers'[o] = sigs /\ answers'[o] # None
      /\ \A p \in Transactions \ {o} : answers'[p] = answers[p]
      /\ \A c \in DOMAIN signed : c \in DOMAIN signed' /\ signed'[c] = signed[c]
      /\ \A c \in DOMAIN signed' : c \in DOMAIN signed \/ c \in OutputIds(t)
  BY <1>3, <1>5, <1>6, <1>7, Signs DEF t
<1>9. \A p \in Transactions : answers[p] # None => p # o /\ answers'[p] = answers[p]
  BY <1>7, <1>8
<1>10. \A p \in Transactions : p # o /\ txn[p] # None =>
         OutputIds(txn[p]) \cap DOMAIN signed' = OutputIds(txn[p]) \cap DOMAIN signed
  <2> SUFFICES ASSUME NEW p \in Transactions, p # o, txn[p] # None
               PROVE  OutputIds(txn[p]) \cap DOMAIN signed' = OutputIds(txn[p]) \cap DOMAIN signed
    OBVIOUS
  <2>1. OutputIds(txn[p]) \cap OutputIds(t) = {}
    BY <1>3 DEF Preparations, t
  <2>2. QED
    BY <1>8, <2>1
<1>11. payment'[o] = "PAID" /\ \A p \in Transactions \ {o} : payment'[p] = payment[p]
  BY <1>6 DEF Paying
<1>12. /\ \A c : c \in Pending' => c \in Pending
       /\ \A c : c \in Pending' => c \notin Ids(t.inputs)
  <2>1. \A c : c \in Pending' => \E p \in Transactions : payment'[p] = "PENDING" /\ c \in Ids(txn'[p].inputs)
    BY DEF Pending
  <2>2. \A c : c \in Pending' =>
          \E p \in Transactions \ {o} : payment[p] = "PENDING" /\ c \in Ids(txn[p].inputs)
    BY <1>7, <1>11, <2>1
  <2>3. \A p \in Transactions \ {o} : payment[p] = "PENDING" => Ids(txn[p].inputs) \cap Ids(t.inputs) = {}
    BY DEF Paying, t
  <2>4. QED
    BY <2>2, <2>3, InPending
<1>13. Spent \cup Ids(t.inputs) \subseteq Spent'
  <2>1. \A c : c \in Spent' <=> c \in spent' /\ c \notin Pending'
    BY DEF Spent
  <2>2. \A c : c \in Spent <=> c \in spent /\ c \notin Pending
    BY DEF Spent
  <2>3. QED
    BY <1>3, <1>6, <1>12, <2>1, <2>2
<1>14. Preparations' /\ Storing' /\ Keeping'
  <2>1. \A p \in Transactions : answers[p] # None =>
           answers'[p] # None /\ OutputIds(txn[p]) \cap DOMAIN signed' \subseteq DOMAIN signed
    BY <1>9, <1>10 DEF Signing
  <2>2. QED
    BY <1>6, <1>8, <1>13, <2>1, MintStep
<1>15. Wires'
  <2>1. CASE wire' = wire
    BY <1>7, <1>9, <2>1, WireSame
  <2>2. CASE wire' = [wire EXCEPT ![o] = [type |-> "answer", sigs |-> sigs]]
    <3>1. PICK w : w = [type |-> "answer", sigs |-> sigs]
      OBVIOUS
    <3>2. sigs \in Seq(Signatures)
      BY <1>5 DEF Belongs
    <3>3. Honest(o, w)'
      BY <1>8, <3>1, <3>2 DEF Honest
    <3>4. txn[o] # None /\ wire' = [wire EXCEPT ![o] = w]
      BY <1>3, <2>2, <3>1 DEF t
    <3>5. QED
      BY <1>7, <1>9, <3>3, <3>4, WireStep
  <2>3. QED
    BY <1>6, <2>1, <2>2
<1>16. Paying'
  <2>1. \A p \in Transactions : payment'[p] = "PENDING" => p # o /\ payment[p] = "PENDING"
    BY <1>11
  <2>2. \A p \in Transactions : payment'[p] = "PENDING" =>
          /\ OutputIds(txn'[p]) \cap DOMAIN signed' = {} /\ Ids(txn'[p].inputs) \subseteq spent'
    <3> SUFFICES ASSUME NEW p \in Transactions, payment'[p] = "PENDING"
                 PROVE  /\ OutputIds(txn[p]) \cap DOMAIN signed' = {} /\ Ids(txn[p].inputs) \subseteq spent
      BY <1>6, <1>7
    <3>1. p # o /\ payment[p] = "PENDING" /\ txn[p] # None
      BY <2>1, NoneAssumption DEF Paying
    <3>2. QED
      BY <1>10, <3>1 DEF Paying
  <2>3. \A p, q \in Transactions : payment'[p] = "PENDING" /\ payment'[q] = "PENDING" /\ p # q =>
          Ids(txn'[p].inputs) \cap Ids(txn'[q].inputs) = {}
    BY <1>7, <2>1 DEF Paying
  <2>4. /\ payment' = [p \in Transactions |-> payment'[p]]
        /\ \A p \in Transactions : payment'[p] # None => txn'[p] # None /\ txn'[p].kind = "melt"
        /\ \A p \in Transactions : payment'[p] = "PAID" => answers'[p] # None
    <3>1. payment' = [p \in Transactions |-> payment'[p]]
      BY <1>6 DEF Paying
    <3>2. \A p \in Transactions : payment'[p] # None => txn'[p] # None /\ txn'[p].kind = "melt"
      BY <1>3, <1>7, <1>11 DEF Paying, t
    <3>3. \A p \in Transactions : payment'[p] = "PAID" => answers'[p] # None
      BY <1>8, <1>11 DEF Paying
    <3>4. QED
      BY <3>1, <3>2, <3>3
  <2>5. \A p \in Transactions : answers'[p] # None => Ids(txn'[p].inputs) \subseteq Spent'
    <3> SUFFICES ASSUME NEW p \in Transactions, answers'[p] # None
                 PROVE  Ids(txn[p].inputs) \subseteq Spent'
      BY <1>7
    <3>1. CASE p = o
      BY <1>13, <3>1 DEF t
    <3>2. CASE p # o
      BY <1>8, <1>13, <3>2 DEF Paying
    <3>3. QED
      BY <3>1, <3>2
  <2>6. QED
    BY <2>2, <2>3, <2>4, <2>5 DEF Paying
<1>17. QED
  BY <1>8, <1>14, <1>15, <1>16

\* A payment settles, whatever its fee leaves.
LEMMA SettlesHolds ==
  ASSUME TransactionInv, NEW o \in Transactions, Settles(o)
  PROVE  TransactionInv'
<1> DEFINE most == AmountOfProofs(txn[o].inputs) - txn[o].quote - Fee(Cardinality(txn[o].inputs))
<1>1. payment[o] = "PENDING" /\ \E over \in 0..most : over <= MaxAmount /\ Pays(o, over)
  BY Zenon DEF Settles
<1> HIDE DEF most
<1>2. PICK over \in 0..most : over <= MaxAmount /\ Pays(o, over)
  BY <1>1
<1>3. over \in 0..MaxAmount
  BY <1>2, AmountBounds
<1>4. QED
  BY <1>1, <1>2, <1>3, PaysHolds

\* A payment fails: its inputs are free, and no other payment or answer had them.
LEMMA FailsHolds ==
  ASSUME TransactionInv, NEW o \in Transactions, Fails(o)
  PROVE  TransactionInv'
<1> USE DEF TransactionInv
<1> DEFINE t == txn[o]
<1>1. PICK w : w = [type |-> "error", signature |-> FALSE, legacy |-> wire[o].legacy]
  OBVIOUS
<1>2. /\ payment[o] = "PENDING" /\ payment' = [payment EXCEPT ![o] = "UNPAID"]
      /\ spent' = spent \ Ids(t.inputs)
      /\ wire' = [wire EXCEPT ![o] = w] \/ wire' = wire
      /\ UNCHANGED <<appVars, nextCounter, randoms, signed, answers>>
  BY <1>1 DEF Fails, Error, Reply
<1>3. t # None /\ t.kind = "melt" /\ Ids(t.inputs) \subseteq spent
  BY <1>2, NoneAssumption DEF Paying
<1>4. txn' = txn /\ signed' = signed /\ answers' = answers
  BY <1>2 DEF appVars
<1> HIDE DEF t
<1>5. payment'[o] = "UNPAID" /\ \A p \in Transactions \ {o} : payment'[p] = payment[p]
  BY <1>2 DEF Paying
<1>6. \A c : c \in Pending' <=> c \in Pending /\ c \notin Ids(t.inputs)
  <2>1. \A c : c \in Pending' <=> \E p \in Transactions : payment'[p] = "PENDING" /\ c \in Ids(txn'[p].inputs)
    BY DEF Pending
  <2>2. \A c : c \in Pending' <=>
          \E p \in Transactions \ {o} : payment[p] = "PENDING" /\ c \in Ids(txn[p].inputs)
    BY <1>4, <1>5, <2>1
  <2>3. \A p \in Transactions \ {o} : payment[p] = "PENDING" => Ids(txn[p].inputs) \cap Ids(t.inputs) = {}
    BY <1>2 DEF Paying, t
  <2>4. \A c : c \in Pending /\ c \notin Ids(t.inputs) =>
          \E p \in Transactions \ {o} : payment[p] = "PENDING" /\ c \in Ids(txn[p].inputs)
    BY InPending DEF t
  <2>5. QED
    BY <2>2, <2>3, <2>4, InPending
<1>7. Ids(t.inputs) \subseteq Pending
  BY <1>2, InPending DEF t
<1>8. Spent' = Spent
  <2>1. \A c : c \in Spent' <=> c \in spent' /\ c \notin Pending'
    BY DEF Spent
  <2>2. \A c : c \in Spent <=> c \in spent /\ c \notin Pending
    BY DEF Spent
  <2>3. QED
    BY <1>2, <1>6, <1>7, <2>1, <2>2
<1>9. Preparations' /\ Storing' /\ Keeping'
  <2>1. \A p \in Transactions : answers[p] # None =>
           answers'[p] # None /\ OutputIds(txn[p]) \cap DOMAIN signed' \subseteq DOMAIN signed
    BY <1>4
  <2>2. QED
    BY <1>2, <1>4, <1>8, <2>1, MintStep
<1>10. Signing'
  BY <1>4, SigningSame
<1>11. Wires'
  <2>1. CASE wire' = wire
    BY <1>4, <2>1, WireSame
  <2>2. CASE wire' = [wire EXCEPT ![o] = w]
    <3>1. Honest(o, w)'
      BY <1>1 DEF Honest
    <3>2. txn[o] # None
      BY <1>3 DEF t
    <3>3. QED
      BY <1>4, <2>2, <3>1, <3>2, WireStep
  <2>3. QED
    BY <1>2, <2>1, <2>2
<1>12. Paying'
  <2>1. \A p \in Transactions : payment'[p] = "PENDING" => p # o /\ payment[p] = "PENDING"
    BY <1>5
  <2>2. \A p \in Transactions : payment'[p] = "PENDING" =>
          /\ OutputIds(txn'[p]) \cap DOMAIN signed' = {} /\ Ids(txn'[p].inputs) \subseteq spent'
    <3> SUFFICES ASSUME NEW p \in Transactions, payment'[p] = "PENDING"
                 PROVE  /\ OutputIds(txn[p]) \cap DOMAIN signed = {}
                        /\ Ids(txn[p].inputs) \subseteq spent \ Ids(t.inputs)
      BY <1>2, <1>4
    <3>1. Ids(txn[p].inputs) \cap Ids(t.inputs) = {}
      BY <1>2, <2>1 DEF Paying, t
    <3>2. QED
      BY <2>1, <3>1 DEF Paying
  <2>3. \A p, q \in Transactions : payment'[p] = "PENDING" /\ payment'[q] = "PENDING" /\ p # q =>
          Ids(txn'[p].inputs) \cap Ids(txn'[q].inputs) = {}
    BY <1>4, <2>1 DEF Paying
  <2>4. /\ payment' = [p \in Transactions |-> payment'[p]]
        /\ \A p \in Transactions : payment'[p] # None => txn'[p] # None /\ txn'[p].kind = "melt"
        /\ \A p \in Transactions : payment'[p] = "PAID" => answers'[p] # None
    <3>1. payment' = [p \in Transactions |-> payment'[p]]
      BY <1>2 DEF Paying
    <3>2. \A p \in Transactions : payment'[p] # None => txn'[p] # None /\ txn'[p].kind = "melt"
      BY <1>3, <1>4, <1>5 DEF Paying, t
    <3>3. \A p \in Transactions : payment'[p] = "PAID" => answers'[p] # None
      BY <1>4, <1>5 DEF Paying
    <3>4. QED
      BY <3>1, <3>2, <3>3
  <2>5. \A p \in Transactions : answers'[p] # None => Ids(txn'[p].inputs) \subseteq Spent'
    BY <1>4, <1>8 DEF Paying
  <2>6. QED
    BY <2>2, <2>3, <2>4, <2>5 DEF Paying
<1>13. QED
  BY <1>9, <1>10, <1>11, <1>12

\* Whatever the mint and the network do keeps the invariant.
LEMMA MintActsHold ==
  ASSUME TransactionInv, NEW o \in Transactions, MintActs(o)
  PROVE  TransactionInv'
BY ExecutesHolds, RepeatsHolds, FailsHolds, DamagesHolds, LosesHolds, StartsHolds, RefusesHolds,
   SettlesHolds DEF MintActs

-----------------------------------------------------------------------------
(* The caller.                                                             *)

\* The caller moves: the mint does not, and nothing is lost on the way.
LEMMA WalletStep ==
  ASSUME TransactionInv, UNCHANGED <<txn, nextCounter, randoms, mintVars>>, held' \subseteq held,
         Storing', Wires', \A c : InHand(c) => InHand(c)' \/ c \in Spent',
         \A p \in held : p \notin held' /\ txn[p].kept =>
           answers[p] # None /\ \A c \in OutputIds(txn[p]) \cap DOMAIN signed : InHand(c)'
  PROVE  TransactionInv'
<1> USE DEF TransactionInv
<1>1. txn' = txn /\ answers' = answers /\ signed' = signed
  BY DEF mintVars
<1>2. Signing' /\ Paying' /\ Spent' = Spent
  BY MintSame
<1>3. Preparations'
  <2>1. Used' = Used
    BY DEF Used
  <2>2. QED
    BY <1>1, <2>1 DEF Preparations
<1>4. Keeping'
  <2>1. \A p \in Transactions : answers[p] # None =>
          answers'[p] # None /\ OutputIds(txn[p]) \cap DOMAIN signed' \subseteq DOMAIN signed
    BY <1>1
  <2>2. \A p \in held : p \notin held' /\ txn[p].kept =>
          answers'[p] # None /\ \A c \in OutputIds(txn[p]) \cap DOMAIN signed' : InHand(c)'
    BY <1>1
  <2>3. QED
    BY <1>1, <1>2, <2>1, <2>2, KeepingStep
<1>5. QED
  BY <1>2, <1>3, <1>4

\* Proofs are added to the store and spent ones dropped.
LEMMA StoreStep ==
  ASSUME TransactionInv, UNCHANGED <<txn, mintVars>>, NEW D, NEW K \in SUBSET ProofRecords,
         store' = (store \ D) \cup K,
         \A p \in D : p.id \in Spent, \A p \in K : Real(p),
         given' = [o \in Transactions |-> given'[o]],
         \A o \in Transactions : given[o] # <<>> => given'[o] = given[o],
         \A o \in Transactions : given'[o] # <<>> /\ given'[o] # given[o] =>
           txn[o] # None /\ given'[o] = txn[o].send /\ \A i \in DOMAIN given'[o] : Real(given'[o][i])
  PROVE  Storing' /\ \A c : InHand(c) => InHand(c)' \/ c \in Spent'
<1> USE DEF TransactionInv
<1>1. signed' = signed /\ txn' = txn /\ Spent' = Spent
  BY MintSame DEF mintVars
<1>2. \A p : Real(p) <=> Real(p)'
  BY <1>1 DEF Real
<1>3. Storing'
  <2>1. store' \subseteq ProofRecords /\ \A p \in store' : Real(p)'
    BY <1>2 DEF Storing
  <2>2. ASSUME NEW o \in Transactions, given'[o] # <<>>
        PROVE  /\ txn'[o] # None /\ given'[o] = txn'[o].send
               /\ \A i \in DOMAIN given'[o] : given'[o][i].id \in DOMAIN signed'
                                            /\ signed'[given'[o][i].id] = given'[o][i].amount
    <3>1. CASE given'[o] = given[o]
      BY <1>1, <2>2, <3>1 DEF Storing, Real
    <3>2. CASE given'[o] # given[o]
      BY <1>1, <2>2, <3>2 DEF Real
    <3>3. QED
      BY <3>1, <3>2
  <2>3. QED
    BY <2>1, <2>2 DEF Storing, Real
<1>4. ASSUME NEW c, InHand(c) PROVE InHand(c)' \/ c \in Spent'
  <2>1. CASE c \in Ids(store)
    <3>1. PICK p \in store : p.id = c
      BY <2>1 DEF Ids
    <3>2. CASE p \in D
      BY <1>1, <3>1, <3>2
    <3>3. CASE p \notin D
      <4>1. p \in store'
        BY <3>3
      <4>2. QED
        BY <3>1, <4>1 DEF InHand, Ids
    <3>4. QED
      BY <3>2, <3>3
  <2>2. CASE \E p \in Transactions : \E i \in DOMAIN given[p] : given[p][i].id = c
    <3>1. PICK p \in Transactions : \E i \in DOMAIN given[p] : given[p][i].id = c
      BY <2>2
    <3>2. given[p] # <<>>
      BY <3>1
    <3>3. given'[p] = given[p]
      BY <3>2
    <3>4. QED
      BY <3>1, <3>3 DEF InHand
  <2>3. QED
    BY <1>4, <2>1, <2>2 DEF InHand
<1>5. QED
  BY <1>3, <1>4

\* Nothing is stored or handed out.
LEMMA StoreSame ==
  ASSUME TransactionInv, UNCHANGED <<txn, mintVars, store, given>>
  PROVE  Storing' /\ \A c : InHand(c) => InHand(c)' \/ c \in Spent'
<1> USE DEF TransactionInv
<1>2. given' = [o \in Transactions |-> given'[o]]
  BY DEF Storing
<1>3. UNCHANGED <<txn, mintVars>> /\ given' = given
  OBVIOUS
<1>4. PICK E \in SUBSET ProofRecords : E = {}
  OBVIOUS
<1>5. store' = (store \ E) \cup E /\ (\A p \in E : p.id \in Spent) /\ (\A p \in E : Real(p))
  BY <1>4
<1>6. QED
  BY <1>2, <1>3, <1>4, <1>5, StoreStep

\* completeSwap, completeMint and completeMelt send the request.
LEMMA CompleteHolds ==
  ASSUME TransactionInv, NEW o \in Transactions, Complete(o)
  PROVE  TransactionInv'
<1> USE DEF TransactionInv
<1>1. PICK w : w = [type |-> "request", legacy |-> FALSE]
  OBVIOUS
<1>2. /\ o \in held /\ wire' = [wire EXCEPT ![o] = w] /\ held' = held
      /\ UNCHANGED <<txn, nextCounter, randoms, mintVars>> /\ UNCHANGED <<txn, mintVars, store, given>>
  BY <1>1 DEF Complete
<1>3. txn[o] # None
  BY <1>2 DEF Preparations
<1>4. Honest(o, w)'
  BY <1>1 DEF Honest
<1>5. Wires'
  <2>1. answers' = answers
    BY <1>2 DEF mintVars
  <2>2. QED
    BY <1>2, <1>3, <1>4, <2>1, WireStep
<1>6. QED
  BY <1>2, <1>5, StoreSame, WalletStep

\* The request goes out again with the legacy signature.
LEMMA FallBackHolds ==
  ASSUME TransactionInv, NEW o \in Transactions, FallBack(o)
  PROVE  TransactionInv'
<1>1. PICK w : w = [type |-> "request", legacy |-> TRUE]
  OBVIOUS
<1>2. /\ wire[o] # None /\ wire' = [wire EXCEPT ![o] = w]
      /\ UNCHANGED <<appVars, nextCounter, randoms, mintVars>>
  BY <1>1 DEF FallBack
<1>3. txn[o] # None
  BY <1>2 DEF TransactionInv, Wires
<1>4. Honest(o, w)
  BY <1>1 DEF Honest
<1>5. QED
  BY <1>2, <1>3, <1>4, WireOnly

\* The call throws: only what nobody kept leaves the caller's hands.
LEMMA ThrowHolds ==
  ASSUME TransactionInv, NEW o \in Transactions, Throw(o)
  PROVE  TransactionInv'
<1> USE DEF TransactionInv
<1>1. /\ wire' = [wire EXCEPT ![o] = None] /\ held' = (IF txn[o].kept THEN held ELSE held \ {o})
      /\ UNCHANGED <<txn, nextCounter, randoms, mintVars>> /\ UNCHANGED <<txn, mintVars, store, given>>
  BY DEF Throw, StillHeld
<1>2. Wires'
  <2>1. txn' = txn /\ answers' = answers
    BY <1>1 DEF mintVars
  <2>2. wire' = [p \in Transactions |-> wire'[p]] /\ wire'[o] = None
        /\ \A p \in Transactions \ {o} : wire'[p] = wire[p]
    BY <1>1 DEF Wires
  <2>3. \A p \in Transactions : wire'[p] # None => wire'[p] = wire[p]
    BY <2>2
  <2>4. QED
    BY <2>1, <2>2, <2>3 DEF Wires
<1>3. held' \subseteq held /\ \A p \in held : p \notin held' => ~txn[p].kept
  BY <1>1
<1>4. QED
  BY <1>1, <1>2, <1>3, StoreSame, WalletStep

\* The process dies: only what nobody kept leaves the caller's hands.
LEMMA CrashHolds ==
  ASSUME TransactionInv, Crash
  PROVE  TransactionInv'
<1> USE DEF TransactionInv
<1>1. /\ wire' = wire /\ held' = {o \in held : txn[o].kept}
      /\ UNCHANGED <<txn, nextCounter, randoms, mintVars>> /\ UNCHANGED <<txn, mintVars, store, given>>
  BY DEF Crash
<1>2. Wires'
  <2>1. txn' = txn /\ answers' = answers
    BY <1>1 DEF mintVars
  <2>2. QED
    BY <1>1, <2>1, WireSame
<1>3. held' \subseteq held /\ \A p \in held : p \notin held' => ~txn[p].kept
  BY <1>1
<1>4. QED
  BY <1>1, <1>2, <1>3, StoreSame, WalletStep

\* The counters the mint has signed are below the next one.
LEMMA SignedBelow ==
  ASSUME TransactionInv
  PROVE  {c \in DOMAIN signed : c >= 0} \in SUBSET (0..nextCounter) /\ nextCounter \in Nat
<1> USE DEF TransactionInv
<1>1. nextCounter \in Nat /\ randoms \in Nat /\ Cardinality(Stored) <= nextCounter
  BY DEF Preparations
<1>2. ASSUME NEW c \in DOMAIN signed, c >= 0 PROVE c \in 0..nextCounter
  <2>0. c \in Int
    BY DEF Signing
  <2>1. CASE c \in Ids(Stored)
    <3>1. PICK p \in Stored : p.id = c
      BY <2>1 DEF Ids
    <3>2. p \in [id : Nat, amount : Keys] /\ p.id < Cardinality(Stored) /\ Cardinality(Stored) \in Nat
      BY StoredAssumption, FS_CardinalityType
    <3>3. QED
      BY <1>1, <1>2, <2>0, <3>1, <3>2
  <2>2. CASE c \in Ids(Token)
    <3>1. c < 0
      BY <2>2, TokenIds DEF Ids
    <3>2. QED
      BY <1>2, <2>0, <3>1
  <2>3. CASE \E o \in Transactions : txn[o] # None /\ c \in OutputIds(txn[o])
    <3>1. c \in Used
      BY <2>3 DEF Preparations
    <3>2. \A n \in 0..(randoms - 1) : -(1000 + n) < 0
      BY <1>1
    <3>3. c \in 0..(nextCounter - 1)
      <4>1. c \in 0..(nextCounter - 1) \/ \E n \in 0..(randoms - 1) : c = -(1000 + n)
        BY <3>1 DEF Used
      <4>2. QED
        BY <1>1, <1>2, <2>0, <3>2, <4>1
    <3>4. QED
      BY <1>1, <3>3
  <2>4. QED
    BY <2>1, <2>2, <2>3 DEF Signing, Ids
<1>3. QED
  BY <1>1, <1>2

\* A restore finds what was signed, and the store loses what is spent for good.
LEMMA RestoreHolds ==
  ASSUME TransactionInv, RestoreFromSeed
  PROVE  TransactionInv'
<1> USE DEF TransactionInv
<1> DEFINE K == {[id |-> c, amount |-> signed[c]] : c \in Found \ Spent}
           D == {p \in store : p.id \in Spent}
<1>1. /\ UNCHANGED <<given, txn, held, nextCounter, randoms, wire, mintVars>>
      /\ store' = {p \in store : p.id \notin Spent} \cup K
  BY DEF RestoreFromSeed
<1>2. \A c \in Found : c \in DOMAIN signed
  <2> DEFINE S == {c \in DOMAIN signed : c >= 0}
  <2>1. S \in SUBSET (0..nextCounter) /\ nextCounter \in Nat
    BY SignedBelow
  <2>2. GapLimit \in Nat /\ BatchSize \in Positive /\ nextCounter - 1 \in Int
    BY <2>1, GapAssumption DEF Positive
  <2> HIDE DEF S
  <2>3. BatchRestore(S, GapLimit, BatchSize, nextCounter - 1) \subseteq S
    BY <2>1, <2>2, RestoreSound
  <2>4. Found \subseteq S
    BY <2>3 DEF Found, S
  <2>5. QED
    BY <2>4 DEF S
<1>3. K \in SUBSET ProofRecords /\ \A p \in K : Real(p)
  <2>1. ASSUME NEW c \in Found
        PROVE  [id |-> c, amount |-> signed[c]] \in ProofRecords /\ Real([id |-> c, amount |-> signed[c]])
    <3>1. c \in DOMAIN signed /\ c \in Int /\ signed[c] \in Nat
      BY <1>2 DEF Signing
    <3>2. QED
      BY <3>1 DEF ProofRecords, Real
  <2>2. QED
    BY <2>1
<1>4. store' = (store \ D) \cup K /\ \A p \in D : p.id \in Spent
  BY <1>1
<1> HIDE DEF K, D
<1>5. given' = given /\ given' = [o \in Transactions |-> given'[o]]
  BY <1>1 DEF Storing
<1>6. Storing' /\ \A c : InHand(c) => InHand(c)' \/ c \in Spent'
  BY <1>1, <1>3, <1>4, <1>5, StoreStep
<1>7. Wires'
  <2>1. txn' = txn /\ answers' = answers
    BY <1>1 DEF mintVars
  <2>2. QED
    BY <1>1, <2>1, WireSame
<1>8. QED
  BY <1>1, <1>6, <1>7, WalletStep

\* The halves of a concatenation.
LEMMA Halves ==
  ASSUME NEW S, NEW a \in Seq(S), NEW b \in Seq(S)
  PROVE  /\ SubSeq(a \o b, 1, Len(a)) = a
         /\ SubSeq(a \o b, Len(a) + 1, Len(a \o b)) = b
<1> DEFINE m == Len(a)
           n == Len(b)
           ab == a \o b
<1>1. /\ m \in Nat /\ n \in Nat /\ ab \in Seq(S) /\ Len(ab) = m + n
      /\ \A i \in 1..(m + n) : ab[i] = IF i <= m THEN a[i] ELSE b[i - m]
  BY Concatenated
<1>2. a = [i \in 1..m |-> a[i]] /\ b = [i \in 1..n |-> b[i]]
  BY SeqElements
<1> HIDE DEF m, n, ab
<1>3. SubSeq(ab, 1, m) = a
  <2>1. SubSeq(ab, 1, m) = [i \in 1..m |-> ab[i]]
    BY <1>1
  <2>2. \A i \in 1..m : ab[i] = a[i]
    BY <1>1
  <2>3. QED
    BY <1>2, <2>1, <2>2
<1>4. SubSeq(ab, m + 1, m + n) = b
  <2>1. SubSeq(ab, m + 1, m + n) = [i \in 1..n |-> ab[m + i]]
    <3>1. SubSeq(ab, m + 1, m + n) = [i \in 1..((m + n) - (m + 1) + 1) |-> ab[i + (m + 1) - 1]]
      BY <1>1
    <3>2. (m + n) - (m + 1) + 1 = n /\ \A i \in 1..n : i + (m + 1) - 1 = m + i
      BY <1>1
    <3>3. QED
      BY <3>1, <3>2
  <2>2. \A i \in 1..n : ab[m + i] = b[i]
    BY <1>1
  <2>3. QED
    BY <1>2, <2>1, <2>2
<1>5. QED
  BY <1>1, <1>3, <1>4 DEF m, n, ab

\* A proof is its output if the mint signed it for its amount.
LEMMA ProofIsOutput ==
  ASSUME NEW out \in ProofRecords, NEW sig, sig.amount = out.amount
  PROVE  ToProof(out, sig) = out
<1>1. out = [id |-> out.id, amount |-> out.amount]
  BY DEF ProofRecords
<1>2. ToProof(out, sig) = [id |-> out.id, amount |-> out.amount]
  BY DEF ToProof
<1>3. QED
  BY <1>1, <1>2

\* A swap or a mint that returns stores its keep outputs and hands out its send outputs.
LEMMA SwapReturns ==
  ASSUME NEW o \in Transactions, Drawn(txn[o]), txn[o].kind # "melt",
         NEW sigs, Belongs(txn[o], sigs), Returns(o, sigs)
  PROVE  /\ store' = (store \ txn[o].inputs) \cup {txn[o].keep[i] : i \in DOMAIN txn[o].keep}
         /\ given' = [given EXCEPT ![o] = txn[o].send]
<1> DEFINE t == txn[o]
           outs == OutputData(t)
           m == Merged(t)
           k == Len(t.keep)
           proofs == [i \in DOMAIN sigs |-> ToProof(outs[i], sigs[i])]
           ordered == IF t.kind = "melt" THEN proofs ELSE Reordered(t, proofs)
<1>1. t \in Previews
  BY DEF Drawn
<1>2. /\ t.keep \in Seq(ProofRecords) /\ t.send \in Seq(ProofRecords)
      /\ m \in Seq(ProofRecords) /\ m = t.keep \o t.send
  BY <1>1, PreviewTypes DEF Merged
<1>3. k \in Nat /\ Len(m) = k + Len(t.send) /\ Len(t.send) \in Nat
  BY <1>2, Concatenated
<1>4. outs \in Seq(ProofRecords) /\ Reordered(t, outs) = m
  BY <1>2, OutputsAreMerged
<1>5. proofs = outs
  <2>1. /\ sigs \in Seq(Signatures) /\ Len(sigs) = Len(outs)
        /\ \A i \in DOMAIN sigs : sigs[i].amount = outs[i].amount
    BY DEF Belongs
  <2>2. DOMAIN sigs = 1..Len(outs)
    BY <2>1, SeqElements
  <2>3. outs = [i \in 1..Len(outs) |-> outs[i]] /\ \A i \in 1..Len(outs) : outs[i] \in ProofRecords
    BY <1>4, SeqElements
  <2> HIDE DEF outs
  <2>4. \A i \in DOMAIN sigs : ToProof(outs[i], sigs[i]) = outs[i]
    BY <2>1, <2>2, <2>3, ProofIsOutput
  <2>5. QED
    BY <2>2, <2>3, <2>4
<1>6. ordered = m
  BY <1>4, <1>5
<1>7. /\ store' = (store \ Dropped(o, sigs)) \cup
                    ToSet(SubSeq(ordered, 1, IF Len(ordered) < k THEN Len(ordered) ELSE k))
      /\ given' = [given EXCEPT ![o] = SubSeq(ordered, k + 1, Len(ordered))]
  BY DEF Returns
<1>8. Dropped(o, sigs) = t.inputs
  BY DEF Dropped
<1> HIDE DEF t, m, k, ordered
<1>9. (IF Len(ordered) < k THEN Len(ordered) ELSE k) = k
  BY <1>3, <1>6
<1>10. SubSeq(m, 1, k) = t.keep /\ SubSeq(m, k + 1, Len(m)) = t.send
  BY <1>2, Halves DEF k
<1>11. store' = (store \ t.inputs) \cup ToSet(t.keep)
  BY <1>6, <1>7, <1>8, <1>9, <1>10
<1>12. ToSet(t.keep) = {t.keep[i] : i \in DOMAIN t.keep}
  BY DEF ToSet
<1>13. given' = [given EXCEPT ![o] = t.send]
  BY <1>6, <1>7, <1>10
<1>14. QED
  BY <1>11, <1>12, <1>13 DEF t

\* A melt that returns stores its change.
LEMMA MeltReturns ==
  ASSUME NEW o \in Transactions, Drawn(txn[o]), txn[o].kind = "melt",
         NEW sigs \in Seq(Signatures), Len(sigs) <= Len(txn[o].keep), Returns(o, sigs)
  PROVE  /\ store' = (store \ Dropped(o, sigs)) \cup
                       {ToProof(txn[o].keep[i], sigs[i]) : i \in DOMAIN sigs}
         /\ given' = [given EXCEPT ![o] = <<>>]
<1> DEFINE t == txn[o]
           outs == OutputData(t)
           k == Len(t.keep)
           proofs == [i \in DOMAIN sigs |-> ToProof(outs[i], sigs[i])]
           ordered == IF t.kind = "melt" THEN proofs ELSE Reordered(t, proofs)
           n == Len(sigs)
<1>1. outs = t.keep /\ t.keep \in Seq(ProofRecords)
  BY MeltOutputs
<1>2. k \in Nat /\ DOMAIN t.keep = 1..k /\ \A i \in 1..k : t.keep[i] \in ProofRecords
  BY <1>1, SeqElements
<1>3. n \in Nat /\ n <= k /\ DOMAIN sigs = 1..n /\ \A i \in 1..n : sigs[i] \in Signatures
  BY SeqElements
<1>4. /\ store' = (store \ Dropped(o, sigs)) \cup
                    ToSet(SubSeq(ordered, 1, IF Len(ordered) < k THEN Len(ordered) ELSE k))
      /\ given' = [given EXCEPT ![o] = SubSeq(ordered, k + 1, Len(ordered))]
  BY DEF Returns
<1>5. ordered = proofs
  OBVIOUS
<1>6. proofs = [i \in 1..n |-> ToProof(t.keep[i], sigs[i])]
  BY <1>1, <1>3
<1> HIDE DEF t, outs, k, proofs, ordered, n
<1>7. proofs \in Seq(ProofRecords) /\ Len(proofs) = n
  <2>1. \A i \in 1..n : ToProof(t.keep[i], sigs[i]) \in ProofRecords
    <3> SUFFICES ASSUME NEW i \in 1..n
                 PROVE  ToProof(t.keep[i], sigs[i]) \in ProofRecords
      OBVIOUS
    <3>1. t.keep[i] \in ProofRecords /\ sigs[i] \in Signatures
      BY <1>2, <1>3
    <3>2. t.keep[i].id \in Int /\ sigs[i].amount \in Nat
      BY <3>1 DEF ProofRecords, Signatures
    <3>3. QED
      BY <3>2 DEF ToProof, ProofRecords
  <2>2. proofs \in [1..n -> ProofRecords]
    BY <1>6, <2>1
  <2>3. QED
    BY <1>3, <2>2
<1>8. (IF Len(ordered) < k THEN Len(ordered) ELSE k) = n
  BY <1>2, <1>3, <1>5, <1>7
<1>9. SubSeq(proofs, 1, n) = proofs
  <2>1. SubSeq(proofs, 1, n) = [i \in 1..n |-> proofs[i]] /\ proofs = [i \in 1..n |-> proofs[i]]
    BY <1>3, <1>7
  <2>2. QED
    BY <2>1
<1>10. SubSeq(proofs, k + 1, n) = <<>>
  BY <1>2, <1>3, <1>7
<1>11. ToSet(proofs) = {ToProof(t.keep[i], sigs[i]) : i \in DOMAIN sigs}
  <2>1. ToSet(proofs) = {proofs[i] : i \in DOMAIN proofs}
    BY DEF ToSet
  <2>2. DOMAIN proofs = DOMAIN sigs /\ \A i \in DOMAIN sigs : proofs[i] = ToProof(t.keep[i], sigs[i])
    BY <1>3, <1>6
  <2>3. QED
    BY <2>1, <2>2
<1>12. store' = (store \ Dropped(o, sigs)) \cup ToSet(proofs)
  BY <1>4, <1>5, <1>8, <1>9
<1>13. given' = [given EXCEPT ![o] = <<>>]
  BY <1>4, <1>5, <1>7, <1>10
<1>14. QED
  BY <1>11, <1>12, <1>13 DEF t

\* The change of a melt that is paid: proofs the mint has signed, and all it has signed.
LEMMA ChangeIsReal ==
  ASSUME TransactionInv, NEW o \in Transactions, answers[o] # None, txn[o].kind = "melt",
         NEW K, K = {ToProof(txn[o].keep[i], answers[o][i]) : i \in DOMAIN answers[o]}
  PROVE  /\ K \in SUBSET ProofRecords /\ \A p \in K : Real(p)
         /\ \A c \in OutputIds(txn[o]) \cap DOMAIN signed : c \in Ids(K)
         /\ answers[o] \in Seq(Signatures) /\ Len(answers[o]) <= Len(txn[o].keep)
<1> USE DEF TransactionInv
<1> DEFINE t == txn[o]
           sigs == answers[o]
           n == Len(sigs)
<1>1. t # None /\ Drawn(t) /\ Belongs(t, sigs)
  BY DEF Signing, Preparations
<1>2. OutputData(t) = t.keep /\ t.keep \in Seq(ProofRecords)
  BY <1>1, MeltOutputs
<1>3. sigs \in Seq(Signatures) /\ Len(sigs) <= Len(t.keep)
  BY <1>1, <1>2 DEF Belongs
<1>4. n \in Nat /\ DOMAIN sigs = 1..n /\ \A i \in 1..n : sigs[i] \in Signatures
  BY <1>3, SeqElements
<1>5. \A i \in DOMAIN sigs : sigs[i].b = t.keep[i].id
  BY <1>1, <1>2 DEF Belongs
<1>6. \A i \in DOMAIN sigs : sigs[i].b \in DOMAIN signed /\ signed[sigs[i].b] = sigs[i].amount
  BY DEF Signing
<1>7. \A i \in DOMAIN sigs : sigs[i].b \in Int /\ sigs[i].amount \in Nat
  BY <1>4 DEF Signatures
<1>8. \A i \in DOMAIN sigs : /\ ToProof(t.keep[i], sigs[i]) \in ProofRecords
                             /\ Real(ToProof(t.keep[i], sigs[i]))
                             /\ ToProof(t.keep[i], sigs[i]).id = sigs[i].b
  BY <1>5, <1>6, <1>7 DEF ToProof, ProofRecords, Real
<1>9. \A c \in OutputIds(t) \cap DOMAIN signed : \E i \in DOMAIN sigs : sigs[i].b = c
  BY <1>1 DEF Signing
<1>10. \A c \in OutputIds(t) \cap DOMAIN signed : c \in Ids(K)
  <2> SUFFICES ASSUME NEW c \in OutputIds(t) \cap DOMAIN signed
               PROVE  c \in Ids(K)
    OBVIOUS
  <2>1. PICK i \in DOMAIN sigs : sigs[i].b = c
    BY <1>9
  <2>2. ToProof(t.keep[i], sigs[i]) \in K
    OBVIOUS
  <2>3. QED
    BY <1>8, <2>1, <2>2 DEF Ids
<1>11. QED
  BY <1>3, <1>8, <1>10

\* The outputs of a swap or a mint that is answered: all of them are signed.
LEMMA OutputsAreReal ==
  ASSUME TransactionInv, NEW o \in Transactions, answers[o] # None, txn[o].kind # "melt"
  PROVE  /\ \A i \in DOMAIN txn[o].keep : txn[o].keep[i] \in ProofRecords /\ Real(txn[o].keep[i])
         /\ \A i \in DOMAIN txn[o].send : Real(txn[o].send[i])
         /\ \A c \in OutputIds(txn[o]) : \/ \E i \in DOMAIN txn[o].keep : txn[o].keep[i].id = c
                                         \/ \E i \in DOMAIN txn[o].send : txn[o].send[i].id = c
<1> USE DEF TransactionInv
<1> DEFINE t == txn[o]
           sigs == answers[o]
           m == Merged(t)
           n == Len(m)
           k == Len(t.keep)
           s == Len(t.send)
           p == SortedIndices(t)
           outs == OutputData(t)
<1>1. t # None /\ Drawn(t) /\ Belongs(t, sigs) /\ t \in Previews
  BY DEF Signing, Preparations, Drawn
<1>2. /\ t.keep \in Seq(ProofRecords) /\ t.send \in Seq(ProofRecords)
      /\ m \in Seq(ProofRecords) /\ m = t.keep \o t.send
  BY <1>1, PreviewTypes DEF Merged
<1>3. k \in Nat /\ s \in Nat /\ n = k + s /\ DOMAIN m = 1..(k + s)
  BY <1>2, Concatenated
<1>4. /\ DOMAIN t.keep = 1..k /\ DOMAIN t.send = 1..s
      /\ \A i \in 1..k : t.keep[i] \in ProofRecords
  BY <1>2, SeqElements
<1>5. \A i \in 1..(k + s) : m[i] = IF i <= k THEN t.keep[i] ELSE t.send[i - k]
  <2>1. \A i \in 1..(k + s) : (t.keep \o t.send)[i] = IF i <= k THEN t.keep[i] ELSE t.send[i - k]
    BY <1>2, Concatenated
  <2>2. m = t.keep \o t.send
    BY <1>2
  <2> HIDE DEF m, k, s
  <2>3. QED
    BY <2>1, <2>2
<1>6. \A a \in 1..n : \E i \in 1..n : p[i] = a
  BY <1>2, SortedIndicesPermute DEF Permutes
<1>7. Len(outs) = n /\ \A i \in 1..n : outs[i] = m[p[i]]
  BY <1>2, OutputsAreMerged
<1>8. /\ sigs \in Seq(Signatures) /\ Len(sigs) = Len(outs)
      /\ \A i \in DOMAIN sigs : sigs[i].b = outs[i].id /\ sigs[i].amount = outs[i].amount
  BY <1>1 DEF Belongs
<1>9. DOMAIN sigs = 1..n
  BY <1>7, <1>8, SeqElements
<1>10. \A i \in DOMAIN sigs : sigs[i].b \in DOMAIN signed /\ signed[sigs[i].b] = sigs[i].amount
  BY DEF Signing
<1>11. OutputIds(t) = {m[i].id : i \in 1..(k + s)}
  BY <1>3 DEF OutputIds
<1> HIDE DEF sigs, m, n, k, s, p, outs
<1>12. ASSUME NEW a \in 1..(k + s) PROVE Real(m[a])
  <2>1. PICK i \in 1..n : p[i] = a
    BY <1>3, <1>6
  <2>2. outs[i] = m[a] /\ i \in DOMAIN sigs
    BY <1>7, <1>9, <2>1
  <2>3. QED
    BY <1>8, <1>10, <2>2 DEF Real
<1>13. \A i \in 1..k : i \in 1..(k + s) /\ m[i] = t.keep[i]
  BY <1>3, <1>5
<1>14. \A i \in 1..s : k + i \in 1..(k + s) /\ m[k + i] = t.send[i]
  BY <1>3, <1>5
<1>15. /\ \A i \in 1..k : Real(t.keep[i])
       /\ \A i \in 1..s : Real(t.send[i])
  BY <1>12, <1>13, <1>14
<1>16. ASSUME NEW c \in OutputIds(t)
       PROVE  \/ \E i \in DOMAIN t.keep : t.keep[i].id = c
              \/ \E i \in DOMAIN t.send : t.send[i].id = c
  <2>1. PICK a \in 1..(k + s) : m[a].id = c
    BY <1>11
  <2>2. CASE a <= k
    <3>1. a \in 1..k /\ m[a] = t.keep[a]
      BY <1>3, <1>5, <2>2
    <3>2. QED
      BY <1>4, <2>1, <3>1
  <2>3. CASE ~(a <= k)
    <3>1. a - k \in 1..s /\ m[a] = t.send[a - k]
      BY <1>3, <1>5, <2>3
    <3>2. QED
      BY <1>4, <2>1, <3>1
  <2>4. QED
    BY <2>2, <2>3
<1>17. QED
  BY <1>4, <1>15, <1>16

\* The caller looks the quote up and makes its change itself.
LEMMA LateChangeHolds ==
  ASSUME TransactionInv, NEW o \in Transactions, LateChange(o)
  PROVE  TransactionInv'
<1> USE DEF TransactionInv
<1> DEFINE K == {ToProof(txn[o].keep[i], answers[o][i]) : i \in DOMAIN answers[o]}
           D == txn[o].inputs
<1>1. /\ payment[o] = "PAID" /\ store' = (store \ D) \cup K /\ held' = held \ {o}
      /\ UNCHANGED <<given, txn, nextCounter, randoms, wire, mintVars>>
  BY DEF LateChange
<1>2. answers[o] # None /\ txn[o].kind = "melt"
  BY <1>1, NoneAssumption DEF Paying
<1>3. /\ K \in SUBSET ProofRecords /\ \A p \in K : Real(p)
      /\ \A c \in OutputIds(txn[o]) \cap DOMAIN signed : c \in Ids(K)
  BY <1>2, ChangeIsReal
<1>4. \A p \in D : p.id \in Spent
  BY <1>2 DEF Paying, Ids
<1> HIDE DEF K, D
<1>5. given' = given /\ given' = [p \in Transactions |-> given'[p]]
  BY <1>1 DEF Storing
<1>6. Storing' /\ \A c : InHand(c) => InHand(c)' \/ c \in Spent'
  BY <1>1, <1>3, <1>4, <1>5, StoreStep
<1>7. Wires'
  <2>1. txn' = txn /\ answers' = answers
    BY <1>1 DEF mintVars
  <2>2. QED
    BY <1>1, <2>1, WireSame
<1>8. \A c \in OutputIds(txn[o]) \cap DOMAIN signed : InHand(c)'
  BY <1>1, <1>3 DEF InHand, Ids
<1>9. QED
  BY <1>1, <1>2, <1>6, <1>7, <1>8, WalletStep

\* The call returns, or throws.
LEMMA AnsweredHolds ==
  ASSUME TransactionInv, NEW o \in Transactions, Answered(o)
  PROVE  TransactionInv'
<1> USE DEF TransactionInv
<1> DEFINE t == txn[o]
           sigs == wire[o].sigs
<1>1. /\ wire[o] # None /\ wire[o].type = "answer" /\ wire' = [wire EXCEPT ![o] = None]
      /\ UNCHANGED <<txn, nextCounter, randoms, mintVars>>
  BY DEF Answered
<1>2. t # None /\ Drawn(t) /\ sigs \in Seq(Signatures)
  BY <1>1 DEF Wires, Preparations
<1>3. txn' = txn /\ answers' = answers
  BY <1>1 DEF mintVars
<1>4. Wires'
  <2>1. wire' = [p \in Transactions |-> wire'[p]] /\ wire'[o] = None
        /\ \A p \in Transactions \ {o} : wire'[p] = wire[p]
    BY <1>1 DEF Wires
  <2>2. \A p \in Transactions : wire'[p] # None => wire'[p] = wire[p]
    BY <2>1
  <2>3. QED
    BY <1>3, <2>1, <2>2 DEF Wires
<1>5. CASE ~Acceptable(t, sigs)
  <2>1. /\ held' = (IF t.kept \/ t.kind = "melt" THEN held ELSE held \ {o})
        /\ UNCHANGED <<store, given>>
    BY <1>5 DEF Answered, StillHeld
  <2>2. held' \subseteq held /\ \A p \in held : p \notin held' => ~txn[p].kept
    BY <2>1
  <2>3. UNCHANGED <<txn, mintVars, store, given>>
    BY <1>1, <2>1
  <2>4. QED
    BY <1>1, <1>4, <2>2, <2>3, StoreSame, WalletStep
<1>6. CASE Acceptable(t, sigs)
  <2>1. Returns(o, sigs) /\ held' = HeldAfter(o, sigs)
    BY <1>6 DEF Answered
  <2>2. \/ answers[o] # None /\ sigs = answers[o]
        \/ t.kind = "melt" /\ sigs = <<>>
    BY <1>1, <1>6 DEF Wires
  <2>3. CASE t.kind # "melt"
    <3>1. answers[o] # None /\ sigs = answers[o] /\ Belongs(t, sigs)
      BY <2>2, <2>3 DEF Signing
    <3>2. PICK K : K = {t.keep[i] : i \in DOMAIN t.keep}
      OBVIOUS
    <3>3. store' = (store \ t.inputs) \cup K /\ given' = [given EXCEPT ![o] = t.send]
      BY <1>2, <2>1, <2>3, <3>1, <3>2, SwapReturns
    <3>4. /\ \A i \in DOMAIN t.keep : t.keep[i] \in ProofRecords /\ Real(t.keep[i])
          /\ \A i \in DOMAIN t.send : Real(t.send[i])
          /\ \A c \in OutputIds(t) : \/ \E i \in DOMAIN t.keep : t.keep[i].id = c
                                     \/ \E i \in DOMAIN t.send : t.send[i].id = c
      BY <2>3, <3>1, OutputsAreReal
    <3>5. K \in SUBSET ProofRecords /\ \A p \in K : Real(p)
      BY <3>2, <3>4
    <3>6. \A p \in t.inputs : p.id \in Spent
      BY <3>1 DEF Paying, Ids
    <3>7. /\ given' = [p \in Transactions |-> given'[p]] /\ given'[o] = t.send
          /\ \A p \in Transactions \ {o} : given'[p] = given[p]
      BY <3>3 DEF Storing
    <3>8. given[o] # <<>> => given'[o] = given[o]
      BY <3>7 DEF Storing
    <3>9. /\ \A p \in Transactions : given[p] # <<>> => given'[p] = given[p]
          /\ \A p \in Transactions : given'[p] # <<>> /\ given'[p] # given[p] =>
               txn[p] # None /\ given'[p] = txn[p].send /\ \A i \in DOMAIN given'[p] : Real(given'[p][i])
      <4>1. \A p \in Transactions : given'[p] # given[p] => p = o
        BY <3>7
      <4>2. QED
        BY <1>2, <3>4, <3>7, <3>8, <4>1
    <3>10. Storing' /\ \A c : InHand(c) => InHand(c)' \/ c \in Spent'
      BY <1>1, <3>3, <3>5, <3>6, <3>7, <3>9, StoreStep
    <3>11. \A c \in OutputIds(t) : InHand(c)'
      <4> SUFFICES ASSUME NEW c \in OutputIds(t)
                   PROVE  InHand(c)'
        OBVIOUS
      <4>1. CASE \E i \in DOMAIN t.keep : t.keep[i].id = c
        <5>1. PICK i \in DOMAIN t.keep : t.keep[i].id = c
          BY <4>1
        <5>2. t.keep[i] \in store'
          BY <3>2, <3>3
        <5>3. QED
          BY <5>1, <5>2 DEF InHand, Ids
      <4>2. CASE \E i \in DOMAIN t.send : t.send[i].id = c
        BY <3>7, <4>2 DEF InHand
      <4>3. QED
        BY <3>4, <4>1, <4>2
    <3>12. held' = held \ {o}
      BY <2>1, <2>3 DEF HeldAfter
    <3>13. QED
      BY <1>1, <1>4, <3>1, <3>10, <3>11, <3>12, WalletStep
  <2>4. CASE t.kind = "melt"
    <3>0. t.keep \in Seq(ProofRecords) /\ OutputData(t) = t.keep
      BY <1>2, <2>4, MeltOutputs
    <3>1. Len(sigs) <= Len(t.keep)
      BY <1>6, <2>4, <3>0 DEF Acceptable
    <3>2. PICK K : K = {ToProof(t.keep[i], sigs[i]) : i \in DOMAIN sigs}
      OBVIOUS
    <3>3. store' = (store \ Dropped(o, sigs)) \cup K /\ given' = [given EXCEPT ![o] = <<>>]
      BY <1>2, <2>1, <2>4, <3>1, <3>2, MeltReturns
    <3>4. given[o] = <<>>
      BY <1>2, <2>4 DEF Storing, Drawn
    <3>5. given' = given /\ given' = [p \in Transactions |-> given'[p]]
      BY <3>3, <3>4 DEF Storing
    <3>6. CASE sigs = <<>>
      <4>1. Dropped(o, sigs) = {} /\ held' = held
        BY <2>1, <2>4, <3>6 DEF Dropped, HeldAfter
      <4>2. K = {}
        BY <3>2, <3>6
      <4>3. UNCHANGED <<txn, mintVars, store, given>>
        BY <1>1, <3>3, <3>5, <4>1, <4>2
      <4>4. QED
        BY <1>1, <1>4, <4>1, <4>3, StoreSame, WalletStep
    <3>7. CASE sigs # <<>>
      <4>1. answers[o] # None /\ sigs = answers[o]
        BY <2>2, <3>7
      <4>2. Dropped(o, sigs) = t.inputs /\ held' = held \ {o}
        BY <2>1, <3>7 DEF Dropped, HeldAfter
      <4>3. /\ K \in SUBSET ProofRecords /\ \A p \in K : Real(p)
            /\ \A c \in OutputIds(t) \cap DOMAIN signed : c \in Ids(K)
        BY <2>4, <3>2, <4>1, ChangeIsReal
      <4>4. \A p \in t.inputs : p.id \in Spent
        BY <4>1 DEF Paying, Ids
      <4>5. store' = (store \ t.inputs) \cup K
        BY <3>3, <4>2
      <4>6. Storing' /\ \A c : InHand(c) => InHand(c)' \/ c \in Spent'
        BY <1>1, <3>5, <4>3, <4>4, <4>5, StoreStep
      <4>7. \A c \in OutputIds(t) \cap DOMAIN signed : InHand(c)'
        BY <4>3, <4>5 DEF InHand, Ids
      <4>8. QED
        BY <1>1, <1>4, <4>1, <4>2, <4>6, <4>7, WalletStep
    <3>8. QED
      BY <3>6, <3>7
  <2>5. QED
    BY <2>3, <2>4
<1>7. QED
  BY <1>5, <1>6

-----------------------------------------------------------------------------
(* The theorems.                                                           *)

\* Every step keeps the invariant.
LEMMA TransactionInvStep ==
  ASSUME TransactionInv, [TransactionNext]_transactionVars
  PROVE  TransactionInv'
<1>1. CASE UNCHANGED transactionVars
  <2>1. /\ UNCHANGED <<txn, nextCounter, randoms, mintVars>> /\ UNCHANGED <<txn, mintVars, store, given>>
        /\ held' = held /\ wire' = wire /\ answers' = answers /\ txn' = txn
    BY <1>1 DEF transactionVars, appVars, mintVars
  <2>2. Wires'
    BY <2>1, WireSame
  <2>3. held' \subseteq held /\ \A p \in held : p \notin held' => ~txn[p].kept
    BY <2>1
  <2>4. QED
    BY <2>1, <2>2, <2>3, StoreSame, WalletStep
<1>2. CASE Crash
  BY <1>2, CrashHolds
<1>3. CASE RestoreFromSeed
  BY <1>3, RestoreHolds
<1>4. ASSUME NEW o \in Transactions,
             Prepare(o) \/ Complete(o) \/ Answered(o) \/ FallBack(o) \/ Throw(o) \/ LateChange(o)
             \/ MintActs(o)
      PROVE  TransactionInv'
  BY <1>4, PrepareHolds, CompleteHolds, AnsweredHolds, FallBackHolds, ThrowHolds, LateChangeHolds,
     MintActsHold
<1>5. QED
  BY <1>1, <1>2, <1>3, <1>4 DEF TransactionNext

\* The invariant holds in every state.
THEOREM TransactionInvHolds == TransactionSpec => []TransactionInv
<1>1. TransactionInit => TransactionInv
  BY TransactionInvInit
<1>2. TransactionInv /\ [TransactionNext]_transactionVars => TransactionInv'
  BY TransactionInvStep
<1>3. QED
  BY <1>1, <1>2, PTL DEF TransactionSpec

\* Proofs the wallet keeps or hands out.
LEMMA RealProofs == TransactionInv => ProofsAreReal
<1> SUFFICES ASSUME TransactionInv
             PROVE  ProofsAreReal
  OBVIOUS
<1> USE DEF TransactionInv
<1>1. ASSUME NEW p \in store \cup Given
      PROVE  p.id \in DOMAIN signed /\ signed[p.id] = p.amount
  <2>1. CASE p \in store
    BY <2>1 DEF Storing, Real
  <2>2. CASE p \in Given
    <3>1. PICK o \in Transactions : p \in ToSet(given[o])
      BY <2>2 DEF Given
    <3>2. PICK i \in DOMAIN given[o] : given[o][i] = p
      BY <3>1 DEF ToSet
    <3>3. given[o] # <<>>
      BY <3>2
    <3>4. QED
      BY <3>2, <3>3 DEF Storing, Real
  <2>3. QED
    BY <1>1, <2>1, <2>2
<1>2. \A o \in Transactions : given[o] # <<>> => given[o] = txn[o].send
  BY DEF Storing
<1>3. QED
  BY <1>1, <1>2 DEF ProofsAreReal

\* A counter is found by a restore, a random output is held, stored or handed out.
LEMMA NothingLost == TransactionInv => NothingIsLost
<1> SUFFICES ASSUME TransactionInv, NEW c \in DOMAIN signed \ (spent \cup Ids(Token))
             PROVE  \/ c \in Ids(store \cup Given)
                    \/ \E o \in held : c \in Outputs(o)
                    \/ c >= 0 /\ (WithinGap({d \in DOMAIN signed : d >= 0}, c, GapLimit, nextCounter - 1)
                                    => c \in Found)
                    \/ c < 0 /\ \E o \in Transactions : txn[o] # None /\ c \in Outputs(o) /\ ~txn[o].kept
  BY DEF NothingIsLost
<1> USE DEF TransactionInv
<1>1. c \in Int
  BY DEF Signing
<1>2. CASE c >= 0
  <2> DEFINE S == {d \in DOMAIN signed : d >= 0}
  <2>1. S \in SUBSET (0..nextCounter) /\ nextCounter \in Nat
    BY SignedBelow
  <2>2. GapLimit \in Nat /\ BatchSize \in Positive /\ nextCounter - 1 \in Int /\ c \in Nat
    BY <1>1, <1>2, <2>1, GapAssumption DEF Positive
  <2>3. Found = BatchRestore(S, GapLimit, BatchSize, nextCounter - 1)
    BY DEF Found
  <2> HIDE DEF S
  <2>4. WithinGap(S, c, GapLimit, nextCounter - 1) => c \in Found
    BY <2>1, <2>2, <2>3, RestoreComplete
  <2>5. QED
    BY <1>2, <2>4 DEF S
<1>3. CASE c < 0
  <2>1. c \notin Ids(Stored)
    <3>1. \A p \in Stored : p.id \in Nat
      <4>1. \A p \in Stored : p \in [id : Nat, amount : Keys]
        BY StoredAssumption
      <4>2. QED
        BY <4>1
    <3>2. QED
      BY <1>1, <1>3, <3>1 DEF Ids
  <2>2. PICK o \in Transactions : txn[o] # None /\ c \in OutputIds(txn[o])
    BY <2>1 DEF Signing, Ids
  <2>3. c \in Outputs(o)
    BY <2>2 DEF Outputs, OutputIds
  <2>4. CASE o \in held
    BY <2>3, <2>4
  <2>5. CASE ~txn[o].kept
    BY <1>3, <2>2, <2>3, <2>5
  <2>6. CASE o \notin held /\ txn[o].kept
    <3>1. InHand(c) \/ c \in Spent
      BY <2>2, <2>6 DEF Keeping
    <3>2. InHand(c)
      BY <3>1 DEF Spent
    <3>3. CASE c \in Ids(store)
      BY <3>3 DEF Ids
    <3>4. CASE \E p \in Transactions : \E i \in DOMAIN given[p] : given[p][i].id = c
      <4>1. PICK p \in Transactions : \E i \in DOMAIN given[p] : given[p][i].id = c
        BY <3>4
      <4>a. PICK i \in DOMAIN given[p] : given[p][i].id = c
        BY <4>1
      <4>2. given[p][i] \in Given
        BY DEF Given, ToSet
      <4>3. QED
        BY <4>a, <4>2 DEF Ids
    <3>5. QED
      BY <3>2, <3>3, <3>4 DEF InHand
  <2>7. QED
    BY <2>4, <2>5, <2>6
<1>4. QED
  BY <1>1, <1>2, <1>3

\* Every proof that completeSwap, completeMint, completeMelt, createMeltChangeProofs or a
\* restore puts into the store, and every proof a send hands out, is signed by the mint for
\* its amount, and a send hands out exactly its send outputs in their order, although
\* createSwapTransaction sorted them among the change.
THEOREM ProofsAreRealHolds == TransactionSpec => []ProofsAreReal
BY TransactionInvHolds, RealProofs, PTL

\* Whatever the mint has signed and nobody has spent is stored, handed out, held by the
\* caller as a preview or found by batchRestore within the gap limit, after any losses,
\* damaged answers, repeated completions, crashes and restores; random outputs of a preview
\* that nobody kept are excepted.
THEOREM NothingIsLostHolds == TransactionSpec => []NothingIsLost
BY TransactionInvHolds, NothingLost, PTL

\* batchRestore finds only what the mint has signed, and all of it up to the bound that no
\* run of gapLimit unsigned counters precedes, for any batch size.
THEOREM RestoreFindsWithinGap ==
  ASSUME NEW m \in Nat, NEW S \in SUBSET (0..m), NEW g \in Nat, NEW b \in Positive, NEW bound \in Int
  PROVE  /\ BatchRestore(S, g, b, bound) \subseteq S
         /\ \A c \in Nat : WithinGap(S, c, g, bound) => c \in BatchRestore(S, g, b, bound)
BY RestoreSound, RestoreComplete

-----------------------------------------------------------------------------
(* The change of a melt: the split of an amount in powers of two.          *)

\* The powers of two, by recursion.
LEMMA PowersAre ==
  ASSUME NEW n \in Nat
  PROVE  /\ Powers(n) \in [0..n -> Positive] /\ Powers(n)[0] = 1
         /\ \A i \in 1..n : Powers(n)[i] = 2 * Powers(n)[i - 1]
<1> DEFINE step == [i \in 1..n |-> [x \in Positive |-> 2 * x]]
           Solves(f) == f = [k \in 0..n |-> IF k = 0 THEN 1 ELSE 2 * f[k - 1]]
           p == CHOOSE f : Solves(f)
<1>1. step \in [1..n -> [Positive -> Positive]] /\ \A i \in 1..n : \A x \in Positive : step[i][x] = 2 * x
  BY DEF Positive
<1> HIDE DEF step
<1>0. 1 \in Positive
  BY DEF Positive
<1>2. PICK f : Follows(f, n, Positive, 1, step)
  BY <1>0, <1>1, Recursion
<1>3. ASSUME NEW i \in 1..n PROVE f[i] = 2 * f[i - 1]
  <2>1. i - 1 \in 0..n
    OBVIOUS
  <2>2. f[i - 1] \in Positive
    BY <1>2, <2>1 DEF Follows
  <2>3. QED
    BY <1>1, <1>2, <2>2 DEF Follows
<1>4. Solves(f)
  BY <1>2, <1>3 DEF Follows
<1>5. Solves(p)
  BY <1>4
<1>6. Powers(n) = p
  BY DEF Powers
<1> HIDE DEF p
<1>7. p[0] = 1 /\ \A i \in 1..n : p[i] = 2 * p[i - 1]
  BY <1>5
<1>8. \A k \in 0..n : p[k] \in Positive
  <2> DEFINE G == {k \in 0..n : p[k] \in Positive}
  <2>1. 0 \in G
    BY <1>7 DEF Positive
  <2>2. \A i \in 1..n : i - 1 \in G => i \in G
    BY <1>7 DEF Positive
  <2> HIDE DEF G
  <2>3. \A k \in 0..n : k \in G
    BY <2>1, <2>2, Induct
  <2>4. QED
    BY <2>3 DEF G
<1>9. p = [k \in 0..n |-> p[k]]
  BY <1>5
<1>10. QED
  BY <1>6, <1>7, <1>8, <1>9

\* They do not depend on how many are computed.
LEMMA PowersAgree ==
  ASSUME NEW n \in Nat, NEW m \in Nat, NEW k \in Nat, k <= n, k <= m
  PROVE  Powers(n)[k] = Powers(m)[k]
<1> DEFINE G == {i \in 0..k : Powers(n)[i] = Powers(m)[i]}
<1>1. 0 \in G
  BY PowersAre
<1>2. ASSUME NEW i \in 1..k, i - 1 \in G PROVE i \in G
  <2>1. i \in 1..n /\ i \in 1..m
    OBVIOUS
  <2>2. Powers(n)[i] = 2 * Powers(n)[i - 1] /\ Powers(m)[i] = 2 * Powers(m)[i - 1]
    BY <2>1, PowersAre
  <2>3. QED
    BY <1>2, <2>2
<1> HIDE DEF G
<1>3. k \in G
  BY <1>1, <1>2, Induct
<1>4. QED
  BY <1>3 DEF G

\* They grow, and faster than their exponents.
LEMMA PowersGrow ==
  ASSUME NEW n \in Nat
  PROVE  /\ \A k \in 0..n : k < Powers(n)[k]
         /\ \A j, k \in 0..n : j < k => Powers(n)[j] < Powers(n)[k]
         /\ \A j, k \in 0..n : Powers(n)[j] = Powers(n)[k] => j = k
<1>0. \A k \in 0..n : Powers(n)[k] \in Positive
  BY PowersAre
<1> DEFINE p == Powers(n)
           G == {k \in 0..n : k < p[k] /\ \A j \in 0..n : j < k => p[j] < p[k]}
<1>1. /\ \A k \in 0..n : p[k] \in Nat /\ p[k] > 0
      /\ p[0] = 1 /\ \A i \in 1..n : p[i] = 2 * p[i - 1]
  <2>1. \A k \in 0..n : p[k] \in Nat /\ p[k] > 0
    BY <1>0 DEF Positive
  <2>2. p[0] = 1 /\ \A i \in 1..n : p[i] = 2 * p[i - 1]
    BY PowersAre
  <2>3. QED
    BY <2>1, <2>2
<1> HIDE DEF p
<1>2. 0 \in G
  BY <1>1
<1>3. ASSUME NEW i \in 1..n, i - 1 \in G PROVE i \in G
  <2>1. i - 1 \in 0..n /\ i - 1 < p[i - 1] /\ p[i] = 2 * p[i - 1] /\ p[i - 1] \in Nat /\ p[i - 1] > 0
    BY <1>1, <1>3
  <2>2. i < p[i] /\ p[i - 1] < p[i]
    BY <2>1
  <2>3. ASSUME NEW j \in 0..n, j < i PROVE p[j] < p[i]
    <3>1. j = i - 1 \/ j < i - 1
      BY <2>3
    <3>2. j < i - 1 => p[j] < p[i - 1] /\ p[j] \in Nat
      BY <1>1, <1>3
    <3>3. QED
      BY <2>1, <2>2, <3>1, <3>2
  <2>4. QED
    BY <2>2, <2>3
<1> HIDE DEF G
<1>4. \A k \in 0..n : k \in G
  BY <1>2, <1>3, Induct
<1>5. /\ \A k \in 0..n : k < p[k]
      /\ \A j, k \in 0..n : j < k => p[j] < p[k]
  BY <1>4 DEF G
<1>6. ASSUME NEW j \in 0..n, NEW k \in 0..n, p[j] = p[k] PROVE j = k
  <2>1. j < k \/ k < j \/ j = k
    OBVIOUS
  <2>2. QED
    BY <1>1, <1>5, <1>6, <2>1
<1>7. QED
  BY <1>5, <1>6 DEF p

\* How many there are from the a-th on.
LEMMA CountPowers ==
  ASSUME NEW n \in Nat, NEW a \in 0..(n + 1)
  PROVE  /\ IsFiniteSet({Powers(n)[k] : k \in a..n})
         /\ Cardinality({Powers(n)[k] : k \in a..n}) = n + 1 - a
<1> DEFINE p == Powers(n)
           S == {p[k] : k \in a..n}
           f == [k \in a..n |-> p[k]]
<1>1. \A j, k \in a..n : p[j] = p[k] => j = k
  <2>1. \A k \in a..n : k \in 0..n
    OBVIOUS
  <2>2. QED
    BY <2>1, PowersGrow
<1> HIDE DEF p
<1>2. f \in Bijection(a..n, S)
  BY <1>1 DEF Bijection, Injection, Surjection, IsInjective
<1>3. ExistsBijection(a..n, S)
  BY <1>2 DEF ExistsBijection
<1>4. IsFiniteSet(a..n) /\ Cardinality(a..n) = n + 1 - a
  BY FS_Interval
<1> HIDE DEF S, f
<1>5. IsFiniteSet(S) /\ Cardinality(S) = n + 1 - a
  BY <1>3, <1>4, FS_Bijection
<1>6. QED
  BY <1>5 DEF S, p

PowersOfTwo(n) == {Powers(n)[k] : k \in 0..n}

\* In descending order the largest comes first.
LEMMA DescendingPowers ==
  ASSUME NEW n \in Nat
  PROVE  /\ PowersOfTwo(n) \in SUBSET Nat /\ IsFiniteSet(PowersOfTwo(n))
         /\ PowersOfTwo(n) \ {0} = PowersOfTwo(n)
         /\ Len(Desc(PowersOfTwo(n))) = n + 1
         /\ \A i \in 1..(n + 1) : Desc(PowersOfTwo(n))[i] = Powers(n)[n + 1 - i]
<1> USE DEF PowersOfTwo
<1> DEFINE p == Powers(n)
           S == PowersOfTwo(n)
<1>0. \A k \in 0..n : p[k] \in Positive
  BY PowersAre
<1>1. \A k \in 0..n : p[k] \in Nat /\ p[k] > 0
  BY <1>0 DEF Positive
<1>2. S \in SUBSET Nat /\ S \ {0} = S
  BY <1>1
<1>3. IsFiniteSet(S) /\ Cardinality(S) = n + 1
  <2>1. 0 \in 0..(n + 1) /\ n + 1 - 0 = n + 1
    OBVIOUS
  <2> HIDE DEF p
  <2>2. QED
    BY <2>1, CountPowers
<1>4. Len(Desc(S)) = n + 1
  BY <1>2, <1>3, Descending
<1>5. ASSUME NEW k \in 0..n PROVE Cardinality({b \in S : b > p[k]}) = n - k
  <2>1. \A j \in 0..n : p[j] > p[k] <=> j > k
    <3> SUFFICES ASSUME NEW j \in 0..n PROVE p[j] > p[k] <=> j > k
      OBVIOUS
    <3>1. (j > k => p[j] > p[k]) /\ (j < k => p[j] < p[k]) /\ (j = k => p[j] = p[k])
      BY PowersGrow
    <3>2. QED
      BY <1>1, <3>1
  <2> HIDE DEF p
  <2>2. {b \in S : b > p[k]} = {p[j] : j \in (k + 1)..n}
    BY <2>1 DEF p
  <2>3. k + 1 \in 0..(n + 1) /\ n + 1 - (k + 1) = n - k
    OBVIOUS
  <2>4. QED
    BY <2>2, <2>3, CountPowers DEF p
<1> HIDE DEF p
<1>6. ASSUME NEW i \in 1..(n + 1) PROVE Desc(S)[i] = p[n + 1 - i]
  <2> DEFINE Above(c) == Cardinality({b \in S : b > c})
  <2>1. n + 1 - i \in 0..n /\ p[n + 1 - i] \in S
    BY DEF p
  <2>2. Above(p[n + 1 - i]) = i - 1
    <3>1. n - (n + 1 - i) = i - 1
      OBVIOUS
    <3>2. QED
      BY <1>5, <2>1, <3>1
  <2>3. Desc(S)[i] = CHOOSE c \in S : Above(c) = i - 1
    BY <1>3 DEF Desc
  <2>4. ASSUME NEW c \in S, Above(c) = i - 1 PROVE c = p[n + 1 - i]
    <3>1. PICK k \in 0..n : c = p[k]
      BY DEF p
    <3>2. Above(c) = n - k
      BY <1>5, <3>1
    <3> HIDE DEF Above
    <3>3. k = n + 1 - i
      BY <2>4, <3>2
    <3>4. QED
      BY <3>1, <3>3
  <2> HIDE DEF Above
  <2>5. QED
    BY <2>1, <2>2, <2>3, <2>4
<1>7. QED
  BY <1>2, <1>3, <1>4, <1>6 DEF p

\* The powers among the first i, from the largest, that are at most the value.
Fitting(n, i, value) == {k \in (n + 1 - i)..n : Powers(n)[k] <= value}

\* Where the loop of splitAmount is after i powers of two: less is left than the last of them,
\* at most one coin is chosen for each that fits, and a value among them is one coin.
Sparse(n, i, value, acc) ==
  acc.out # Throws =>
    /\ acc.rest <= value
    /\ i > 0 => acc.rest < Powers(n)[n + 1 - i]
    /\ Len(acc.out) <= Cardinality(Fitting(n, i, value))
    /\ \A k \in (n + 1 - i)..n : Powers(n)[k] = value => acc.rest = 0 /\ Len(acc.out) <= 1

\* One more power may be one more that fits.
LEMMA FittingGrows ==
  ASSUME NEW n \in Nat, NEW i \in 1..(n + 1), NEW value \in Nat
  PROVE  LET more == Cardinality(Fitting(n, i, value))
             less == Cardinality(Fitting(n, i - 1, value))
         IN /\ more \in Nat /\ less \in Nat /\ less <= more
            /\ Powers(n)[n + 1 - i] <= value => more = less + 1
            /\ Powers(n)[n + 1 - i] = value => less = 0
<1> DEFINE p == Powers(n)
           k == n + 1 - i
           More == Fitting(n, i, value)
           Less == Fitting(n, i - 1, value)
<1>1. k \in 0..n /\ n + 1 - (i - 1) = k + 1
  OBVIOUS
<1>2. More = {j \in k..n : p[j] <= value} /\ Less = {j \in (k + 1)..n : p[j] <= value}
  BY <1>1 DEF Fitting
<1>3. IsFiniteSet(k..n)
  BY <1>1, FS_Interval
<1>4. /\ \A j \in 0..n : p[j] \in Nat
      /\ \A j \in (k + 1)..n : p[k] < p[j]
  <2>1. \A j \in 0..n : p[j] \in Positive
    BY PowersAre
  <2>2. \A j \in (k + 1)..n : j \in 0..n /\ k < j
    BY <1>1
  <2>3. QED
    BY <1>1, <2>1, <2>2, PowersGrow DEF Positive
<1> HIDE DEF p, k, More, Less
<1>5. More \in SUBSET (k..n) /\ Less \in SUBSET More /\ k \notin Less
  BY <1>1, <1>2
<1>6. IsFiniteSet(More) /\ IsFiniteSet(Less) /\ Cardinality(Less) <= Cardinality(More)
  BY <1>3, <1>5, FS_Subset
<1>7. Cardinality(More) \in Nat /\ Cardinality(Less) \in Nat
  BY <1>6, FS_CardinalityType
<1>8. ASSUME p[k] <= value PROVE Cardinality(More) = Cardinality(Less) + 1
  <2>1. More = Less \cup {k}
    BY <1>1, <1>2, <1>8
  <2>2. QED
    BY <1>5, <1>6, <2>1, FS_AddElement
<1>9. ASSUME p[k] = value PROVE Cardinality(Less) = 0
  <2>1. Less = {}
    BY <1>1, <1>2, <1>4, <1>9
  <2>2. QED
    BY <2>1, FS_EmptySet
<1>10. QED
  BY <1>6, <1>7, <1>8, <1>9 DEF p, k, More, Less

\* A denomination of which at most one fits is taken once or not at all.
LEMMA TakesOnce ==
  ASSUME NEW acc \in [rest : Nat, out : Seq(Positive) \cup {Throws}], acc.out \in Seq(Positive), NEW d \in Positive, acc.rest < 2 * d,
         FillStep(acc, d).out # Throws
  PROVE  /\ acc.rest < d => FillStep(acc, d).rest = acc.rest /\ Len(FillStep(acc, d).out) = Len(acc.out)
         /\ ~(acc.rest < d) => FillStep(acc, d).rest = acc.rest - d /\ Len(FillStep(acc, d).out) = Len(acc.out) + 1
<1> DEFINE new == FillStep(acc, d)
<1>1. d \in Nat /\ d > 0
  BY DEF Positive
<1>2. acc.out # Throws
  BY CoinsAtMostSum, ThrowsAssumption
<1>3. CASE acc.rest = 0
  <2>1. new = acc
    BY <1>3 DEF FillStep
  <2>2. QED
    BY <1>1, <1>3, <2>1
<1>4. CASE acc.rest # 0
  <2>1. PICK r, count : r = acc.rest /\ count = r \div d
    OBVIOUS
  <2>2. new = [rest |-> r - d * count, out |-> acc.out \o Repeat(d, count)]
    BY <1>2, <1>4, <2>1 DEF FillStep
  <2>3. r \in Nat /\ r < 2 * d /\ acc.rest = r
    BY <2>1
  <2>4. (r < d => count = 0) /\ (~(r < d) => count = 1)
    BY <1>1, <2>1, <2>3
  <2>5. count \in Nat /\ d * count = IF r < d THEN 0 ELSE d
    BY <1>1, <2>4
  <2>6. Repeat(d, count) \in Seq(Positive) /\ Len(Repeat(d, count)) = count
    BY <2>5, RepeatTyped
  <2>7. Len(acc.out \o Repeat(d, count)) = Len(acc.out) + count /\ Len(acc.out) \in Nat
    BY <2>6
  <2>8. new.rest = r - d * count /\ Len(new.out) = Len(acc.out) + count
    BY <2>2, <2>7
  <2> HIDE DEF new
  <2>9. QED
    BY <1>1, <2>3, <2>4, <2>5, <2>7, <2>8 DEF new
<1>5. QED
  BY <1>3, <1>4

\* One power of two in the loop of splitAmount: it is taken once or not at all.
LEMMA SparseStep ==
  ASSUME NEW n \in Nat, NEW i \in 1..(n + 1), NEW value \in Nat, value < 2 * Powers(n)[n], NEW keys,
         NEW acc \in Fills(value, keys, <<>>), Sparse(n, i - 1, value, acc)
  PROVE  Sparse(n, i, value, FillStep(acc, Powers(n)[n + 1 - i]))
<1> DEFINE p == Powers(n)
           k == n + 1 - i
           new == FillStep(acc, p[k])
           more == Cardinality(Fitting(n, i, value))
           less == Cardinality(Fitting(n, i - 1, value))
<1>1. k \in 0..n /\ n + 1 - (i - 1) = k + 1
  OBVIOUS
<1>2. p[k] \in Positive /\ p[k] \in Nat /\ p[k] > 0
  <2>1. p[k] \in Positive
    BY <1>1, PowersAre
  <2>2. QED
    BY <2>1 DEF Positive
<1>3. /\ more \in Nat /\ less \in Nat /\ less <= more
      /\ p[k] <= value => more = less + 1
      /\ p[k] = value => less = 0
  BY FittingGrows
<1> SUFFICES ASSUME new.out # Throws
             PROVE  /\ new.rest <= value
                    /\ new.rest < p[k]
                    /\ Len(new.out) <= more
                    /\ \A j \in k..n : p[j] = value => new.rest = 0 /\ Len(new.out) <= 1
  BY DEF Sparse
<1>4. acc \in [rest : Nat, out : Seq(Positive) \cup {Throws}]
  BY DEF Fills
<1>5. acc.out # Throws
  BY DEF FillStep
<1>6. /\ acc.rest \in Nat /\ acc.out \in Seq(Positive) /\ Len(acc.out) \in Nat
      /\ AmountSum(acc.out) + acc.rest = value
  <2>1. acc.out \in Seq(Positive) /\ AmountSum(acc.out) + acc.rest = value + AmountSum(<<>>)
    BY <1>5 DEF Fills
  <2>2. AmountSum(acc.out) \in Nat
    BY <2>1, CoinsAtMostSum, SumTyped
  <2>3. QED
    BY <1>4, <2>1, <2>2, SumOfNone
<1>7. /\ acc.rest <= value
      /\ i - 1 > 0 => acc.rest < p[k + 1]
      /\ Len(acc.out) <= less
      /\ \A j \in (k + 1)..n : p[j] = value => acc.rest = 0 /\ Len(acc.out) <= 1
  BY <1>1, <1>5 DEF Sparse
<1>8. acc.rest < 2 * p[k]
  <2>1. CASE i = 1
    <3>1. k = n
      BY <2>1
    <3>2. QED
      BY <1>2, <1>6, <1>7, <3>1
  <2>2. CASE i # 1
    <3>1. i - 1 > 0 /\ k + 1 \in 1..n /\ (k + 1) - 1 = k
      BY <2>2
    <3>2. p[k + 1] = 2 * p[k]
      BY <3>1, PowersAre
    <3>3. QED
      BY <1>7, <3>1, <3>2
  <2>3. QED
    BY <2>1, <2>2
<1>9. ASSUME NEW j \in k..n, p[j] = value, j # k
      PROVE  acc.rest = 0 /\ Len(acc.out) <= 1
  BY <1>7, <1>9
<1>10. p[k] = value => acc.rest = value /\ Len(acc.out) = 0
  <2>1. p[k] = value => Len(acc.out) = 0
    BY <1>3, <1>6, <1>7
  <2>2. Len(acc.out) = 0 => acc.out = <<>>
    BY <1>6
  <2>3. QED
    BY <1>6, <2>1, <2>2, SumOfNone
<1>11. /\ acc.rest < p[k] => new.rest = acc.rest /\ Len(new.out) = Len(acc.out)
       /\ ~(acc.rest < p[k]) => new.rest = acc.rest - p[k] /\ Len(new.out) = Len(acc.out) + 1
  BY <1>2, <1>4, <1>6, <1>8, TakesOnce
<1> HIDE DEF p, k, more, less, new
<1>12. CASE acc.rest < p[k]
  <2>1. p[k] # value
    BY <1>2, <1>10, <1>12
  <2>2. QED
    BY <1>3, <1>6, <1>7, <1>9, <1>11, <1>12, <2>1
<1>13. CASE ~(acc.rest < p[k])
  <2>1. new.rest = acc.rest - p[k] /\ Len(new.out) = Len(acc.out) + 1
    BY <1>11, <1>13
  <2>2. p[k] <= value
    BY <1>2, <1>6, <1>7, <1>13
  <2>3. \A j \in k..n : p[j] = value => j = k
    BY <1>2, <1>9, <1>13
  <2>4. p[k] = value => new.rest = 0 /\ Len(new.out) <= 1
    BY <1>2, <1>10, <2>1
  <2>5. QED
    BY <1>2, <1>3, <1>6, <1>7, <1>8, <1>13, <2>1, <2>2, <2>3, <2>4
<1>14. QED
  BY <1>12, <1>13

\* A value is split into at most one coin for each power of two that fits, and into one if it
\* is a power of two itself.
LEMMA FewCoins ==
  ASSUME NEW n \in Nat, NEW keys, keys = PowersOfTwo(n), NEW value \in Nat,
         value < 2 * Powers(n)[n], Fill(value, keys, <<>>) # Throws
  PROVE  /\ Len(Fill(value, keys, <<>>)) <= Cardinality({k \in 0..n : Powers(n)[k] <= value})
         /\ value \in keys => Len(Fill(value, keys, <<>>)) <= 1
<1> DEFINE desc == Desc(keys \ {0})
<1>1. keys \in SUBSET Nat /\ IsFiniteSet(keys) /\ keys \ {0} = keys
  BY DescendingPowers
<1>2. Len(desc) = n + 1 /\ \A i \in 1..(n + 1) : desc[i] = Powers(n)[n + 1 - i]
  <2>1. desc = Desc(keys)
    BY <1>1
  <2> HIDE DEF desc
  <2>2. Len(Desc(keys)) = n + 1
    BY DescendingPowers
  <2>3. \A i \in 1..(n + 1) : Desc(keys)[i] = Powers(n)[n + 1 - i]
    BY DescendingPowers
  <2>4. QED
    BY <2>1, <2>2, <2>3
<1>3. PICK g : FillRun(g, value, keys, <<>>)
  BY <1>1, SeqEmpty, FillRuns
<1>4. /\ g[0] = [rest |-> value, out |-> <<>>]
      /\ \A i \in 1..(n + 1) : g[i] = FillStep(g[i - 1], Powers(n)[n + 1 - i])
      /\ \A i \in 0..(n + 1) : g[i] \in Fills(value, keys, <<>>)
      /\ Fill(value, keys, <<>>) = g[n + 1].out
  BY <1>2, <1>3 DEF FillRun
<1> DEFINE G == {i \in 0..(n + 1) : Sparse(n, i, value, g[i])}
<1>5. 0 \in G
  <2>1. Fitting(n, 0, value) = {} /\ (n + 1 - 0)..n = {}
    BY DEF Fitting
  <2>2. Cardinality(Fitting(n, 0, value)) = 0
    BY <2>1, FS_EmptySet
  <2>3. g[0].rest = value /\ Len(g[0].out) = 0
    BY <1>4, SeqEmpty
  <2>4. Sparse(n, 0, value, g[0])
    BY <2>1, <2>2, <2>3 DEF Sparse
  <2>5. QED
    BY <2>4
<1>6. ASSUME NEW i \in 1..(n + 1), i - 1 \in G PROVE i \in G
  <2>1. i - 1 \in 0..(n + 1) /\ i \in 0..(n + 1)
    OBVIOUS
  <2>2. g[i - 1] \in Fills(value, keys, <<>>) /\ Sparse(n, i - 1, value, g[i - 1])
    BY <1>4, <1>6, <2>1
  <2>3. Sparse(n, i, value, FillStep(g[i - 1], Powers(n)[n + 1 - i]))
    BY <2>2, SparseStep
  <2>4. QED
    BY <1>4, <2>1, <2>3
<1> HIDE DEF G
<1>7. n + 1 \in G
  <2>1. n + 1 \in Nat /\ n + 1 \in 0..(n + 1)
    OBVIOUS
  <2>2. \A i \in 0..(n + 1) : i \in G
    BY <1>5, <1>6, <2>1, Induct
  <2>3. QED
    BY <2>1, <2>2
<1>8. Sparse(n, n + 1, value, g[n + 1])
  BY <1>7 DEF G
<1>9. n + 1 - (n + 1) = 0
  OBVIOUS
<1>10. Fitting(n, n + 1, value) = {k \in 0..n : Powers(n)[k] <= value}
  BY <1>9 DEF Fitting
<1>11. Len(g[n + 1].out) <= Cardinality(Fitting(n, n + 1, value))
  BY <1>4, <1>8 DEF Sparse
<1>12. value \in keys => Len(g[n + 1].out) <= 1
  BY <1>4, <1>8, <1>9 DEF Sparse, PowersOfTwo
<1>13. QED
  BY <1>4, <1>10, <1>11, <1>12

\* With a binary keyset the blanks for an overpaid amount suffice for the split of whatever of
\* it is left: a power of two is one coin, and any other amount has no more coins than there
\* are powers below it.
LEMMA BlanksSuffice ==
  ASSUME BinaryKeys, NEW reserve \in 0..MaxAmount, NEW over \in 0..reserve, Split[over] # Throws
  PROVE  /\ Split[over] \in Seq(Nat) /\ AmountSum(Split[over]) = over
         /\ Len(Split[over]) \in Nat /\ Len(Split[over]) <= BlankCount(reserve)
<1> DEFINE split == SplitAmount(over, Keys, <<>>)
<1>1. PICK n \in 0..MaxAmount : Keys = PowersOfTwo(n) /\ MaxAmount < 2 * Powers(n)[n]
  BY DEF BinaryKeys, PowersOfTwo
<1>2. n \in Nat /\ reserve \in Nat /\ over \in Nat /\ over \in 0..MaxAmount /\ MaxAmount \in Nat
  BY AmountBounds
<1>3. split # Throws /\ Split[over] = split \o <<>>
  BY <1>2 DEF Split, ConfigureOutputs, OnTop
<1>4. split \in Seq(Nat) /\ AmountSum(split) = over /\ Len(split) \in Nat
  BY <1>2, <1>3, KeysAssumption, DefaultSplit
<1>5. split = Fill(over, Keys, <<>>)
  BY DEF SplitAmount
<1> HIDE DEF split
<1>6. Split[over] = split
  BY <1>3, <1>4
<1> DEFINE p == Powers(n)
           Fits == {k \in 0..n : p[k] <= over}
           Below == {k \in 0..reserve : Powers(reserve)[k] <= reserve - 1}
<1>7. p[n] \in Nat /\ over < 2 * p[n]
  <2>1. p[n] \in Positive
    BY <1>2, PowersAre
  <2>2. p[n] \in Nat
    BY <2>1 DEF Positive
  <2>3. QED
    BY <1>1, <1>2, <2>2
<1>8. Len(split) <= Cardinality(Fits) /\ (over \in Keys => Len(split) <= 1)
  BY <1>1, <1>2, <1>3, <1>5, <1>7, FewCoins
<1>9. IsFiniteSet(Below) /\ Cardinality(Below) \in Nat
  <2>1. Below \in SUBSET (0..reserve) /\ IsFiniteSet(0..reserve)
    BY <1>2, FS_Interval
  <2> HIDE DEF Below
  <2>2. QED
    BY <2>1, FS_Subset, FS_CardinalityType
<1>10. ASSUME over \notin Keys PROVE Fits \in SUBSET Below
  <2> SUFFICES ASSUME NEW k \in 0..n, p[k] <= over
               PROVE  k \in 0..reserve /\ Powers(reserve)[k] <= reserve - 1
    OBVIOUS
  <2>1. p[k] \in Positive /\ k < p[k]
    BY <1>2, PowersAre, PowersGrow
  <2>2. p[k] # over
    BY <1>1, <1>10 DEF PowersOfTwo
  <2>3. p[k] \in Nat
    BY <2>1 DEF Positive
  <2>4. p[k] <= reserve - 1 /\ k <= reserve
    BY <1>2, <2>1, <2>2, <2>3
  <2>5. Powers(reserve)[k] = p[k]
    BY <1>2, <2>4, PowersAgree
  <2>6. QED
    BY <1>2, <2>4, <2>5
<1>11. BlankCount(reserve) = IF Cardinality(Below) > 1 THEN Cardinality(Below) ELSE 1
  BY DEF BlankCount, CeilLog2
<1> HIDE DEF Below, Fits
<1>12. Len(split) <= BlankCount(reserve)
  <2>1. CASE over \in Keys
    BY <1>4, <1>8, <1>9, <1>11, <2>1
  <2>2. CASE over \notin Keys
    <3>1. Cardinality(Fits) <= Cardinality(Below) /\ IsFiniteSet(Fits)
      BY <1>9, <1>10, <2>2, FS_Subset
    <3>2. Cardinality(Fits) \in Nat
      BY <3>1, FS_CardinalityType
    <3>3. QED
      BY <1>4, <1>8, <1>9, <1>11, <3>1, <3>2
  <2>3. QED
    BY <2>1, <2>2
<1>13. QED
  BY <1>4, <1>6, <1>12

\* The blanks of a melt are as many as the overpaid amount needs, which covers the fee.
Reserve(t) == AmountOfProofs(t.inputs) - t.quote

Blanked(t) ==
  t.kind = "melt" /\ t.keep # <<>> =>
    /\ Reserve(t) \in 0..MaxAmount /\ Fee(Cardinality(t.inputs)) \in 0..Reserve(t)
    /\ Len(t.keep) = BlankCount(Reserve(t))

ChangeInv == ChangeIsWhole /\ \A o \in Transactions : txn[o] # None => Blanked(txn[o])

\* prepareMelt makes as many blanks as the overpaid amount needs, the others make none.
LEMMA PreparesBlanks ==
  ASSUME TransactionInv, ChangeInv, NEW o \in Transactions, Prepare(o)
  PROVE  ChangeInv'
<1>1. ASSUME NEW t, Prepared(o, t), Blanked(t) PROVE ChangeInv'
  <2>1. txn' = [txn EXCEPT ![o] = t] /\ forfeited' = forfeited
    BY <1>1 DEF Prepared, mintVars
  <2>2. \A p \in Transactions : txn'[p] = IF p = o THEN t ELSE txn[p]
    BY <2>1 DEF TransactionInv, Preparations
  <2>3. \A p \in Transactions : txn'[p] # None => Blanked(txn'[p])
    BY <1>1, <2>2 DEF ChangeInv
  <2>4. QED
    BY <2>1, <2>3 DEF ChangeInv, ChangeIsWhole
<1>2. ASSUME NEW t, Prepared(o, t), t.kind # "melt" PROVE ChangeInv'
  BY <1>1, <1>2 DEF Blanked
<1>3. ASSUME NEW det, NEW kept, PrepareReceive(o, det, kept) PROVE ChangeInv'
  <2>1. PICK t : Prepared(o, t) /\ t.kind # "melt"
    BY <1>3 DEF PrepareReceive
  <2>2. QED
    BY <1>2, <2>1
<1>4. ASSUME NEW amount, NEW P, NEW fees, NEW det, NEW kept, NEW sigAll,
             PrepareSend(o, amount, P, fees, det, kept, sigAll) PROVE ChangeInv'
  <2>1. PICK t : Prepared(o, t) /\ t.kind # "melt"
    BY <1>4 DEF PrepareSend
  <2>2. QED
    BY <1>2, <2>1
<1>5. ASSUME NEW amount, NEW det, NEW kept, NEW locked, PrepareMint(o, amount, det, kept, locked)
      PROVE  ChangeInv'
  <2>1. PICK t : Prepared(o, t) /\ t.kind # "melt"
    BY <1>5 DEF PrepareMint
  <2>2. QED
    BY <1>2, <2>1
<1>6. ASSUME NEW amount, NEW P, NEW change, NEW det, NEW kept,
             PrepareMelt(o, amount, P, change, det, kept) PROVE ChangeInv'
  <2> DEFINE reserve == AmountOfProofs(P) - amount
             outs == Blanks(change, reserve, det)
             t == [kind |-> "melt", inputs |-> P, keep |-> outs, send |-> <<>>,
                   quote |-> amount, sigAll |-> FALSE, kept |-> kept, legacy |-> FALSE]
  <2>1. reserve \in 0..MaxAmount /\ Fee(Cardinality(P)) \in 0..reserve /\ Prepared(o, t)
    BY <1>6, Zenon DEF PrepareMelt, Blanks
  <2>2. t.kind = "melt" /\ t.keep = outs /\ t.inputs = P /\ t.quote = amount
    OBVIOUS
  <2> HIDE DEF t
  <2>3. Reserve(t) = reserve
    BY <2>2 DEF Reserve
  <2>4. outs # <<>> => Len(outs) = BlankCount(reserve)
    <3> SUFFICES ASSUME outs # <<>> PROVE Len(outs) = BlankCount(reserve)
      OBVIOUS
    <3>1. outs = CreateOutputs(Repeat(0, BlankCount(reserve)), First(det), det)
      BY DEF Blanks
    <3>2. BlankCount(reserve) \in Nat
      BY <2>1, AmountBounds, BlanksTyped
    <3>3. DOMAIN Repeat(0, BlankCount(reserve)) = 1..BlankCount(reserve)
      BY DEF Repeat
    <3>4. DOMAIN outs = 1..BlankCount(reserve)
      BY <3>1, <3>3 DEF CreateOutputs
    <3>5. QED
      BY <3>1, <3>2, <3>4 DEF CreateOutputs
  <2> HIDE DEF reserve, outs
  <2>5. Blanked(t)
    BY <2>1, <2>2, <2>3, <2>4 DEF Blanked
  <2>6. QED
    BY <1>1, <2>1, <2>5
<1>7. QED
  BY <1>3, <1>4, <1>5, <1>6, Zenon DEF Prepare

\* What a payment leaves of the overpaid amount is signed on the blanks, all of it.
LEMMA SettlesWhole ==
  ASSUME BinaryKeys, TransactionInv, ChangeInv, NEW o \in Transactions, Settles(o)
  PROVE  ChangeInv'
<1> DEFINE t == txn[o]
           most == AmountOfProofs(t.inputs) - t.quote - Fee(Cardinality(t.inputs))
<1>1. payment[o] = "PENDING" /\ \E over \in 0..most : over <= MaxAmount /\ Pays(o, over)
  BY Zenon DEF Settles
<1>2. PICK over \in 0..most : over <= MaxAmount /\ Pays(o, over)
  BY <1>1
<1>3. t # None /\ t.kind = "melt" /\ t.keep \in Seq(ProofRecords) /\ Blanked(t)
  <2>1. t # None /\ t.kind = "melt"
    BY <1>1, NoneAssumption DEF TransactionInv, Paying
  <2>2. t \in Previews
    BY <2>1 DEF TransactionInv, Preparations
  <2>3. QED
    BY <2>1, <2>2 DEF Previews, ChangeInv
<1>4. PICK amounts \in {Split[over]} \ {Throws}, n \in {Len(t.keep)} :
        forfeited' = forfeited +
          (IF n = 0 THEN 0
           ELSE over - AmountSum(SubSeq(amounts, 1, IF Len(amounts) < n THEN Len(amounts) ELSE n)))
  BY <1>2, Zenon DEF Pays
<1>5. txn' = txn
  BY <1>2 DEF Pays, appVars
<1>6. forfeited = 0
  BY DEF ChangeInv, ChangeIsWhole
<1>7. forfeited' = 0
  <2>1. CASE n = 0
    BY <1>4, <1>6, <2>1
  <2>2. CASE n # 0
    <3>1. t.keep # <<>>
      BY <1>4, <2>2
    <3>2. /\ Reserve(t) \in 0..MaxAmount /\ Fee(Cardinality(t.inputs)) \in 0..Reserve(t)
          /\ n = BlankCount(Reserve(t))
      BY <1>3, <1>4, <3>1 DEF Blanked
    <3>3. over \in 0..Reserve(t)
      <4>1. PICK fee : fee = Fee(Cardinality(t.inputs))
        OBVIOUS
      <4>2. over \in 0..(Reserve(t) - fee)
        BY <1>2, <4>1 DEF Reserve
      <4>3. QED
        BY <3>2, <4>1, <4>2, AmountBounds
    <3>4. /\ amounts \in Seq(Nat) /\ AmountSum(amounts) = over
          /\ Len(amounts) \in Nat /\ Len(amounts) <= n
      BY <1>4, <3>2, <3>3, BlanksSuffice
    <3>5. (IF Len(amounts) < n THEN Len(amounts) ELSE n) = Len(amounts)
      BY <1>3, <1>4, <3>4
    <3>6. SubSeq(amounts, 1, Len(amounts)) = amounts
      BY <3>4
    <3>7. forfeited' = 0 + (over - over)
      BY <1>4, <1>6, <2>2, <3>4, <3>5, <3>6
    <3>8. QED
      BY <3>7
  <2>3. QED
    BY <2>1, <2>2
<1>8. QED
  BY <1>5, <1>7 DEF ChangeInv, ChangeIsWhole

\* Every other step leaves previews and forfeited amounts alone.
LEMMA ChangeInvStep ==
  ASSUME BinaryKeys, TransactionInv, ChangeInv, [TransactionNext]_transactionVars
  PROVE  ChangeInv'
<1>1. ASSUME UNCHANGED <<txn, forfeited>> PROVE ChangeInv'
  BY <1>1 DEF ChangeInv, ChangeIsWhole
<1>2. CASE UNCHANGED transactionVars
  BY <1>1, <1>2 DEF transactionVars, appVars, mintVars
<1>3. CASE Crash \/ RestoreFromSeed
  BY <1>1, <1>3 DEF Crash, RestoreFromSeed, mintVars
<1>4. ASSUME NEW o \in Transactions,
             Complete(o) \/ Answered(o) \/ FallBack(o) \/ Throw(o) \/ LateChange(o)
      PROVE  ChangeInv'
  <2>1. UNCHANGED <<txn, mintVars>>
    BY <1>4 DEF Complete, Answered, FallBack, Throw, LateChange, appVars
  <2>2. QED
    BY <1>1, <2>1 DEF mintVars
<1>5. ASSUME NEW o \in Transactions, MintActs(o) PROVE ChangeInv'
  <2>1. CASE Settles(o)
    BY <2>1, SettlesWhole
  <2>2. CASE Executes(o) \/ Repeats(o) \/ Fails(o) \/ Damages(o) \/ Loses(o)
    <3>1. UNCHANGED <<txn, forfeited>>
      BY <2>2 DEF Executes, Repeats, Fails, Damages, Loses, appVars, mintVars
    <3>2. QED
      BY <1>1, <3>1
  <2>3. ASSUME NEW b \in BOOLEAN, Starts(o, b) \/ Refuses(o, b) PROVE ChangeInv'
    <3>1. UNCHANGED <<txn, forfeited>>
      BY <2>3 DEF Starts, Refuses, appVars, mintVars
    <3>2. QED
      BY <1>1, <3>1
  <2>4. QED
    BY <1>5, <2>1, <2>2, <2>3 DEF MintActs
<1>6. ASSUME NEW o \in Transactions, Prepare(o) PROVE ChangeInv'
  BY <1>6, PreparesBlanks
<1>7. QED
  BY <1>2, <1>3, <1>4, <1>5, <1>6, Zenon DEF TransactionNext

\* If the keyset has every power of two up to the ceiling, the blanks that prepareMelt makes
\* suffice: whatever the payment leaves of the overpaid amount comes back as change.
THEOREM ChangeIsWholeHolds ==
  ASSUME BinaryKeys
  PROVE  TransactionSpec => []ChangeIsWhole
<1>1. TransactionInit => ChangeInv
  BY DEF TransactionInit, ChangeInv, ChangeIsWhole
<1>2. TransactionInv /\ ChangeInv /\ [TransactionNext]_transactionVars => ChangeInv'
  BY ChangeInvStep
<1>3. ChangeInv => ChangeIsWhole
  BY DEF ChangeInv
<1>4. QED
  BY <1>1, <1>2, <1>3, TransactionInvHolds, PTL DEF TransactionSpec
=============================================================================
