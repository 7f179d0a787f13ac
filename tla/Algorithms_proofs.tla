------------------------- MODULE Algorithms_proofs -------------------------
(***************************************************************************)
(* Proofs about what the wallet calculates: mint and melt quotes, coin     *)
(* selection and spending conditions.  They share nothing; each part has   *)
(* an invariant of its own.                                                *)
(***************************************************************************)
EXTENDS Selection, Quotes, Conditions, FiniteSetTheorems, SequenceTheorems, WellFoundedInduction, TLAPS

(***************************************************************************)
(* Quotes, for any number of them, any amounts and any sequence of         *)
(* payments, with a mint whose answers may have a field wrong.             *)
(*                                                                         *)
(* The ledger of a single-use quote knows three states, which is why the   *)
(* state a legacy mint tells is enough to derive its accounting.  What the *)
(* wallet holds is an earlier state of the ledger, and single-use quotes   *)
(* that are issued stay so: hence the refusals are right however old.      *)
(***************************************************************************)
Asked == [method : Advertised, amount : Sizes, pubkey : Keyed \cup {Null}]

\* Of one quote: what is issued was paid, and a single-use quote is paid and issued in full.
Accounts(a, account) ==
  /\ account.paid \in Nat /\ account.issued \in Nat /\ account.issued <= account.paid
  /\ SingleUse(a.method) => account.paid \in {0, a.amount} /\ account.issued \in {0, a.amount}

\* What the wallet holds of q: asked for, and true when it was fetched.
Held(q) ==
  /\ held[q].quote = q /\ held[q].method = asked[q].method
  /\ asked[q].pubkey # Null => held[q].pubkey = asked[q].pubkey
  /\ Accounts(asked[q], held[q]) /\ held[q].issued <= ledger[q].issued
  /\ q \in fresh => held[q].paid = ledger[q].paid /\ held[q].issued = ledger[q].issued

LedgerInv ==
  /\ asked \in [QuoteIds -> Asked \cup {Null}]
  /\ ledger \in [QuoteIds -> [paid : Nat, issued : Nat]]
  /\ \A q \in QuoteIds :
       /\ asked[q] # Null => Accounts(asked[q], ledger[q])
       /\ asked[q] = Null => ledger[q].paid = 0 /\ ledger[q].issued = 0

HeldInv ==
  /\ held = [q \in QuoteIds |-> held[q]]
  /\ \A q \in QuoteIds : held[q] # Null => asked[q] # Null /\ Held(q)

MeltInv ==
  \/ melt = Null
  \/ /\ melt = [method |-> melt.method, asked |-> melt.asked, quote |-> melt.quote, sent |-> melt.sent]
     /\ melt.quote # Null /\ melt.method = "bolt11" /\ melt.asked # Null =>
          1000 * melt.quote.amount < melt.asked + 1000

QuoteInv == LedgerInv /\ HeldInv /\ MeltInv /\ RefusalsAreRight

\* The shape of an answer about q: right, or wrong in a way that shows.
Telling(raw, q, a, account) ==
  /\ raw = [quote |-> q, method |-> raw.method, request |-> raw.request, unit |-> raw.unit,
            amount |-> raw.amount, invoice |-> raw.invoice, paid |-> raw.paid, issued |-> raw.issued,
            state |-> raw.state, pubkey |-> raw.pubkey]
  /\ IF ~legacy \/ a.method # "bolt11"
     THEN \/ raw.paid = account.paid /\ raw.issued = account.issued
          \/ raw.paid = Null /\ raw.state = "other"
     ELSE raw.paid = Null /\ raw.state \in {DeriveMintQuoteState(account.paid, account.issued), "other"}
  /\ a.method = "bolt11" /\ raw.amount # Null /\ raw.invoice = 1000 * raw.amount => raw.amount = a.amount

\* Each answer names its quote.
LEMMA AnswersName ==
  ASSUME NEW q, NEW a, NEW account
  PROVE  AnswerAbout(q, a, account).quote = q
BY DEF AnswerAbout

\* The right answer is a telling one.
LEMMA AnswersTell ==
  ASSUME NEW q, NEW a \in Asked, NEW account \in [paid : Nat, issued : Nat]
  PROVE  Telling(AnswerAbout(q, a, account), q, a, account)
BY DEF Telling, AnswerAbout, Asked

\* So are those the mint may give.
LEMMA WrongAnswersTell ==
  ASSUME NEW q, NEW a \in Asked, NEW account \in [paid : Nat, issued : Nat],
         NEW raw \in MayAnswer(AnswerAbout(q, a, account))
  PROVE  Telling(raw, q, a, account) /\ raw.pubkey = a.pubkey
<1> a.amount \in Nat /\ a.amount # Null
  BY QuoteSizes, QuoteNull DEF Asked
<1> DEFINE right == AnswerAbout(q, a, account)
<1>1. /\ right = [quote |-> q, method |-> right.method, request |-> right.request, unit |-> right.unit,
                  amount |-> a.amount, invoice |-> right.invoice, paid |-> right.paid, issued |-> right.issued,
                  state |-> right.state, pubkey |-> a.pubkey]
      /\ a.method = "bolt11" => right.invoice = 1000 * a.amount
      /\ IF ~legacy \/ a.method # "bolt11"
         THEN right.paid = account.paid /\ right.issued = account.issued
         ELSE right.paid = Null /\ right.state = DeriveMintQuoteState(account.paid, account.issued)
  BY DEF AnswerAbout
<1> HIDE DEF right
<1>2. \/ raw \in {right, [right EXCEPT !.method = "other"], [right EXCEPT !.request = Null],
                  [right EXCEPT !.unit = Null], [right EXCEPT !.paid = Null, !.state = "other"]}
      \/ raw \in {[right EXCEPT !.amount = @ + 1], [right EXCEPT !.invoice = @ + 1], [right EXCEPT !.amount = Null]}
  BY DEF MayAnswer, right
<1>3. Telling(raw, q, a, account) /\ raw.pubkey = a.pubkey
  <2>1. CASE raw \in {right, [right EXCEPT !.method = "other"], [right EXCEPT !.request = Null],
                      [right EXCEPT !.unit = Null]}
    BY <2>1, <1>1 DEF Telling
  <2>2. CASE raw = [right EXCEPT !.paid = Null, !.state = "other"]
    <3> DEFINE other == [right EXCEPT !.paid = Null]
    <3>1. raw = [other EXCEPT !.state = "other"]
      BY <2>2
    <3>2. /\ other.invoice = right.invoice /\ other.paid = Null
          /\ other = [quote |-> q, method |-> other.method, request |-> other.request, unit |-> other.unit,
                      amount |-> a.amount, invoice |-> other.invoice, paid |-> other.paid, issued |-> other.issued,
                      state |-> other.state, pubkey |-> a.pubkey]
      BY <1>1
    <3> HIDE DEF other
    <3>3. raw = [quote |-> q, method |-> raw.method, request |-> raw.request, unit |-> raw.unit,
                 amount |-> a.amount, invoice |-> raw.invoice, paid |-> Null, issued |-> raw.issued,
                 state |-> "other", pubkey |-> a.pubkey]
      BY <3>1, <3>2
    <3>4. QED
      BY <3>3 DEF Telling
  <2>3. CASE raw \in {[right EXCEPT !.amount = @ + 1], [right EXCEPT !.invoice = @ + 1], [right EXCEPT !.amount = Null]}
    BY <2>3, <1>1 DEF Telling
  <2>4. QED
    BY <1>2, <2>1, <2>2, <2>3
<1>4. QED
  BY <1>3

\* The key an answer names is another matter.
LEMMA NamedAnswersTell ==
  ASSUME NEW q, NEW a, NEW account, NEW raw, NEW k, Telling(raw, q, a, account),
         NEW named, named = [raw EXCEPT !.pubkey = k]
  PROVE  Telling(named, q, a, account) /\ named.pubkey = k
BY DEF Telling

\* What is asked for is an amount other than zero.
LEMMA AskedAmounts == \A a \in Asked : a.amount \in Nat \ {0}
BY QuoteSizes DEF Asked

\* An answer that passes normalisation and the comparison of invoices tells the ledger.
LEMMA NormalizedIsTrue ==
  ASSUME NEW q, NEW a \in Asked, NEW account \in [paid : Nat, issued : Nat], Accounts(a, account),
         NEW raw, Telling(raw, q, a, account),
         NEW res, res = NormalizeMintQuoteResponse(a.method, raw), ~IsFailure(res),
         a.method = "bolt11" => res.invoice = 1000 * res.amount
  PROVE  /\ res.quote = q /\ res.method = a.method /\ res.pubkey = raw.pubkey
         /\ res.paid = account.paid /\ res.issued = account.issued
<1> DEFINE accounting == IF raw.paid # Null /\ raw.issued # Null
                         THEN [paid |-> raw.paid, issued |-> raw.issued]
                         ELSE DeriveMintQuoteAccounting(raw)
           base == NormalizeMintBaseFields(a.method, raw)
<1> a.amount \in Nat \ {0}
  BY AskedAmounts
<1> Null \notin Nat
  BY QuoteNull
<1>1. IsFailure(Failure)
  BY DEF IsFailure, Failure
<1>2. ~IsFailure(base) /\ (a.method = "bolt11" => res = NormalizeMintQuoteBolt11(base))
      /\ (a.method # "bolt11" => res = base)
  BY DEF NormalizeMintQuoteResponse
<1>3. /\ accounting # Null
      /\ base = [raw EXCEPT !.method = a.method, !.paid = accounting.paid, !.issued = accounting.issued]
  BY <1>1, <1>2 DEF NormalizeMintBaseFields
<1> HIDE DEF base, accounting
<1>4. /\ base.quote = q /\ base.method = a.method /\ base.pubkey = raw.pubkey
      /\ base.paid = accounting.paid /\ base.issued = accounting.issued
      /\ base.amount = raw.amount /\ base.invoice = raw.invoice
      /\ base = [quote |-> base.quote, method |-> base.method, request |-> base.request, unit |-> base.unit,
                 amount |-> base.amount, invoice |-> base.invoice, paid |-> base.paid, issued |-> base.issued,
                 state |-> base.state, pubkey |-> base.pubkey]
  <2> DEFINE x == [raw EXCEPT !.method = a.method]
             y == [x EXCEPT !.paid = accounting.paid]
  <2>1. base = [y EXCEPT !.issued = accounting.issued]
    BY <1>3
  <2>2. /\ x.quote = q /\ x.method = a.method /\ x.pubkey = raw.pubkey /\ x.amount = raw.amount /\ x.invoice = raw.invoice
        /\ x = [quote |-> x.quote, method |-> x.method, request |-> x.request, unit |-> x.unit,
                amount |-> x.amount, invoice |-> x.invoice, paid |-> x.paid, issued |-> x.issued,
                state |-> x.state, pubkey |-> x.pubkey]
    BY DEF Telling
  <2> HIDE DEF x
  <2>3. /\ y.quote = q /\ y.method = a.method /\ y.pubkey = raw.pubkey /\ y.amount = raw.amount /\ y.invoice = raw.invoice
        /\ y.paid = accounting.paid
        /\ y = [quote |-> y.quote, method |-> y.method, request |-> y.request, unit |-> y.unit,
                amount |-> y.amount, invoice |-> y.invoice, paid |-> y.paid, issued |-> y.issued,
                state |-> y.state, pubkey |-> y.pubkey]
    BY <2>2
  <2> HIDE DEF y
  <2>4. QED
    BY <2>1, <2>3
<1>5. /\ res.quote = q /\ res.method = a.method /\ res.pubkey = raw.pubkey
      /\ res.paid = accounting.paid /\ res.issued = accounting.issued
      /\ res.amount = raw.amount /\ res.invoice = raw.invoice
      /\ a.method = "bolt11" => raw.amount # Null
  BY <1>1, <1>2, <1>4 DEF NormalizeMintQuoteBolt11
<1>6. accounting.paid = account.paid /\ accounting.issued = account.issued
  <2>1. CASE ~legacy \/ a.method # "bolt11"
    BY <2>1, <1>3 DEF Telling, accounting, DeriveMintQuoteAccounting, States
  <2>2. CASE ~(~legacy \/ a.method # "bolt11")
    <3>1. raw.amount = a.amount
      BY <2>2, <1>5 DEF Telling
    <3>2. /\ raw.state = DeriveMintQuoteState(account.paid, account.issued)
          /\ accounting = DeriveMintQuoteAccounting(raw)
      BY <2>2, <1>3 DEF Telling, accounting, DeriveMintQuoteAccounting, States
    <3>3. account.paid \in {0, a.amount} /\ account.issued \in {0, a.amount} /\ account.issued <= account.paid
      BY <2>2 DEF Accounts, SingleUse
    <3>4. QED
      BY <3>1, <3>2, <3>3, <1>3 DEF DeriveMintQuoteState, DeriveMintQuoteAccounting, States
  <2>3. QED
    BY <2>1, <2>2
<1>7. QED
  BY <1>5, <1>6

\* The ledger is that of the quotes asked for, and no record is Null.
LEMMA QuoteTypes ==
  /\ \A n \in Nat : n # Null
  /\ \A a \in Asked : a # Null /\ a.method \in Advertised /\ a.amount \in Nat \ {0}
  /\ \A q \in QuoteIds : LedgerInv =>
       /\ asked[q] # Null => asked[q] \in Asked
       /\ ledger[q] \in [paid : Nat, issued : Nat]
BY QuoteSizes, QuoteNull DEF Asked, LedgerInv

LEMMA QuotesStart == QuotesInit => QuoteInv
BY DEF QuotesInit, QuoteInv, LedgerInv, HeldInv, MeltInv, RefusalsAreRight

\* What the wallet holds after an answer it accepted about q.
LEMMA AnswerIsHeld ==
  ASSUME QuoteInv, NEW q \in QuoteIds, asked'[q] # Null, NEW k, NEW raw,
         asked' \in [QuoteIds -> Asked \cup {Null}], Accounts(asked'[q], ledger[q]),
         Telling(raw, q, asked'[q], ledger[q]), asked'[q].pubkey # Null => raw.pubkey = asked'[q].pubkey,
         NEW res, res = NormalizeMintQuoteResponse(asked'[q].method, raw), ~IsFailure(res),
         asked'[q].method = "bolt11" => res.invoice = 1000 * res.amount,
         held'[q] = res, UNCHANGED ledger
  PROVE  Held(q)'
<1>1. asked'[q] \in Asked /\ ledger[q] \in [paid : Nat, issued : Nat]
  BY QuoteTypes DEF QuoteInv
<1>2. /\ res.quote = q /\ res.method = asked'[q].method /\ res.pubkey = raw.pubkey
      /\ res.paid = ledger[q].paid /\ res.issued = ledger[q].issued
  BY <1>1, NormalizedIsTrue
<1>3. QED
  BY <1>1, <1>2 DEF Held, Accounts

LEMMA PayStep ==
  ASSUME QuoteInv, NEW q \in QuoteIds, NEW amount \in Sizes, Pay(q, amount)
  PROVE  QuoteInv'
<1> amount \in Nat /\ asked[q] # Null /\ asked[q] \in Asked /\ ledger[q] \in [paid : Nat, issued : Nat]
  BY QuoteSizes, QuoteTypes DEF Pay, QuoteInv
<1>1. /\ ledger' \in [QuoteIds -> [paid : Nat, issued : Nat]]
      /\ ledger'[q].paid = ledger[q].paid + amount /\ ledger'[q].issued = ledger[q].issued
      /\ \A p \in QuoteIds : p # q => ledger'[p] = ledger[p]
  BY DEF Pay, QuoteInv, LedgerInv
<1>2. LedgerInv'
  <2>1. Accounts(asked[q], ledger[q])'
    BY <1>1 DEF QuoteInv, LedgerInv, Accounts, Pay
  <2>2. QED
    BY <1>1, <2>1 DEF QuoteInv, LedgerInv, Pay, Accounts
<1>3. HeldInv'
  BY <1>1 DEF QuoteInv, HeldInv, Held, Pay, Accounts
<1>4. MeltInv' /\ RefusalsAreRight'
  BY DEF Pay, QuoteInv, MeltInv, RefusalsAreRight
<1>5. QED
  BY <1>2, <1>3, <1>4 DEF QuoteInv

LEMMA CreateMintQuoteStep ==
  ASSUME QuoteInv, NEW q \in QuoteIds, NEW method \in Advertised, NEW amount \in Sizes,
         NEW k \in Keyed \cup {Null}, CreateMintQuote(q, method, amount, k)
  PROVE  QuoteInv'
<1> DEFINE a == [method |-> method, amount |-> amount, pubkey |-> k]
<1>1. /\ asked[q] = Null /\ a \in Asked /\ a # Null
      /\ asked' \in [QuoteIds -> Asked \cup {Null}] /\ asked'[q] = a /\ \A p \in QuoteIds : p # q => asked'[p] = asked[p]
      /\ UNCHANGED <<legacy, ledger, outcome, melt>>
  BY QuoteTypes DEF CreateMintQuote, QuoteInv, LedgerInv, Asked
<1>2. ledger[q].paid = 0 /\ ledger[q].issued = 0 /\ Accounts(a, ledger[q])
  BY <1>1 DEF QuoteInv, LedgerInv, Accounts
<1>3. LedgerInv'
  BY <1>1, <1>2 DEF QuoteInv, LedgerInv, Accounts
<1>4. MeltInv' /\ RefusalsAreRight'
  BY <1>1 DEF QuoteInv, MeltInv, RefusalsAreRight
<1>5. held[q] = Null
  BY <1>1 DEF QuoteInv, HeldInv
<1>6. HeldInv'
  <2>1. CASE UNCHANGED <<held, fresh>>
    BY <2>1, <1>1, <1>5 DEF QuoteInv, HeldInv, Held, Accounts
  <2>2. CASE ~UNCHANGED <<held, fresh>>
    <3>1. PICK key \in Keyed \cup {Null}, raw \in MayAnswer(AnswerAbout(q, a, [paid |-> 0, issued |-> 0])) :
            LET res == NormalizeMintQuoteResponse(method, [raw EXCEPT !.pubkey = key])
            IN /\ ~IsFailure(res) /\ (method = "bolt11" => Bolt11AmountMatches(res, amount))
               /\ LockedAsAsked(res, k) /\ Holds(q, res)
      BY <2>2 DEF CreateMintQuote
    <3> DEFINE named == [raw EXCEPT !.pubkey = key]
               res == NormalizeMintQuoteResponse(method, named)
    <3>2. ledger[q] = [paid |-> 0, issued |-> 0] /\ ledger[q] \in [paid : Nat, issued : Nat]
      BY <1>2, QuoteTypes DEF QuoteInv
    <3>3. Telling(named, q, a, ledger[q]) /\ named.pubkey = key
      <4> HIDE DEF a
      <4>1. raw \in MayAnswer(AnswerAbout(q, a, ledger[q]))
        BY <3>1, <3>2
      <4>2. Telling(raw, q, a, ledger[q])
        BY <4>1, <3>2, <1>1, WrongAnswersTell
      <4>3. QED
        BY <4>2, NamedAnswersTell
    <3>4. /\ ~IsFailure(res) /\ (method = "bolt11" => Bolt11AmountMatches(res, amount))
          /\ LockedAsAsked(res, k) /\ Holds(q, res)
      BY <3>1
    <3>5. held'[q] = res /\ held' = [p \in QuoteIds |-> held'[p]] /\ fresh' = fresh \cup {q}
          /\ \A p \in QuoteIds : p # q => held'[p] = held[p]
      BY <3>4 DEF Holds, QuoteInv, HeldInv
    <3> HIDE DEF named
    <3>6. method = "bolt11" => res.invoice = 1000 * res.amount
      BY <3>4 DEF Bolt11AmountMatches
    <3>7. res = NormalizeMintQuoteResponse(a.method, named)
      OBVIOUS
    <3> HIDE DEF res, a
    <3>8. /\ res.quote = q /\ res.method = a.method /\ res.pubkey = key
          /\ res.paid = ledger[q].paid /\ res.issued = ledger[q].issued
      BY <3>2, <3>3, <3>4, <3>6, <3>7, <1>1, <1>2, NormalizedIsTrue DEF a
    <3>9. a.pubkey # Null => res.pubkey = a.pubkey
      BY <3>4 DEF LockedAsAsked, a
    <3>10. Held(q)'
      BY <3>5, <3>8, <3>9, <3>2, <1>1, <1>2 DEF Held, Accounts
    <3>11. QED
      BY <3>5, <3>10, <1>1 DEF QuoteInv, HeldInv, Held, Accounts
  <2>3. QED
    BY <2>1, <2>2
<1>7. QED
  BY <1>3, <1>4, <1>6 DEF QuoteInv

LEMMA CheckMintQuoteStep ==
  ASSUME QuoteInv, NEW q \in QuoteIds, CheckMintQuote(q)
  PROVE  QuoteInv'
<1>1. PICK raw \in MayAnswer(AnswerAbout(q, asked[q], ledger[q])) :
        LET res == NormalizeMintQuoteResponse(asked[q].method, raw)
        IN /\ ~IsFailure(res) /\ (asked[q].method = "bolt11" => Bolt11AmountMatches(res, res.amount))
           /\ Holds(q, res)
  BY DEF CheckMintQuote
<1> DEFINE res == NormalizeMintQuoteResponse(asked[q].method, raw)
<1>2. /\ held[q] # Null /\ asked[q] # Null /\ asked[q] \in Asked /\ ledger[q] \in [paid : Nat, issued : Nat]
      /\ asked[q] = asked'[q] /\ asked' \in [QuoteIds -> Asked \cup {Null}] /\ Accounts(asked[q], ledger[q])
      /\ UNCHANGED <<legacy, asked, ledger, outcome, melt>>
  BY QuoteTypes DEF CheckMintQuote, QuoteInv, HeldInv, LedgerInv
<1>3. Telling(raw, q, asked[q], ledger[q]) /\ raw.pubkey = asked[q].pubkey
  BY <1>1, <1>2, WrongAnswersTell
<1>4. asked[q].method = "bolt11" => res.invoice = 1000 * res.amount
  BY <1>1 DEF Bolt11AmountMatches
<1>5. /\ held'[q] = res /\ held' = [p \in QuoteIds |-> held'[p]] /\ fresh' = fresh \cup {q}
      /\ \A p \in QuoteIds : p # q => held'[p] = held[p]
      /\ ~IsFailure(res)
  BY <1>1 DEF Holds, QuoteInv, HeldInv
<1> HIDE DEF res
<1>6. Held(q)'
  BY <1>2, <1>3, <1>4, <1>5, AnswerIsHeld DEF res
<1>7. HeldInv'
  BY <1>2, <1>5, <1>6 DEF QuoteInv, HeldInv, Held, Accounts
<1>8. LedgerInv' /\ MeltInv' /\ RefusalsAreRight'
  BY <1>2 DEF QuoteInv, LedgerInv, Accounts, MeltInv, RefusalsAreRight
<1>9. QED
  BY <1>7, <1>8 DEF QuoteInv

LEMMA CheckMintQuoteBatchStep ==
  ASSUME QuoteInv, NEW quotes \in SetToAllKPermutations(QuoteIds), NEW method \in Advertised,
         CheckMintQuoteBatch(quotes, method)
  PROVE  QuoteInv'
<1> DEFINE right == [i \in DOMAIN quotes |-> AnswerAbout(quotes[i], asked[quotes[i]], ledger[quotes[i]])]
<1>1. PICK n \in Nat : quotes \in [1..n -> QuoteIds] /\ n > 0 /\ Len(quotes) = n
  <2>1. PICK S \in SUBSET QuoteIds : quotes \in [1..Cardinality(S) -> S]
    BY DEF SetToAllKPermutations, SetToSeqs
  <2>2. Cardinality(S) \in Nat
    BY QuotesAreFinite, FS_Subset, FS_CardinalityType
  <2>3. Cardinality(S) > 0 /\ Len(quotes) = Cardinality(S)
    BY <2>1, <2>2 DEF CheckMintQuoteBatch
  <2>4. QED
    BY <2>1, <2>2, <2>3
<1>2. PICK answers \in {right, Reverse(right), Tail(right)} :
        LET res == [i \in DOMAIN answers |-> NormalizeMintQuoteResponse(method, answers[i])]
        IN /\ AnswersMatch(quotes, answers)
           /\ \A i \in DOMAIN res : /\ ~IsFailure(res[i])
                                    /\ method = "bolt11" => Bolt11AmountMatches(res[i], res[i].amount)
           /\ held' = [q \in QuoteIds |->
                         IF q \in ToSet(quotes) THEN res[CHOOSE i \in DOMAIN quotes : quotes[i] = q]
                         ELSE held[q]]
           /\ fresh' = fresh \cup ToSet(quotes)
  BY DEF CheckMintQuoteBatch
<1> DEFINE res == [i \in DOMAIN answers |-> NormalizeMintQuoteResponse(method, answers[i])]
<1>3. \A i \in 1..n : i \in DOMAIN answers /\ answers[i] = AnswerAbout(quotes[i], asked[quotes[i]], ledger[quotes[i]])
  <2>1. Len(right) = n /\ DOMAIN right = 1..n /\ right \in Seq({right[i] : i \in 1..n})
    BY <1>1
  <2>2. Len(answers) = n /\ \A i \in 1..n : answers[i].quote = quotes[i]
    BY <1>1, <1>2 DEF AnswersMatch
  <2>3. \A i \in 1..n : right[i] = AnswerAbout(quotes[i], asked[quotes[i]], ledger[quotes[i]])
    BY <1>1
  <2>4. \A i \in 1..n : right[i].quote = quotes[i]
    BY <2>3, AnswersName
  <2> HIDE DEF right
  <2>5. CASE answers = right
    BY <2>1, <2>3, <2>5
  <2>6. CASE answers = Reverse(right)
    BY <2>1, <2>2, <2>3, <2>4, <2>6 DEF Reverse
  <2>7. CASE answers = Tail(right)
    <3>1. Len(Tail(right)) = n - 1
      BY <1>1, <2>1
    <3>2. QED
      BY <3>1, <2>2, <2>7, <1>1
  <2>8. QED
    BY <1>2, <2>5, <2>6, <2>7
<1>4. /\ UNCHANGED <<legacy, asked, ledger, outcome, melt>>
      /\ \A i \in 1..n : quotes[i] \in QuoteIds /\ held[quotes[i]] # Null /\ asked[quotes[i]].method = method
  BY <1>1 DEF CheckMintQuoteBatch
<1>5. /\ held' = [q \in QuoteIds |-> held'[q]] /\ fresh' = fresh \cup ToSet(quotes)
      /\ \A q \in QuoteIds : q \notin ToSet(quotes) => held'[q] = held[q]
  BY <1>2
<1>6. \A q \in QuoteIds : q \in ToSet(quotes) => Held(q)'
  <2> SUFFICES ASSUME NEW q \in QuoteIds, q \in ToSet(quotes)
               PROVE  Held(q)'
    OBVIOUS
  <2>1. PICK i \in 1..n : quotes[i] = q /\ held'[q] = res[i]
    BY <1>1, <1>2 DEF ToSet
  <2> DEFINE raw == AnswerAbout(q, asked[q], ledger[q])
             r == NormalizeMintQuoteResponse(asked[q].method, raw)
  <2>2. /\ asked[q].method = method /\ asked[q] # Null /\ asked[q] \in Asked
        /\ ledger[q] \in [paid : Nat, issued : Nat]
        /\ asked' \in [QuoteIds -> Asked \cup {Null}] /\ Accounts(asked[q], ledger[q]) /\ asked'[q] = asked[q]
    BY <1>4, <2>1, QuoteTypes DEF QuoteInv, HeldInv, LedgerInv
  <2>3. /\ i \in DOMAIN answers /\ answers[i] = raw /\ res[i] = r
        /\ ~IsFailure(res[i]) /\ (method = "bolt11" => Bolt11AmountMatches(res[i], res[i].amount))
    <3>1. i \in DOMAIN answers /\ answers[i] = raw
      BY <1>3, <2>1
    <3>2. res[i] = NormalizeMintQuoteResponse(method, answers[i])
      BY <3>1
    <3>3. ~IsFailure(res[i]) /\ (method = "bolt11" => Bolt11AmountMatches(res[i], res[i].amount))
      BY <1>2, <3>1
    <3>4. QED
      BY <3>1, <3>2, <3>3, <2>2
  <2>4. held'[q] = r /\ ~IsFailure(r) /\ (asked[q].method = "bolt11" => r.invoice = 1000 * r.amount)
    <3> HIDE DEF res, raw, r
    <3>1. QED
      BY <2>1, <2>2, <2>3 DEF Bolt11AmountMatches
  <2>5. Telling(raw, q, asked[q], ledger[q])
    <3>1. QED
      BY <2>2, AnswersTell
  <2>6. raw.pubkey = asked[q].pubkey
    BY DEF AnswerAbout
  <2>7. r = NormalizeMintQuoteResponse(asked'[q].method, raw) /\ asked' = asked /\ UNCHANGED ledger
    BY <1>4
  <2> HIDE DEF raw, r, res
  <2>8. QED
    BY <2>2, <2>4, <2>5, <2>6, <2>7, AnswerIsHeld
<1>7. HeldInv'
  <2>1. \A q \in QuoteIds : q \in ToSet(quotes) => asked[q] # Null
    BY <1>1, <1>4 DEF ToSet, QuoteInv, HeldInv
  <2>2. QED
    BY <1>4, <1>5, <1>6, <2>1 DEF QuoteInv, HeldInv, Held, Accounts
<1>8. LedgerInv' /\ MeltInv' /\ RefusalsAreRight'
  BY <1>4 DEF QuoteInv, LedgerInv, Accounts, MeltInv, RefusalsAreRight
<1>9. QED
  BY <1>7, <1>8 DEF QuoteInv

LEMMA MintStep ==
  ASSUME QuoteInv, NEW q \in QuoteIds, NEW amount \in Sizes, NEW k, Mint(q, amount, k)
  PROVE  QuoteInv'
<1>1. /\ amount \in Nat \ {0} /\ held[q] # Null /\ asked[q] # Null /\ asked[q] \in Asked
      /\ ledger[q] \in [paid : Nat, issued : Nat] /\ asked[q].amount \in Nat \ {0}
      /\ Accounts(asked[q], ledger[q]) /\ Held(q)
      /\ UNCHANGED <<legacy, asked, held, melt>>
  BY QuoteSizes, QuoteTypes DEF Mint, QuoteInv, HeldInv, LedgerInv
<1>2. MeltInv'
  BY <1>1 DEF QuoteInv, MeltInv
<1>3. CASE TooMuch(held[q], amount)
  <2>1. /\ outcome' = [of |-> "wallet", wrong |-> WouldIssue(q, amount), method |-> asked[q].method, fresh |-> q \in fresh]
        /\ UNCHANGED <<ledger, fresh>>
    BY <1>3 DEF Mint
  <2>2. SingleUse(asked[q].method) \/ q \in fresh => ~WouldIssue(q, amount)
    BY <1>1, <1>3 DEF TooMuch, WouldIssue, Payable, Held, Accounts
  <2>3. RefusalsAreRight'
    BY <2>1, <2>2 DEF RefusalsAreRight
  <2>4. LedgerInv' /\ HeldInv'
    BY <1>1, <2>1 DEF QuoteInv, LedgerInv, HeldInv, Held, Accounts
  <2>5. QED
    BY <1>2, <2>3, <2>4 DEF QuoteInv
<1>4. CASE /\ ~TooMuch(held[q], amount)
           /\ ~WouldIssue(q, amount) \/ (asked[q].pubkey # Null /\ asked[q].pubkey # k)
  <2>1. /\ outcome' = [of |-> "mint", wrong |-> FALSE, method |-> asked[q].method, fresh |-> q \in fresh]
        /\ UNCHANGED <<ledger, fresh>>
    BY <1>4 DEF Mint
  <2>2. RefusalsAreRight'
    BY <2>1 DEF RefusalsAreRight
  <2>3. LedgerInv' /\ HeldInv'
    BY <1>1, <2>1 DEF QuoteInv, LedgerInv, HeldInv, Held, Accounts
  <2>4. QED
    BY <1>2, <2>2, <2>3 DEF QuoteInv
<1>5. CASE /\ ~TooMuch(held[q], amount) /\ WouldIssue(q, amount)
           /\ ~(asked[q].pubkey # Null /\ asked[q].pubkey # k)
  <2>1. /\ outcome' = Null /\ fresh' = fresh \ {q}
        /\ ledger' = [ledger EXCEPT ![q].issued = @ + amount]
    BY <1>5 DEF Mint
  <2>2. /\ ledger' \in [QuoteIds -> [paid : Nat, issued : Nat]]
        /\ ledger'[q].issued = ledger[q].issued + amount /\ ledger'[q].paid = ledger[q].paid
        /\ \A p \in QuoteIds : p # q => ledger'[p] = ledger[p]
    BY <1>1, <2>1 DEF QuoteInv, LedgerInv
  <2>3. Accounts(asked[q], ledger[q])'
    BY <1>1, <1>5, <2>2 DEF Accounts, WouldIssue, Payable
  <2>4. LedgerInv'
    BY <1>1, <2>2, <2>3 DEF QuoteInv, LedgerInv, Accounts
  <2>5. HeldInv'
    BY <1>1, <2>1, <2>2 DEF QuoteInv, HeldInv, Held, Accounts
  <2>6. QED
    BY <1>2, <2>1, <2>4, <2>5 DEF QuoteInv, RefusalsAreRight
<1>6. QED
  BY <1>3, <1>4, <1>5

LEMMA MintBatchStep ==
  ASSUME QuoteInv, NEW quotes \in SUBSET QuoteIds, NEW amounts \in [QuoteIds -> Sizes], NEW keys,
         MintBatch(quotes, amounts, keys)
  PROVE  QuoteInv'
<1>1. /\ UNCHANGED <<legacy, asked, held, melt>> /\ MeltInv'
      /\ \A q \in quotes : held[q] # Null
  BY DEF MintBatch, QuoteInv, MeltInv
<1>2. \/ /\ UNCHANGED <<ledger, fresh>>
         /\ \/ outcome' = [of |-> "wallet", wrong |-> FALSE, method |-> "batch", fresh |-> FALSE]
            \/ outcome' = [of |-> "mint", wrong |-> FALSE, method |-> "batch", fresh |-> FALSE]
      \/ /\ outcome' = Null /\ fresh' = fresh \ quotes
         /\ \A q \in quotes : WouldIssue(q, amounts[q])
         /\ ledger' = [q \in QuoteIds |->
                         IF q \in quotes THEN [ledger[q] EXCEPT !.issued = @ + amounts[q]] ELSE ledger[q]]
  BY DEF MintBatch
<1>3. RefusalsAreRight'
  BY <1>2 DEF RefusalsAreRight
<1>4. CASE UNCHANGED <<ledger, fresh>>
  <2>1. LedgerInv' /\ HeldInv'
    BY <1>1, <1>4 DEF QuoteInv, LedgerInv, HeldInv, Held, Accounts
  <2>2. QED
    BY <1>1, <1>3, <2>1 DEF QuoteInv
<1>5. CASE /\ outcome' = Null /\ fresh' = fresh \ quotes
           /\ \A q \in quotes : WouldIssue(q, amounts[q])
           /\ ledger' = [q \in QuoteIds |->
                           IF q \in quotes THEN [ledger[q] EXCEPT !.issued = @ + amounts[q]] ELSE ledger[q]]
  <2>1. \A q \in quotes : /\ asked[q] # Null /\ asked[q] \in Asked /\ asked[q].amount \in Nat \ {0}
                          /\ ledger[q] \in [paid : Nat, issued : Nat] /\ Accounts(asked[q], ledger[q])
                          /\ amounts[q] \in Nat \ {0}
    BY <1>1, QuoteTypes, QuoteSizes DEF QuoteInv, HeldInv, LedgerInv
  <2>2. /\ ledger' \in [QuoteIds -> [paid : Nat, issued : Nat]]
        /\ \A q \in quotes : ledger'[q].issued = ledger[q].issued + amounts[q] /\ ledger'[q].paid = ledger[q].paid
        /\ \A q \in QuoteIds : q \notin quotes => ledger'[q] = ledger[q]
    <3>1. \A q \in quotes : [ledger[q] EXCEPT !.issued = @ + amounts[q]]
                              = [paid |-> ledger[q].paid, issued |-> ledger[q].issued + amounts[q]]
      BY <2>1
    <3>2. QED
      BY <1>5, <2>1, <3>1 DEF QuoteInv, LedgerInv
  <2>3. \A q \in quotes : Accounts(asked[q], ledger[q])'
    BY <1>1, <1>5, <2>1, <2>2 DEF Accounts, WouldIssue, Payable
  <2>4. LedgerInv'
    BY <1>1, <2>1, <2>2, <2>3 DEF QuoteInv, LedgerInv, Accounts
  <2>5. HeldInv'
    BY <1>1, <1>5, <2>1, <2>2 DEF QuoteInv, HeldInv, Held, Accounts
  <2>6. QED
    BY <1>1, <1>3, <2>4, <2>5 DEF QuoteInv
<1>6. QED
  BY <1>2, <1>4, <1>5

\* A melt quote that passes asks at most the invoice, rounded up.
LEMMA CreateMeltQuoteStep ==
  ASSUME QuoteInv, NEW method, NEW invoice \in Msats \cup {Null}, NEW given \in Msats \cup {Null},
         NEW part \in Msats \cup {Null}, NEW amount \in Sizes, NEW raw \in MeltAnswers(method, amount),
         CreateMeltQuote(method, invoice, given, part, raw)
  PROVE  QuoteInv'
<1> DEFINE res == NormalizeMelt(method, raw)
           expected == IF part # Null THEN part ELSE IF invoice # Null THEN invoice ELSE given
<1>1. /\ UNCHANGED <<legacy, asked, ledger, held, fresh, outcome>>
      /\ \/ melt' = [method |-> method, asked |-> expected, quote |-> Null, sent |-> FALSE]
         \/ /\ ~(method = "bolt11" /\ Overcharges(res.amount, expected)) /\ ~IsFailure(res)
            /\ melt' = [method |-> method, asked |-> expected, quote |-> res, sent |-> FALSE]
  BY DEF CreateMeltQuote
<1>2. expected \in Msats \cup {Null} /\ amount \in Nat
  BY QuoteSizes
<1>3. ~IsFailure(res) => res.amount = amount
  <2>1. ~IsFailure(res) => res = raw
    BY DEF NormalizeMelt, IsFailure, Failure
  <2>2. raw.amount = amount
    BY DEF MeltAnswers
  <2>3. QED
    BY <2>1, <2>2
<1> HIDE DEF res, expected
<1>4. ~Overcharges(amount, expected) /\ expected # Null => 1000 * amount < expected + 1000
  BY <1>2, QuoteSizes DEF Overcharges
<1>5. MeltInv'
  BY <1>1, <1>3, <1>4 DEF MeltInv
<1>6. LedgerInv' /\ HeldInv' /\ RefusalsAreRight'
  BY <1>1 DEF QuoteInv, LedgerInv, HeldInv, Held, Accounts, RefusalsAreRight
<1>7. QED
  BY <1>5, <1>6 DEF QuoteInv

LEMMA MeltOnchainStep ==
  ASSUME QuoteInv, NEW index, NEW sum, NEW fee, MeltOnchain(index, sum, fee)
  PROVE  QuoteInv'
<1>1. /\ UNCHANGED <<legacy, asked, ledger, held, fresh, outcome>>
      /\ melt # Null /\ melt' = [melt EXCEPT !.sent = TRUE]
  BY DEF MeltOnchain
<1>2. MeltInv'
  <2> DEFINE new == [method |-> melt.method, asked |-> melt.asked, quote |-> melt.quote, sent |-> TRUE]
  <2>1. melt' = new /\ new.quote = melt.quote /\ new.method = melt.method /\ new.asked = melt.asked
    BY <1>1 DEF QuoteInv, MeltInv
  <2>2. new = [method |-> new.method, asked |-> new.asked, quote |-> new.quote, sent |-> new.sent]
    OBVIOUS
  <2> HIDE DEF new
  <2>3. melt'.quote = melt.quote /\ melt'.method = melt.method /\ melt'.asked = melt.asked
    BY <2>1
  <2>4. QED
    <3>1. melt' = [method |-> melt'.method, asked |-> melt'.asked, quote |-> melt'.quote, sent |-> melt'.sent]
      BY <2>1, <2>2
    <3>2. melt.quote # Null /\ melt.method = "bolt11" /\ melt.asked # Null => 1000 * melt.quote.amount < melt.asked + 1000
      BY <1>1 DEF QuoteInv, MeltInv
    <3>3. melt'.quote # Null /\ melt'.method = "bolt11" /\ melt'.asked # Null =>
            1000 * melt'.quote.amount < melt'.asked + 1000
      BY <3>2, <2>3
    <3>4. QED
      BY <3>1, <3>3, Zenon DEF MeltInv
<1>3. LedgerInv' /\ HeldInv' /\ RefusalsAreRight'
  BY <1>1 DEF QuoteInv, LedgerInv, HeldInv, Held, Accounts, RefusalsAreRight
<1>4. QED
  BY <1>2, <1>3 DEF QuoteInv

LEMMA QuotesStep == QuoteInv /\ [QuotesNext]_quoteVars => QuoteInv'
<1> SUFFICES ASSUME QuoteInv, [QuotesNext]_quoteVars
             PROVE  QuoteInv'
  OBVIOUS
<1>1. CASE UNCHANGED quoteVars
  BY <1>1 DEF quoteVars, QuoteInv, LedgerInv, HeldInv, Held, Accounts, MeltInv, RefusalsAreRight
<1>2. CASE MintSide
  BY <1>2, PayStep DEF MintSide
<1>3. CASE MintQuotes
  BY <1>3, CreateMintQuoteStep, CheckMintQuoteStep, CheckMintQuoteBatchStep DEF MintQuotes
<1>4. CASE Mints
  BY <1>4, MintStep, MintBatchStep DEF Mints
<1>5. CASE Melts
  BY <1>5, CreateMeltQuoteStep, MeltOnchainStep DEF Melts
<1>6. QED
  BY <1>1, <1>2, <1>3, <1>4, <1>5 DEF QuotesNext

LEMMA QuoteInvHolds == QuotesSpec => []QuoteInv
BY QuotesStart, QuotesStep, PTL DEF QuotesSpec

\* A quote the wallet returned is the one asked for, and true until something changes at the
\* mint, whether it accounts or tells only a state; and a bolt11 melt quote asks for less
\* than a sat more than the invoice (normalizeMintQuoteResponse, the check* methods).
THEOREM QuotesAreTrueHolds == QuotesSpec => []QuotesAreTrue
<1>1. QuoteInv => QuotesAreTrue
  BY DEF QuoteInv, LedgerInv, HeldInv, Held, MeltInv, QuotesAreTrue
<1>2. QED
  BY <1>1, QuoteInvHolds, PTL

\* The wallet refuses to mint only what the mint would not issue either: for a single-use
\* quote however old the object is, for the others if nothing has changed since
\* (validateMintQuoteAvailableAmount).
THEOREM RefusalsAreRightHolds == QuotesSpec => []RefusalsAreRight
<1>1. QuoteInv => RefusalsAreRight
  BY DEF QuoteInv
<1>2. QED
  BY <1>1, QuoteInvHolds, PTL

(***************************************************************************)
(* Sums over finite sets.                                                  *)
(*                                                                         *)
(* The sum of the community modules is a recursive function whose elements *)
(* come in the order of CHOOSE.  That it has a value, and that any order   *)
(* would do, follows by smallest counterexamples.                          *)
(***************************************************************************)
\* A nonempty set of naturals has a least element: the induction of what follows.
LEMMA SmallestNat ==
  ASSUME NEW N \in SUBSET Nat, N # {}
  PROVE  \E n \in N : \A m \in N : n <= m
<1> DEFINE R == {ss \in Nat \X Nat : ss[1] < ss[2]}
<1>1. IsWellFoundedOn(R, Nat)
  BY NatLessThanWellFounded DEF OpToRel
<1> HIDE DEF R
<1>2. PICK n \in N : \A m \in N : ~(<<m, n>> \in R)
  BY <1>1, WFMin
<1>3. \A m \in N : ~(m < n)
  BY <1>2 DEF R
<1>4. QED
  BY <1>3

\* Among finite sets one is smallest.
LEMMA SmallestSet ==
  ASSUME NEW X, X # {}, \A s \in X : IsFiniteSet(s)
  PROVE  \E s \in X : \A t \in X : Cardinality(s) <= Cardinality(t)
<1> DEFINE N == {Cardinality(s) : s \in X}
<1>1. N \in SUBSET Nat /\ N # {}
  BY FS_CardinalityType
<1> HIDE DEF N
<1>2. PICK n \in N : \A m \in N : n <= m
  BY <1>1, SmallestNat
<1>3. QED
  BY <1>2 DEF N

\* g[s] is the sum over s of the weights w, summed up in the order of CHOOSE.
First(s) == CHOOSE x \in s : TRUE
Sums(g, S, w) == g = [s \in SUBSET S |-> IF s = {} THEN 0 ELSE w[First(s)] + g[s \ {First(s)}]]

\* A set without one of its elements.
LEMMA Smaller ==
  ASSUME NEW s, IsFiniteSet(s), NEW x \in s
  PROVE  /\ IsFiniteSet(s \ {x}) /\ Cardinality(s) \in Nat /\ Cardinality(s \ {x}) \in Nat
         /\ Cardinality(s \ {x}) = Cardinality(s) - 1
BY FS_RemoveElement, FS_CardinalityType

\* The recursion has a solution.
LEMMA SumsExist ==
  ASSUME NEW S, IsFiniteSet(S), NEW w, \A x \in S : w[x] \in Nat
  PROVE  \E g : Sums(g, S, w) /\ g \in [SUBSET S -> Nat]
<1> DEFINE Sub(n) == {s \in SUBSET S : Cardinality(s) <= n}
           Solves(g, n) == /\ g \in [Sub(n) -> Nat]
                           /\ \A s \in Sub(n) : g[s] = IF s = {} THEN 0 ELSE w[First(s)] + g[s \ {First(s)}]
           N == {n \in Nat : ~\E g : Solves(g, n)}
<1>1. \A s \in SUBSET S : IsFiniteSet(s) /\ Cardinality(s) \in Nat /\ Cardinality(s) <= Cardinality(S)
  BY FS_Subset, FS_CardinalityType
<1>2. \A s \in SUBSET S : s # {} => /\ First(s) \in s /\ s \ {First(s)} \in SUBSET S
                                    /\ Cardinality(s \ {First(s)}) = Cardinality(s) - 1
  BY <1>1, Smaller DEF First
<1>3. N = {}
  <2> SUFFICES ASSUME N # {}
               PROVE  FALSE
    OBVIOUS
  <2>1. PICK n \in N : \A m \in N : n <= m
    BY SmallestNat
  <2>2. n \in Nat /\ ~\E g : Solves(g, n)
    OBVIOUS
  <2>3. CASE n = 0
    <3>1. \A s \in Sub(0) : s = {}
      BY <1>1, FS_EmptySet
    <3>2. Solves([s \in Sub(0) |-> 0], 0)
      BY <3>1
    <3>3. QED
      BY <2>2, <2>3, <3>2
  <2>4. CASE n > 0
    <3>1. n - 1 \in Nat /\ n - 1 \notin N
      <4> HIDE DEF N
      <4>1. QED
        BY <2>1, <2>2, <2>4
    <3>2. PICK g : Solves(g, n - 1)
      BY <3>1
    <3> DEFINE h == [s \in Sub(n) |-> IF s = {} THEN 0 ELSE w[First(s)] + g[s \ {First(s)}]]
    <3>3. \A s \in Sub(n) : s # {} => s \ {First(s)} \in Sub(n - 1) /\ s \ {First(s)} \in Sub(n)
      BY <1>1, <1>2, <2>2
    <3>4. \A s \in Sub(n - 1) : s \in Sub(n) /\ h[s] = g[s]
      BY <1>1, <2>2, <3>2
    <3>5. h \in [Sub(n) -> Nat]
      <4>1. \A s \in Sub(n) : (IF s = {} THEN 0 ELSE w[First(s)] + g[s \ {First(s)}]) \in Nat
        BY <1>2, <3>2, <3>3
      <4>2. QED
        BY <4>1
    <3>6. \A s \in Sub(n) : h[s] = IF s = {} THEN 0 ELSE w[First(s)] + h[s \ {First(s)}]
      BY <3>3, <3>4
    <3>7. Solves(h, n)
      BY <3>5, <3>6
    <3>8. QED
      BY <2>2, <3>7
  <2>5. QED
    BY <2>2, <2>3, <2>4
<1>4. Sub(Cardinality(S)) = SUBSET S /\ Cardinality(S) \in Nat
  BY <1>1
<1>5. PICK g : Solves(g, Cardinality(S))
  BY <1>3, <1>4
<1>6. g = [s \in SUBSET S |-> g[s]]
  BY <1>4, <1>5
<1>7. g = [s \in SUBSET S |-> IF s = {} THEN 0 ELSE w[First(s)] + g[s \ {First(s)}]]
  BY <1>4, <1>5, <1>6
<1>8. QED
  BY <1>4, <1>5, <1>7 DEF Sums

\* Its solutions agree where they are both defined.
LEMMA SumsAgree ==
  ASSUME NEW S, IsFiniteSet(S), NEW T, IsFiniteSet(T), NEW w, NEW v, NEW g, NEW h, Sums(g, S, w), Sums(h, T, v),
         \A x \in S \cap T : w[x] = v[x], NEW s \in SUBSET (S \cap T)
  PROVE  g[s] = h[s]
<1> DEFINE X == {t \in SUBSET (S \cap T) : g[t] # h[t]}
<1> SUFFICES ASSUME X # {}
             PROVE  FALSE
  OBVIOUS
<1>1. \A t \in SUBSET (S \cap T) : IsFiniteSet(t)
  BY FS_Subset
<1>2. PICK t \in X : \A u \in X : Cardinality(t) <= Cardinality(u)
  <2> HIDE DEF X
  <2>1. \A u \in X : IsFiniteSet(u)
    BY <1>1 DEF X
  <2>2. QED
    BY <2>1, SmallestSet
<1>3. /\ g[t] = IF t = {} THEN 0 ELSE w[First(t)] + g[t \ {First(t)}]
      /\ h[t] = IF t = {} THEN 0 ELSE v[First(t)] + h[t \ {First(t)}]
  BY DEF Sums
<1>4. t # {}
  BY <1>3
<1>5. First(t) \in t
  BY <1>4 DEF First
<1>6. g[t \ {First(t)}] # h[t \ {First(t)}]
  BY <1>3, <1>4, <1>5
<1>7. t \ {First(t)} \in X
  BY <1>6
<1> HIDE DEF X
<1>8. Cardinality(t) <= Cardinality(t \ {First(t)})
  BY <1>2, <1>7
<1>9. IsFiniteSet(t)
  BY <1>1, <1>2 DEF X
<1>10. Cardinality(t) \in Nat /\ Cardinality(t \ {First(t)}) = Cardinality(t) - 1
  BY <1>5, <1>9, Smaller
<1>11. QED
  BY <1>8, <1>10

\* The order does not matter: any element may be the last one added.
LEMMA SumsAnyOrder ==
  ASSUME NEW S, IsFiniteSet(S), NEW w, \A x \in S : w[x] \in Nat, NEW g, Sums(g, S, w), \A t \in SUBSET S : g[t] \in Nat,
         NEW s \in SUBSET S, NEW x \in s
  PROVE  g[s] = w[x] + g[s \ {x}]
<1> DEFINE X == {t \in SUBSET S : \E y \in t : g[t] # w[y] + g[t \ {y}]}
<1> SUFFICES ASSUME X # {}
             PROVE  FALSE
  OBVIOUS
<1>1. \A t \in SUBSET S : IsFiniteSet(t) /\ g[t] \in Nat
  BY FS_Subset
<1>2. PICK t \in X : \A u \in X : Cardinality(t) <= Cardinality(u)
  <2> HIDE DEF X
  <2>1. \A u \in X : IsFiniteSet(u)
    BY <1>1 DEF X
  <2>2. QED
    BY <2>1, SmallestSet
<1>3. PICK y \in t : g[t] # w[y] + g[t \ {y}]
  OBVIOUS
<1> DEFINE z == First(t)
<1>4. z \in t /\ t \in SUBSET S
  BY DEF First
<1>5. g[t] = w[z] + g[t \ {z}]
  BY <1>4 DEF Sums
<1>6. y # z
  BY <1>3, <1>5
<1> HIDE DEF z
<1>7. t \ {z} \notin X /\ t \ {y} \notin X
  <2>1. /\ Cardinality(t) \in Nat
        /\ Cardinality(t \ {z}) = Cardinality(t) - 1 /\ Cardinality(t \ {y}) = Cardinality(t) - 1
    BY <1>1, <1>4, Smaller
  <2> HIDE DEF X
  <2>2. QED
    BY <1>2, <2>1
<1>8. /\ t \ {z} \in SUBSET S /\ y \in t \ {z} /\ t \ {y} \in SUBSET S /\ z \in t \ {y}
      /\ (t \ {z}) \ {y} = (t \ {y}) \ {z} /\ (t \ {z}) \ {y} \in SUBSET S
  BY <1>4, <1>6
<1>9. g[t \ {z}] = w[y] + g[(t \ {z}) \ {y}] /\ g[t \ {y}] = w[z] + g[(t \ {y}) \ {z}]
  BY <1>7, <1>8
<1>10. w[y] \in Nat /\ w[z] \in Nat /\ g[(t \ {z}) \ {y}] \in Nat
  BY <1>4, <1>8
<1>11. g[t] = w[z] + (w[y] + g[(t \ {z}) \ {y}])
  BY <1>5, <1>9
<1>12. w[y] + g[t \ {y}] = w[y] + (w[z] + g[(t \ {z}) \ {y}])
  BY <1>8, <1>9
<1>13. QED
  BY <1>3, <1>10, <1>11, <1>12

\* Gross and Ppk are such sums, of amounts and of fees.
Amount == [p \in Universe |-> p.amount]
Fee    == [p \in Universe |-> FeePpk[p.keyset]]

LEMMA WeightsTyped == Amount \in [Universe -> Nat] /\ Fee \in [Universe -> Nat]
BY FeesAssumption DEF Amount, Fee

LEMMA GrossIsSum ==
  ASSUME NEW P \in SUBSET Universe
  PROVE  \E g : Sums(g, P, Amount) /\ Gross(P) = g[P]
<1> DEFINE Rhs(g) == [s \in SUBSET P |-> IF s = {} THEN 0
                                         ELSE (CHOOSE x \in s : TRUE).amount + g[s \ {CHOOSE x \in s : TRUE}]]
<1>1. \A g : Sums(g, P, Amount) <=> g = Rhs(g)
  <2> SUFFICES ASSUME NEW g
               PROVE  Sums(g, P, Amount) <=> g = Rhs(g)
    OBVIOUS
  <2> DEFINE Lhs == [s \in SUBSET P |-> IF s = {} THEN 0 ELSE Amount[First(s)] + g[s \ {First(s)}]]
  <2>1. \A s \in SUBSET P : s # {} => Amount[First(s)] = (CHOOSE x \in s : TRUE).amount /\ First(s) = CHOOSE x \in s : TRUE
    BY DEF First, Amount
  <2>2. \A s \in SUBSET P : Lhs[s] = Rhs(g)[s]
    BY <2>1
  <2>3. Lhs = Rhs(g)
    <3>1. Lhs = [s \in SUBSET P |-> Lhs[s]] /\ Rhs(g) = [s \in SUBSET P |-> Rhs(g)[s]]
      OBVIOUS
    <3> HIDE DEF Lhs, Rhs
    <3>2. QED
      BY <3>1, <2>2
  <2>4. QED
    BY <2>3 DEF Sums
<1>2. IsFiniteSet(P)
  BY UniverseAssumption, FS_Subset
<1>3. PICK g : Sums(g, P, Amount)
  BY <1>2, WeightsTyped, SumsExist
<1>4. \E h : h = Rhs(h)
  <2> HIDE DEF Rhs
  <2>1. QED
    BY <1>1, <1>3
<1>5. \E h : h = Rhs(h) /\ Gross(P) = h[P]
  BY <1>4 DEF Gross, MapThenSumSet, MapThenFoldSet
<1> HIDE DEF Rhs
<1>6. QED
  BY <1>1, <1>5

LEMMA PpkIsSum ==
  ASSUME NEW P \in SUBSET Universe
  PROVE  \E g : Sums(g, P, Fee) /\ Ppk(P) = g[P]
<1> DEFINE Rhs(g) == [s \in SUBSET P |-> IF s = {} THEN 0
                                         ELSE FeePpk[(CHOOSE x \in s : TRUE).keyset] + g[s \ {CHOOSE x \in s : TRUE}]]
<1>1. \A g : Sums(g, P, Fee) <=> g = Rhs(g)
  <2> SUFFICES ASSUME NEW g
               PROVE  Sums(g, P, Fee) <=> g = Rhs(g)
    OBVIOUS
  <2> DEFINE Lhs == [s \in SUBSET P |-> IF s = {} THEN 0 ELSE Fee[First(s)] + g[s \ {First(s)}]]
  <2>1. \A s \in SUBSET P : s # {} => Fee[First(s)] = FeePpk[(CHOOSE x \in s : TRUE).keyset] /\ First(s) = CHOOSE x \in s : TRUE
    BY DEF First, Fee
  <2>2. \A s \in SUBSET P : Lhs[s] = Rhs(g)[s]
    BY <2>1
  <2>3. Lhs = Rhs(g)
    <3>1. Lhs = [s \in SUBSET P |-> Lhs[s]] /\ Rhs(g) = [s \in SUBSET P |-> Rhs(g)[s]]
      OBVIOUS
    <3> HIDE DEF Lhs, Rhs
    <3>2. QED
      BY <3>1, <2>2
  <2>4. QED
    BY <2>3 DEF Sums
<1>2. IsFiniteSet(P)
  BY UniverseAssumption, FS_Subset
<1>3. PICK g : Sums(g, P, Fee)
  BY <1>2, WeightsTyped, SumsExist
<1>4. \E h : h = Rhs(h)
  <2> HIDE DEF Rhs
  <2>1. QED
    BY <1>1, <1>3
<1>5. \E h : h = Rhs(h) /\ Ppk(P) = h[P]
  BY <1>4 DEF Ppk, MapThenSumSet, MapThenFoldSet
<1> HIDE DEF Rhs
<1>6. QED
  BY <1>1, <1>5

\* Solutions take natural values.
LEMMA SumsNatural ==
  ASSUME NEW S, IsFiniteSet(S), NEW w, \A x \in S : w[x] \in Nat, NEW g, Sums(g, S, w), NEW s \in SUBSET S
  PROVE  g[s] \in Nat
<1>1. PICK h : Sums(h, S, w) /\ h \in [SUBSET S -> Nat]
  BY SumsExist
<1>2. g[s] = h[s]
  BY <1>1, SumsAgree
<1>3. QED
  BY <1>1, <1>2

\* Solutions for a set and for the set without an element.
LEMMA SumsOfFewer ==
  ASSUME NEW P, IsFiniteSet(P), NEW w, \A x \in P : w[x] \in Nat, NEW x \in P,
         NEW g, Sums(g, P, w), NEW h, Sums(h, P \ {x}, w)
  PROVE  g[P] = w[x] + h[P \ {x}]
<1>1. IsFiniteSet(P \ {x})
  BY FS_Subset
<1>2. g[P \ {x}] = h[P \ {x}]
  BY <1>1, SumsAgree
<1>3. \A t \in SUBSET P : g[t] \in Nat
  BY SumsNatural
<1>4. QED
  BY <1>2, <1>3, SumsAnyOrder

\* Gross and Ppk of a set, by any of its elements.
LEMMA Totals ==
  /\ Gross({}) = 0 /\ Ppk({}) = 0
  /\ \A P \in SUBSET Universe :
       /\ Gross(P) \in Nat /\ Ppk(P) \in Nat
       /\ \A x \in P : /\ Gross(P) = x.amount + Gross(P \ {x})
                       /\ Ppk(P) = FeePpk[x.keyset] + Ppk(P \ {x})
<1>1. \A P \in SUBSET Universe : IsFiniteSet(P)
  BY UniverseAssumption, FS_Subset
<1>2. Gross({}) = 0 /\ Ppk({}) = 0
  <2>1. PICK g : Sums(g, {}, Amount) /\ Gross({}) = g[{}]
    BY GrossIsSum
  <2>2. PICK h : Sums(h, {}, Fee) /\ Ppk({}) = h[{}]
    BY PpkIsSum
  <2>3. QED
    BY <2>1, <2>2 DEF Sums
<1>3. \A P \in SUBSET Universe : Gross(P) \in Nat /\ Ppk(P) \in Nat
  <2> SUFFICES ASSUME NEW P \in SUBSET Universe
               PROVE  Gross(P) \in Nat /\ Ppk(P) \in Nat
    OBVIOUS
  <2>1. PICK g : Sums(g, P, Amount) /\ Gross(P) = g[P]
    BY GrossIsSum
  <2>2. PICK h : Sums(h, P, Fee) /\ Ppk(P) = h[P]
    BY PpkIsSum
  <2>3. (\A x \in P : Amount[x] \in Nat) /\ (\A x \in P : Fee[x] \in Nat)
    BY WeightsTyped
  <2>4. QED
    BY <1>1, <2>1, <2>2, <2>3, SumsNatural
<1>4. \A P \in SUBSET Universe : \A x \in P : /\ Gross(P) = x.amount + Gross(P \ {x})
                                              /\ Ppk(P) = FeePpk[x.keyset] + Ppk(P \ {x})
  <2> SUFFICES ASSUME NEW P \in SUBSET Universe, NEW x \in P
               PROVE  /\ Gross(P) = x.amount + Gross(P \ {x})
                      /\ Ppk(P) = FeePpk[x.keyset] + Ppk(P \ {x})
    OBVIOUS
  <2>1. PICK g, gx : Sums(g, P, Amount) /\ Gross(P) = g[P] /\ Sums(gx, P \ {x}, Amount) /\ Gross(P \ {x}) = gx[P \ {x}]
    BY GrossIsSum
  <2>2. PICK h, hx : Sums(h, P, Fee) /\ Ppk(P) = h[P] /\ Sums(hx, P \ {x}, Fee) /\ Ppk(P \ {x}) = hx[P \ {x}]
    BY PpkIsSum
  <2>3. (\A y \in P : Amount[y] \in Nat) /\ (\A y \in P : Fee[y] \in Nat)
    BY WeightsTyped
  <2>4. g[P] = Amount[x] + gx[P \ {x}] /\ h[P] = Fee[x] + hx[P \ {x}]
    BY <1>1, <2>1, <2>2, <2>3, SumsOfFewer
  <2>5. Amount[x] = x.amount /\ Fee[x] = FeePpk[x.keyset]
    BY DEF Amount, Fee
  <2>6. QED
    BY <2>1, <2>2, <2>4, <2>5
<1>5. QED
  BY <1>2, <1>3, <1>4

\* What proofs are worth together and alone, with or without fees.
NetOf(fees, P) == Gross(P) - (IF fees THEN (Ppk(P) + 999) \div 1000 ELSE 0)
Worth(fees, p) == p.amount - (IF fees THEN FeePpk[p.keyset] \div 1000 ELSE 0)

LEMMA NetIs ==
  /\ \A P : Net(P) = NetOf(pick.includeFees, P)
  /\ \A p : ExFee(p) = Worth(pick.includeFees, p)
BY DEF Net, NetOf, ExFee, Worth

LEMMA NetTyped ==
  ASSUME NEW fees \in BOOLEAN
  PROVE  /\ \A P \in SUBSET Universe : NetOf(fees, P) \in Int
         /\ \A p \in Universe : Worth(fees, p) \in Int
         /\ NetOf(fees, {}) = 0
BY Totals, FeesAssumption DEF NetOf, Worth

\* A proof adds what it is worth alone, or one less: the one fee of all is rounded up.
LEMMA NetOfMore ==
  ASSUME NEW fees \in BOOLEAN, NEW P \in SUBSET Universe, NEW x \in P
  PROVE  /\ NetOf(fees, P) <= NetOf(fees, P \ {x}) + Worth(fees, x)
         /\ NetOf(fees, P) >= NetOf(fees, P \ {x}) + Worth(fees, x) - 1
         /\ ~fees => NetOf(fees, P) = NetOf(fees, P \ {x}) + Worth(fees, x)
<1>1. /\ Gross(P) = x.amount + Gross(P \ {x}) /\ Ppk(P) = FeePpk[x.keyset] + Ppk(P \ {x})
      /\ Gross(P \ {x}) \in Nat /\ Ppk(P \ {x}) \in Nat /\ x.amount \in Nat /\ FeePpk[x.keyset] \in Nat
  BY Totals, FeesAssumption
<1>2. \A a, b \in Nat : /\ (a + b + 999) \div 1000 >= (b + 999) \div 1000 + a \div 1000
                        /\ (a + b + 999) \div 1000 <= (b + 999) \div 1000 + a \div 1000 + 1
  OBVIOUS
<1>3. QED
  BY <1>1, <1>2 DEF NetOf, Worth

\* Proofs worth their fee are together worth at least nothing.
LEMMA NetNatural ==
  ASSUME NEW fees \in BOOLEAN, NEW P \in SUBSET Universe, \A p \in P : fees => Worth(fees, p) > 0
  PROVE  NetOf(fees, P) >= 0
<1> DEFINE X == {s \in SUBSET P : 1000 * Gross(s) < Ppk(s)}
<1>1. \A s \in SUBSET P : s \in SUBSET Universe /\ IsFiniteSet(s) /\ Gross(s) \in Nat /\ Ppk(s) \in Nat
  BY Totals, UniverseAssumption, FS_Subset
<1>2. CASE ~fees
  BY <1>1, <1>2 DEF NetOf
<1>3. CASE fees
  <2>1. X = {}
    <3> SUFFICES ASSUME X # {}
                 PROVE  FALSE
      OBVIOUS
    <3>1. \A s \in X : IsFiniteSet(s)
      BY <1>1
    <3>2. PICK s \in X : \A t \in X : Cardinality(s) <= Cardinality(t)
      <4> HIDE DEF X
      <4>1. QED
        BY <3>1, SmallestSet
    <3>3. s # {}
      <4>1. 1000 * Gross(s) < Ppk(s)
        OBVIOUS
      <4>2. Gross({}) = 0 /\ Ppk({}) = 0
        BY Totals
      <4> HIDE DEF X
      <4>3. QED
        BY <4>1, <4>2
    <3>4. PICK x \in s : TRUE
      BY <3>3
    <3>5. /\ Gross(s) = x.amount + Gross(s \ {x}) /\ Ppk(s) = FeePpk[x.keyset] + Ppk(s \ {x})
          /\ x.amount \in Nat /\ FeePpk[x.keyset] \in Nat
      BY <1>1, Totals, FeesAssumption
    <3>6. x.amount - FeePpk[x.keyset] \div 1000 > 0
      BY <1>3 DEF Worth
    <3>7. 1000 * x.amount >= FeePpk[x.keyset]
      BY <3>5, <3>6
    <3>8. s \ {x} \in X
      <4>1. Gross(s \ {x}) \in Nat /\ Ppk(s \ {x}) \in Nat /\ s \ {x} \in SUBSET P
        BY <1>1
      <4>2. QED
        BY <3>5, <3>7, <4>1
    <3>9. Cardinality(s) \in Nat /\ Cardinality(s \ {x}) = Cardinality(s) - 1
      BY <1>1, Smaller
    <3> HIDE DEF X
    <3>10. QED
      BY <3>2, <3>8, <3>9
  <2>2. Ppk(P) <= 1000 * Gross(P) /\ Gross(P) \in Nat /\ Ppk(P) \in Nat
    BY <1>1, <2>1
  <2>3. \A a, b \in Nat : a <= 1000 * b => (a + 999) \div 1000 <= b
    OBVIOUS
  <2>4. QED
    BY <2>2, <2>3 DEF NetOf
<1>4. QED
  BY <1>2, <1>3

(***************************************************************************)
(* Selection, for any proofs, fees, targets and orders of the shuffles.    *)
(***************************************************************************)
Attempts ==
  {a \in [pool : SUBSET coins, target : Int, forced : SUBSET coins] : a.forced = {} => a.target = pick.target}

SelectionTypeInv ==
  /\ pick \in [target : Targets, includeFees : BOOLEAN, exactMatch : BOOLEAN,
               rotating : BOOLEAN, repeated : BOOLEAN]
  /\ coins \in SUBSET Universe /\ attempts \in Seq(Attempts)
  /\ phase \in {"start", "attempt", "greedy", "improve", "trim", "judge", "end", "failed"}
  /\ phase \in {"attempt", "greedy", "improve", "trim", "judge"} => attempts # <<>>

\* An exact trial never passes its target.
ChosenInv ==
  phase \in {"greedy", "improve"} =>
    /\ chosen \subseteq Economical(Attempt.pool) /\ visit \subseteq Economical(Attempt.pool)
    /\ pick.exactMatch /\ chosen # {} => NetOf(pick.includeFees, chosen) <= Attempt.target

\* What may become the answer of an attempt.
Good(P) ==
  /\ P \subseteq Economical(Attempt.pool) /\ NetOf(pick.includeFees, P) >= Attempt.target
  /\ pick.exactMatch /\ P # {} => NetOf(pick.includeFees, P) = Attempt.target

BestInv ==
  /\ phase \in {"greedy", "improve", "judge"} => best = Undefined \/ Good(best)
  /\ phase = "trim" => Good(best) /\ visit = best

SelectionInv == SelectionTypeInv /\ ChosenInv /\ BestInv /\ SelectionCovers

LEMMA SelectionStarts == SelectionInit => SelectionInv
BY TrialsAssumption DEF SelectionInit, SelectionInv, SelectionTypeInv, ChosenInv, BestInv, SelectionCovers, Selected

\* The attempt at work is one of the attempts, and its proofs are among those given.
LEMMA AttemptTyped ==
  ASSUME SelectionTypeInv, attempts # <<>>
  PROVE  /\ Attempt \in Attempts /\ Attempt.target \in Int /\ Attempt.forced \subseteq coins
         /\ Economical(Attempt.pool) \subseteq coins /\ Spendable \subseteq Economical(Attempt.pool)
         /\ \A p \in Economical(Attempt.pool) : pick.includeFees => Worth(pick.includeFees, p) > 0
<1>1. Attempt \in Attempts
  BY DEF SelectionTypeInv, Attempt
<1>2. Attempt.target \in Int /\ Attempt.forced \subseteq coins /\ Attempt.pool \subseteq coins
  BY <1>1 DEF Attempts
<1>3. /\ Economical(Attempt.pool) \subseteq Attempt.pool
      /\ \A p \in Economical(Attempt.pool) : pick.includeFees => Worth(pick.includeFees, p) > 0
  BY NetIs DEF Economical
<1>4. Spendable \subseteq Economical(Attempt.pool)
  BY DEF Spendable, NotTooLarge
<1>5. QED
  BY <1>1, <1>2, <1>3, <1>4

\* What does not concern an attempt leaves it alone.
LEMMA AttemptSame ==
  ASSUME UNCHANGED <<pick, attempts>>
  PROVE  Attempt' = Attempt /\ Economical(Attempt.pool)' = Economical(Attempt.pool)
         /\ pick'.includeFees = pick.includeFees /\ pick'.exactMatch = pick.exactMatch
BY DEF Attempt, Economical, ExFee

\* Short lists and tails are sequences.
LEMMA FewAreSequence ==
  ASSUME NEW T, NEW a \in T
  PROVE  /\ <<a>> \in Seq(T) /\ <<a>> # <<>>
         /\ \A b \in T : <<b, a>> \in Seq(T) /\ <<b, a>> # <<>>
         /\ \A b, c \in T : <<b, c, a>> \in Seq(T) /\ <<b, c, a>> # <<>>
OBVIOUS

LEMMA TailTyped ==
  ASSUME NEW T, NEW s \in Seq(T), Len(s) > 1
  PROVE  Tail(s) \in Seq(T) /\ Tail(s) # <<>>
<1>1. Tail(s) \in Seq(T) /\ Len(Tail(s)) = Len(s) - 1 /\ Len(s) \in Nat
  OBVIOUS
<1>2. Len(<<>>) = 0
  BY EmptySeq
<1>3. Len(Tail(s)) # 0
  BY <1>1
<1>4. QED
  BY <1>1, <1>2, <1>3, Zenon

LEMMA StartSelectionStep == SelectionInv /\ StartSelection => SelectionInv'
<1> SUFFICES ASSUME SelectionInv, StartSelection
             PROVE  SelectionInv'
  OBVIOUS
<1>1. /\ UNCHANGED <<pick, coins, chosen, visit, best, trial>> /\ SelectionTypeInv
      /\ pick.target \in Nat /\ pick.includeFees \in BOOLEAN
  BY TrialsAssumption DEF SelectionInv, StartSelection, SelectionTypeInv
<1>2. \A P \in SUBSET coins : NetOf(pick.includeFees, P) \in Int
  BY <1>1, NetTyped DEF SelectionTypeInv
<1>3. Plain \in Attempts
  BY <1>1 DEF Plain, Attempts
<1>4. \/ phase' = "failed" /\ UNCHANGED <<attempts, answer>>
      \/ answer' = Upto(Min(ForcedExactly)) /\ ForcedExactly # {} /\ phase' = "end" /\ UNCHANGED attempts
      \/ attempts' = RotatingAttempts /\ phase' = "attempt" /\ UNCHANGED answer
      \/ attempts' = <<Plain>> /\ phase' = "attempt" /\ UNCHANGED answer
  BY DEF StartSelection
<1>5. Attempts' = Attempts
  BY <1>1 DEF Attempts
<1>6. CASE phase' = "failed" /\ UNCHANGED <<attempts, answer>>
  BY <1>1, <1>5, <1>6 DEF SelectionInv, SelectionTypeInv, ChosenInv, BestInv, SelectionCovers, Selected
<1>7. CASE answer' = Upto(Min(ForcedExactly)) /\ ForcedExactly # {} /\ phase' = "end" /\ UNCHANGED attempts
  <2>1. PICK k \in ForcedExactly : TRUE
    BY <1>7
  <2>2. BucketKeys \subseteq Int
    BY <1>1, UniverseAssumption DEF BucketKeys, SelectionTypeInv
  <2>3. \A P \in SUBSET coins : Net(P) \in Int
    BY <1>2, NetIs
  <2>4. \A j \in ForcedExactly : j = k
    <3>1. \A j \in BucketKeys : Upto(j) \in SUBSET coins
      BY DEF Upto
    <3>2. QED
      BY <2>2, <2>3, <3>1 DEF ForcedExactly
  <2>5. Min(ForcedExactly) = k /\ k \in Int
    <3>1. k \in Int /\ ForcedExactly = {k}
      BY <2>1, <2>2, <2>4 DEF ForcedExactly
    <3>2. \A n \in Int : Min({n}) = n
      <4> SUFFICES ASSUME NEW n \in Int
                   PROVE  Min({n}) = n
        OBVIOUS
      <4>1. Min({n}) \in {n}
        BY DEF Min
      <4>2. QED
        BY <4>1
    <3>3. QED
      BY <3>1, <3>2
  <2>6. Net(Upto(k)) = pick.target /\ Upto(k) \subseteq coins
    BY <2>1 DEF ForcedExactly, Upto
  <2>7. SelectionCovers'
    BY <1>1, <1>7, <2>5, <2>6 DEF SelectionCovers, Net
  <2>8. QED
    BY <1>1, <1>5, <1>7, <2>7 DEF SelectionInv, SelectionTypeInv, ChosenInv, BestInv
<1>8. CASE attempts' = <<Plain>> /\ phase' = "attempt" /\ UNCHANGED answer
  <2>1. attempts' \in Seq(Attempts) /\ attempts' # <<>>
    BY <1>3, <1>8
  <2>2. QED
    BY <1>1, <1>5, <1>8, <2>1 DEF SelectionInv, SelectionTypeInv, ChosenInv, BestInv, SelectionCovers, Selected
<1>9. CASE attempts' = RotatingAttempts /\ phase' = "attempt" /\ UNCHANGED answer
  <2>1. RotatingAttempts \in Seq(Attempts) /\ RotatingAttempts # <<>>
    <3>1. \A k : \A pool \in SUBSET coins :
            [pool |-> pool, target |-> pick.target - Net(Upto(k) \ Bucket(k)), forced |-> Upto(k) \ Bucket(k)] \in Attempts
      <4> SUFFICES ASSUME NEW k, NEW pool \in SUBSET coins
                   PROVE  [pool |-> pool, target |-> pick.target - Net(Upto(k) \ Bucket(k)),
                           forced |-> Upto(k) \ Bucket(k)] \in Attempts
        OBVIOUS
      <4> DEFINE forced == Upto(k) \ Bucket(k)
      <4>1. forced \in SUBSET coins
        BY DEF Upto
      <4> HIDE DEF forced
      <4>2. Net(forced) \in Int /\ (forced = {} => Net(forced) = 0)
        BY <1>1, <1>2, <4>1, NetIs, NetTyped
      <4>3. [pool |-> pool, target |-> pick.target - Net(forced), forced |-> forced] \in Attempts
        BY <1>1, <4>1, <4>2 DEF Attempts
      <4>4. QED
        BY <4>3 DEF forced
    <3>2. \A k : Bucket(k) \in SUBSET coins /\ coins \ (Upto(k) \ Bucket(k)) \in SUBSET coins
      BY DEF Bucket
    <3>3. \/ RotatingAttempts = <<Plain>>
          \/ \E a \in Attempts : RotatingAttempts = <<a, Plain>>
          \/ \E a, b \in Attempts : RotatingAttempts = <<a, b, Plain>>
      BY <3>1, <3>2 DEF RotatingAttempts
    <3>4. QED
      BY <1>3, <3>3, FewAreSequence
  <2>2. QED
    BY <1>1, <1>5, <1>9, <2>1 DEF SelectionInv, SelectionTypeInv, ChosenInv, BestInv, SelectionCovers, Selected
<1>10. QED
  BY <1>4, <1>6, <1>7, <1>8, <1>9

\* The end of an attempt, with nothing or with a selection that covers.
LEMMA GivesStep ==
  ASSUME SelectionTypeInv, attempts # <<>>, UNCHANGED <<pick, coins>>, NEW send, Gives(send),
         send # {} => /\ send \cup Attempt.forced \subseteq coins
                      /\ IF pick.exactMatch THEN Net(send \cup Attempt.forced) = pick.target
                         ELSE Net(send \cup Attempt.forced) >= pick.target
  PROVE  SelectionInv'
<1>1. Attempts' = Attempts
  BY DEF Attempts
<1>2. CASE attempts' = Tail(attempts) /\ phase' = "attempt" /\ UNCHANGED answer /\ Len(attempts) > 1
  <2>1. Tail(attempts) \in Seq(Attempts) /\ Tail(attempts) # <<>>
    BY <1>2, TailTyped DEF SelectionTypeInv
  <2>2. QED
    BY <1>1, <1>2, <2>1 DEF SelectionInv, SelectionTypeInv, ChosenInv, BestInv, SelectionCovers, Selected
<1>3. CASE /\ answer' = send \cup (IF send = {} THEN {} ELSE Attempt.forced)
           /\ phase' = "end" /\ UNCHANGED attempts
  <2>1. SelectionCovers'
    <3>1. CASE send = {}
      BY <1>3, <3>1 DEF SelectionCovers
    <3>2. CASE send # {}
      <4>1. answer' = send \cup Attempt.forced
        BY <1>3, <3>2
      <4>2. Net(answer)' = Net(send \cup Attempt.forced)
        BY <4>1 DEF Net
      <4>3. QED
        BY <3>2, <4>1, <4>2 DEF SelectionCovers
    <3>3. QED
      BY <3>1, <3>2
  <2>2. QED
    BY <1>1, <1>3, <2>1 DEF SelectionInv, SelectionTypeInv, ChosenInv, BestInv
<1>4. QED
  BY <1>2, <1>3 DEF Gives

\* A trial begins.
LEMMA TrialBegins ==
  ASSUME SelectionTypeInv, attempts # <<>>, UNCHANGED <<pick, coins, attempts, answer>>,
         phase' = "greedy", chosen' = {}, visit' = Spendable, best' = Undefined \/ Good(best)'
  PROVE  SelectionInv'
<1>1. Attempts' = Attempts /\ Attempt' = Attempt /\ Economical(Attempt.pool)' = Economical(Attempt.pool)
  BY AttemptSame DEF Attempts
<1>2. Spendable \subseteq Economical(Attempt.pool)
  BY AttemptTyped
<1>3. SelectionTypeInv'
  BY <1>1 DEF SelectionTypeInv
<1>4. ChosenInv'
  BY <1>1, <1>2 DEF ChosenInv
<1>5. BestInv' /\ SelectionCovers'
  BY DEF BestInv, SelectionCovers, Selected
<1>6. QED
  BY <1>3, <1>4, <1>5 DEF SelectionInv

LEMMA StartAttemptStep == SelectionInv /\ StartAttempt => SelectionInv'
<1> SUFFICES ASSUME SelectionInv, StartAttempt
             PROVE  SelectionInv'
  OBVIOUS
<1>1. SelectionTypeInv /\ attempts # <<>> /\ UNCHANGED <<pick, coins>> /\ best' = Undefined
  BY DEF SelectionInv, SelectionTypeInv, StartAttempt
<1>2. CASE Gives({})
  BY <1>1, <1>2, GivesStep
<1>3. CASE phase' = "greedy" /\ chosen' = {} /\ visit' = Spendable /\ UNCHANGED <<attempts, answer>>
  BY <1>1, <1>3, TrialBegins
<1>4. QED
  BY <1>2, <1>3 DEF StartAttempt

LEMMA GreedyStep == SelectionInv /\ Greedy => SelectionInv'
<1> SUFFICES ASSUME SelectionInv, Greedy
             PROVE  SelectionInv'
  OBVIOUS
<1>1. /\ phase = "greedy" /\ attempts # <<>> /\ UNCHANGED <<pick, coins, attempts, best, trial, answer>>
      /\ SelectionTypeInv /\ ChosenInv /\ (best = Undefined \/ Good(best))
  BY DEF SelectionInv, SelectionTypeInv, BestInv, Greedy
<1>2. /\ Attempts' = Attempts /\ Attempt' = Attempt /\ Economical(Attempt.pool)' = Economical(Attempt.pool)
      /\ pick'.includeFees = pick.includeFees /\ pick'.exactMatch = pick.exactMatch
  BY <1>1, AttemptSame DEF Attempts
<1>3. PICK p \in visit :
        LET net == Net(chosen \cup {p})
            ends == \/ pick.exactMatch /\ net > Attempt.target
                    \/ net >= Attempt.target \/ visit = {p}
        IN /\ chosen' = IF pick.exactMatch /\ net > Attempt.target THEN chosen ELSE chosen \cup {p}
           /\ visit' = IF ends THEN chosen' ELSE visit \ {p}
           /\ phase' = IF ends THEN "improve" ELSE "greedy"
  BY DEF Greedy
<1>4. chosen \cup {p} \subseteq coins /\ NetOf(pick.includeFees, chosen \cup {p}) \in Int /\ Attempt.target \in Int
  BY <1>1, <1>3, AttemptTyped, NetTyped DEF ChosenInv, SelectionTypeInv
<1>5. \/ chosen' = chosen
      \/ /\ chosen' = chosen \cup {p}
         /\ pick.exactMatch => NetOf(pick.includeFees, chosen \cup {p}) <= Attempt.target
  BY <1>3, <1>4, NetIs
<1>6. phase' \in {"greedy", "improve"} /\ (visit' = chosen' \/ visit' = visit \ {p})
  BY <1>3
<1>7. ChosenInv'
  BY <1>1, <1>2, <1>3, <1>5, <1>6 DEF ChosenInv
<1>8. SelectionTypeInv'
  BY <1>1, <1>2, <1>6 DEF SelectionTypeInv
<1>9. BestInv' /\ SelectionCovers'
  BY <1>1, <1>2, <1>6 DEF BestInv, Good, SelectionCovers, Selected
<1>10. QED
  BY <1>7, <1>8, <1>9 DEF SelectionInv

LEMMA ImproveStep == SelectionInv /\ Improve => SelectionInv'
<1> SUFFICES ASSUME SelectionInv, Improve
             PROVE  SelectionInv'
  OBVIOUS
<1>1. /\ phase = "improve" /\ attempts # <<>> /\ UNCHANGED <<pick, coins, attempts, phase, best, trial, answer>>
      /\ SelectionTypeInv /\ ChosenInv /\ (best = Undefined \/ Good(best))
  BY DEF SelectionInv, SelectionTypeInv, BestInv, Improve
<1>2. /\ Attempts' = Attempts /\ Attempt' = Attempt /\ Economical(Attempt.pool)' = Economical(Attempt.pool)
      /\ pick'.includeFees = pick.includeFees /\ pick'.exactMatch = pick.exactMatch
  BY <1>1, AttemptSame DEF Attempts
<1>3. PICK p \in visit :
        /\ visit' = visit \ {p}
        /\ \/ UNCHANGED chosen
           \/ \E q \in Replacements(p) : chosen' = (chosen \ {p}) \cup {q}
  BY DEF Improve
<1>4. ChosenInv'
  <2>1. CASE UNCHANGED chosen
    BY <1>1, <1>2, <1>3, <2>1 DEF ChosenInv
  <2>2. ASSUME NEW q \in Replacements(p), chosen' = (chosen \ {p}) \cup {q}
        PROVE  ChosenInv'
    <3>1. /\ q \in Spendable \ chosen
          /\ pick.exactMatch => Worth(pick.includeFees, q) <= Attempt.target - NetOf(pick.includeFees, chosen \ {p})
      BY <2>2, NetIs DEF Replacements
    <3>2. /\ q \in Economical(Attempt.pool) /\ chosen \subseteq Economical(Attempt.pool)
          /\ Economical(Attempt.pool) \subseteq Universe /\ Attempt.target \in Int
      BY <1>1, <3>1, AttemptTyped DEF ChosenInv, SelectionTypeInv
    <3> DEFINE new == (chosen \ {p}) \cup {q}
    <3>3. new \in SUBSET Universe /\ q \in new /\ new \ {q} = chosen \ {p} /\ chosen \ {p} \in SUBSET Universe
      BY <3>1, <3>2
    <3> HIDE DEF new
    <3>4. /\ NetOf(pick.includeFees, new) <= NetOf(pick.includeFees, chosen \ {p}) + Worth(pick.includeFees, q)
          /\ NetOf(pick.includeFees, new) \in Int /\ NetOf(pick.includeFees, chosen \ {p}) \in Int
          /\ Worth(pick.includeFees, q) \in Int
      <4>1. pick.includeFees \in BOOLEAN
        BY <1>1 DEF SelectionTypeInv
      <4>2. NetOf(pick.includeFees, new) <= NetOf(pick.includeFees, new \ {q}) + Worth(pick.includeFees, q)
        BY <3>3, <4>1, NetOfMore
      <4>3. QED
        BY <3>2, <3>3, <4>1, <4>2, NetTyped
    <3>5. pick.exactMatch => NetOf(pick.includeFees, new) <= Attempt.target
      BY <3>1, <3>2, <3>4
    <3>6. chosen' = new /\ new \subseteq Economical(Attempt.pool) /\ visit' \subseteq Economical(Attempt.pool)
      BY <1>1, <1>3, <2>2, <3>2 DEF new, ChosenInv
    <3>7. QED
      BY <1>1, <1>2, <3>5, <3>6 DEF ChosenInv
  <2>3. QED
    BY <1>3, <2>1, <2>2
<1>5. SelectionTypeInv'
  BY <1>1, <1>2 DEF SelectionTypeInv
<1>6. BestInv' /\ SelectionCovers'
  BY <1>1, <1>2 DEF BestInv, Good, SelectionCovers, Selected
<1>7. QED
  BY <1>4, <1>5, <1>6 DEF SelectionInv

LEMMA CompareStep == SelectionInv /\ Compare => SelectionInv'
<1> SUFFICES ASSUME SelectionInv, Compare
             PROVE  SelectionInv'
  OBVIOUS
<1>1. /\ phase = "improve" /\ attempts # <<>> /\ UNCHANGED <<pick, coins, attempts, chosen, trial, answer>>
      /\ SelectionTypeInv /\ ChosenInv /\ (best = Undefined \/ Good(best))
  BY DEF SelectionInv, SelectionTypeInv, BestInv, Compare
<1>2. /\ Attempts' = Attempts /\ Attempt' = Attempt /\ Economical(Attempt.pool)' = Economical(Attempt.pool)
      /\ pick'.includeFees = pick.includeFees /\ pick'.exactMatch = pick.exactMatch
  BY <1>1, AttemptSame DEF Attempts
<1>3. \/ Net(chosen) >= Attempt.target /\ best' = chosen /\ visit' = chosen /\ phase' = "trim"
      \/ phase' = "judge" /\ UNCHANGED best
  BY DEF Compare
<1>4. SelectionTypeInv'
  BY <1>1, <1>2, <1>3 DEF SelectionTypeInv
<1>5. ChosenInv' /\ SelectionCovers'
  BY <1>1, <1>3 DEF ChosenInv, SelectionCovers, Selected
<1>6. BestInv'
  <2>1. CASE phase' = "judge" /\ UNCHANGED best
    BY <1>1, <1>2, <2>1 DEF BestInv, Good
  <2>2. CASE Net(chosen) >= Attempt.target /\ best' = chosen /\ visit' = chosen /\ phase' = "trim"
    <3>1. /\ chosen \in SUBSET Universe /\ chosen \subseteq Economical(Attempt.pool)
          /\ Attempt.target \in Int /\ NetOf(pick.includeFees, chosen) \in Int
      BY <1>1, AttemptTyped, NetTyped DEF ChosenInv, SelectionTypeInv
    <3>2. Good(chosen)
      BY <1>1, <2>2, <3>1, NetIs DEF Good, ChosenInv
    <3>3. QED
      BY <1>2, <2>2, <3>2 DEF BestInv, Good
  <2>3. QED
    BY <1>3, <2>1, <2>2
<1>7. QED
  BY <1>4, <1>5, <1>6 DEF SelectionInv

\* Without a proof worth its fee a selection is not worth more: an exact one stays exact.
LEMMA TrimStep == SelectionInv /\ Trim => SelectionInv'
<1> SUFFICES ASSUME SelectionInv, Trim
             PROVE  SelectionInv'
  OBVIOUS
<1>1. /\ phase = "trim" /\ attempts # <<>> /\ UNCHANGED <<pick, coins, attempts, chosen, trial, answer>>
      /\ SelectionTypeInv /\ Good(best) /\ visit = best
  BY DEF SelectionInv, SelectionTypeInv, BestInv, Trim
<1>2. /\ Attempts' = Attempts /\ Attempt' = Attempt /\ Economical(Attempt.pool)' = Economical(Attempt.pool)
      /\ pick'.includeFees = pick.includeFees /\ pick'.exactMatch = pick.exactMatch
  BY <1>1, AttemptSame DEF Attempts
<1>3. PICK p \in visit :
        \/ /\ Net(visit \ {p}) >= Attempt.target
           /\ best' = visit \ {p} /\ visit' = visit \ {p} /\ UNCHANGED phase
        \/ phase' = "judge" /\ visit' = {} /\ UNCHANGED best
  BY DEF Trim
<1>4. SelectionTypeInv'
  BY <1>1, <1>2, <1>3 DEF SelectionTypeInv
<1>5. ChosenInv' /\ SelectionCovers'
  BY <1>1, <1>3 DEF ChosenInv, SelectionCovers, Selected
<1>6. BestInv'
  <2>1. CASE phase' = "judge" /\ UNCHANGED best
    BY <1>1, <1>2, <2>1 DEF BestInv, Good
  <2>2. CASE Net(visit \ {p}) >= Attempt.target /\ best' = visit \ {p} /\ visit' = visit \ {p} /\ UNCHANGED phase
    <3>1. /\ best \in SUBSET Universe /\ best \ {p} \in SUBSET Universe /\ p \in best /\ pick.includeFees \in BOOLEAN
          /\ Attempt.target \in Int /\ (pick.includeFees => Worth(pick.includeFees, p) > 0)
      BY <1>1, <1>3, AttemptTyped DEF Good, SelectionTypeInv
    <3>2. /\ NetOf(pick.includeFees, best) \in Int /\ NetOf(pick.includeFees, best \ {p}) \in Int
          /\ Worth(pick.includeFees, p) \in Int
      BY <3>1, NetTyped
    <3>3. NetOf(pick.includeFees, best \ {p}) <= NetOf(pick.includeFees, best)
      <4>1. CASE pick.includeFees
        <5>1. NetOf(pick.includeFees, best) >= NetOf(pick.includeFees, best \ {p}) + Worth(pick.includeFees, p) - 1
          BY <3>1, NetOfMore
        <5>2. Worth(pick.includeFees, p) > 0
          BY <3>1, <4>1
        <5>3. \A a, b, w \in Int : a >= b + w - 1 /\ w > 0 => b <= a
          OBVIOUS
        <5>4. QED
          BY <3>2, <5>1, <5>2, <5>3
      <4>2. CASE ~pick.includeFees
        <5>1. Worth(pick.includeFees, p) >= 0
          BY <3>1, <4>2, FeesAssumption DEF Worth
        <5>2. QED
          BY <3>1, <3>2, <4>2, <5>1, NetOfMore
      <4>3. QED
        BY <4>1, <4>2
    <3>4. NetOf(pick.includeFees, best \ {p}) >= Attempt.target
      BY <1>1, <2>2, NetIs
    <3>5. Good(best \ {p})
      BY <1>1, <3>1, <3>2, <3>3, <3>4 DEF Good
    <3>6. QED
      BY <1>1, <1>2, <2>2, <3>5 DEF BestInv, Good
  <2>3. QED
    BY <1>3, <2>1, <2>2
<1>7. QED
  BY <1>4, <1>5, <1>6 DEF SelectionInv

LEMMA JudgeStep == SelectionInv /\ Judge => SelectionInv'
<1> SUFFICES ASSUME SelectionInv, Judge
             PROVE  SelectionInv'
  OBVIOUS
<1>1. /\ phase = "judge" /\ attempts # <<>> /\ UNCHANGED <<pick, coins, best>>
      /\ SelectionTypeInv /\ (best = Undefined \/ Good(best))
  BY DEF SelectionInv, SelectionTypeInv, BestInv, Judge
<1> DEFINE send == IF best = Undefined THEN {} ELSE best
           fits == IF Attempt.forced = {} \/ send = {} THEN send
                   ELSE IF MergedFits(send) THEN send ELSE {}
<1>2. \/ Gives(fits)
      \/ Gives({})
      \/ phase' = "failed" /\ UNCHANGED <<attempts, answer, chosen, visit, trial>>
      \/ /\ phase' = "greedy" /\ chosen' = {} /\ visit' = Spendable
         /\ UNCHANGED <<attempts, answer>>
  BY DEF Judge
<1>3. fits # {} => /\ fits \cup Attempt.forced \subseteq coins
                   /\ IF pick.exactMatch THEN Net(fits \cup Attempt.forced) = pick.target
                      ELSE Net(fits \cup Attempt.forced) >= pick.target
  <2> SUFFICES ASSUME fits # {}
               PROVE  /\ fits \cup Attempt.forced \subseteq coins
                      /\ IF pick.exactMatch THEN Net(fits \cup Attempt.forced) = pick.target
                         ELSE Net(fits \cup Attempt.forced) >= pick.target
    OBVIOUS
  <2>1. fits = best /\ best # {} /\ Good(best) /\ (Attempt.forced = {} \/ MergedFits(best))
    BY <1>1
  <2>2. best \cup Attempt.forced \subseteq coins
    BY <1>1, <2>1, AttemptTyped DEF Good
  <2>3. CASE Attempt.forced = {}
    <3>1. Attempt.target = pick.target /\ best \cup Attempt.forced = best
      BY <1>1, <2>3, AttemptTyped DEF Attempts
    <3>2. IF pick.exactMatch THEN Net(best) = pick.target ELSE Net(best) >= pick.target
      BY <2>1, <3>1, NetIs DEF Good
    <3> HIDE DEF fits
    <3>3. QED
      BY <2>1, <2>2, <3>1, <3>2
  <2>4. CASE MergedFits(best)
    <3> HIDE DEF fits
    <3>1. QED
      BY <2>1, <2>2, <2>4 DEF MergedFits
  <2>5. QED
    BY <2>1, <2>3, <2>4
<1> HIDE DEF fits
<1>4. CASE Gives(fits)
  BY <1>1, <1>3, <1>4, GivesStep
<1>5. CASE Gives({})
  BY <1>1, <1>5, GivesStep
<1>6. CASE phase' = "failed" /\ UNCHANGED <<attempts, answer, chosen, visit, trial>>
  BY <1>1, <1>6 DEF SelectionInv, SelectionTypeInv, Attempts, ChosenInv, BestInv, SelectionCovers, Selected
<1>7. CASE phase' = "greedy" /\ chosen' = {} /\ visit' = Spendable /\ UNCHANGED <<attempts, answer>>
  <2>1. best' = Undefined \/ Good(best)'
    BY <1>1, <1>7, AttemptSame DEF Good
  <2>2. QED
    BY <1>1, <1>7, <2>1, TrialBegins
<1>8. QED
  BY <1>2, <1>4, <1>5, <1>6, <1>7

LEMMA SelectionStep == SelectionInv /\ [SelectionNext]_selectionVars => SelectionInv'
<1>1. SelectionInv /\ UNCHANGED selectionVars => SelectionInv'
  <2> SUFFICES ASSUME SelectionInv, UNCHANGED selectionVars
               PROVE  SelectionInv'
    OBVIOUS
  <2>1. UNCHANGED <<pick, coins, attempts, phase, chosen, visit, best, answer>>
    BY DEF selectionVars
  <2>2. /\ Attempts' = Attempts /\ Attempt' = Attempt /\ Economical(Attempt.pool)' = Economical(Attempt.pool)
        /\ pick'.includeFees = pick.includeFees /\ pick'.exactMatch = pick.exactMatch
    BY <2>1, AttemptSame DEF Attempts
  <2>3. SelectionTypeInv' /\ ChosenInv'
    BY <2>1, <2>2 DEF SelectionInv, SelectionTypeInv, ChosenInv
  <2>4. BestInv'
    BY <2>1, <2>2 DEF SelectionInv, BestInv, Good
  <2>5. SelectionCovers'
    BY <2>1 DEF SelectionInv, SelectionCovers, Selected, Net
  <2>6. QED
    BY <2>3, <2>4, <2>5 DEF SelectionInv
<1>2. QED
  BY <1>1, StartSelectionStep, StartAttemptStep, GreedyStep, ImproveStep, CompareStep, TrimStep, JudgeStep
     DEF SelectionNext

LEMMA SelectionInvHolds == SelectionSpec => []SelectionInv
BY SelectionStarts, SelectionStep, PTL DEF SelectionSpec

\* Whatever is selected, in whatever order the shuffles come, is made of the proofs given and
\* pays the target and its own fees, to the sat if the match is exact: forced buckets,
\* replacements and trims included (selectProofsRGLI, selectProofsRotating).
THEOREM SelectionCoversHolds == SelectionSpec => []SelectionCovers
<1>1. SelectionInv => SelectionCovers
  BY DEF SelectionInv
<1>2. QED
  BY <1>1, SelectionInvHolds, PTL

\* An exact match loses no solution by leaving out proofs that are too large: the bound
\* allows for the rounding of the one fee.
THEOREM ExactKeepsSolutionsHolds == SelectionSpec => []ExactKeepsSolutions
<1>1. SelectionInv => ExactKeepsSolutions
  <2> SUFFICES ASSUME SelectionInv, phase = "greedy", pick.exactMatch,
                      NEW P \in SUBSET Economical(Attempt.pool), Net(P) = Attempt.target, NEW p \in P
               PROVE  p \in Spendable
    BY DEF ExactKeepsSolutions
  <2>1. SelectionTypeInv /\ attempts # <<>> /\ pick.includeFees \in BOOLEAN
    BY DEF SelectionInv, SelectionTypeInv
  <2>2. /\ P \in SUBSET Universe /\ Attempt.target \in Int /\ P \ {p} \in SUBSET Universe
        /\ \A q \in P : pick.includeFees => Worth(pick.includeFees, q) > 0
    BY <2>1, AttemptTyped DEF SelectionTypeInv
  <2>3. NetOf(pick.includeFees, P \ {p}) >= 0
    BY <2>1, <2>2, NetNatural
  <2>4. /\ NetOf(pick.includeFees, P) >= NetOf(pick.includeFees, P \ {p}) + Worth(pick.includeFees, p) - 1
        /\ NetOf(pick.includeFees, P) = Attempt.target /\ NetOf(pick.includeFees, P \ {p}) \in Int
        /\ Worth(pick.includeFees, p) \in Int
    <3>1. NetOf(pick.includeFees, P) >= NetOf(pick.includeFees, P \ {p}) + Worth(pick.includeFees, p) - 1
      BY <2>1, <2>2, NetOfMore
    <3>2. QED
      BY <2>1, <2>2, <3>1, NetTyped, NetIs
  <2>5. ExFee(p) <= Attempt.target + 1
    BY <2>2, <2>3, <2>4, NetIs
  <2>6. QED
    BY <2>5 DEF Spendable, NotTooLarge
<1>2. QED
  BY <1>1, SelectionInvHolds, PTL
-----------------------------------------------------------------------------
(***************************************************************************)
(* Spending conditions, for any keys, thresholds and locktimes, and any    *)
(* people who sign in any order.  Four facts carry the proof: duplicate    *)
(* keys are dropped, so a list names each holder once; the options, the    *)
(* rules and the split into lock and refund keys keep what the builder was *)
(* told; a holder finds the secret keys of their own keys, blinded or not, *)
(* and of no others; and the signers the verifier counts are as many as    *)
(* the holders among those who signed.  The invariant says that signatures *)
(* are only of people who signed, and are there for every key of theirs    *)
(* that was expected when they did.                                        *)
(***************************************************************************)
\* No two of the keys are of the same person.
Distinct(keys) == \A i, j \in DOMAIN keys : keys[i].x = keys[j].x => i = j

\* A list of keys for the same people, each of whom it names once.
Lists(keys, told) == keys \in Seq(ClearKeys) /\ Distinct(keys) /\ Holders(keys) = Holders(told)

\* Where the deduplication is after the first i keys.
KeptUntil(kept, keys, i) ==
  /\ kept \in Seq(ClearKeys) /\ Distinct(kept)
  /\ Holders(kept) = {keys[j].x : j \in 1..i}

\* The parts of a clear key.
LEMMA ClearKeyParts ==
  ASSUME NEW k \in ClearKeys
  PROVE  /\ k = [x |-> k.x, odd |-> k.odd, slot |-> 0, ephemeral |-> Null]
         /\ XOnly(k) = [x |-> k.x, odd |-> FALSE, slot |-> 0, ephemeral |-> Null]
<1>1. k.slot = 0 /\ k.ephemeral = Null
  BY DEF ClearKeys
<1>2. k = [x |-> k.x, odd |-> k.odd, slot |-> k.slot, ephemeral |-> k.ephemeral]
  BY DEF ClearKeys
<1>3. k = [x |-> k.x, odd |-> k.odd, slot |-> 0, ephemeral |-> Null]
  BY <1>1, <1>2, Zenon
<1>4. PICK x, odd : k = [x |-> x, odd |-> odd, slot |-> 0, ephemeral |-> Null] /\ x = k.x
  BY <1>3
<1>5. [k EXCEPT !.odd = FALSE] = [x |-> x, odd |-> FALSE, slot |-> 0, ephemeral |-> Null]
  <2>1. \A f : [[x |-> x, odd |-> odd, slot |-> 0, ephemeral |-> Null] EXCEPT !.odd = f]
                 = [x |-> x, odd |-> f, slot |-> 0, ephemeral |-> Null]
    OBVIOUS
  <2>2. QED
    BY <1>4, <2>1, Zenon
<1>6. QED
  BY <1>3, <1>4, <1>5 DEF XOnly

\* Clear keys are the same without their parity if they are of the same person.
LEMMA SamePerson ==
  ASSUME NEW k \in ClearKeys, NEW l \in ClearKeys
  PROVE  XOnly(k) = XOnly(l) <=> k.x = l.x
<1>1. XOnly(k) = [x |-> k.x, odd |-> FALSE, slot |-> 0, ephemeral |-> Null]
  BY ClearKeyParts
<1>2. XOnly(l) = [x |-> l.x, odd |-> FALSE, slot |-> 0, ephemeral |-> Null]
  BY ClearKeyParts
<1>3. PICK x, y : x = k.x /\ y = l.x
  OBVIOUS
<1>4. [x |-> x, odd |-> FALSE, slot |-> 0, ephemeral |-> Null]
        = [x |-> y, odd |-> FALSE, slot |-> 0, ephemeral |-> Null] <=> x = y
  OBVIOUS
<1>5. QED
  BY <1>1, <1>2, <1>3, <1>4

\* One more key is kept if its holder is new.
LEMMA KeepFirstStep ==
  ASSUME NEW keys \in Seq(ClearKeys), NEW i \in 1..Len(keys), NEW kept, KeptUntil(kept, keys, i - 1)
  PROVE  KeptUntil(KeepFirst(kept, keys[i]), keys, i)
<1> DEFINE k == keys[i]
           new == KeepFirst(kept, k)
<1>1. /\ Len(keys) \in Nat /\ k \in ClearKeys /\ kept \in Seq(ClearKeys) /\ Distinct(kept)
      /\ Holders(kept) = {keys[j].x : j \in 1..(i - 1)}
  BY DEF KeptUntil
<1>2. {keys[j].x : j \in 1..i} = {keys[j].x : j \in 1..(i - 1)} \cup {k.x}
  <2>1. \A j \in 1..i : j \in 1..(i - 1) \/ j = i
    BY <1>1
  <2>2. \A j \in 1..(i - 1) : j \in 1..i
    BY <1>1
  <2>3. i \in 1..i
    BY <1>1
  <2>4. QED
    BY <2>1, <2>2, <2>3
<1> HIDE DEF k
<1>3. \A j \in DOMAIN kept : kept[j] \in ClearKeys
  BY <1>1
<1>4. CASE \E j \in DOMAIN kept : XOnly(kept[j]) = XOnly(k)
  <2>1. new = kept
    BY <1>4 DEF KeepFirst
  <2>2. k.x \in Holders(kept)
    BY <1>1, <1>3, <1>4, SamePerson DEF Holders
  <2>3. QED
    BY <1>1, <1>2, <2>1, <2>2 DEF KeptUntil, k
<1>5. CASE ~\E j \in DOMAIN kept : XOnly(kept[j]) = XOnly(k)
  <2>1. new = Append(kept, k)
    BY <1>5 DEF KeepFirst
  <2>2. PICK n : n = Len(kept)
    OBVIOUS
  <2>3. /\ n \in Nat /\ new \in Seq(ClearKeys) /\ DOMAIN new = 1..(n + 1) /\ DOMAIN kept = 1..n
        /\ new[n + 1] = k /\ \A j \in 1..n : new[j] = kept[j]
    BY <1>1, <2>1, <2>2
  <2>4. \A j \in 1..n : kept[j].x # k.x
    BY <1>1, <1>3, <1>5, <2>3, SamePerson
  <2> HIDE DEF new
  <2>5. \A j \in 1..(n + 1) : j \in 1..n \/ j = n + 1
    BY <2>3
  <2>6. Distinct(new)
    BY <1>1, <2>3, <2>4, <2>5 DEF Distinct
  <2>7. Holders(new) = Holders(kept) \cup {k.x}
    <3>1. n + 1 \in 1..(n + 1) /\ \A j \in 1..n : j \in 1..(n + 1)
      BY <2>3
    <3>2. QED
      BY <2>3, <2>5, <3>1 DEF Holders
  <2>8. QED
    BY <1>1, <1>2, <2>3, <2>6, <2>7 DEF KeptUntil, new, k
<1>6. QED
  BY <1>4, <1>5

\* dedupeP2PKPubkeys names every holder once.
LEMMA Deduped ==
  ASSUME NEW keys \in Seq(ClearKeys)
  PROVE  Lists(DedupeP2PKPubkeys(keys), keys)
<1> DEFINE n == Len(keys)
           Solves(f) == f = [i \in 0..n |-> IF i = 0 THEN <<>> ELSE KeepFirst(f[i - 1], keys[i])]
           Runs(f, m) == /\ f = [i \in 0..m |-> f[i]] /\ f[0] = <<>>
                         /\ \A i \in 1..m : f[i] = KeepFirst(f[i - 1], keys[i])
           N == {m \in 0..n : ~\E f : Runs(f, m)}
           kept == CHOOSE f : Solves(f)
<1>1. n \in Nat
  OBVIOUS
<1> HIDE DEF n
<1>2. N = {}
  <2> SUFFICES ASSUME N # {}
               PROVE  FALSE
    OBVIOUS
  <2>1. N \in SUBSET Nat
    BY <1>1
  <2>2. PICK m \in N : \A k \in N : m <= k
    BY <2>1, SmallestNat
  <2>3. m \in 0..n /\ ~\E f : Runs(f, m)
    OBVIOUS
  <2>4. CASE m = 0
    <3>1. Runs([i \in 0..0 |-> <<>>], 0)
      OBVIOUS
    <3>2. QED
      BY <2>3, <2>4, <3>1
  <2>5. CASE m # 0
    <3>1. m - 1 \in 0..n /\ m \in Nat
      BY <1>1, <2>3, <2>5
    <3>2. m - 1 \notin N
      <4>1. m - 1 \in N => m <= m - 1
        BY <2>2
      <4>2. QED
        BY <3>1, <4>1
    <3>3. PICK f : Runs(f, m - 1)
      BY <3>1, <3>2
    <3> DEFINE g == [i \in 0..m |-> IF i = m THEN KeepFirst(f[m - 1], keys[m]) ELSE f[i]]
    <3>4. g = [i \in 0..m |-> g[i]] /\ g[0] = <<>>
      BY <2>5, <3>1, <3>3
    <3>5. ASSUME NEW i \in 1..m PROVE g[i] = KeepFirst(g[i - 1], keys[i])
      <4>1. i - 1 \in 0..m /\ i - 1 # m /\ i \in 0..m
        BY <3>1
      <4>2. g[i - 1] = f[i - 1]
        BY <4>1
      <4>3. CASE i = m
        BY <4>1, <4>2, <4>3
      <4>4. CASE i # m
        <5>1. i \in 1..(m - 1)
          BY <3>1, <4>4
        <5>2. QED
          BY <3>3, <4>1, <4>2, <4>4, <5>1
      <4>5. QED
        BY <4>3, <4>4
    <3>6. Runs(g, m)
      BY <3>4, <3>5
    <3>7. QED
      BY <2>3, <3>6
  <2>6. QED
    BY <2>4, <2>5
<1>3. PICK f : Runs(f, n)
  <2>1. n \in 0..n
    BY <1>1
  <2> HIDE DEF Runs
  <2>2. QED
    BY <1>2, <2>1
<1>4. Solves(f)
  BY <1>1, <1>3
<1>5. Solves(kept)
  BY <1>4
<1>6. DedupeP2PKPubkeys(keys) = kept[n]
  BY DEF DedupeP2PKPubkeys, n
<1> HIDE DEF kept
<1>7. kept[0] = <<>> /\ \A i \in 1..n : kept[i] = KeepFirst(kept[i - 1], keys[i])
  BY <1>1, <1>5
<1> DEFINE B == {i \in 0..n : ~KeptUntil(kept[i], keys, i)}
<1>8. B = {}
  <2> SUFFICES ASSUME B # {}
               PROVE  FALSE
    OBVIOUS
  <2>1. B \in SUBSET Nat
    BY <1>1
  <2>2. PICK m \in B : \A k \in B : m <= k
    BY <2>1, SmallestNat
  <2>3. m # 0
    <3>1. <<>> \in Seq(ClearKeys) /\ Distinct(<<>>) /\ Holders(<<>>) = {} /\ {keys[j].x : j \in 1..0} = {}
      BY DEF Distinct, Holders
    <3>2. KeptUntil(kept[0], keys, 0)
      BY <1>7, <3>1 DEF KeptUntil
    <3>3. QED
      BY <3>2
  <2>4. m \in 1..n /\ m - 1 \in 0..n /\ ~(m <= m - 1)
    BY <1>1, <2>3
  <2>5. m - 1 \notin B
    BY <2>2, <2>4
  <2>6. KeptUntil(kept[m - 1], keys, m - 1)
    BY <2>4, <2>5
  <2>7. KeptUntil(kept[m], keys, m)
    BY <1>7, <2>4, <2>6, KeepFirstStep DEF n
  <2>8. QED
    BY <2>7
<1>9. KeptUntil(kept[n], keys, n)
  BY <1>1, <1>8
<1>10. Holders(keys) = {keys[j].x : j \in 1..n}
  BY DEF Holders, n
<1>11. QED
  BY <1>6, <1>9, <1>10 DEF Lists, KeptUntil

\* A sequence is its head and its tail.
LEMMA HeadAndTail ==
  ASSUME NEW S, NEW s \in Seq(S), s # <<>>
  PROVE  <<Head(s)>> \o Tail(s) = s /\ Head(s) \in S /\ Tail(s) \in Seq(S)
OBVIOUS

\* A list names nobody only if it is empty.
LEMMA NobodyHolds ==
  ASSUME NEW T, NEW s \in Seq(T)
  PROVE  Holders(s) = {} <=> s = <<>>
<1>1. s = <<>> => Holders(s) = {}
  BY DEF Holders
<1>2. s # <<>> => s[1].x \in Holders(s)
  BY DEF Holders
<1>3. QED
  BY <1>1, <1>2

\* A list is empty if what it lists is.
LEMMA EmptyLists ==
  ASSUME NEW S, NEW told \in Seq(S), NEW keys, Lists(keys, told)
  PROVE  keys = <<>> <=> told = <<>>
BY NobodyHolds DEF Lists

\* What the builder may be told, or be made from again.
Told(b) ==
  /\ b.hashlock \in BOOLEAN /\ b.blind \in BOOLEAN /\ b.sigAll \in BOOLEAN
  /\ b.locks \in Seq(ClearKeys) /\ b.refunds \in Seq(ClearKeys)

\* Options say what a builder was told.
Says(o, b) ==
  /\ DOMAIN o = {"kind", "data", "pubkeys", "refundKeys", "locktime", "blindKeys", "sigAll", "nSigs", "nSigsRefund"}
  /\ o.kind = IF b.hashlock THEN "HTLC" ELSE "P2PK"
  /\ Lists(LockKeysOf(o), b.locks) /\ Lists(o.refundKeys, b.refunds)
  /\ o.locktime = b.locktime /\ o.blindKeys = b.blind /\ o.sigAll = b.sigAll
  /\ Default(o.nSigs, 1) = Default(b.nSigs, 1) /\ Default(o.nSigsRefund, 1) = Default(b.nSigsRefund, 1)

\* toOptions says it.
LEMMA OptionsSay ==
  ASSUME NEW b, Told(b), NEW o, o = ToOptions(b), ~IsRefused(o)
  PROVE  Says(o, b)
<1> DEFINE locks == DedupeP2PKPubkeys(b.locks)
           refunds == DedupeP2PKPubkeys(b.refunds)
<1>1. Lists(locks, b.locks) /\ Lists(refunds, b.refunds) /\ locks \in Seq(ClearKeys)
  BY Deduped DEF Told, Lists
<1>2. o = OptionsOf(b, locks, refunds)
  BY DEF ToOptions
<1> HIDE DEF locks, refunds
<1>3. ~(locks = <<>> /\ ~b.hashlock)
  BY <1>2 DEF OptionsOf, IsRefused, Refused
<1>4. o = [kind |-> IF b.hashlock THEN "HTLC" ELSE "P2PK",
           data |-> IF b.hashlock THEN Null ELSE Head(locks),
           pubkeys |-> IF b.hashlock THEN locks ELSE Tail(locks),
           refundKeys |-> refunds, locktime |-> b.locktime, blindKeys |-> b.blind, sigAll |-> b.sigAll,
           nSigs |-> IF b.nSigs = 1 /\ locks # <<>> THEN Null ELSE b.nSigs,
           nSigsRefund |-> IF b.nSigsRefund = 1 /\ refunds # <<>> THEN Null ELSE b.nSigsRefund]
  BY <1>2, <1>3, Zenon DEF OptionsOf
<1>5. /\ o.kind = (IF b.hashlock THEN "HTLC" ELSE "P2PK") /\ o.data = (IF b.hashlock THEN Null ELSE Head(locks))
      /\ o.pubkeys = (IF b.hashlock THEN locks ELSE Tail(locks)) /\ o.refundKeys = refunds
      /\ o.locktime = b.locktime /\ o.blindKeys = b.blind /\ o.sigAll = b.sigAll
      /\ o.nSigs = (IF b.nSigs = 1 /\ locks # <<>> THEN Null ELSE b.nSigs)
      /\ o.nSigsRefund = (IF b.nSigsRefund = 1 /\ refunds # <<>> THEN Null ELSE b.nSigsRefund)
  BY <1>4
<1>6. DOMAIN o = {"kind", "data", "pubkeys", "refundKeys", "locktime", "blindKeys", "sigAll", "nSigs", "nSigsRefund"}
  BY <1>4
<1>7. LockKeysOf(o) = locks
  <2>1. CASE b.hashlock
    BY <1>5, <2>1 DEF LockKeysOf
  <2>2. CASE ~b.hashlock
    <3>1. <<Head(locks)>> \o Tail(locks) = locks
      BY <1>1, <1>3, <2>2, HeadAndTail
    <3>2. QED
      BY <1>5, <2>2, <3>1 DEF LockKeysOf
  <2>3. QED
    BY <2>1, <2>2
<1>8. Default(o.nSigs, 1) = Default(b.nSigs, 1) /\ Default(o.nSigsRefund, 1) = Default(b.nSigsRefund, 1)
  BY <1>5, NullAssumption DEF Default
<1>9. QED
  BY <1>1, <1>5, <1>6, <1>7, <1>8 DEF Says

\* A builder made from options is told what they say.
LEMMA OptionsAgain ==
  ASSUME NEW b, Told(b), NEW o, Says(o, b), NEW again, again = ToOptions(FromOptions(o)), ~IsRefused(again)
  PROVE  Says(again, b)
<1> DEFINE c == FromOptions(o)
<1>1. /\ c.locks = LockKeysOf(o) /\ c.refunds = o.refundKeys /\ c.hashlock = (o.kind = "HTLC")
      /\ c.locktime = o.locktime /\ c.blind = o.blindKeys /\ c.sigAll = o.sigAll
      /\ c.nSigs = o.nSigs /\ c.nSigsRefund = o.nSigsRefund
  BY DEF FromOptions, LockKeysOf
<1> HIDE DEF c
<1>2. Lists(LockKeysOf(o), b.locks) /\ Lists(o.refundKeys, b.refunds)
  BY DEF Says
<1>3. c.hashlock = b.hashlock /\ c.blind = b.blind /\ c.sigAll = b.sigAll
  BY <1>1 DEF Says, Told
<1>4. Told(c)
  BY <1>1, <1>2, <1>3 DEF Told, Lists
<1>5. Says(again, c)
  BY <1>4, OptionsSay DEF c
<1>6. Lists(LockKeysOf(again), b.locks) /\ Lists(again.refundKeys, b.refunds)
  BY <1>1, <1>2, <1>5 DEF Says, Lists
<1>7. /\ again.kind = IF b.hashlock THEN "HTLC" ELSE "P2PK"
      /\ again.locktime = b.locktime /\ again.blindKeys = b.blind /\ again.sigAll = b.sigAll
      /\ Default(again.nSigs, 1) = Default(b.nSigs, 1)
      /\ Default(again.nSigsRefund, 1) = Default(b.nSigsRefund, 1)
  BY <1>1, <1>3, <1>5 DEF Says
<1>8. DOMAIN again = {"kind", "data", "pubkeys", "refundKeys", "locktime", "blindKeys", "sigAll", "nSigs", "nSigsRefund"}
  BY <1>5 DEF Says
<1>9. QED
  BY <1>6, <1>7, <1>8 DEF Says

\* normalizeP2PKOptions lets only options pass that keep the rules.
LEMMA NormalSays ==
  ASSUME NEW b, Told(b), NEW o, Says(o, b), NEW n, n = NormalizeP2PKOptions(o), ~IsRefused(n)
  PROVE  /\ Says(n, b)
         /\ SpendingConditionRules(Len(LockKeysOf(n)), Len(n.refundKeys), n.nSigs, n.nSigsRefund, n.locktime # Null)
<1> DEFINE locks == DedupeP2PKPubkeys(LockKeysOf(o))
           refund == DedupeP2PKPubkeys(o.refundKeys)
           nSigs == IF LockKeysOf(o) # <<>> THEN Default(o.nSigs, 1) ELSE o.nSigs
<1>1. Lists(LockKeysOf(o), b.locks) /\ Lists(o.refundKeys, b.refunds)
  BY DEF Says
<1>2. LockKeysOf(o) \in Seq(ClearKeys) /\ o.refundKeys \in Seq(ClearKeys)
  BY <1>1 DEF Lists
<1>3. Lists(locks, LockKeysOf(o)) /\ Lists(refund, o.refundKeys)
  BY <1>2, Deduped
<1>4. Lists(locks, b.locks) /\ Lists(refund, b.refunds) /\ locks \in Seq(ClearKeys)
  BY <1>1, <1>3 DEF Lists
<1>5. n = Normalized(o, locks, refund, nSigs)
  BY DEF NormalizeP2PKOptions
<1>6. Default(nSigs, 1) = Default(b.nSigs, 1)
  BY NullAssumption DEF Default, Says
<1>7. o.kind = "P2PK" => locks # <<>>
  <2>1. o.kind = "P2PK" => LockKeysOf(o) # <<>>
    <3>1. ASSUME o.kind = "P2PK" PROVE LockKeysOf(o) # <<>>
      <4>1. LockKeysOf(o) = <<o.data>> \o o.pubkeys
        BY <3>1 DEF LockKeysOf
      <4>2. ASSUME LockKeysOf(o) = <<>> PROVE FALSE
        BY <4>1, <4>2
      <4>3. QED
        BY <4>2
    <3>2. QED
      BY <3>1
  <2>2. QED
    BY <1>2, <1>3, <2>1, EmptyLists
<1> HIDE DEF locks, refund, nSigs
<1>8. /\ SpendingConditionRules(Len(locks), Len(refund), nSigs, o.nSigsRefund, o.locktime # Null)
      /\ n = [o EXCEPT !.data = IF o.kind = "HTLC" THEN @ ELSE Head(locks),
                       !.pubkeys = IF o.kind = "HTLC" THEN locks ELSE Tail(locks),
                       !.refundKeys = refund, !.nSigs = nSigs]
  BY <1>5 DEF Normalized, IsRefused, Refused
<1>9. o.kind \in {"HTLC", "P2PK"}
  BY DEF Says
<1>10. PICK d, p : /\ d = IF o.kind = "HTLC" THEN o.data ELSE Head(locks)
                   /\ p = IF o.kind = "HTLC" THEN locks ELSE Tail(locks)
  OBVIOUS
<1>11. /\ n.kind = o.kind /\ n.data = (IF o.kind = "HTLC" THEN o.data ELSE Head(locks))
       /\ n.pubkeys = (IF o.kind = "HTLC" THEN locks ELSE Tail(locks)) /\ n.refundKeys = refund
       /\ n.locktime = o.locktime /\ n.blindKeys = o.blindKeys /\ n.sigAll = o.sigAll
       /\ n.nSigs = nSigs /\ n.nSigsRefund = o.nSigsRefund /\ DOMAIN n = DOMAIN o
  <2>1. n = [o EXCEPT !.data = d, !.pubkeys = p, !.refundKeys = refund, !.nSigs = nSigs]
    BY <1>8, <1>10
  <2>2. DOMAIN o = {"kind", "data", "pubkeys", "refundKeys", "locktime", "blindKeys", "sigAll", "nSigs", "nSigsRefund"}
    BY DEF Says
  <2>3. /\ n.kind = o.kind /\ n.data = d /\ n.pubkeys = p /\ n.refundKeys = refund
        /\ n.locktime = o.locktime /\ n.blindKeys = o.blindKeys /\ n.sigAll = o.sigAll
        /\ n.nSigs = nSigs /\ n.nSigsRefund = o.nSigsRefund /\ DOMAIN n = DOMAIN o
    BY <2>1, <2>2
  <2>4. QED
    BY <1>10, <2>3
<1>12. LockKeysOf(n) = locks
  <2>1. CASE o.kind = "HTLC"
    BY <1>11, <2>1 DEF LockKeysOf
  <2>2. CASE o.kind = "P2PK"
    <3>1. <<Head(locks)>> \o Tail(locks) = locks
      BY <1>4, <1>7, <2>2, HeadAndTail
    <3>2. QED
      BY <1>11, <2>2, <3>1 DEF LockKeysOf
  <2>3. QED
    BY <1>9, <2>1, <2>2
<1>13. DOMAIN n = {"kind", "data", "pubkeys", "refundKeys", "locktime", "blindKeys", "sigAll", "nSigs", "nSigsRefund"}
  BY <1>11 DEF Says
<1>14. Says(n, b)
  BY <1>4, <1>6, <1>11, <1>12, <1>13 DEF Says
<1>15. QED
  BY <1>8, <1>11, <1>12, <1>14

\* Keys of secrets, blinded or not.
SecretKey == [x : People, odd : BOOLEAN, slot : Nat, ephemeral : Nat \cup {Null}]

\* The keys of a secret that are for the people told of, in the slots from the first on.
Bears(keys, told, blind, first, ephemeral) ==
  /\ keys \in Seq(SecretKey) /\ Distinct(keys) /\ Holders(keys) = Holders(told)
  /\ \A i \in DOMAIN keys : /\ keys[i].slot = IF blind THEN first + i - 1 ELSE 0
                            /\ keys[i].ephemeral = IF blind THEN ephemeral ELSE Null

\* The locktime as the verifier reads it, and a lock that nobody can spend.
TimeTold(b) == IF b.locktime = 0 THEN Null ELSE b.locktime
Unusable(b) == b.locktime = 0 /\ b.refunds # <<>>

\* A secret that locks as the builder was told to.
LocksAs(secret, b, ephemeral) ==
  /\ secret.kind = IF b.hashlock THEN "HTLC" ELSE "P2PK"
  /\ secret.ephemeral = IF b.blind THEN ephemeral ELSE Null
  /\ Bears(MainKeys(secret), b.locks, b.blind, FirstSlot(secret.kind), ephemeral)
  /\ Bears(secret.tags.refund, b.refunds, b.blind, FirstSlot(secret.kind) + Len(MainKeys(secret)), ephemeral)
  /\ Locktime(secret) = TimeTold(b) /\ SigAllFlag(secret) = b.sigAll
  /\ MainKeys(secret) # <<>> => /\ Default(b.nSigs, 1) \in Nat
                                /\ Default(secret.tags.nSigs, 1) = Default(b.nSigs, 1)
  /\ secret.tags.refund # <<>> => /\ Default(b.nSigsRefund, 1) \in Nat
                                  /\ Default(secret.tags.nSigsRefund, 1) = Default(b.nSigsRefund, 1)
  /\ Unusable(b) \/ WellFormed(secret)

\* Clear keys are keys of secrets.
LEMMA ClearKeysToo == ClearKeys \subseteq SecretKey
<1>1. ASSUME NEW k \in ClearKeys
      PROVE  k \in SecretKey
  BY DEF ClearKeys, SecretKey
<1>2. QED
  BY <1>1

\* Keys are what deriveP2BKBlindedPubkeys makes of the clear ones, if it is asked for.
BlindedFrom(key, clear, blind, slot, ephemeral) ==
  key = IF blind THEN [clear EXCEPT !.slot = slot, !.ephemeral = ephemeral] ELSE clear
AllBlinded(keys, part, blind, first, ephemeral) ==
  \A i \in 1..Len(part) : BlindedFrom(keys[i], part[i], blind, first + i - 1, ephemeral)

\* A key that is blinded, or not, is for the same person.
LEMMA BlindedOrNot ==
  ASSUME NEW clear \in ClearKeys, NEW blind \in BOOLEAN, NEW slot \in Nat, NEW ephemeral \in Nat,
         NEW key, BlindedFrom(key, clear, blind, slot, ephemeral)
  PROVE  /\ key \in SecretKey /\ key.x = clear.x
         /\ key.slot = (IF blind THEN slot ELSE 0)
         /\ key.ephemeral = (IF blind THEN ephemeral ELSE Null)
<1>1. CASE blind
  <2>1. key = [clear EXCEPT !.slot = slot, !.ephemeral = ephemeral]
    BY <1>1 DEF BlindedFrom
  <2>2. clear = [x |-> clear.x, odd |-> clear.odd, slot |-> 0, ephemeral |-> Null]
    BY ClearKeyParts
  <2>3. clear.x \in People /\ clear.odd \in BOOLEAN
    BY DEF ClearKeys
  <2>4. /\ DOMAIN key = {"x", "odd", "slot", "ephemeral"} /\ key = [f \in {"x", "odd", "slot", "ephemeral"} |-> key[f]]
        /\ key.x = clear.x /\ key.odd = clear.odd /\ key.slot = slot /\ key.ephemeral = ephemeral
    BY <2>1, <2>2
  <2>5. key = [x |-> clear.x, odd |-> clear.odd, slot |-> slot, ephemeral |-> ephemeral]
    BY <2>4
  <2>6. key \in SecretKey
    BY <2>3, <2>5 DEF SecretKey
  <2>7. QED
    BY <1>1, <2>4, <2>6
<1>2. CASE ~blind
  <2>1. key = clear
    BY <1>2 DEF BlindedFrom
  <2>2. clear.slot = 0 /\ clear.ephemeral = Null /\ clear \in SecretKey
    BY ClearKeysToo DEF ClearKeys
  <2>3. QED
    BY <1>2, <2>1, <2>2
<1>3. QED
  BY <1>1, <1>2

\* A part of a list of keys, blinded or not, bears the part of the list.
LEMMA PartBears ==
  ASSUME NEW told, NEW part, Lists(part, told), NEW blind \in BOOLEAN, NEW first \in Nat, NEW ephemeral \in Nat,
         NEW keys \in Seq(SecretKey), Len(keys) = Len(part), AllBlinded(keys, part, blind, first, ephemeral)
  PROVE  Bears(keys, told, blind, first, ephemeral)
<1>1. part \in Seq(ClearKeys) /\ Distinct(part) /\ Holders(part) = Holders(told)
  BY DEF Lists
<1>2. PICK n \in Nat : n = Len(part)
  BY <1>1
<1>3. DOMAIN keys = 1..n /\ DOMAIN part = 1..n
  BY <1>1, <1>2
<1>4. ASSUME NEW i \in 1..n
      PROVE  /\ keys[i].x = part[i].x
             /\ keys[i].slot = IF blind THEN first + i - 1 ELSE 0
             /\ keys[i].ephemeral = IF blind THEN ephemeral ELSE Null
  <2>1. part[i] \in ClearKeys
    BY <1>1, <1>2
  <2>2. first + i - 1 \in Nat
    OBVIOUS
  <2>3. BlindedFrom(keys[i], part[i], blind, first + i - 1, ephemeral)
    BY <1>2 DEF AllBlinded
  <2>4. QED
    BY <2>1, <2>2, <2>3, BlindedOrNot
<1>5. Distinct(keys)
  BY <1>1, <1>3, <1>4 DEF Distinct
<1>6. Holders(keys) = Holders(part)
  BY <1>3, <1>4 DEF Holders
<1>7. QED
  BY <1>1, <1>3, <1>4, <1>5, <1>6 DEF Bears

\* The keys a lock is made of: the clear ones, or what is made of them.
MadeOf(keys, clear, blind, first, ephemeral) ==
  keys = IF blind THEN Blinded(clear, first, ephemeral) ELSE clear

\* The keys of a lock, blinded or as they are, split into the lock keys and the refund keys.
LEMMA SplitBears ==
  ASSUME NEW locks, NEW refunds, NEW main, NEW refund, Lists(main, locks), Lists(refund, refunds),
         NEW blind \in BOOLEAN, NEW first \in Nat, NEW ephemeral \in Nat,
         NEW keys, MadeOf(keys, main \o refund, blind, first, ephemeral)
  PROVE  /\ Bears(SubSeq(keys, 1, Len(main)), locks, blind, first, ephemeral)
         /\ Bears(SubSeq(keys, Len(main) + 1, Len(keys)), refunds, blind, first + Len(main), ephemeral)
         /\ Len(SubSeq(keys, 1, Len(main))) = Len(main)
         /\ Len(SubSeq(keys, Len(main) + 1, Len(keys))) = Len(refund)
<1> DEFINE all == main \o refund
<1>1. main \in Seq(ClearKeys) /\ refund \in Seq(ClearKeys) /\ all \in Seq(ClearKeys)
  BY DEF Lists
<1>2. PICK n \in Nat, m \in Nat : n = Len(main) /\ m = Len(refund)
  BY <1>1
<1>3. Len(all) = n + m /\ DOMAIN all = 1..(n + m)
  BY <1>1, <1>2
<1>4. \A i \in 1..n : all[i] = main[i]
  BY <1>1, <1>2
<1>5. \A i \in 1..m : all[n + i] = refund[i]
  BY <1>1, <1>2
<1> HIDE DEF all
<1>6. \A i \in 1..(n + m) : BlindedFrom(keys[i], all[i], blind, first + i - 1, ephemeral)
  <2>1. CASE blind
    <3>1. keys = Blinded(all, first, ephemeral)
      BY <2>1 DEF all, MadeOf
    <3>2. \A i \in 1..(n + m) : keys[i] = [all[i] EXCEPT !.slot = first + i - 1, !.ephemeral = ephemeral]
      BY <1>3, <3>1 DEF Blinded
    <3>3. QED
      BY <2>1, <3>2 DEF BlindedFrom
  <2>2. CASE ~blind
    BY <2>2 DEF BlindedFrom, all, MadeOf
  <2>3. QED
    BY <2>1, <2>2
<1>7. \A i \in 1..(n + m) : keys[i] \in SecretKey
  <2> TAKE i \in 1..(n + m)
  <2>1. all[i] \in ClearKeys
    BY <1>1, <1>3
  <2>2. first + i - 1 \in Nat
    OBVIOUS
  <2>3. BlindedFrom(keys[i], all[i], blind, first + i - 1, ephemeral)
    BY <1>6
  <2>4. PICK key, clear, slot : key = keys[i] /\ clear = all[i] /\ slot = first + i - 1
    OBVIOUS
  <2>5. clear \in ClearKeys /\ slot \in Nat /\ BlindedFrom(key, clear, blind, slot, ephemeral)
    BY <2>1, <2>2, <2>3, <2>4
  <2>6. key \in SecretKey
    BY <2>5, BlindedOrNot
  <2>7. QED
    BY <2>4, <2>6
<1>8. keys \in Seq(SecretKey) /\ Len(keys) = n + m
  <2>1. DOMAIN keys = 1..(n + m) /\ keys = [i \in 1..(n + m) |-> keys[i]]
    <3>1. CASE blind
      <4>1. keys = [i \in DOMAIN all |-> [all[i] EXCEPT !.slot = first + i - 1, !.ephemeral = ephemeral]]
        BY <3>1 DEF Blinded, all, MadeOf
      <4>2. QED
        BY <1>3, <4>1
    <3>2. CASE ~blind
      <4>1. keys = all
        BY <3>2 DEF all, MadeOf
      <4>2. all = [i \in DOMAIN all |-> all[i]]
        BY <1>1, LenProperties
      <4>3. QED
        BY <1>3, <4>1, <4>2
    <3>3. QED
      BY <3>1, <3>2
  <2>2. keys \in [1..(n + m) -> SecretKey]
    BY <1>7, <2>1
  <2>3. PICK l \in Nat : l = n + m
    OBVIOUS
  <2>4. keys \in Seq(SecretKey)
    BY <2>2, <2>3, SeqDef
  <2>5. Len(keys) \in Nat /\ 1..Len(keys) = 1..l
    BY <2>1, <2>3, <2>4
  <2>6. Len(keys) = l
    <3>1. l # 0 => l \in 1..Len(keys)
      BY <2>3, <2>5
    <3>2. Len(keys) # 0 => Len(keys) \in 1..l
      BY <2>3, <2>5
    <3>3. QED
      BY <2>3, <2>5, <3>1, <3>2
  <2>7. QED
    BY <2>3, <2>4, <2>6
<1> DEFINE left == SubSeq(keys, 1, n)
           right == SubSeq(keys, n + 1, n + m)
<1>9. left \in Seq(SecretKey) /\ Len(left) = n /\ \A i \in 1..n : left[i] = keys[i]
  BY <1>8
<1>10. right \in Seq(SecretKey) /\ Len(right) = m /\ \A i \in 1..m : right[i] = keys[n + i]
  BY <1>8
<1> HIDE DEF left, right
<1>11. Bears(left, locks, blind, first, ephemeral)
  <2>1. AllBlinded(left, main, blind, first, ephemeral)
    <3>1. ASSUME NEW i \in 1..n
          PROVE  BlindedFrom(left[i], main[i], blind, first + i - 1, ephemeral)
      <4>1. i \in 1..(n + m)
        OBVIOUS
      <4>2. left[i] = keys[i] /\ all[i] = main[i]
        BY <1>4, <1>9
      <4>3. QED
        BY <1>6, <4>1, <4>2
    <3>2. QED
      BY <1>2, <3>1 DEF AllBlinded
  <2>2. QED
    BY <1>2, <1>9, <2>1, PartBears
<1>12. Bears(right, refunds, blind, first + n, ephemeral)
  <2>1. AllBlinded(right, refund, blind, first + n, ephemeral)
    <3>1. ASSUME NEW i \in 1..m
          PROVE  BlindedFrom(right[i], refund[i], blind, (first + n) + i - 1, ephemeral)
      <4>1. n + i \in 1..(n + m) /\ first + (n + i) - 1 = (first + n) + i - 1
        OBVIOUS
      <4>2. right[i] = keys[n + i] /\ all[n + i] = refund[i]
        BY <1>5, <1>10
      <4>3. BlindedFrom(keys[n + i], all[n + i], blind, first + (n + i) - 1, ephemeral)
        BY <1>6, <4>1
      <4>4. QED
        BY <4>1, <4>2, <4>3
    <3>2. QED
      BY <1>2, <3>1 DEF AllBlinded
  <2>2. first + n \in Nat
    OBVIOUS
  <2>3. QED
    BY <1>2, <1>10, <2>1, <2>2, PartBears
<1>13. QED
  BY <1>2, <1>8, <1>9, <1>10, <1>11, <1>12 DEF left, right

\* A refused value is one.
LEMMA RefusedIs == IsRefused(Refused)
BY DEF IsRefused, Refused

\* The tags say how many signatures are required, and keep the rules.
LEMMA TagsSay ==
  ASSUME NEW keys \in Nat, NEW told, NEW nSigs, told = Default(nSigs, 1), nSigs # Null => nSigs \in 1..keys,
         NEW tag, tag = IF keys > 1 /\ told > 1 THEN told ELSE Null
  PROVE  /\ keys # 0 => told \in Nat /\ Default(tag, 1) = told
         /\ tag # Null => tag \in 1..keys
<1>1. told = 1 \/ (nSigs # Null /\ told = nSigs)
  BY DEF Default
<1>2. keys # 0 => told \in 1..keys
  BY <1>1
<1>3. ASSUME keys # 0
      PROVE  Default(tag, 1) = told
  <2>1. told \in 1..keys
    BY <1>2, <1>3
  <2>2. CASE told = 1
    <3>1. tag = Null
      BY <2>2
    <3>2. QED
      BY <2>2, <3>1 DEF Default
  <2>3. CASE told # 1
    <3>1. keys > 1 /\ told > 1
      BY <2>1, <2>3
    <3>2. tag = told /\ told \in Nat
      BY <2>1, <3>1
    <3>3. QED
      BY <3>2, NullAssumption DEF Default
  <2>4. QED
    BY <2>2, <2>3
<1>4. tag # Null => tag = told /\ keys > 1
  OBVIOUS
<1>5. tag # Null => tag \in 1..keys
  BY <1>2, <1>4
<1>6. QED
  BY <1>2, <1>3, <1>5

\* createSingleP2PKData locks as the options say.
LEMMA SecretLocks ==
  ASSUME NEW b, Told(b), b.locktime \in Nat \cup {Null}, NEW o, Says(o, b), NEW ephemeral \in Nat,
         NEW secret, secret = CreateSingleP2PKData(o, ephemeral), ~IsRefused(secret)
  PROVE  LocksAs(secret, b, ephemeral)
<1> DEFINE n == NormalizeP2PKOptions(o)
           locks == LockKeysOf(n)
           ordered == locks \o n.refundKeys
           keys == IF n.blindKeys THEN Blinded(ordered, FirstSlot(n.kind), ephemeral) ELSE ordered
           main == SubSeq(keys, 1, Len(locks))
           refund == SubSeq(keys, Len(locks) + 1, Len(keys))
<1>1. secret = LockedBy(n, ordered, ephemeral)
  BY DEF CreateSingleP2PKData
<1>2. ~IsRefused(n)
  BY <1>1, RefusedIs DEF LockedBy
<1>3. Says(n, b) /\ SpendingConditionRules(Len(locks), Len(n.refundKeys), n.nSigs, n.nSigsRefund, n.locktime # Null)
  BY <1>2, NormalSays
<1>4. secret = SecretOf(n, main, refund, ephemeral)
  BY <1>1, <1>2 DEF LockedBy, SplitKeys
<1> DEFINE r == n.refundKeys
           first == FirstSlot(n.kind)
           blind == n.blindKeys
<1> HIDE DEF n
<1>5. /\ Lists(locks, b.locks) /\ Lists(r, b.refunds) /\ n.kind = (IF b.hashlock THEN "HTLC" ELSE "P2PK")
      /\ blind = b.blind /\ blind \in BOOLEAN /\ first \in Nat
  BY <1>3 DEF Says, Told, FirstSlot
<1>6. locks \in Seq(ClearKeys) /\ r \in Seq(ClearKeys)
  BY <1>5 DEF Lists
<1>7. PICK l \in Nat, m \in Nat : l = Len(locks) /\ m = Len(r)
  BY <1>6
<1> HIDE DEF locks, r, first, blind, ordered
<1>8. /\ Bears(main, b.locks, blind, first, ephemeral)
      /\ Bears(refund, b.refunds, blind, first + l, ephemeral) /\ Len(main) = l /\ Len(refund) = m
  <2>1. MadeOf(keys, locks \o r, blind, first, ephemeral)
    BY DEF MadeOf, ordered, r, first, blind
  <2> HIDE DEF keys
  <2>2. /\ Bears(main, b.locks, blind, first, ephemeral)
        /\ Bears(refund, b.refunds, blind, first + Len(locks), ephemeral)
        /\ Len(main) = Len(locks) /\ Len(refund) = Len(r)
    BY <1>5, <2>1, SplitBears
  <2>3. QED
    BY <1>7, <2>2
<1> HIDE DEF main, refund
<1>9. main \in Seq(SecretKey) /\ refund \in Seq(SecretKey)
  BY <1>8 DEF Bears
<1>10. ~b.hashlock => l # 0
  <2> SUFFICES ASSUME ~b.hashlock, l = 0
               PROVE  FALSE
    OBVIOUS
  <2>1. locks = <<n.data>> \o n.pubkeys
    BY <1>5 DEF locks, LockKeysOf
  <2>2. locks = <<>>
    BY <1>6, <1>7
  <2>3. QED
    BY <2>1, <2>2
<1> DEFINE pubkeys == IF n.kind = "HTLC" THEN main ELSE Tail(main)
<1>11. /\ secret.kind = n.kind /\ secret.data = (IF n.kind = "HTLC" THEN n.data ELSE Head(main))
       /\ secret.ephemeral = (IF n.blindKeys THEN ephemeral ELSE Null)
       /\ secret.tags = BuildP2PKTags(n.locktime, pubkeys, refund, Default(n.nSigs, 1), Default(n.nSigsRefund, 1), n.sigAll)
  BY <1>4 DEF SecretOf
<1>12. /\ secret.tags.locktime = n.locktime /\ secret.tags.pubkeys = pubkeys /\ secret.tags.refund = refund
       /\ secret.tags.nSigs = (IF pubkeys # <<>> /\ Default(n.nSigs, 1) > 1 THEN Default(n.nSigs, 1) ELSE Null)
       /\ secret.tags.nSigsRefund
            = (IF refund # <<>> /\ Default(n.nSigsRefund, 1) > 1 THEN Default(n.nSigsRefund, 1) ELSE Null)
       /\ secret.tags.sigflag = IF n.sigAll THEN "SIG_ALL" ELSE "SIG_INPUTS"
  BY <1>11 DEF BuildP2PKTags
<1>13. MainKeys(secret) = main
  <2>1. CASE b.hashlock
    BY <1>5, <1>11, <1>12, <2>1 DEF MainKeys
  <2>2. CASE ~b.hashlock
    <3>1. main # <<>>
      BY <1>8, <1>10, <2>2
    <3>2. <<Head(main)>> \o Tail(main) = main
      BY <1>9, <3>1, HeadAndTail
    <3>3. QED
      BY <1>5, <1>11, <1>12, <2>2, <3>2 DEF MainKeys
  <2>3. QED
    BY <2>1, <2>2 DEF Told
<1>14. /\ n.nSigs # Null => n.nSigs \in 1..l
       /\ n.nSigsRefund # Null => n.nSigsRefund \in 1..m
       /\ m > 0 => n.locktime # Null
  BY <1>3, <1>7 DEF SpendingConditionRules, r
<1>15. /\ n.locktime = b.locktime /\ n.sigAll = b.sigAll
       /\ Default(n.nSigs, 1) = Default(b.nSigs, 1) /\ Default(n.nSigsRefund, 1) = Default(b.nSigsRefund, 1)
  BY <1>3 DEF Says
<1>16. Locktime(secret) = TimeTold(b)
  <2>1. secret.tags.locktime = b.locktime
    BY <1>12, <1>15
  <2>2. b.locktime \notin {Null, 0} => b.locktime \in Nat /\ b.locktime > 0
    OBVIOUS
  <2>3. QED
    BY <2>1, <2>2, NullAssumption DEF Locktime, TimeTold
<1>17. SigAllFlag(secret) = b.sigAll
  BY <1>12, <1>15 DEF SigAllFlag, Told
<1>18. (main # <<>> <=> l # 0) /\ (refund # <<>> <=> m # 0)
  BY <1>8, <1>9
<1>19. pubkeys # <<>> => l # 0
  <2>1. CASE b.hashlock
    BY <1>5, <1>18, <2>1
  <2>2. CASE ~b.hashlock
    BY <1>10, <2>2
  <2>3. QED
    BY <2>1, <2>2 DEF Told
<1>20. /\ l # 0 => /\ Default(b.nSigs, 1) \in Nat
                   /\ Default(secret.tags.nSigs, 1) = Default(b.nSigs, 1)
       /\ secret.tags.nSigs # Null => secret.tags.nSigs \in 1..l
  <2>1. PICK told, tag : told = Default(n.nSigs, 1) /\ tag = secret.tags.nSigs
    OBVIOUS
  <2>2. pubkeys # <<>> <=> l > 1 \/ (l = 1 /\ b.hashlock)
    <3>1. CASE b.hashlock
      BY <1>5, <1>18, <3>1
    <3>2. CASE ~b.hashlock
      <4>1. Len(Tail(main)) = l - 1 /\ Tail(main) \in Seq(SecretKey)
        BY <1>8, <1>9, <1>10, <3>2
      <4>2. pubkeys = Tail(main)
        BY <1>5, <3>2
      <4>3. pubkeys # <<>> <=> l - 1 # 0
        BY <4>1, <4>2, EmptySeq
      <4>4. l # 0
        BY <1>10, <3>2
      <4>5. QED
        BY <3>2, <4>3, <4>4
    <3>3. QED
      BY <3>1, <3>2 DEF Told
  <2>3. l = 1 => ~(told > 1)
    BY <1>14, <2>1 DEF Default
  <2>4. tag = IF l > 1 /\ told > 1 THEN told ELSE Null
    BY <1>12, <2>1, <2>2, <2>3
  <2>5. /\ l # 0 => told \in Nat /\ Default(tag, 1) = told
        /\ tag # Null => tag \in 1..l
    BY <1>14, <2>1, <2>4, TagsSay
  <2>6. QED
    BY <1>15, <2>1, <2>5
<1>21. /\ m # 0 => /\ Default(b.nSigsRefund, 1) \in Nat
                   /\ Default(secret.tags.nSigsRefund, 1) = Default(b.nSigsRefund, 1)
       /\ secret.tags.nSigsRefund # Null => secret.tags.nSigsRefund \in 1..m
  <2>1. PICK told, tag : told = Default(n.nSigsRefund, 1) /\ tag = secret.tags.nSigsRefund
    OBVIOUS
  <2>2. m = 1 => ~(told > 1)
    BY <1>14, <2>1 DEF Default
  <2>3. tag = IF m > 1 /\ told > 1 THEN told ELSE Null
    BY <1>12, <1>18, <2>1, <2>2
  <2>4. /\ m # 0 => told \in Nat /\ Default(tag, 1) = told
        /\ tag # Null => tag \in 1..m
    BY <1>14, <2>1, <2>3, TagsSay
  <2>5. QED
    BY <1>15, <2>1, <2>4
<1>22. Unusable(b) \/ WellFormed(secret)
  <2> SUFFICES ASSUME ~Unusable(b)
               PROVE  WellFormed(secret)
    OBVIOUS
  <2>1. b.refunds = <<>> => m = 0
    <3>1. b.refunds = <<>> => Holders(r) = {}
      <4>1. Holders(<<>>) = {}
        BY DEF Holders
      <4>2. Holders(r) = Holders(b.refunds)
        BY <1>5 DEF Lists
      <4>3. QED
        BY <4>1, <4>2
    <3>2. b.refunds = <<>> => r = <<>>
      BY <1>6, <3>1, NobodyHolds
    <3>3. QED
      BY <1>6, <1>7, <3>2
  <2>2. m > 0 => Locktime(secret) # Null
    BY <1>14, <1>15, <1>16, <2>1 DEF TimeTold, Unusable
  <2>3. QED
    BY <1>8, <1>12, <1>13, <1>20, <1>21, <2>2 DEF WellFormed, SpendingConditionRules
<1> HIDE DEF pubkeys, keys
<1>23. Bears(MainKeys(secret), b.locks, b.blind, FirstSlot(secret.kind), ephemeral)
  BY <1>5, <1>8, <1>11, <1>13 DEF first
<1>24. Bears(secret.tags.refund, b.refunds, b.blind, FirstSlot(secret.kind) + Len(MainKeys(secret)), ephemeral)
  BY <1>5, <1>8, <1>11, <1>12, <1>13 DEF first
<1>25. secret.kind = (IF b.hashlock THEN "HTLC" ELSE "P2PK") /\ secret.ephemeral = (IF b.blind THEN ephemeral ELSE Null)
  BY <1>5, <1>11 DEF blind
<1>26. /\ MainKeys(secret) # <<>> => /\ Default(b.nSigs, 1) \in Nat
                                     /\ Default(secret.tags.nSigs, 1) = Default(b.nSigs, 1)
       /\ secret.tags.refund # <<>> => /\ Default(b.nSigsRefund, 1) \in Nat
                                       /\ Default(secret.tags.nSigsRefund, 1) = Default(b.nSigsRefund, 1)
  BY <1>12, <1>13, <1>18, <1>20, <1>21
<1>27. QED
  BY <1>16, <1>17, <1>22, <1>23, <1>24, <1>25, <1>26 DEF LocksAs

\* The parts of a key of a secret without its parity.
LEMMA SecretKeyParts ==
  ASSUME NEW k \in SecretKey
  PROVE  XOnly(k) = [x |-> k.x, odd |-> FALSE, slot |-> k.slot, ephemeral |-> k.ephemeral]
<1>1. k = [x |-> k.x, odd |-> k.odd, slot |-> k.slot, ephemeral |-> k.ephemeral]
  BY DEF SecretKey
<1>2. PICK x, odd, s, e : /\ k = [x |-> x, odd |-> odd, slot |-> s, ephemeral |-> e]
                          /\ x = k.x /\ s = k.slot /\ e = k.ephemeral
  BY <1>1
<1>3. [k EXCEPT !.odd = FALSE] = [x |-> x, odd |-> FALSE, slot |-> s, ephemeral |-> e]
  <2>1. \A f : [[x |-> x, odd |-> odd, slot |-> s, ephemeral |-> e] EXCEPT !.odd = f]
                 = [x |-> x, odd |-> f, slot |-> s, ephemeral |-> e]
    OBVIOUS
  <2>2. QED
    BY <1>2, <2>1, Zenon
<1>4. QED
  BY <1>2, <1>3 DEF XOnly

\* The people whose signatures a proof carries for a list of keys.
SignersOf(proof, message, keys) ==
  {keys[i].x : i \in {j \in DOMAIN keys : [key |-> XOnly(keys[j]), over |-> message] \in proof.signatures}}

\* getValidSigners counts them.
LEMMA SignersCounted ==
  ASSUME NEW keys \in Seq(SecretKey), Distinct(keys), NEW proof, NEW message
  PROVE  /\ IsFiniteSet(SignersOf(proof, message, keys))
         /\ Cardinality(ValidSigners(proof, message, keys)) = Cardinality(SignersOf(proof, message, keys))
<1> DEFINE J == {j \in DOMAIN keys : [key |-> XOnly(keys[j]), over |-> message] \in proof.signatures}
           V == ValidSigners(proof, message, keys)
           W == SignersOf(proof, message, keys)
           f == [i \in J |-> keys[i].x]
           g == [i \in J |-> XOnly(keys[i])]
<1>1. V = {XOnly(keys[i]) : i \in J} /\ W = {keys[i].x : i \in J}
  BY DEF ValidSigners, SignersOf
<1>2. J \subseteq DOMAIN keys /\ DOMAIN keys = 1..Len(keys) /\ Len(keys) \in Nat
  OBVIOUS
<1> HIDE DEF J, V, W
<1>3. IsFiniteSet(J)
  <2>1. IsFiniteSet(1..Len(keys))
    BY <1>2, FS_Interval
  <2>2. QED
    BY <1>2, <2>1, FS_Subset
<1>4. \A i, j \in J : keys[i].x = keys[j].x => i = j
  BY <1>2 DEF Distinct
<1>5. \A i \in J : XOnly(keys[i]).x = keys[i].x
  <2> TAKE i \in J
  <2>1. keys[i] \in SecretKey
    BY <1>2
  <2>2. XOnly(keys[i]) = [x |-> keys[i].x, odd |-> FALSE, slot |-> keys[i].slot, ephemeral |-> keys[i].ephemeral]
    BY <2>1, SecretKeyParts
  <2>3. QED
    BY <2>2
<1>6. ExistsBijection(J, W)
  <2>1. f \in Bijection(J, W)
    BY <1>1, <1>4 DEF Bijection, Injection, Surjection, IsInjective
  <2>2. QED
    BY <2>1 DEF ExistsBijection
<1>7. ExistsBijection(J, V)
  <2>1. \A i, j \in J : XOnly(keys[i]) = XOnly(keys[j]) => i = j
    BY <1>4, <1>5
  <2>2. g \in Bijection(J, V)
    BY <1>1, <2>1 DEF Bijection, Injection, Surjection, IsInjective
  <2>3. QED
    BY <2>2 DEF ExistsBijection
<1>8. QED
  BY <1>3, <1>6, <1>7, FS_Bijection DEF V, W

\* If only these people have signed for the keys of a list, no more are counted than there
\* are of them among its holders.
LEMMA NoMoreSigners ==
  ASSUME NEW told, NEW blind, NEW first, NEW ephemeral, NEW keys, Bears(keys, told, blind, first, ephemeral),
         NEW proof, NEW message, NEW who, SignersOf(proof, message, keys) \subseteq who
  PROVE  /\ Cardinality(ValidSigners(proof, message, keys)) \in Nat
         /\ Cardinality(who \cap Holders(told)) \in Nat
         /\ Cardinality(ValidSigners(proof, message, keys)) <= Cardinality(who \cap Holders(told))
<1> DEFINE W == SignersOf(proof, message, keys)
           H == who \cap Holders(told)
<1>1. keys \in Seq(SecretKey) /\ Distinct(keys) /\ Holders(keys) = Holders(told)
  BY DEF Bears
<1>2. IsFiniteSet(W) /\ Cardinality(ValidSigners(proof, message, keys)) = Cardinality(W)
  BY <1>1, SignersCounted
<1>3. W \subseteq Holders(keys)
  BY DEF SignersOf, Holders
<1>4. IsFiniteSet(Holders(keys))
  <2> DEFINE f == [i \in DOMAIN keys |-> keys[i].x]
  <2>1. IsFiniteSet(DOMAIN keys)
    <3>1. DOMAIN keys = 1..Len(keys) /\ Len(keys) \in Nat
      BY <1>1
    <3>2. IsFiniteSet(1..Len(keys))
      BY <3>1, FS_Interval
    <3>3. QED
      BY <3>1, <3>2
  <2>2. f \in Surjection(DOMAIN keys, Holders(keys))
    BY DEF Surjection, Holders
  <2>3. QED
    BY <2>1, <2>2, FS_Surjection
<1> HIDE DEF W
<1>5. H \subseteq Holders(keys) /\ W \subseteq H
  BY <1>1, <1>3 DEF W
<1>6. IsFiniteSet(H)
  BY <1>4, <1>5, FS_Subset
<1> HIDE DEF H
<1>7. Cardinality(W) <= Cardinality(H)
  BY <1>5, <1>6, FS_Subset
<1>8. Cardinality(W) \in Nat /\ Cardinality(H) \in Nat
  BY <1>2, <1>6, FS_CardinalityType
<1>9. QED
  BY <1>2, <1>7, <1>8 DEF H

\* If all of these people have signed for their keys of a list, no fewer are counted.
LEMMA NoFewerSigners ==
  ASSUME NEW told, NEW blind, NEW first, NEW ephemeral, NEW keys, Bears(keys, told, blind, first, ephemeral),
         NEW proof, NEW message, NEW who,
         \A i \in DOMAIN keys : keys[i].x \in who => [key |-> XOnly(keys[i]), over |-> message] \in proof.signatures
  PROVE  /\ Cardinality(ValidSigners(proof, message, keys)) \in Nat
         /\ Cardinality(who \cap Holders(told)) \in Nat
         /\ Cardinality(who \cap Holders(told)) <= Cardinality(ValidSigners(proof, message, keys))
<1> DEFINE W == SignersOf(proof, message, keys)
           H == who \cap Holders(told)
<1>1. keys \in Seq(SecretKey) /\ Distinct(keys) /\ Holders(keys) = Holders(told)
  BY DEF Bears
<1>2. IsFiniteSet(W) /\ Cardinality(ValidSigners(proof, message, keys)) = Cardinality(W)
  BY <1>1, SignersCounted
<1>3. H \subseteq W
  <2>1. Holders(told) = {keys[i].x : i \in DOMAIN keys}
    BY <1>1 DEF Holders
  <2>2. QED
    BY <2>1 DEF SignersOf
<1> HIDE DEF W, H
<1>4. IsFiniteSet(H) /\ Cardinality(H) <= Cardinality(W)
  BY <1>2, <1>3, FS_Subset
<1>5. Cardinality(W) \in Nat /\ Cardinality(H) \in Nat
  BY <1>2, <1>4, FS_CardinalityType
<1>6. QED
  BY <1>2, <1>4, <1>5 DEF H

\* The lock keys and the refund keys of a secret, all of them blinded.
BothBlinded(main, refund, locks, refunds, first, ephemeral) ==
  Bears(main, locks, TRUE, first, ephemeral) /\ Bears(refund, refunds, TRUE, first + Len(main), ephemeral)
InSlots(main, refund, all, first, ephemeral) ==
  /\ \A j \in DOMAIN all : all[j] \in SecretKey /\ all[j].slot = first + j - 1 /\ all[j].ephemeral = ephemeral
  /\ \A i \in DOMAIN main : i \in DOMAIN all /\ all[i] = main[i]
  /\ \A i \in DOMAIN refund : Len(main) + i \in DOMAIN all /\ all[Len(main) + i] = refund[i]

\* The blinded keys of a secret, lock keys first, are in their slots.
LEMMA InTheirSlots ==
  ASSUME NEW main, NEW refund, NEW locks, NEW refunds, NEW first \in Nat, NEW ephemeral \in Nat,
         BothBlinded(main, refund, locks, refunds, first, ephemeral)
  PROVE  InSlots(main, refund, main \o refund, first, ephemeral)
<1>0. Bears(main, locks, TRUE, first, ephemeral) /\ Bears(refund, refunds, TRUE, first + Len(main), ephemeral)
  BY DEF BothBlinded
<1> DEFINE all == main \o refund
<1>1. main \in Seq(SecretKey) /\ refund \in Seq(SecretKey) /\ all \in Seq(SecretKey)
  BY <1>0 DEF Bears
<1>2. PICK n \in Nat, m \in Nat : n = Len(main) /\ m = Len(refund)
  BY <1>1
<1>3. DOMAIN main = 1..n /\ DOMAIN refund = 1..m /\ DOMAIN all = 1..(n + m)
  BY <1>1, <1>2
<1>4. \A i \in 1..n : all[i] = main[i]
  BY <1>1, <1>2
<1>5. \A i \in 1..m : all[n + i] = refund[i]
  BY <1>1, <1>2
<1> HIDE DEF all
<1>6. \A i \in 1..n : main[i].slot = first + i - 1 /\ main[i].ephemeral = ephemeral
  BY <1>0, <1>3 DEF Bears
<1>7. \A i \in 1..m : refund[i].slot = (first + n) + i - 1 /\ refund[i].ephemeral = ephemeral
  BY <1>0, <1>2, <1>3 DEF Bears
<1>8. ASSUME NEW j \in 1..(n + m)
      PROVE  all[j] \in SecretKey /\ all[j].slot = first + j - 1 /\ all[j].ephemeral = ephemeral
  <2>1. all[j] \in SecretKey
    BY <1>1, <1>3
  <2>2. CASE j <= n
    <3>1. j \in 1..n
      BY <2>2
    <3>2. QED
      BY <1>4, <1>6, <2>1, <3>1
  <2>3. CASE ~(j <= n)
    <3>1. PICK i \in 1..m : j = n + i
      <4>1. j - n \in 1..m /\ j = n + (j - n)
        BY <2>3
      <4>2. QED
        BY <4>1
    <3>2. all[j] = refund[i]
      BY <1>5, <3>1
    <3>3. refund[i].slot = (first + n) + i - 1 /\ refund[i].ephemeral = ephemeral
      BY <1>7
    <3>4. QED
      BY <2>1, <3>1, <3>2, <3>3
  <2>4. QED
    BY <2>2, <2>3
<1>9. /\ \A i \in 1..n : i \in 1..(n + m)
      /\ \A i \in 1..m : n + i \in 1..(n + m)
  OBVIOUS
<1>10. QED
  BY <1>2, <1>3, <1>4, <1>5, <1>8, <1>9 DEF all, InSlots

\* maybeDeriveP2BKPrivateKeys finds the secret keys of these people, for every key they hold,
\* and of nobody else.
LEMMA TheirSecretKeys ==
  ASSUME NEW b, Told(b), NEW ephemeral \in Nat, NEW secret, LocksAs(secret, b, ephemeral), NEW people
  PROVE  /\ \A k \in SecretKeys(secret, people) : k.x \in people
         /\ \A i \in DOMAIN MainKeys(secret) :
              MainKeys(secret)[i].x \in people => XOnly(MainKeys(secret)[i]) \in SecretKeys(secret, people)
         /\ \A i \in DOMAIN secret.tags.refund :
              secret.tags.refund[i].x \in people => XOnly(secret.tags.refund[i]) \in SecretKeys(secret, people)
<1> DEFINE main == MainKeys(secret)
           refund == secret.tags.refund
           first == FirstSlot(secret.kind)
           all == main \o refund
           keys(f) == DeriveP2BKSecretKeys(secret.ephemeral, people, all, f)
<1>1. /\ Bears(main, b.locks, b.blind, first, ephemeral)
      /\ Bears(refund, b.refunds, b.blind, first + Len(main), ephemeral)
      /\ secret.ephemeral = (IF b.blind THEN ephemeral ELSE Null) /\ b.blind \in BOOLEAN
      /\ first \in Nat /\ (secret.kind = "HTLC" => first = 2) /\ (secret.kind # "HTLC" => first = 1)
  BY DEF LocksAs, Told, FirstSlot
<1>2. main \in Seq(SecretKey) /\ refund \in Seq(SecretKey)
  BY <1>1 DEF Bears
<1> HIDE DEF main, refund, first
<1>3. CASE ~b.blind
  <2>1. SecretKeys(secret, people) = {Clear(p, FALSE) : p \in people}
    BY <1>1, <1>3 DEF SecretKeys
  <2>2. \A p : Clear(p, FALSE).x = p
    BY DEF Clear
  <2>3. ASSUME NEW k \in SecretKey, k.slot = 0, k.ephemeral = Null
        PROVE  XOnly(k) = Clear(k.x, FALSE)
    BY <2>3, SecretKeyParts DEF Clear
  <2>4. \A i \in DOMAIN main : main[i] \in SecretKey /\ main[i].slot = 0 /\ main[i].ephemeral = Null
    BY <1>1, <1>2, <1>3 DEF Bears
  <2>5. \A i \in DOMAIN refund : refund[i] \in SecretKey /\ refund[i].slot = 0 /\ refund[i].ephemeral = Null
    BY <1>1, <1>2, <1>3 DEF Bears
  <2>6. QED
    BY <2>1, <2>2, <2>3, <2>4, <2>5 DEF main, refund
<1>4. CASE b.blind
  <2>1. b.blind = TRUE /\ secret.ephemeral = ephemeral /\ secret.ephemeral # Null
    BY <1>1, <1>4, NullAssumption
  <2>2. /\ \A j \in DOMAIN all : all[j] \in SecretKey /\ all[j].slot = first + j - 1 /\ all[j].ephemeral = ephemeral
        /\ \A i \in DOMAIN main : i \in DOMAIN all /\ all[i] = main[i]
        /\ \A i \in DOMAIN refund : Len(main) + i \in DOMAIN all /\ all[Len(main) + i] = refund[i]
    <3>1. BothBlinded(main, refund, b.locks, b.refunds, first, ephemeral)
      BY <1>1, <2>1 DEF BothBlinded
    <3>2. InSlots(main, refund, all, first, ephemeral)
      BY <1>1, <3>1, InTheirSlots
    <3>3. QED
      BY <3>2 DEF InSlots
  <2> HIDE DEF all
  <2>3. \A f : keys(f) = {XOnly(all[i]) : i \in {j \in DOMAIN all : all[j].x \in people /\ all[j].slot = f + j - 1 /\ all[j].ephemeral = ephemeral}}
    BY <2>1 DEF DeriveP2BKSecretKeys, Unblinds
  <2> HIDE DEF keys
  <2>4. SecretKeys(secret, people) = IF secret.kind = "HTLC" /\ keys(2) = {} THEN keys(1) ELSE keys(first)
    BY <2>1 DEF SecretKeys, keys, all, main, refund, first
  <2>5. \A f : \A k \in keys(f) : k.x \in people
    <3> SUFFICES ASSUME NEW f, NEW k \in keys(f)
                 PROVE  k.x \in people
      OBVIOUS
    <3>1. PICK i \in DOMAIN all : k = XOnly(all[i]) /\ all[i].x \in people
      BY <2>3
    <3>2. XOnly(all[i]).x = all[i].x
      <4>1. XOnly(all[i]) = [x |-> all[i].x, odd |-> FALSE, slot |-> all[i].slot, ephemeral |-> all[i].ephemeral]
        BY <2>2, SecretKeyParts
      <4>2. QED
        BY <4>1
    <3>3. QED
      BY <3>1, <3>2
  <2>6. \A j \in DOMAIN all : all[j].x \in people => XOnly(all[j]) \in keys(first)
    BY <2>2, <2>3
  <2>7. keys(first) \subseteq SecretKeys(secret, people)
    <3>1. CASE secret.kind = "HTLC"
      BY <1>1, <2>4, <3>1
    <3>2. CASE secret.kind # "HTLC"
      BY <2>4, <3>2
    <3>3. QED
      BY <3>1, <3>2
  <2>8. \A k \in SecretKeys(secret, people) : k.x \in people
    BY <2>4, <2>5
  <2>9. \A i \in DOMAIN main : main[i].x \in people => XOnly(main[i]) \in SecretKeys(secret, people)
    BY <2>2, <2>6, <2>7
  <2>10. \A i \in DOMAIN refund : refund[i].x \in people => XOnly(refund[i]) \in SecretKeys(secret, people)
    BY <2>2, <2>6, <2>7
  <2>11. QED
    BY <2>8, <2>9, <2>10 DEF main, refund
<1>5. QED
  BY <1>1, <1>3, <1>4

\* Every signature of a proof is of somebody who signed, save for those of a clear key on
\* blinded ones, which count for nothing.
Sound(proof, b, who) == \A g \in proof.signatures : (b.blind /\ g.key.slot = 0) \/ g.key.x \in who

\* Whoever signed has signed for every key of theirs that was expected then.
Complete(proof, message, given) ==
  \A s \in given :
    /\ s.state # "EXPIRED" \/ proof.secret.tags.refund # <<>> =>
         \A i \in DOMAIN MainKeys(proof.secret) :
           MainKeys(proof.secret)[i].x = s.who =>
             [key |-> XOnly(MainKeys(proof.secret)[i]), over |-> message] \in proof.signatures
    /\ s.state = "EXPIRED" =>
         \A i \in DOMAIN proof.secret.tags.refund :
           proof.secret.tags.refund[i].x = s.who =>
             [key |-> XOnly(proof.secret.tags.refund[i]), over |-> message] \in proof.signatures

ProofFields == {"secret", "signatures", "preimage"}

\* What is noted when these people sign.
Given(people, state) == {[who |-> p, state |-> state] : p \in people}

\* Signatures are only added.
LEMMA MoreSignatures ==
  ASSUME NEW proof, NEW message, NEW given, Complete(proof, message, given),
         NEW new, new.secret = proof.secret, proof.signatures \subseteq new.signatures
  PROVE  Complete(new, message, given)
BY DEF Complete

\* A locked proof that carries what these people gave, and the proof once more people signed.
Carries(proof, b, ephemeral, message, who, given) ==
  /\ DOMAIN proof = ProofFields /\ LocksAs(proof.secret, b, ephemeral)
  /\ Sound(proof, b, who) /\ Complete(proof, message, given)
SignedBy(people, new, proof, b, message, who, given, time) ==
  /\ DOMAIN new = ProofFields /\ new.secret = proof.secret /\ new.preimage = proof.preimage
  /\ Sound(new, b, who \cup people)
  /\ Complete(new, message, given \cup Given(people, LockState(proof.secret, time)))

\* signP2PKProof gives the signatures that are expected of these people, and no others.
LEMMA SignProofSigns ==
  ASSUME NEW b, Told(b), NEW ephemeral \in Nat, NEW proof, NEW people, NEW message, NEW time, NEW who, NEW given,
         Carries(proof, b, ephemeral, message, who, given)
  PROVE  SignedBy(people, SignProof(proof, people, message, time), proof, b, message, who, given, time)
<1>0. /\ DOMAIN proof = ProofFields /\ LocksAs(proof.secret, b, ephemeral)
      /\ Sound(proof, b, who) /\ Complete(proof, message, given)
  BY DEF Carries
<1> DEFINE secret == proof.secret
           main == MainKeys(secret)
           refund == secret.tags.refund
           expected == ExpectedWitnessPubkeys(secret, time)
           keys == SecretKeys(secret, people) \cap {XOnly(r) : r \in expected}
           added == {[key |-> k, over |-> message] : k \in keys}
           new == SignProof(proof, people, message, time)
           state == LockState(secret, time)
<1>1. /\ DOMAIN new = ProofFields /\ new.secret = secret /\ new.preimage = proof.preimage
      /\ new.signatures = proof.signatures \cup added
  BY <1>0 DEF SignProof, ProofFields
<1>2. /\ \A k \in SecretKeys(secret, people) : k.x \in people
      /\ \A i \in DOMAIN main : main[i].x \in people => XOnly(main[i]) \in SecretKeys(secret, people)
      /\ \A i \in DOMAIN refund : refund[i].x \in people => XOnly(refund[i]) \in SecretKeys(secret, people)
  BY <1>0, TheirSecretKeys
<1> HIDE DEF new
<1>3. Sound(new, b, who \cup people)
  <2>1. \A g \in added : g.key.x \in people
    BY <1>2
  <2> HIDE DEF added
  <2>2. QED
    BY <1>0, <1>1, <2>1 DEF Sound
<1>4. /\ state # "EXPIRED" \/ refund # <<>> => \A i \in DOMAIN main : main[i] \in expected
      /\ state = "EXPIRED" => \A i \in DOMAIN refund : refund[i] \in expected
  <2>1. state # "EXPIRED" => expected = ToSet(main)
    BY DEF ExpectedWitnessPubkeys
  <2>2. state = "EXPIRED" /\ refund # <<>> => expected = ToSet(main) \cup ToSet(refund)
    BY DEF ExpectedWitnessPubkeys
  <2> HIDE DEF expected, state, main, refund
  <2>3. \A i \in DOMAIN main : main[i] \in ToSet(main)
    BY DEF ToSet
  <2>4. \A i \in DOMAIN refund : refund[i] \in ToSet(refund)
    BY DEF ToSet
  <2>5. \A i \in DOMAIN refund : refund # <<>>
    OBVIOUS
  <2>6. QED
    BY <2>1, <2>2, <2>3, <2>4, <2>5
<1> HIDE DEF expected, state
<1>5. /\ state # "EXPIRED" \/ refund # <<>> =>
           \A i \in DOMAIN main : main[i].x \in people => [key |-> XOnly(main[i]), over |-> message] \in new.signatures
      /\ state = "EXPIRED" =>
           \A i \in DOMAIN refund :
             refund[i].x \in people => [key |-> XOnly(refund[i]), over |-> message] \in new.signatures
  <2> HIDE DEF main, refund
  <2>1. \A k : k \in expected /\ XOnly(k) \in SecretKeys(secret, people) =>
                 [key |-> XOnly(k), over |-> message] \in new.signatures
    BY <1>1
  <2>2. QED
    BY <1>2, <1>4, <2>1
<1>6. Complete(new, message, given)
  BY <1>0, <1>1, MoreSignatures
<1>7. Complete(new, message, given \cup Given(people, state))
  <2> SUFFICES ASSUME NEW p \in people
               PROVE  Complete(new, message, {[who |-> p, state |-> state]})
    BY <1>6 DEF Complete, Given
  <2> DEFINE s == [who |-> p, state |-> state]
  <2>1. s.who = p /\ s.state = state
    OBVIOUS
  <2> HIDE DEF s, main, refund
  <2>2. /\ s.state # "EXPIRED" \/ refund # <<>> =>
             \A i \in DOMAIN main : main[i].x = s.who => [key |-> XOnly(main[i]), over |-> message] \in new.signatures
        /\ s.state = "EXPIRED" =>
             \A i \in DOMAIN refund :
               refund[i].x = s.who => [key |-> XOnly(refund[i]), over |-> message] \in new.signatures
    BY <1>5, <2>1
  <2>3. new.secret = secret
    BY <1>1
  <2>4. Complete(new, message, {s})
    BY <2>2, <2>3 DEF Complete, main, refund
  <2>5. QED
    BY <2>4 DEF s
<1>8. QED
  BY <1>1, <1>3, <1>7 DEF new, state, SignedBy

\* What input i is signed over, and the inputs that are judged.
Over(i) == IF builder.sigAll THEN OfTransaction([j \in 1..2 |-> j], MergedOutputs, QuoteId) ELSE OfInput(i)
Judged == IF builder.sigAll THEN {1} ELSE {1, 2}

\* The two proofs are locked as the builder was told, and carry what those who signed gave.
LockedInv ==
  /\ builder \in Builders /\ DOMAIN proofs = 1..2 /\ \A i \in 1..2 : DOMAIN proofs[i] = ProofFields
  /\ \A i \in 1..2 : LocksAs(proofs[i].secret, builder, Ephemeral(builder, i))
  /\ proofs[1].preimage = proofs[2].preimage /\ (builder.sigAll => proofs[1].secret = proofs[2].secret)
SignedInv ==
  /\ \A i \in Judged : Sound(proofs[i], builder, Everyone) /\ Complete(proofs[i], Over(i), signed)
  /\ \A s \in signed : s.state = "EXPIRED" => LockState(proofs[1].secret, now) = "EXPIRED"

ConditionsInv ==
  /\ now \in Nat
  /\ IF builder = Null THEN proofs = <<>> /\ signed = {} /\ verdict = Null ELSE LockedInv /\ SignedInv

\* What a builder is told.
LEMMA BuildersAreTold ==
  ASSUME NEW b \in Builders
  PROVE  Told(b) /\ b.locktime \in Locktimes /\ b # Null
<1>1. b.locks \in LockKeys /\ b.refunds \in RefundKeys
  BY DEF Builders
<1>2. b.locks \in Seq(ClearKeys) /\ b.refunds \in Seq(ClearKeys)
  BY <1>1, KeysAreClear
<1>3. b.hashlock \in BOOLEAN /\ b.blind \in BOOLEAN /\ b.sigAll \in BOOLEAN /\ b.locktime \in Locktimes
  BY DEF Builders
<1>4. QED
  BY <1>2, <1>3, NullAssumption DEF Told

\* A lock that is made for one ephemeral key is made for any.
LEMMA MadeForAny ==
  ASSUME NEW o, NEW e, NEW f, ~IsRefused(CreateSingleP2PKData(o, e))
  PROVE  ~IsRefused(CreateSingleP2PKData(o, f))
<1> DEFINE n == NormalizeP2PKOptions(o)
           ordered == LockKeysOf(n) \o n.refundKeys
<1>1. \A g : CreateSingleP2PKData(o, g) = LockedBy(n, ordered, g)
  BY DEF CreateSingleP2PKData
<1> HIDE DEF n, ordered
<1>2. ~IsRefused(n)
  BY <1>1, RefusedIs DEF LockedBy
<1>3. \A keys : DOMAIN SplitKeys(n, keys, f) = {"kind", "data", "ephemeral", "tags"}
  BY DEF SplitKeys, SecretOf
<1>4. \A keys : ~IsRefused(SplitKeys(n, keys, f))
  BY <1>3 DEF IsRefused
<1>5. QED
  BY <1>1, <1>2, <1>4 DEF LockedBy

\* Locks of one builder are in the same state.
LEMMA SameState ==
  ASSUME NEW b, NEW e, NEW f, NEW s, NEW t, LocksAs(s, b, e), LocksAs(t, b, f), NEW time
  PROVE  LockState(s, time) = LockState(t, time)
BY DEF LocksAs, LockState

\* A batch is SIG_ALL if the builder was told so.
LEMMA SigAllAsTold ==
  ASSUME LockedInv
  PROVE  /\ IsSigAll(proofs) <=> builder.sigAll
         /\ builder.sigAll \in BOOLEAN /\ Told(builder) /\ builder # Null /\ proofs # <<>>
         /\ Places(proofs) = [j \in 1..2 |-> j]
         /\ \A i \in 1..2 : Ephemeral(builder, i) \in Nat
<1>1. builder \in Builders /\ DOMAIN proofs = 1..2 /\ \A i \in 1..2 : LocksAs(proofs[i].secret, builder, Ephemeral(builder, i))
  BY DEF LockedInv
<1>2. Told(builder) /\ builder # Null
  BY <1>1, BuildersAreTold
<1>3. \A i \in 1..2 : SigAllFlag(proofs[i].secret) = builder.sigAll
  BY <1>1 DEF LocksAs
<1>4. 1 \in DOMAIN proofs
  BY <1>1
<1>5. IsSigAll(proofs) <=> builder.sigAll
  BY <1>1, <1>3, <1>4 DEF IsSigAll
<1>6. proofs # <<>>
  BY <1>4
<1>7. \A i \in 1..2 : Ephemeral(builder, i) \in Nat
  BY DEF Ephemeral
<1>8. QED
  BY <1>1, <1>2, <1>5, <1>6, <1>7 DEF Places, Told

\* The builder locks two proofs, its options stored in between or not.
LEMMA LockProofsStep ==
  ASSUME ConditionsInv, NEW b \in Builders, NEW again \in BOOLEAN, LockProofs(b, again)
  PROVE  ConditionsInv'
<1>1. builder = Null /\ now \in Nat /\ signed = {} /\ UNCHANGED <<kind, now, signed, verdict>> /\ builder' = b
  BY DEF ConditionsInv, LockProofs
<1>2. Told(b) /\ b.locktime \in Nat \cup {Null} /\ b # Null /\ b.sigAll \in BOOLEAN
  BY BuildersAreTold, ConditionSizes DEF Told
<1> DEFINE o == ToOptions(b)
           options == IF again /\ ~IsRefused(o) THEN ToOptions(FromOptions(o)) ELSE o
           secrets == CreateP2PKData(options, 2)
<1>3. /\ ~IsRefused(options) /\ ~IsRefused(secrets[1])
      /\ proofs' = [i \in DOMAIN secrets |-> [secret |-> secrets[i], signatures |-> {}, preimage |-> FALSE]]
  BY DEF LockProofs
<1> HIDE DEF o
<1>4. ~IsRefused(o) /\ (options = o \/ options = ToOptions(FromOptions(o)))
  BY <1>3
<1> HIDE DEF options
<1>5. Says(o, b)
  BY <1>2, <1>4, OptionsSay DEF o
<1>6. Says(options, b)
  <2>1. CASE options = o
    BY <1>5, <2>1
  <2>2. CASE options = ToOptions(FromOptions(o))
    <3>1. ~IsRefused(ToOptions(FromOptions(o)))
      BY <1>3, <2>2
    <3>2. QED
      BY <1>2, <1>5, <2>2, <3>1, OptionsAgain
  <2>3. QED
    BY <1>4, <2>1, <2>2
<1>7. DOMAIN secrets = 1..2 /\ \A i \in 1..2 : secrets[i] = CreateSingleP2PKData(options, Ephemeral(options, i))
  BY DEF CreateP2PKData
<1>8. \A i \in 1..2 : Ephemeral(options, i) = Ephemeral(b, i) /\ Ephemeral(b, i) \in Nat
  BY <1>6 DEF Ephemeral, Says
<1> HIDE DEF secrets
<1>9. \A i \in 1..2 : ~IsRefused(secrets[i])
  BY <1>3, <1>7, MadeForAny
<1>10. ASSUME NEW i \in 1..2
       PROVE  LocksAs(secrets[i], b, Ephemeral(b, i))
  <2>1. PICK e \in Nat : e = Ephemeral(b, i) /\ e = Ephemeral(options, i)
    BY <1>8
  <2>2. ~IsRefused(CreateSingleP2PKData(options, e))
    BY <1>7, <1>9, <2>1
  <2>3. LocksAs(CreateSingleP2PKData(options, e), b, e)
    BY <1>2, <1>6, <2>2, SecretLocks
  <2>4. QED
    BY <1>7, <2>1, <2>3
<1>11. /\ DOMAIN proofs' = 1..2
       /\ \A i \in 1..2 : /\ proofs'[i].secret = secrets[i] /\ proofs'[i].signatures = {}
                            /\ proofs'[i].preimage = FALSE /\ DOMAIN proofs'[i] = ProofFields
  BY <1>3, <1>7 DEF ProofFields
<1>12. b.sigAll => secrets[1] = secrets[2]
  <2>1. b.sigAll => Ephemeral(options, 1) = Ephemeral(options, 2)
    BY <1>6 DEF Ephemeral, Says
  <2>2. QED
    BY <1>7, <2>1
<1>13. LockedInv'
  <2>1. builder' \in Builders /\ DOMAIN proofs' = 1..2 /\ \A i \in 1..2 : DOMAIN proofs'[i] = ProofFields
    BY <1>1, <1>11
  <2>2. \A i \in 1..2 : LocksAs(proofs'[i].secret, builder', Ephemeral(builder', i))
    BY <1>1, <1>10, <1>11
  <2>3. proofs'[1].preimage = proofs'[2].preimage /\ (builder'.sigAll => proofs'[1].secret = proofs'[2].secret)
    <3>1. /\ proofs'[1].preimage = FALSE /\ proofs'[2].preimage = FALSE
          /\ proofs'[1].secret = secrets[1] /\ proofs'[2].secret = secrets[2]
      <4>1. 1 \in 1..2 /\ 2 \in 1..2
        OBVIOUS
      <4>2. QED
        BY <1>11, <4>1, Zenon
    <3>2. b.sigAll => proofs'[1].secret = proofs'[2].secret
      BY <1>12, <3>1
    <3>3. QED
      BY <1>1, <3>1, <3>2, Zenon
  <2>4. QED
    BY <2>1, <2>2, <2>3 DEF LockedInv
<1>14. SignedInv'
  <2>1. \A i \in 1..2 : Sound(proofs'[i], b, {}) /\ Complete(proofs'[i], Over(i)', {})
    BY <1>11 DEF Sound, Complete
  <2>2. Everyone' = {} /\ signed' = {}
    BY <1>1 DEF Everyone
  <2>3. Judged' \subseteq 1..2
    BY DEF Judged
  <2>4. QED
    BY <1>1, <2>1, <2>2, <2>3 DEF SignedInv
<1>15. QED
  BY <1>1, <1>2, <1>13, <1>14 DEF ConditionsInv

\* If signatures, preimages and people are added and nothing else changes, the batch is still
\* locked as the builder was told.
LEMMA StillLocked ==
  ASSUME LockedInv, UNCHANGED builder, DOMAIN proofs' = 1..2,
         \A i \in 1..2 : DOMAIN proofs'[i] = ProofFields /\ proofs'[i].secret = proofs[i].secret,
         proofs'[1].preimage = proofs'[2].preimage
  PROVE  LockedInv'
<1>1. builder' \in Builders /\ \A i \in 1..2 : LocksAs(proofs[i].secret, builder, Ephemeral(builder, i))
  BY DEF LockedInv
<1>2. \A i \in 1..2 : LocksAs(proofs'[i].secret, builder', Ephemeral(builder', i))
  BY <1>1
<1>3. builder'.sigAll => proofs'[1].secret = proofs'[2].secret
  <2>1. proofs'[1].secret = proofs[1].secret /\ proofs'[2].secret = proofs[2].secret
    OBVIOUS
  <2>2. builder.sigAll => proofs[1].secret = proofs[2].secret
    BY DEF LockedInv
  <2>3. QED
    BY <2>1, <2>2
<1>4. QED
  BY <1>1, <1>2, <1>3 DEF LockedInv

\* What an input is signed over does not change once there are proofs.
LEMMA SameMessage ==
  ASSUME UNCHANGED <<builder, kind>>
  PROVE  Judged' = Judged /\ \A i : Over(i)' = Over(i)
BY DEF Judged, Over, MergedOutputs, QuoteId

\* The holders of keys sign, input by input or the first for all.
LEMMA SignInputsStep ==
  ASSUME ConditionsInv, NEW people, SignInputs(people)
  PROVE  ConditionsInv'
<1> DEFINE added == Given(people, LockState(proofs[1].secret, now))
<1>1. /\ now \in Nat /\ UNCHANGED <<builder, kind, now, verdict>> /\ signed' = signed \cup added
      /\ proofs' = SignP2PKProofs(proofs, people, MergedOutputs, QuoteId, now) /\ proofs # <<>>
  BY DEF ConditionsInv, SignInputs, Given
<1>2. builder # Null /\ LockedInv /\ SignedInv
  BY <1>1 DEF ConditionsInv
<1>3. /\ IsSigAll(proofs) <=> builder.sigAll
      /\ builder.sigAll \in BOOLEAN /\ Told(builder) /\ Places(proofs) = [j \in 1..2 |-> j]
      /\ \A i \in 1..2 : Ephemeral(builder, i) \in Nat
  BY <1>2, SigAllAsTold
<1>4. /\ DOMAIN proofs = 1..2 /\ \A i \in 1..2 : DOMAIN proofs[i] = ProofFields
      /\ \A i \in 1..2 : LocksAs(proofs[i].secret, builder, Ephemeral(builder, i))
      /\ proofs[1].preimage = proofs[2].preimage
  BY <1>2 DEF LockedInv
<1>5. /\ DOMAIN proofs' = 1..2 /\ \A i \in Judged : proofs'[i] = SignProof(proofs[i], people, Over(i), now)
      /\ \A i \in (1..2) \ Judged : proofs'[i] = proofs[i]
  <2>1. CASE builder.sigAll
    <3>1. proofs' = [proofs EXCEPT ![1] = SignProof(@, people, OfTransaction(Places(proofs), MergedOutputs, QuoteId), now)]
      BY <1>1, <1>3, <2>1 DEF SignP2PKProofs
    <3>2. Over(1) = OfTransaction(Places(proofs), MergedOutputs, QuoteId) /\ Judged = {1}
      BY <1>3, <2>1 DEF Over, Judged
    <3>3. proofs' = [proofs EXCEPT ![1] = SignProof(proofs[1], people, Over(1), now)]
      BY <3>1, <3>2
    <3>4. DOMAIN proofs' = 1..2 /\ proofs'[1] = SignProof(proofs[1], people, Over(1), now)
          /\ \A i \in 1..2 : i # 1 => proofs'[i] = proofs[i]
      BY <1>4, <3>3
    <3>5. QED
      BY <3>2, <3>4
  <2>2. CASE ~builder.sigAll
    <3>1. proofs' = [i \in DOMAIN proofs |-> SignProof(proofs[i], people, OfInput(i), now)]
      BY <1>1, <1>3, <2>2 DEF SignP2PKProofs
    <3>2. Judged = {1, 2} /\ \A i : Over(i) = OfInput(i)
      BY <2>2 DEF Judged, Over
    <3>3. QED
      BY <1>4, <3>1, <3>2
  <2>3. QED
    BY <1>3, <2>1, <2>2
<1>6. Judged \subseteq 1..2
  BY DEF Judged
<1>7. ASSUME NEW i \in Judged
      PROVE  /\ DOMAIN proofs'[i] = ProofFields /\ proofs'[i].secret = proofs[i].secret
             /\ proofs'[i].preimage = proofs[i].preimage
             /\ Sound(proofs'[i], builder, Everyone \cup people) /\ Complete(proofs'[i], Over(i), signed')
  <2>1. Ephemeral(builder, i) \in Nat /\ DOMAIN proofs[i] = ProofFields
        /\ LocksAs(proofs[i].secret, builder, Ephemeral(builder, i))
    BY <1>3, <1>4, <1>6
  <2>2. Sound(proofs[i], builder, Everyone) /\ Complete(proofs[i], Over(i), signed)
    BY <1>2 DEF SignedInv
  <2> DEFINE new == SignProof(proofs[i], people, Over(i), now)
  <2>3. /\ DOMAIN new = ProofFields /\ new.secret = proofs[i].secret /\ new.preimage = proofs[i].preimage
        /\ Sound(new, builder, Everyone \cup people)
        /\ Complete(new, Over(i), signed \cup Given(people, LockState(proofs[i].secret, now)))
    <3>1. PICK e \in Nat : e = Ephemeral(builder, i)
      BY <2>1
    <3>2. Carries(proofs[i], builder, e, Over(i), Everyone, signed)
      BY <2>1, <2>2, <3>1 DEF Carries
    <3>3. SignedBy(people, new, proofs[i], builder, Over(i), Everyone, signed, now)
      BY <1>3, <3>2, SignProofSigns
    <3> HIDE DEF new
    <3>4. QED
      BY <3>3 DEF SignedBy
  <2>4. LockState(proofs[i].secret, now) = LockState(proofs[1].secret, now)
    <3>1. 1 \in 1..2
      OBVIOUS
    <3>2. LocksAs(proofs[1].secret, builder, Ephemeral(builder, 1))
      BY <1>4, <3>1
    <3>3. QED
      BY <2>1, <3>2, SameState
  <2> HIDE DEF new
  <2>5. Complete(new, Over(i), signed')
    BY <1>1, <2>3, <2>4
  <2>6. proofs'[i] = new
    BY <1>5 DEF new
  <2>7. QED
    BY <2>3, <2>5, <2>6
<1>8. \A i \in 1..2 : /\ DOMAIN proofs'[i] = ProofFields /\ proofs'[i].secret = proofs[i].secret
                      /\ proofs'[i].preimage = proofs[i].preimage
  BY <1>4, <1>5, <1>7
<1>9. LockedInv'
  <2>1. proofs'[1].preimage = proofs'[2].preimage
    <3>1. 1 \in 1..2 /\ 2 \in 1..2
      OBVIOUS
    <3>2. proofs'[1].preimage = proofs[1].preimage /\ proofs'[2].preimage = proofs[2].preimage
      BY <1>8, <3>1, Zenon
    <3>3. QED
      BY <1>4, <3>2
  <2>2. QED
    BY <1>1, <1>2, <1>5, <1>8, <2>1, StillLocked
<1>10. SignedInv'
  <2>1. Everyone' = Everyone \cup people
    <3>1. {s.who : s \in added} = people
      <4>1. \A p, state : [who |-> p, state |-> state].who = p
        OBVIOUS
      <4>2. QED
        BY <4>1 DEF Given
    <3> HIDE DEF added
    <3>2. QED
      BY <1>1, <3>1 DEF Everyone
  <2>2. \A i \in Judged' : Sound(proofs'[i], builder', Everyone') /\ Complete(proofs'[i], Over(i)', signed')
    BY <1>1, <1>7, <2>1, SameMessage
  <2>3. ASSUME NEW s \in signed', s.state = "EXPIRED"
        PROVE  LockState(proofs'[1].secret, now') = "EXPIRED"
    <3>1. proofs'[1].secret = proofs[1].secret /\ now' = now
      BY <1>1, <1>8
    <3>2. CASE s \in signed
      BY <1>2, <2>3, <3>1, <3>2 DEF SignedInv
    <3>3. CASE s \in added
      BY <2>3, <3>1, <3>3 DEF Given
    <3>4. QED
      BY <1>1, <3>2, <3>3
  <2>4. QED
    BY <2>2, <2>3 DEF SignedInv
<1>11. QED
  BY <1>1, <1>2, <1>9, <1>10 DEF ConditionsInv

\* Somebody else signs the package: for their clear key, which is no key of a blinded lock.
LEMMA SignAsPackageStep ==
  ASSUME ConditionsInv, NEW person, SignAsPackage(person)
  PROVE  ConditionsInv'
<1> DEFINE added == IF builder.blind THEN {} ELSE {[who |-> person, state |-> LockState(proofs[1].secret, now)]}
           signature == SignPackage(SigningPackage(proofs, MergedOutputs, QuoteId), person)
<1>1. /\ now \in Nat /\ UNCHANGED <<builder, kind, now, verdict>> /\ signed' = signed \cup added
      /\ proofs' = MergeSignatures(proofs, signature) /\ proofs # <<>> /\ IsSigAll(proofs)
  BY DEF ConditionsInv, SignAsPackage
<1>2. builder # Null /\ LockedInv /\ SignedInv
  BY <1>1 DEF ConditionsInv
<1>3. /\ builder.sigAll /\ Told(builder) /\ Places(proofs) = [j \in 1..2 |-> j]
      /\ \A i \in 1..2 : Ephemeral(builder, i) \in Nat
  BY <1>1, <1>2, SigAllAsTold
<1>4. /\ DOMAIN proofs = 1..2 /\ \A i \in 1..2 : DOMAIN proofs[i] = ProofFields
      /\ \A i \in 1..2 : LocksAs(proofs[i].secret, builder, Ephemeral(builder, i))
      /\ proofs[1].preimage = proofs[2].preimage
  BY <1>2 DEF LockedInv
<1>5. signature = [key |-> Clear(person, FALSE), over |-> Over(1)]
  BY <1>3 DEF SignPackage, SigningPackage, Over
<1> HIDE DEF signature, added
<1>6. /\ DOMAIN proofs' = 1..2 /\ proofs'[2] = proofs[2] /\ DOMAIN proofs'[1] = ProofFields
      /\ proofs'[1].secret = proofs[1].secret /\ proofs'[1].preimage = proofs[1].preimage
      /\ proofs'[1].signatures = proofs[1].signatures \cup {signature}
  <2>1. 1 \in 1..2 /\ 2 \in 1..2 /\ DOMAIN proofs[1] = ProofFields
    BY <1>4
  <2> DEFINE new == [proofs[1] EXCEPT !.signatures = @ \cup {signature}]
  <2>2. /\ DOMAIN new = ProofFields /\ new.secret = proofs[1].secret /\ new.preimage = proofs[1].preimage
        /\ new.signatures = proofs[1].signatures \cup {signature}
    BY <2>1 DEF ProofFields
  <2>3. proofs' = [proofs EXCEPT ![1] = new]
    BY <1>1 DEF MergeSignatures
  <2> HIDE DEF new
  <2>4. DOMAIN proofs' = 1..2 /\ proofs'[2] = proofs[2] /\ proofs'[1] = new
    BY <1>4, <2>1, <2>3
  <2>5. QED
    BY <2>2, <2>4
<1>7. LockedInv'
  <2>1. \A i \in 1..2 : DOMAIN proofs'[i] = ProofFields /\ proofs'[i].secret = proofs[i].secret
    <3>1. \A i \in 1..2 : i = 1 \/ i = 2
      OBVIOUS
    <3>2. DOMAIN proofs'[2] = ProofFields
      BY <1>4, <1>6
    <3>3. QED
      BY <1>6, <3>1, <3>2
  <2>2. proofs'[1].preimage = proofs'[2].preimage
    BY <1>4, <1>6
  <2>3. QED
    BY <1>1, <1>2, <1>6, <2>1, <2>2, StillLocked
<1>8. Judged = {1} /\ Sound(proofs[1], builder, Everyone) /\ Complete(proofs[1], Over(1), signed)
  BY <1>2, <1>3 DEF Judged, SignedInv
<1>9. signature.key.x = person /\ signature.key.slot = 0
  BY <1>5 DEF Clear
<1>10. Complete(proofs'[1], Over(1), signed)
  <2>1. proofs[1].signatures \subseteq proofs'[1].signatures /\ proofs'[1].secret = proofs[1].secret
    BY <1>6
  <2>2. QED
    BY <1>8, <2>1, MoreSignatures
<1>11. Sound(proofs'[1], builder, Everyone') /\ Complete(proofs'[1], Over(1), signed')
  <2>1. CASE builder.blind
    <3>1. signed' = signed /\ Everyone' = Everyone
      BY <1>1, <2>1 DEF added, Everyone
    <3>2. Sound(proofs'[1], builder, Everyone)
      BY <1>6, <1>8, <1>9, <2>1 DEF Sound
    <3>3. QED
      BY <1>10, <3>1, <3>2
  <2>2. CASE ~builder.blind
    <3> DEFINE s == [who |-> person, state |-> LockState(proofs[1].secret, now)]
    <3>1. signed' = signed \cup {s}
      BY <1>1, <2>2 DEF added
    <3>2. s.who = person
      OBVIOUS
    <3> HIDE DEF s
    <3>3. Everyone' = Everyone \cup {person}
      BY <3>1, <3>2 DEF Everyone
    <3>4. Sound(proofs'[1], builder, Everyone')
      BY <1>6, <1>8, <1>9, <3>3 DEF Sound
    <3>5. Complete(proofs'[1], Over(1), {s})
      <4> DEFINE secret == proofs[1].secret
                 main == MainKeys(secret)
                 refund == secret.tags.refund
      <4>1. /\ Bears(main, builder.locks, builder.blind, FirstSlot(secret.kind), Ephemeral(builder, 1))
            /\ Bears(refund, builder.refunds, builder.blind, FirstSlot(secret.kind) + Len(main), Ephemeral(builder, 1))
        <5>1. 1 \in 1..2
          OBVIOUS
        <5>2. LocksAs(secret, builder, Ephemeral(builder, 1))
          BY <1>4, <5>1
        <5>3. QED
          BY <5>2 DEF LocksAs
      <4>2. \A k \in SecretKey : k.slot = 0 /\ k.ephemeral = Null /\ k.x = person => XOnly(k) = Clear(person, FALSE)
        BY SecretKeyParts DEF Clear
      <4> HIDE DEF main, refund
      <4>3. \A i \in DOMAIN main : main[i].x = person => XOnly(main[i]) = Clear(person, FALSE)
        <5>1. \A i \in DOMAIN main : main[i] \in SecretKey /\ main[i].slot = 0 /\ main[i].ephemeral = Null
          BY <2>2, <4>1 DEF Bears
        <5>2. QED
          BY <4>2, <5>1
      <4>4. \A i \in DOMAIN refund : refund[i].x = person => XOnly(refund[i]) = Clear(person, FALSE)
        <5>1. \A i \in DOMAIN refund : refund[i] \in SecretKey /\ refund[i].slot = 0 /\ refund[i].ephemeral = Null
          BY <2>2, <4>1 DEF Bears
        <5>2. QED
          BY <4>2, <5>1
      <4>5. [key |-> Clear(person, FALSE), over |-> Over(1)] \in proofs'[1].signatures
        BY <1>5, <1>6
      <4>6. \A i \in DOMAIN main : main[i].x = s.who => [key |-> XOnly(main[i]), over |-> Over(1)] \in proofs'[1].signatures
        BY <3>2, <4>3, <4>5
      <4>7. \A i \in DOMAIN refund : refund[i].x = s.who => [key |-> XOnly(refund[i]), over |-> Over(1)] \in proofs'[1].signatures
        BY <3>2, <4>4, <4>5
      <4>8. proofs'[1].secret = secret
        BY <1>6
      <4>9. QED
        BY <4>6, <4>7, <4>8 DEF Complete, main, refund
    <3>6. Complete(proofs'[1], Over(1), signed')
      BY <1>10, <3>1, <3>5 DEF Complete
    <3>7. QED
      BY <3>4, <3>6
  <2>3. QED
    BY <2>1, <2>2
<1>12. SignedInv'
  <2>1. \A i \in Judged' : Sound(proofs'[i], builder', Everyone') /\ Complete(proofs'[i], Over(i)', signed')
    BY <1>1, <1>8, <1>11, SameMessage
  <2>2. ASSUME NEW s \in signed', s.state = "EXPIRED"
        PROVE  LockState(proofs'[1].secret, now') = "EXPIRED"
    <3>1. proofs'[1].secret = proofs[1].secret /\ now' = now
      BY <1>1, <1>6
    <3>2. CASE s \in signed
      BY <1>2, <2>2, <3>1, <3>2 DEF SignedInv
    <3>3. CASE s \in added
      BY <2>2, <3>1, <3>3 DEF added
    <3>4. QED
      BY <1>1, <3>2, <3>3
  <2>3. QED
    BY <2>1, <2>2 DEF SignedInv
<1>13. QED
  BY <1>1, <1>2, <1>7, <1>12 DEF ConditionsInv

\* The preimage is given, to every proof.
LEMMA GivePreimageStep ==
  ASSUME ConditionsInv, GivePreimage
  PROVE  ConditionsInv'
<1>1. /\ now \in Nat /\ UNCHANGED <<builder, kind, now, signed, verdict>> /\ proofs # <<>>
      /\ proofs' = [i \in DOMAIN proofs |-> [proofs[i] EXCEPT !.preimage = TRUE]]
  BY DEF ConditionsInv, GivePreimage
<1>2. builder # Null /\ LockedInv /\ SignedInv
  BY <1>1 DEF ConditionsInv
<1>3. DOMAIN proofs = 1..2 /\ \A i \in 1..2 : DOMAIN proofs[i] = ProofFields
  BY <1>2 DEF LockedInv
<1>4. ASSUME NEW i \in 1..2
      PROVE  /\ DOMAIN proofs'[i] = ProofFields /\ proofs'[i].secret = proofs[i].secret
             /\ proofs'[i].signatures = proofs[i].signatures /\ proofs'[i].preimage = TRUE
  BY <1>1, <1>3 DEF ProofFields
<1>5. DOMAIN proofs' = 1..2
  BY <1>1, <1>3
<1>6. LockedInv'
  <2>1. proofs'[1].preimage = proofs'[2].preimage
    <3>1. 1 \in 1..2 /\ 2 \in 1..2
      OBVIOUS
    <3>2. proofs'[1].preimage = TRUE /\ proofs'[2].preimage = TRUE
      BY <1>4, <3>1, Zenon
    <3>3. QED
      BY <3>2, Zenon
  <2>2. QED
    BY <1>1, <1>2, <1>4, <1>5, <2>1, StillLocked
<1>7. SignedInv'
  <2>1. \A i \in Judged : Sound(proofs'[i], builder, Everyone) /\ Complete(proofs'[i], Over(i), signed)
    <3> TAKE i \in Judged
    <3>1. i \in 1..2
      BY DEF Judged
    <3>2. Sound(proofs[i], builder, Everyone) /\ Complete(proofs[i], Over(i), signed)
      BY <1>2 DEF SignedInv
    <3>3. proofs'[i].secret = proofs[i].secret /\ proofs'[i].signatures = proofs[i].signatures
      BY <1>4, <3>1
    <3>4. QED
      BY <3>2, <3>3 DEF Sound, Complete
  <2>2. Everyone' = Everyone
    BY <1>1 DEF Everyone
  <2>3. \A i \in Judged' : Sound(proofs'[i], builder', Everyone') /\ Complete(proofs'[i], Over(i)', signed')
    BY <1>1, <2>1, <2>2, SameMessage
  <2>4. proofs'[1].secret = proofs[1].secret
    BY <1>4
  <2>5. QED
    BY <1>1, <1>2, <2>3, <2>4 DEF SignedInv
<1>8. QED
  BY <1>1, <1>2, <1>6, <1>7 DEF ConditionsInv

\* Time passes: a lock that has expired stays so.
LEMMA TickStep ==
  ASSUME ConditionsInv, Tick
  PROVE  ConditionsInv'
<1>1. /\ now \in Nat /\ now' = now + 1 /\ now' \in Nat /\ proofs # <<>>
      /\ UNCHANGED <<builder, proofs, kind, signed, verdict>>
  BY DEF ConditionsInv, Tick
<1>2. builder # Null /\ LockedInv /\ SignedInv
  BY <1>1 DEF ConditionsInv
<1>3. LockedInv'
  BY <1>1, <1>2 DEF LockedInv
<1>4. SignedInv'
  <2>1. Everyone' = Everyone
    BY <1>1 DEF Everyone
  <2>2. \A i \in Judged' : Sound(proofs'[i], builder', Everyone') /\ Complete(proofs'[i], Over(i)', signed')
    BY <1>1, <1>2, <2>1, SameMessage DEF SignedInv
  <2>3. LockState(proofs[1].secret, now) = "EXPIRED" => LockState(proofs[1].secret, now + 1) = "EXPIRED"
    <3>1. 1 \in 1..2
      OBVIOUS
    <3>2. LocksAs(proofs[1].secret, builder, Ephemeral(builder, 1)) /\ builder \in Builders
      BY <1>2, <3>1 DEF LockedInv
    <3>3. Locktime(proofs[1].secret) \in Nat \cup {Null}
      BY <3>2, BuildersAreTold, ConditionSizes DEF LocksAs, TimeTold
    <3>4. PICK l \in Nat \cup {Null} : l = Locktime(proofs[1].secret)
      BY <3>3
    <3>5. l # Null /\ ~(now < l) => ~(now + 1 < l)
      BY <1>1
    <3>6. QED
      BY <3>4, <3>5 DEF LockState
  <2>4. QED
    BY <1>1, <1>2, <2>2, <2>3 DEF SignedInv
<1>5. QED
  BY <1>1, <1>2, <1>3, <1>4 DEF ConditionsInv

\* What decides the path of an input: enough signers for the lock keys and for the refund
\* keys, the locktime passed, a hash, its preimage, and lists that are empty.
PathFrom(main, refund, expired, hash, preimage, noMain, noRefund) ==
  LET p2pk == IF ~noMain /\ (~noRefund \/ ~expired) /\ main THEN "MAIN"
              ELSE IF ~expired THEN "FAILED" ELSE IF noRefund THEN "UNLOCKED" ELSE IF refund THEN "REFUND" ELSE "FAILED"
  IN IF ~hash \/ (IF ~noMain THEN p2pk # "MAIN" ELSE p2pk # "FAILED") THEN p2pk ELSE IF preimage THEN "MAIN" ELSE "FAILED"

\* What the builder was told about input i, and what its secret says.
LEMMA InputAsTold ==
  ASSUME LockedInv, NEW i \in 1..2
  PROVE  /\ Told(builder) /\ LocksAs(proofs[i].secret, builder, Ephemeral(builder, i)) /\ Ephemeral(builder, i) \in Nat
         /\ (proofs[i].secret.kind = "HTLC") = builder.hashlock /\ proofs[i].preimage = proofs[1].preimage
         /\ MainKeys(proofs[i].secret) = <<>> <=> builder.locks = <<>>
         /\ proofs[i].secret.tags.refund = <<>> <=> builder.refunds = <<>>
         /\ builder.locks = <<>> => builder.hashlock
         /\ (LockState(proofs[i].secret, now) = "EXPIRED") <=> TimeTold(builder) # Null /\ ~(now < TimeTold(builder))
<1> DEFINE secret == proofs[i].secret
           main == MainKeys(secret)
           refund == secret.tags.refund
<1>1. Told(builder) /\ Ephemeral(builder, i) \in Nat
  BY SigAllAsTold
<1>2. LocksAs(secret, builder, Ephemeral(builder, i)) /\ proofs[1].preimage = proofs[2].preimage
  BY DEF LockedInv
<1>3. proofs[i].preimage = proofs[1].preimage
  <2>1. i = 1 \/ i = 2
    OBVIOUS
  <2>2. QED
    BY <1>2, <2>1
<1>4. /\ secret.kind = (IF builder.hashlock THEN "HTLC" ELSE "P2PK") /\ builder.hashlock \in BOOLEAN
      /\ Locktime(secret) = TimeTold(builder)
      /\ main \in Seq(SecretKey) /\ Holders(main) = Holders(builder.locks)
      /\ refund \in Seq(SecretKey) /\ Holders(refund) = Holders(builder.refunds)
      /\ builder.locks \in Seq(ClearKeys) /\ builder.refunds \in Seq(ClearKeys)
  BY <1>1, <1>2 DEF LocksAs, Bears, Told
<1>5. (secret.kind = "HTLC") = builder.hashlock
  BY <1>4
<1>6. ~builder.hashlock => main # <<>>
  <2> SUFFICES ASSUME ~builder.hashlock, main = <<>>
               PROVE  FALSE
    OBVIOUS
  <2>1. main = <<secret.data>> \o secret.tags.pubkeys
    BY <1>4 DEF MainKeys
  <2>2. QED
    BY <2>1
<1> HIDE DEF main, refund
<1>7. (main = <<>> <=> builder.locks = <<>>) /\ (refund = <<>> <=> builder.refunds = <<>>)
  BY <1>4, NobodyHolds
<1>8. (LockState(secret, now) = "EXPIRED") <=> TimeTold(builder) # Null /\ ~(now < TimeTold(builder))
  BY <1>4 DEF LockState
<1>9. QED
  BY <1>1, <1>2, <1>3, <1>5, <1>6, <1>7, <1>8 DEF main, refund

\* A list of keys of a builder's secret.
BearsFor(b, keys, told, blind, first, ephemeral) == Bears(keys, told, blind, first, ephemeral) /\ blind = b.blind

\* Enough signers of a list of keys are enough of its holders among those who signed.
LEMMA SignersAreHolders ==
  ASSUME NEW told, NEW b, NEW blind \in BOOLEAN, NEW first \in Nat \ {0}, NEW ephemeral, NEW keys,
         BearsFor(b, keys, told, blind, first, ephemeral), NEW proof, NEW message, NEW who, Sound(proof, b, who)
  PROVE  SignersOf(proof, message, keys) \subseteq who
<1> SUFFICES ASSUME NEW j \in DOMAIN keys, [key |-> XOnly(keys[j]), over |-> message] \in proof.signatures
             PROVE  keys[j].x \in who
  BY DEF SignersOf
<1>1. keys \in Seq(SecretKey) /\ keys[j].slot = IF b.blind THEN first + j - 1 ELSE 0
  BY DEF Bears, BearsFor
<1>2. keys[j] \in SecretKey /\ j \in Nat \ {0}
  BY <1>1
<1>3. b.blind => keys[j].slot # 0
  BY <1>1, <1>2 DEF BearsFor
<1>4. XOnly(keys[j]) = [x |-> keys[j].x, odd |-> FALSE, slot |-> keys[j].slot, ephemeral |-> keys[j].ephemeral]
  BY <1>2, SecretKeyParts
<1> DEFINE g == [key |-> XOnly(keys[j]), over |-> message]
<1>5. g.key.x = keys[j].x /\ g.key.slot = keys[j].slot
  BY <1>4
<1>6. g \in proof.signatures
  OBVIOUS
<1> HIDE DEF g
<1>7. (b.blind /\ g.key.slot = 0) \/ g.key.x \in who
  BY <1>6 DEF Sound
<1>8. QED
  BY <1>3, <1>5, <1>7

\* What the verifier says of a judged input is what the builder was told of those who signed.
LEMMA Judges ==
  ASSUME LockedInv, SignedInv, now \in Nat, NEW i \in Judged
  PROVE  /\ HTLCPath(proofs[i], Over(i), now) # "FAILED" => MayTake(Everyone) \/ MayRefund(Everyone)
         /\ HTLCPath(proofs[i], Over(i), now) = "FAILED" => ~MayTake(Everyone) /\ (MayRefund(SignedExpired) => Shadowed)
<1> DEFINE secret == proofs[i].secret
           main == MainKeys(secret)
           refund == secret.tags.refund
           first == FirstSlot(secret.kind)
           second == first + Len(main)
           ephemeral == Ephemeral(builder, i)
           path == HTLCPath(proofs[i], Over(i), now)
           expired == LockState(secret, now) = "EXPIRED"
           enoughMain == Cardinality(ValidSigners(proofs[i], Over(i), main)) >= Default(secret.tags.nSigs, 1)
           enoughRefund == Cardinality(ValidSigners(proofs[i], Over(i), refund)) >= Default(secret.tags.nSigsRefund, 1)
<1>1. i \in 1..2 /\ Sound(proofs[i], builder, Everyone) /\ Complete(proofs[i], Over(i), signed)
  BY DEF SignedInv, Judged
<1>2. /\ Told(builder) /\ LocksAs(secret, builder, ephemeral) /\ ephemeral \in Nat
      /\ (secret.kind = "HTLC") = builder.hashlock /\ proofs[i].preimage = proofs[1].preimage
      /\ main = <<>> <=> builder.locks = <<>>
      /\ refund = <<>> <=> builder.refunds = <<>>
      /\ builder.locks = <<>> => builder.hashlock
      /\ expired <=> TimeTold(builder) # Null /\ ~(now < TimeTold(builder))
  BY <1>1, InputAsTold
<1>3. /\ Bears(main, builder.locks, builder.blind, first, ephemeral)
      /\ Bears(refund, builder.refunds, builder.blind, second, ephemeral)
      /\ main # <<>> => /\ Default(builder.nSigs, 1) \in Nat
                        /\ Default(secret.tags.nSigs, 1) = Default(builder.nSigs, 1)
      /\ refund # <<>> => /\ Default(builder.nSigsRefund, 1) \in Nat
                          /\ Default(secret.tags.nSigsRefund, 1) = Default(builder.nSigsRefund, 1)
  BY <1>2 DEF LocksAs
<1>4. builder.blind \in BOOLEAN /\ builder.hashlock \in BOOLEAN /\ first \in Nat \ {0} /\ second \in Nat \ {0}
  <2>1. first \in Nat \ {0}
    BY DEF FirstSlot
  <2>2. main \in Seq(SecretKey)
    BY <1>3 DEF Bears
  <2>3. Len(main) \in Nat
    BY <2>2
  <2> HIDE DEF first, main
  <2>4. QED
    BY <1>2, <2>1, <2>3 DEF Told
<1>5. path = PathFrom(enoughMain, enoughRefund, expired, secret.kind = "HTLC", proofs[i].preimage, main = <<>>, refund = <<>>)
  BY DEF HTLCPath, PathWithPreimage, P2PKPath, PathOf, PathFrom
<1> HIDE DEF path, main, refund, first, second, ephemeral, expired
<1>6. main # <<>> /\ enoughMain => Enough(Everyone, builder.locks, Default(builder.nSigs, 1))
  <2>1. SignersOf(proofs[i], Over(i), main) \subseteq Everyone
    <3>1. PICK blind \in BOOLEAN : blind = builder.blind
      BY <1>4
    <3>2. first \in Nat \ {0} /\ Sound(proofs[i], builder, Everyone) /\ BearsFor(builder, main, builder.locks, blind, first, ephemeral)
      BY <1>1, <1>3, <1>4, <3>1 DEF BearsFor
    <3>3. QED
      BY <3>2, SignersAreHolders
  <2>2. /\ Cardinality(ValidSigners(proofs[i], Over(i), main)) \in Nat
        /\ Cardinality(Everyone \cap Holders(builder.locks)) \in Nat
        /\ Cardinality(ValidSigners(proofs[i], Over(i), main)) <= Cardinality(Everyone \cap Holders(builder.locks))
    BY <1>3, <2>1, NoMoreSigners
  <2>3. QED
    BY <1>3, <2>2 DEF Enough
<1>7. refund # <<>> /\ enoughRefund => Enough(Everyone, builder.refunds, Default(builder.nSigsRefund, 1))
  <2>1. SignersOf(proofs[i], Over(i), refund) \subseteq Everyone
    <3>1. PICK blind \in BOOLEAN : blind = builder.blind
      BY <1>4
    <3>2. second \in Nat \ {0} /\ Sound(proofs[i], builder, Everyone) /\ BearsFor(builder, refund, builder.refunds, blind, second, ephemeral)
      BY <1>1, <1>3, <1>4, <3>1 DEF BearsFor
    <3>3. QED
      BY <3>2, SignersAreHolders
  <2>2. /\ Cardinality(ValidSigners(proofs[i], Over(i), refund)) \in Nat
        /\ Cardinality(Everyone \cap Holders(builder.refunds)) \in Nat
        /\ Cardinality(ValidSigners(proofs[i], Over(i), refund)) <= Cardinality(Everyone \cap Holders(builder.refunds))
    BY <1>3, <2>1, NoMoreSigners
  <2>3. QED
    BY <1>3, <2>2 DEF Enough
<1>8. \A s \in signed : s.state = "EXPIRED" => expired
  <2>1. \A s \in signed : s.state = "EXPIRED" => LockState(proofs[1].secret, now) = "EXPIRED"
    BY DEF SignedInv
  <2>2. LocksAs(proofs[1].secret, builder, Ephemeral(builder, 1)) /\ LocksAs(secret, builder, Ephemeral(builder, i))
    <3>1. 1 \in 1..2
      OBVIOUS
    <3>2. QED
      BY <1>1, <3>1 DEF LockedInv
  <2>3. LockState(proofs[1].secret, now) = LockState(secret, now)
    BY <2>2, SameState
  <2>4. QED
    BY <2>1, <2>3 DEF expired
<1>9. main # <<>> /\ (~expired \/ refund # <<>>) /\ Enough(Everyone, builder.locks, Default(builder.nSigs, 1)) => enoughMain
  <2> SUFFICES ASSUME main # <<>>, ~expired \/ refund # <<>>, Enough(Everyone, builder.locks, Default(builder.nSigs, 1))
               PROVE  enoughMain
    OBVIOUS
  <2>1. ASSUME NEW j \in DOMAIN main, main[j].x \in Everyone
        PROVE  [key |-> XOnly(main[j]), over |-> Over(i)] \in proofs[i].signatures
    <3>1. PICK s \in signed : s.who = main[j].x
      BY <2>1 DEF Everyone
    <3>2. s.state # "EXPIRED" \/ refund # <<>>
      BY <1>8
    <3>3. QED
      BY <1>1, <3>1, <3>2 DEF Complete, main, refund
  <2>2. /\ Cardinality(ValidSigners(proofs[i], Over(i), main)) \in Nat
        /\ Cardinality(Everyone \cap Holders(builder.locks)) \in Nat
        /\ Cardinality(Everyone \cap Holders(builder.locks)) <= Cardinality(ValidSigners(proofs[i], Over(i), main))
    BY <1>3, <2>1, NoFewerSigners
  <2>3. QED
    BY <1>3, <2>2 DEF Enough
<1>10. refund # <<>> /\ Enough(SignedExpired, builder.refunds, Default(builder.nSigsRefund, 1)) => enoughRefund
  <2> SUFFICES ASSUME refund # <<>>, Enough(SignedExpired, builder.refunds, Default(builder.nSigsRefund, 1))
               PROVE  enoughRefund
    OBVIOUS
  <2>1. ASSUME NEW j \in DOMAIN refund, refund[j].x \in SignedExpired
        PROVE  [key |-> XOnly(refund[j]), over |-> Over(i)] \in proofs[i].signatures
    <3>1. PICK s \in signed : s.who = refund[j].x /\ s.state = "EXPIRED"
      BY <2>1 DEF SignedExpired
    <3>2. QED
      BY <1>1, <3>1 DEF Complete, refund
  <2>2. /\ Cardinality(ValidSigners(proofs[i], Over(i), refund)) \in Nat
        /\ Cardinality(SignedExpired \cap Holders(builder.refunds)) \in Nat
        /\ Cardinality(SignedExpired \cap Holders(builder.refunds)) <= Cardinality(ValidSigners(proofs[i], Over(i), refund))
    BY <1>3, <2>1, NoFewerSigners
  <2>3. QED
    BY <1>3, <2>2 DEF Enough
<1> HIDE DEF enoughMain, enoughRefund
<1>11. expired <=> Expired
  <2>1. builder.locktime \in Nat \cup {Null}
    BY BuildersAreTold, ConditionSizes DEF LockedInv
  <2>2. builder.locktime # Null => (~(now < builder.locktime) <=> now >= builder.locktime)
    BY <2>1
  <2>3. QED
    BY <1>2, <2>2, NullAssumption DEF Expired, TimeTold
<1>12. main = <<>> => secret.kind = "HTLC"
  BY <1>2
<1>13. /\ path # "FAILED" => \/ (secret.kind = "HTLC" => proofs[i].preimage) /\ (main # <<>> => enoughMain)
                             \/ expired /\ (refund # <<>> => enoughRefund)
       /\ (secret.kind = "HTLC" => proofs[i].preimage) /\ (main # <<>> => (~expired \/ refund # <<>> => enoughMain)) =>
            path # "FAILED"
       /\ expired /\ (refund # <<>> => enoughRefund) =>
            path # "FAILED" \/ (secret.kind = "HTLC" /\ ~proofs[i].preimage /\ main # <<>> /\ enoughMain)
  BY <1>5, <1>12 DEF PathFrom
<1>14. path # "FAILED" => MayTake(Everyone) \/ MayRefund(Everyone)
  BY <1>2, <1>6, <1>7, <1>11, <1>13 DEF MayTake, MayRefund
<1>15. MayTake(Everyone) => path # "FAILED"
  BY <1>2, <1>9, <1>13 DEF MayTake
<1>16. MayRefund(SignedExpired) => path # "FAILED" \/ Shadowed
  BY <1>2, <1>6, <1>10, <1>11, <1>13 DEF MayRefund, Shadowed
<1>17. QED
  BY <1>14, <1>15, <1>16 DEF path

\* The verdict is about the judged inputs.
LEMMA VerdictIs ==
  ASSUME LockedInv,
         NEW outputs, outputs = IF kind = "melt" THEN MergedOutputs ELSE RequestOutputs(proofs, MergedOutputs)
  PROVE  \/ Verdict(proofs, outputs, QuoteId, now)
              = IF \A i \in Judged : HTLCPath(proofs[i], Over(i), now) # "FAILED" THEN "spendable" ELSE "locked"
         \/ Verdict(proofs, outputs, QuoteId, now) = "malformed" /\ Unspendable
<1>1. /\ IsSigAll(proofs) <=> builder.sigAll
      /\ builder.sigAll \in BOOLEAN /\ Places(proofs) = [j \in 1..2 |-> j]
  BY SigAllAsTold
<1>2. /\ DOMAIN proofs = 1..2 /\ \A i \in 1..2 : LocksAs(proofs[i].secret, builder, Ephemeral(builder, i))
      /\ builder.sigAll => proofs[1].secret = proofs[2].secret
  BY DEF LockedInv
<1>3. CASE \E i \in DOMAIN proofs : ~WellFormed(proofs[i].secret)
  <2>1. Verdict(proofs, outputs, QuoteId, now) = "malformed"
    BY <1>3 DEF Verdict
  <2>2. Unusable(builder)
    BY <1>2, <1>3 DEF LocksAs
  <2>3. QED
    BY <2>1, <2>2 DEF Unusable, Unspendable
<1> SUFFICES ASSUME ~\E i \in DOMAIN proofs : ~WellFormed(proofs[i].secret)
             PROVE  Verdict(proofs, outputs, QuoteId, now)
                      = IF \A i \in Judged : HTLCPath(proofs[i], Over(i), now) # "FAILED" THEN "spendable" ELSE "locked"
  BY <1>3
<1>4. CASE builder.sigAll
  <2>1. outputs = MergedOutputs /\ Judged = {1} /\ Over(1) = OfTransaction(Places(proofs), outputs, QuoteId)
    BY <1>1, <1>4 DEF RequestOutputs, Judged, Over
  <2>2. SigAllInputsMatch(proofs)
    <3>1. \A i \in 1..2 : SigAllFlag(proofs[i].secret) /\ proofs[i].secret = proofs[1].secret
      <4>1. \A i \in 1..2 : SigAllFlag(proofs[i].secret)
        BY <1>2, <1>4 DEF LocksAs
      <4>2. \A i \in 1..2 : i = 1 \/ i = 2
        OBVIOUS
      <4>3. QED
        BY <1>2, <1>4, <4>1, <4>2
    <3>2. QED
      BY <1>2, <3>1 DEF SigAllInputsMatch
  <2>3. Verdict(proofs, outputs, QuoteId, now)
          = IF HTLCPath(proofs[1], Over(1), now) # "FAILED" THEN "spendable" ELSE "locked"
    BY <1>1, <1>4, <2>1, <2>2 DEF Verdict
  <2>4. QED
    BY <2>1, <2>3
<1>5. CASE ~builder.sigAll
  <2>1. Judged = 1..2 /\ \A i : Over(i) = OfInput(i)
    BY <1>5 DEF Judged, Over
  <2>2. Verdict(proofs, outputs, QuoteId, now)
          = IF \A i \in DOMAIN proofs : HTLCPath(proofs[i], OfInput(i), now) # "FAILED" THEN "spendable" ELSE "locked"
    BY <1>1, <1>5 DEF Verdict
  <2>3. QED
    BY <1>2, <2>1, <2>2
<1>6. QED
  BY <1>1, <1>4, <1>5

\* The inputs are judged.
LEMMA SubmitStep ==
  ASSUME ConditionsInv, Submit
  PROVE  ConditionsInv' /\ SpendableByTheEntitled'
<1>1. /\ now \in Nat /\ UNCHANGED <<builder, proofs, kind, now, signed>> /\ proofs # <<>>
      /\ verdict' = Verdict(proofs, IF kind = "melt" THEN MergedOutputs ELSE RequestOutputs(proofs, MergedOutputs), QuoteId, now)
  BY DEF ConditionsInv, Submit
<1>2. builder # Null /\ LockedInv /\ SignedInv
  BY <1>1 DEF ConditionsInv
<1>3. \/ verdict' = IF \A i \in Judged : HTLCPath(proofs[i], Over(i), now) # "FAILED" THEN "spendable" ELSE "locked"
      \/ verdict' = "malformed" /\ Unspendable
  BY <1>1, <1>2, VerdictIs
<1>4. /\ Judged # {}
      /\ \A i \in Judged :
           /\ HTLCPath(proofs[i], Over(i), now) # "FAILED" => MayTake(Everyone) \/ MayRefund(Everyone)
           /\ HTLCPath(proofs[i], Over(i), now) = "FAILED" =>
                ~MayTake(Everyone) /\ (MayRefund(SignedExpired) => Shadowed)
  <2>1. Judged # {}
    BY DEF Judged
  <2>2. QED
    BY <1>1, <1>2, <2>1, Judges
<1>5. /\ verdict' = "spendable" => MayTake(Everyone) \/ MayRefund(Everyone)
      /\ verdict' # "spendable" => Unspendable \/ (~MayTake(Everyone) /\ (MayRefund(SignedExpired) => Shadowed))
  BY <1>3, <1>4
<1>6. /\ MayTake(Everyone)' <=> MayTake(Everyone)
      /\ MayRefund(Everyone)' <=> MayRefund(Everyone)
      /\ MayRefund(SignedExpired)' <=> MayRefund(SignedExpired)
      /\ Shadowed' <=> Shadowed
      /\ Unspendable' <=> Unspendable
  BY <1>1 DEF Unspendable, MayTake, MayRefund, Shadowed, Everyone, SignedExpired, Expired
<1>7. SpendableByTheEntitled'
  BY <1>5, <1>6 DEF SpendableByTheEntitled, OnlyForTheEntitled, EntitledSucceed
<1>8. LockedInv' /\ SignedInv'
  <2>1. LockedInv'
    BY <1>1, <1>2 DEF LockedInv
  <2>2. Everyone' = Everyone
    BY <1>1 DEF Everyone
  <2>3. \A i \in Judged' : Sound(proofs'[i], builder', Everyone') /\ Complete(proofs'[i], Over(i)', signed')
    BY <1>1, <1>2, <2>2, SameMessage DEF SignedInv
  <2>4. \A s \in signed : s.state = "EXPIRED" => LockState(proofs[1].secret, now) = "EXPIRED"
    BY <1>2 DEF SignedInv
  <2>5. QED
    BY <1>1, <2>1, <2>3, <2>4 DEF SignedInv
<1>9. QED
  BY <1>1, <1>2, <1>7, <1>8 DEF ConditionsInv

\* Before there is a verdict there is nothing to say.
LEMMA NoVerdictYet ==
  ASSUME verdict' = Null
  PROVE  SpendableByTheEntitled'
BY NullAssumption DEF SpendableByTheEntitled, OnlyForTheEntitled, EntitledSucceed

\* Locked proofs are spent by those the lock was built for and by no others, for any keys,
\* thresholds and locktimes, of any number of slots, however often the options were
\* stored in between and whoever signs in whatever order and state of the lock.
THEOREM SpendableByTheEntitledHolds == ConditionsSpec => []SpendableByTheEntitled
<1> DEFINE Inv == ConditionsInv /\ SpendableByTheEntitled
<1>1. ConditionsInit => Inv
  BY NullAssumption DEF ConditionsInit, ConditionsInv, SpendableByTheEntitled, OnlyForTheEntitled, EntitledSucceed
<1>2. Inv /\ [ConditionsNext]_conditionVars => Inv'
  <2> SUFFICES ASSUME Inv, [ConditionsNext]_conditionVars
               PROVE  Inv'
    OBVIOUS
  <2>1. ASSUME NEW b \in Builders, NEW again \in BOOLEAN, LockProofs(b, again)
        PROVE  Inv'
    <3>1. verdict' = Null
      BY <2>1 DEF LockProofs, ConditionsInv
    <3>2. QED
      BY <2>1, <3>1, LockProofsStep, NoVerdictYet
  <2>2. ASSUME NEW people \in {{p} : p \in People} \cup {People}, SignInputs(people)
        PROVE  Inv'
    <3>1. verdict' = Null
      BY <2>2 DEF SignInputs
    <3>2. QED
      BY <2>2, <3>1, SignInputsStep, NoVerdictYet
  <2>3. ASSUME NEW p \in People, SignAsPackage(p)
        PROVE  Inv'
    <3>1. verdict' = Null
      BY <2>3 DEF SignAsPackage
    <3>2. QED
      BY <2>3, <3>1, SignAsPackageStep, NoVerdictYet
  <2>4. CASE GivePreimage
    <3>1. verdict' = Null
      BY <2>4 DEF GivePreimage
    <3>2. QED
      BY <2>4, <3>1, GivePreimageStep, NoVerdictYet
  <2>5. CASE Tick
    <3>1. verdict' = Null
      BY <2>5 DEF Tick
    <3>2. QED
      BY <2>5, <3>1, TickStep, NoVerdictYet
  <2>6. CASE Submit
    BY <2>6, SubmitStep
  <2>7. CASE UNCHANGED conditionVars
    <3>1. UNCHANGED <<builder, proofs, kind, now, signed, verdict>>
      BY <2>7 DEF conditionVars
    <3>2. SpendableByTheEntitled'
      BY <3>1 DEF SpendableByTheEntitled, OnlyForTheEntitled, EntitledSucceed, MayTake, MayRefund, Shadowed,
                  Unspendable, Everyone, SignedExpired, Expired
    <3>3. ConditionsInv'
      <4>1. builder # Null => LockedInv' /\ SignedInv'
        <5> SUFFICES ASSUME builder # Null
                     PROVE  LockedInv' /\ SignedInv'
          OBVIOUS
        <5>1. LockedInv /\ SignedInv
          BY DEF ConditionsInv
        <5>2. LockedInv'
          BY <3>1, <5>1 DEF LockedInv
        <5>3. Everyone' = Everyone
          BY <3>1 DEF Everyone
        <5>4. \A i \in Judged' : Sound(proofs'[i], builder', Everyone') /\ Complete(proofs'[i], Over(i)', signed')
          BY <3>1, <5>1, <5>3, SameMessage DEF SignedInv
        <5>5. \A s \in signed : s.state = "EXPIRED" => LockState(proofs[1].secret, now) = "EXPIRED"
          BY <5>1 DEF SignedInv
        <5>6. QED
          BY <3>1, <5>2, <5>4, <5>5 DEF SignedInv
      <4>2. QED
        BY <3>1, <4>1 DEF ConditionsInv
    <3>4. QED
      BY <3>2, <3>3
  <2>8. QED
    BY <2>1, <2>2, <2>3, <2>4, <2>5, <2>6, <2>7 DEF ConditionsNext
<1>3. Inv => SpendableByTheEntitled
  OBVIOUS
<1>4. QED
  BY <1>1, <1>2, <1>3, PTL DEF ConditionsSpec
=============================================================================
