------------------------------- MODULE Quotes -------------------------------
(***************************************************************************)
(* Quotes: what the mint client makes of a mint's answers about mint and   *)
(* melt quotes, and what the wallet checks of them when they are created,  *)
(* looked up (one by one or in a batch), minted and melted.                *)
(*                                                                         *)
(* The mint is external.  It may predate quote accounting and tell only the*)
(* state of a single-use quote, and any answer may have one field wrong.   *)
(* Payments reach it at any time, so what the wallet holds gets old.       *)
(***************************************************************************)
EXTENDS Integers, Sequences, FiniteSets, SequencesExt, Outcomes

CONSTANTS QuoteIds,     \* the mint quotes that are made
          Advertised,   \* the mint methods the mint advertises for the wallet's unit
          Sizes,        \* amounts asked for
          LargestPaid,  \* bound on what is paid to a quote
          MaxBatch,     \* the batch size in force
          Msats,        \* amounts of invoices to melt, in thousandths
          Keyed         \* the pubkeys that lock quotes

ASSUME QuoteSizes == Sizes \subseteq Nat \ {0} /\ LargestPaid \in Nat /\ Msats \subseteq Nat
ASSUME QuotesAreFinite == IsFiniteSet(QuoteIds)
ASSUME QuoteNull == Null \notin Nat \cup [method : Advertised, amount : Sizes, pubkey : Keyed \cup {Null}]
ASSUME QuoteMethods == Advertised \subseteq {"bolt11", "bolt12", "onchain", "custom"}

VARIABLES
  legacy,     \* the mint predates quote accounting
  asked,      \* asked[q]: method, amount and pubkey the quote was created with
  ledger,     \* ledger[q]: what the mint has of q: paid and issued
  held,       \* held[q]: the quote as the wallet last returned it
  fresh,      \* the quotes about which nothing has changed since
  outcome,    \* of the last call of mint or batch mint
  melt        \* the last melt quote: what was asked and what was accepted

quoteVars == <<legacy, asked, ledger, held, fresh, outcome, melt>>

States == {"UNPAID", "PAID", "ISSUED"}
Failure == [throws |-> TRUE]
IsFailure(r) == "throws" \in DOMAIN r
-----------------------------------------------------------------------------
(* Normalisation of mint quotes.                                            *)

\* Variant: an issued quote counts as one that may still be minted.
AccountingOfIssued(raw) ==
  IF raw.state \notin States THEN Null
  ELSE IF raw.state = "UNPAID" THEN [paid |-> 0, issued |-> 0]
  ELSE IF raw.amount = Null THEN Null ELSE [paid |-> raw.amount, issued |-> 0]

\* deriveMintQuoteAccounting: [amount_paid, amount_issued] from a single-use state.
DeriveMintQuoteAccounting(raw) ==
  IF raw.state \notin States THEN Null
  ELSE IF raw.state = "UNPAID" THEN [paid |-> 0, issued |-> 0]
  ELSE IF raw.amount = Null THEN Null
  ELSE [paid |-> raw.amount, issued |-> IF raw.state = "ISSUED" THEN raw.amount ELSE 0]

\* deriveMintQuoteState.
DeriveMintQuoteState(paid, issued) ==
  IF paid = 0 /\ issued = 0 THEN "UNPAID" ELSE IF paid > issued THEN "PAID" ELSE "ISSUED"

\* normalizeMintBaseFields with normalizeQuoteMethod.
NormalizeMintBaseFields(method, raw) ==
  LET accounting == IF raw.paid # Null /\ raw.issued # Null
                    THEN [paid |-> raw.paid, issued |-> raw.issued]
                    ELSE DeriveMintQuoteAccounting(raw)
  IN IF raw.method \notin {method, Null} \/ accounting = Null \/ raw.request = Null \/ raw.unit = Null
     THEN Failure
     ELSE [raw EXCEPT !.method = method, !.paid = accounting.paid, !.issued = accounting.issued]

\* normalizeMintQuoteBolt11Fields: amount is required, a missing state is derived.
NormalizeMintQuoteBolt11(data) ==
  IF data.amount = Null THEN Failure
  ELSE [data EXCEPT !.state = IF @ \in States THEN @ ELSE DeriveMintQuoteState(data.paid, data.issued)]

NormalizeMintQuoteResponse(method, raw) ==
  LET base == NormalizeMintBaseFields(method, raw)
  IN IF method = "bolt11" /\ ~IsFailure(base) THEN NormalizeMintQuoteBolt11(base) ELSE base
-----------------------------------------------------------------------------
(* The mint (external).                                                     *)

SingleUse(method) == method = "bolt11"

\* Its own view of the state.
MintState(q) == DeriveMintQuoteState(ledger[q].paid, ledger[q].issued)

\* What it answers about q; accounting is newer than the bolt11 method and older than the
\* others.
AnswerAbout(q, a, account) ==
  LET accounts == ~legacy \/ a.method # "bolt11"
  IN [quote |-> q, method |-> IF accounts THEN a.method ELSE Null, request |-> "request", unit |-> "sat",
      amount |-> a.amount, invoice |-> IF a.method = "bolt11" THEN 1000 * a.amount ELSE Null,
      paid |-> IF accounts THEN account.paid ELSE Null,
      issued |-> IF accounts THEN account.issued ELSE Null,
      state |-> IF accounts THEN Null ELSE DeriveMintQuoteState(account.paid, account.issued),
      pubkey |-> a.pubkey]

\* The right answer and those with one field wrong.
MayAnswer(raw) ==
  {raw, [raw EXCEPT !.method = "other"], [raw EXCEPT !.request = Null], [raw EXCEPT !.unit = Null],
   [raw EXCEPT !.paid = Null, !.state = "other"]}
    \cup (IF raw.invoice = Null THEN {}
          ELSE {[raw EXCEPT !.amount = @ + 1], [raw EXCEPT !.invoice = @ + 1], [raw EXCEPT !.amount = Null]})

\* Somebody pays: once and in full for a single-use quote, any number of times otherwise.
Pay(q, amount) ==
  /\ asked[q] # Null /\ ledger[q].paid + amount <= LargestPaid
  /\ SingleUse(asked[q].method) => ledger[q].paid = 0 /\ amount = asked[q].amount
  /\ ledger' = [ledger EXCEPT ![q].paid = @ + amount]
  /\ fresh' = fresh \ {q}
  /\ UNCHANGED <<legacy, asked, held, outcome, melt>>

\* What it issues: at most what is there, all of a single-use quote at once.
Payable(q) == ledger[q].paid - ledger[q].issued
WouldIssue(q, amount) ==
  amount <= Payable(q) /\ (SingleUse(asked[q].method) => amount = asked[q].amount)
-----------------------------------------------------------------------------
(* Mint quotes.                                                             *)

\* assertBolt11MintQuoteAmount: amount and invoice are what was asked for.
Bolt11AmountMatches(res, expected) == res.amount = expected /\ res.invoice = 1000 * expected

\* A quote asked to be locked has to be locked to that key.
LockedAsAsked(res, pubkey) == pubkey = Null \/ res.pubkey = pubkey

Holds(q, res) == held' = [held EXCEPT ![q] = res] /\ fresh' = fresh \cup {q}

\* createMintQuoteBolt11, createLockedMintQuote, createMintQuoteBolt12, createMintQuoteOnchain
\* and createMintQuote, in sats; methods the mint does not advertise are refused, and bolt12
\* and onchain quotes need a key.  The answer may be locked to any key or to none.
CreateMintQuote(q, method, amount, pubkey) ==
  /\ asked[q] = Null /\ method \in Advertised
  /\ method \in {"bolt12", "onchain"} => pubkey # Null
  /\ \E a \in {[method |-> method, amount |-> amount, pubkey |-> pubkey]} :
       /\ asked' = [asked EXCEPT ![q] = a]
       /\ \E k \in Keyed \cup {Null},
            raw \in MayAnswer(AnswerAbout(q, a, [paid |-> 0, issued |-> 0])) :
            LET res == NormalizeMintQuoteResponse(method, [raw EXCEPT !.pubkey = k])
            IN IF \/ IsFailure(res)
                  \/ method = "bolt11" /\ ~Bolt11AmountMatches(res, amount)
                  \/ ~LockedAsAsked(res, pubkey)
               THEN UNCHANGED <<held, fresh>> ELSE Holds(q, res)
  /\ UNCHANGED <<legacy, ledger, outcome, melt>>

\* checkMintQuoteBolt11, ...Bolt12, ...Onchain and checkMintQuote: there is no expectation of
\* the caller, so the invoice is compared with the quote's own amount.
CheckMintQuote(q) ==
  /\ held[q] # Null
  /\ \E raw \in MayAnswer(AnswerAbout(q, asked[q], ledger[q])) :
       LET res == NormalizeMintQuoteResponse(asked[q].method, raw)
       IN /\ ~IsFailure(res)
          /\ asked[q].method = "bolt11" => Bolt11AmountMatches(res, res.amount)
          /\ Holds(q, res)
  /\ UNCHANGED <<legacy, asked, ledger, outcome, melt>>

\* checkMintQuoteBatch: one answer for each quote, in the order of the request; the bolt11
\* version compares the invoices too.
AnswersMatch(quotes, answers) ==
  Len(answers) = Len(quotes) /\ \A i \in DOMAIN quotes : answers[i].quote = quotes[i]

\* All of the answers are taken, or none.
CheckMintQuoteBatch(quotes, method) ==
  /\ quotes # <<>> /\ \A i \in DOMAIN quotes : held[quotes[i]] # Null /\ asked[quotes[i]].method = method
  /\ \E answers \in LET right == [i \in DOMAIN quotes |-> AnswerAbout(quotes[i], asked[quotes[i]], ledger[quotes[i]])]
                    IN {right, Reverse(right), Tail(right)} :
       LET res == [i \in DOMAIN answers |-> NormalizeMintQuoteResponse(method, answers[i])]
       IN /\ AnswersMatch(quotes, answers)
          /\ \A i \in DOMAIN res : /\ ~IsFailure(res[i])
                                   /\ method = "bolt11" => Bolt11AmountMatches(res[i], res[i].amount)
          /\ held' = [q \in QuoteIds |->
                        IF q \in ToSet(quotes) THEN res[CHOOSE i \in DOMAIN quotes : quotes[i] = q]
                        ELSE held[q]]
          /\ fresh' = fresh \cup ToSet(quotes)
  /\ UNCHANGED <<legacy, asked, ledger, outcome, melt>>
-----------------------------------------------------------------------------
(* Minting.                                                                 *)

\* Variant: what was paid when the quote was fetched is all there is.
SnapshotIsFinal(quote, amount) == amount > quote.paid - quote.issued

\* validateMintQuoteAvailableAmount: a quote fetched before it was paid says nothing.
TooMuch(quote, amount) ==
  ~(quote.paid = 0 /\ quote.issued = 0) /\ amount > quote.paid - quote.issued

\* prepareMint refuses by itself, or the request reaches the mint; a locked quote needs its key.
Mint(q, amount, pubkey) ==
  /\ held[q] # Null
  /\ IF TooMuch(held[q], amount)
     THEN outcome' = [of |-> "wallet", wrong |-> WouldIssue(q, amount), method |-> asked[q].method, fresh |-> q \in fresh]
          /\ UNCHANGED <<ledger, fresh>>
     ELSE IF ~WouldIssue(q, amount) \/ (asked[q].pubkey # Null /\ asked[q].pubkey # pubkey)
     THEN outcome' = [of |-> "mint", wrong |-> FALSE, method |-> asked[q].method, fresh |-> q \in fresh]
          /\ UNCHANGED <<ledger, fresh>>
     ELSE /\ outcome' = Null
          /\ ledger' = [ledger EXCEPT ![q].issued = @ + amount]
          /\ fresh' = fresh \ {q}
  /\ UNCHANGED <<legacy, asked, held, melt>>

\* prepareBatchMint: one request for the quotes, with a signature for each locked one by a
\* key at hand; all are issued or none.
MintBatch(quotes, amounts, keys) ==
  /\ quotes # {} /\ \A q \in quotes : held[q] # Null
  /\ IF \/ Cardinality(quotes) > MaxBatch
        \/ \E q \in quotes : held[q].pubkey # Null /\ held[q].pubkey \notin keys
     THEN outcome' = [of |-> "wallet", wrong |-> FALSE, method |-> "batch", fresh |-> FALSE]
          /\ UNCHANGED <<ledger, fresh>>
     ELSE IF \E q \in quotes : \/ ~WouldIssue(q, amounts[q])
                               \/ asked[q].pubkey # Null /\ asked[q].pubkey \notin keys
     THEN outcome' = [of |-> "mint", wrong |-> FALSE, method |-> "batch", fresh |-> FALSE]
          /\ UNCHANGED <<ledger, fresh>>
     ELSE /\ outcome' = Null
          /\ ledger' = [q \in QuoteIds |->
                          IF q \in quotes THEN [ledger[q] EXCEPT !.issued = @ + amounts[q]] ELSE ledger[q]]
          /\ fresh' = fresh \ quotes
  /\ UNCHANGED <<legacy, asked, held, melt>>
-----------------------------------------------------------------------------
(* Melt quotes.                                                             *)

\* normalizeMeltQuoteResponse: amount, state, expiry and, for bolt, the fee reserve are
\* required; an onchain quote offers fees with an index each.
NormalizeMelt(method, raw) ==
  IF \/ raw.method \notin {method, Null} \/ raw.amount = Null \/ raw.expiry = Null
     \/ raw.state \notin {"UNPAID", "PENDING", "PAID"}
     \/ method \in {"bolt11", "bolt12"} /\ raw.reserve = Null
     \/ method = "onchain" /\ raw.fees = {}
  THEN Failure ELSE raw

\* assertBolt11MeltQuoteAmount: at most the invoice, rounded up to whole sats.
Overcharges(amount, msat) == msat # Null /\ amount > (msat + 999) \div 1000

\* createMeltQuoteBolt11, createMultiPathMeltQuote and checkMeltQuoteBolt11: an amount is
\* given if and only if the invoice has none; a partial payment is bounded by its part.
CreateMeltQuote(method, invoice, given, part, raw) ==
  LET res == NormalizeMelt(method, raw)
      expected == IF part # Null THEN part ELSE IF invoice # Null THEN invoice ELSE given
  IN /\ melt' = IF \/ part = Null /\ given # Null /\ invoice # Null
                   \/ IsFailure(res)
                   \/ method = "bolt11" /\ Overcharges(res.amount, expected)
                THEN [method |-> method, asked |-> expected, quote |-> Null, sent |-> FALSE]
                ELSE [method |-> method, asked |-> expected, quote |-> res, sent |-> FALSE]
     /\ UNCHANGED <<legacy, asked, ledger, held, fresh, outcome>>

\* meltProofsOnchain: the fee chosen must be one of those offered, and the proofs must cover
\* amount, that fee and the input fee; what they pay above is change (WalletTransactions).
MeltOnchain(index, sum, inputFee) ==
  /\ melt # Null /\ melt.quote # Null /\ ~melt.sent /\ melt.method = "onchain"
  /\ \E option \in melt.quote.fees :
       option.index = index /\ sum >= melt.quote.amount + option.reserve + inputFee
  /\ melt' = [melt EXCEPT !.sent = TRUE]
  /\ UNCHANGED <<legacy, asked, ledger, held, fresh, outcome>>
-----------------------------------------------------------------------------
MeltAnswers(method, amount) ==
  LET right == [method |-> method, amount |-> amount, expiry |-> 1, state |-> "UNPAID", reserve |-> 1,
                fees |-> {[index |-> 0, reserve |-> 1]}]
  IN {right, [right EXCEPT !.method = Null], [right EXCEPT !.method = "other"], [right EXCEPT !.expiry = Null],
      [right EXCEPT !.state = "other"], [right EXCEPT !.reserve = Null], [right EXCEPT !.fees = {}]}

QuotesInit ==
  /\ legacy \in BOOLEAN
  /\ asked = [q \in QuoteIds |-> Null] /\ held = [q \in QuoteIds |-> Null] /\ fresh = {}
  /\ ledger = [q \in QuoteIds |-> [paid |-> 0, issued |-> 0]]
  /\ outcome = Null /\ melt = Null

MintSide == \E q \in QuoteIds, amount \in Sizes : Pay(q, amount)
MintQuotes ==
  \/ \E q \in QuoteIds, method \in Advertised, amount \in Sizes, k \in Keyed \cup {Null} :
       melt = Null /\ CreateMintQuote(q, method, amount, k)
  \/ \E q \in QuoteIds : CheckMintQuote(q)
  \/ \E quotes \in SetToAllKPermutations(QuoteIds), method \in Advertised :
       CheckMintQuoteBatch(quotes, method)
Mints ==
  \/ \E q \in QuoteIds, amount \in Sizes, k \in Keyed \cup {Null} : Mint(q, amount, k)
  \/ \E quotes \in SUBSET QuoteIds, amounts \in [QuoteIds -> Sizes], keys \in SUBSET Keyed :
       MintBatch(quotes, amounts, keys)
\* Melt quotes share nothing with mint quotes: a behaviour is about one or the other.
Melts ==
  \/ /\ melt = Null /\ \A q \in QuoteIds : asked[q] = Null
     /\ \E method \in {"bolt11", "bolt12", "onchain"}, invoice, given, part \in Msats \cup {Null},
           amount \in Sizes : \E raw \in MeltAnswers(method, amount) :
          CreateMeltQuote(method, invoice, given, part, raw)
  \/ \E index \in {0, 1}, sum \in Sizes, fee \in {0, 1} : MeltOnchain(index, sum, fee)

QuotesNext == MintSide \/ MintQuotes \/ Mints \/ Melts
QuotesSpec == QuotesInit /\ [][QuotesNext]_quoteVars
-----------------------------------------------------------------------------
(* Properties.                                                              *)

\* A quote the wallet returned is the one asked for, locked to the key asked for, and what it
\* says has been paid and issued is what the mint has, until something changes there: the
\* same for mints that account and those that tell only a state, and whether it was
\* created, looked up or part of a batch.  A bolt11 melt quote asks for less than a sat more
\* than is to be paid.
QuotesAreTrue ==
  /\ \A q \in QuoteIds : held[q] # Null =>
       /\ held[q].quote = q /\ held[q].method = asked[q].method
       /\ asked[q].pubkey # Null => held[q].pubkey = asked[q].pubkey
       /\ q \in fresh => held[q].paid = ledger[q].paid /\ held[q].issued = ledger[q].issued
  /\ melt # Null /\ melt.quote # Null /\ melt.method = "bolt11" /\ melt.asked # Null =>
       1000 * melt.quote.amount < melt.asked + 1000

\* The wallet refuses to mint only what the mint would not issue either, as far as it can
\* know: always for a single-use quote, however old the object is that the caller passes,
\* and for the others if nothing has changed since.
RefusalsAreRight ==
  outcome # Null /\ (SingleUse(outcome.method) \/ outcome.fresh) => ~outcome.wrong
=============================================================================
