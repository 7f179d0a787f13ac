------------------------- MODULE WalletTransactions -------------------------
(***************************************************************************)
(* The wallet's transactions with the mint: receive, send, mint and melt,  *)
(* each prepared (counters claimed, outputs made, a preview returned) and  *)
(* completed (sent, answered, turned into proofs).  Answers get lost or    *)
(* come back damaged, previews are completed again, the process dies, and  *)
(* what the mint has signed by then is found again from the seed.          *)
(*                                                                         *)
(* The mint is external.  It executes a request atomically and answers a   *)
(* repeated one from its cache or with an error.  The application is       *)
(* external too: it stores proofs, keeps previews or not, and removes spent*)
(* proofs from its store.                                                  *)
(***************************************************************************)
EXTENDS Amounts, Restore

CONSTANTS Transactions, \* one transaction each
          Options,      \* how an operation may be called: its kind, whether its outputs are
                        \* deterministic and its preview kept, and its configuration
          Keys,         \* the denominations of the keyset
          InputFeePpk,  \* its input_fee_ppk
          SendAmounts,  \* amounts to send
          QuoteAmounts, \* amounts of mint and melt quotes
          Stored,       \* the proofs the wallet starts with, by counter
          Token,        \* proofs received from somebody else, by negative ids
          GapLimit, BatchSize,  \* the configuration of batchRestore
          None          \* undefined

ProofRecords == [id : Int, amount : Nat]   \* a proof, or an output before it is signed
Signatures   == [b : Int, amount : Nat, ours : BOOLEAN]
Previews     == [kind : {"receive", "send", "mint", "melt"}, inputs : SUBSET ProofRecords,
                 keep : Seq(ProofRecords), send : Seq(ProofRecords), quote : Nat,
                 sigAll : BOOLEAN, kept : BOOLEAN, legacy : BOOLEAN]

ASSUME KeysAssumption   == IsFiniteSet(Keys) /\ Keys \subseteq Nat
ASSUME AmountAssumption == SendAmounts \cup QuoteAmounts \subseteq 1..MaxAmount
ASSUME GapAssumption    == GapLimit \in Nat /\ BatchSize \in Nat \ {0}
ASSUME NoneAssumption   ==
  None \notin Previews \cup Seq(Signatures) \cup {"PENDING", "PAID", "UNPAID"}
ASSUME OptionsAssumption == \A x \in Options : {x.det, x.kept, x.sigAll, x.locked} \subseteq BOOLEAN
\* The stored proofs have used the first counters; a received proof has another id than any
\* output the wallet makes (random outputs have ids from -1000 down).
ASSUME StoredAssumption ==
  /\ IsFiniteSet(Stored) /\ Stored \subseteq [id : Nat, amount : Keys]
  /\ \A p \in Stored : p.id < Cardinality(Stored)
  /\ \A p, q \in Stored : p.id = q.id => p = q
ASSUME TokenAssumption  ==
  /\ IsFiniteSet(Token) /\ Token \subseteq [id : -999..-1, amount : Keys]
  /\ \A p, q \in Token : p.id = q.id => p = q

VARIABLES
  store,      \* the application's proofs
  given,      \* given[o]: proofs returned by o to be sent
  nextCounter,     \* the next counter
  randoms,    \* the number of random outputs made
  txn,        \* txn[o]: the preview of o, kept here also after it is lost
  held,       \* the operations whose preview (or blanks) somebody still has
  call,       \* call[o]: "idle", "waiting" or "done"
  wire,       \* wire[o]: the request or the answer under way
  signed,     \* signed[id]: the amount the mint signed for an output
  spent,      \* the ids of proofs that are spent or pending at the mint
  answers,    \* answers[o]: the signatures the mint made for o
  payment,    \* payment[o]: the state of the melt quote
  forfeited   \* overpaid amounts for which there was no blank left

appVars  == <<store, given, txn, held, call>>
mintVars == <<signed, spent, answers, payment, forfeited>>
transactionVars == <<appVars, nextCounter, randoms, wire, mintVars>>

AmountOfProofs(P) == MapThenSumSet(LAMBDA p : p.amount, P)
Ids(P) == {p.id : p \in P}
Fee(n) == FeesForKeyset(n, InputFeePpk)

\* The denominations of an amount, and with those that pay the receiver's fee; the call
\* throws where there are none.
Split         == [a \in 0..MaxAmount |-> ConfigureOutputs(a, Keys, <<>>, FALSE, InputFeePpk, <<>>, 0)]
SplitWithFees == [a \in 0..MaxAmount |-> ConfigureOutputs(a, Keys, <<>>, TRUE, InputFeePpk, <<>>, 0)]

TransactionInit ==
  /\ store = Stored /\ given = [o \in Transactions |-> <<>>]
  /\ nextCounter = Cardinality(Stored) /\ randoms = 0
  /\ txn = [o \in Transactions |-> None] /\ held = {} /\ call = [o \in Transactions |-> "idle"]
  /\ wire = [o \in Transactions |-> None]
  /\ signed = [c \in Ids(Stored \cup Token) |->
                 (CHOOSE p \in Stored \cup Token : p.id = c).amount]
  /\ spent = {} /\ answers = [o \in Transactions |-> None]
  /\ payment = [o \in Transactions |-> None] /\ forfeited = 0
-----------------------------------------------------------------------------
(* Preparing.                                                               *)

\* createOutputData: outputs with the next counters, or random ones; blanks have amount 0.
CreateOutputs(amounts, first, det) ==
  [i \in DOMAIN amounts |->
     [id |-> IF det THEN first + i - 1 ELSE -(1000 + first + i - 1), amount |-> amounts[i]]]

\* The claim of addCountersToOutputTypes for the operation's outputs together.
ClaimCounters(n, det) ==
  IF det THEN nextCounter' = nextCounter + n /\ UNCHANGED randoms
  ELSE randoms' = randoms + n /\ UNCHANGED nextCounter

\* A preview is returned to the caller, or stays inside a call of the convenience method.
Prepared(o, t) ==
  /\ txn' = [txn EXCEPT ![o] = t]
  /\ held' = held \cup {o}
  /\ UNCHANGED <<store, given, call, wire, mintVars>>

First(det) == IF det THEN nextCounter ELSE randoms

\* prepareSwapToReceive: the whole token minus the fee, in new outputs.
PrepareReceive(o, det, kept) ==
  LET amount == AmountOfProofs(Token) - Fee(Cardinality(Token))
  IN /\ amount \in 1..MaxAmount
     /\ \E amounts \in {Split[amount]} \ {Throws} :
        \E outs \in {CreateOutputs(amounts, First(det), det)} :
          /\ ClaimCounters(Len(outs), det)
          /\ Prepared(o, [kind |-> "receive", inputs |-> Token, keep |-> outs, send |-> <<>>,
                          quote |-> 0, sigAll |-> FALSE, kept |-> kept, legacy |-> FALSE])

\* prepareSwapToSend: the selected proofs pay for the send outputs and the fee, none of
\* them needlessly, and the rest is change.
PrepareSend(o, amount, P, includeFees, det, kept, sigAll) ==
  \E amounts \in {(IF includeFees THEN SplitWithFees ELSE Split)[amount]} \ {Throws} :
  \E sends \in {CreateOutputs(amounts, First(det), det)},
     change \in {AmountOfProofs(P) - Fee(Cardinality(P)) - AmountSum(amounts)} :
    /\ P # {} /\ change \in 0..MaxAmount
    /\ \A p \in P : change < p.amount
    /\ \E rest \in {Split[change]} \ {Throws} :
       \E keeps \in {CreateOutputs(rest, First(det) + Len(sends), det)} :
         /\ ClaimCounters(Len(sends) + Len(keeps), det)
         /\ Prepared(o, [kind |-> "send", inputs |-> P, keep |-> keeps, send |-> sends,
                         quote |-> 0, sigAll |-> sigAll, kept |-> kept, legacy |-> FALSE])

\* prepareMint, for a quote of this amount; a locked quote is signed in two ways.
PrepareMint(o, amount, det, kept, locked) ==
  \E amounts \in {Split[amount]} \ {Throws} :
  \E outs \in {CreateOutputs(amounts, First(det), det)} :
    /\ ClaimCounters(Len(outs), det)
    /\ Prepared(o, [kind |-> "mint", inputs |-> {}, keep |-> outs, send |-> <<>>,
                    quote |-> amount, sigAll |-> FALSE, kept |-> kept, legacy |-> locked])

\* prepareMelt: blanks for what the inputs pay above the quote's amount.
PrepareMelt(o, amount, P, change, det, kept) ==
  \E reserve \in {AmountOfProofs(P) - amount} :
    /\ P # {} /\ reserve \in 0..MaxAmount /\ Fee(Cardinality(P)) \in 0..reserve
    /\ \E outs \in {IF change /\ reserve > 0
                    THEN CreateOutputs(Repeat(0, BlankCount(reserve)), First(det), det) ELSE <<>>} :
         /\ ClaimCounters(Len(outs), det)
         /\ Prepared(o, [kind |-> "melt", inputs |-> P, keep |-> outs, send |-> <<>>,
                         quote |-> amount, sigAll |-> FALSE, kept |-> kept, legacy |-> FALSE])
-----------------------------------------------------------------------------
(* Completing.                                                              *)

Merged(t) == t.keep \o t.send

Before(m, a, b) == m[a].amount < m[b].amount \/ (m[a].amount = m[b].amount /\ a < b)

\* createSwapTransaction: ascending amounts for privacy, the given order if it is signed.
SortedIndices(t) ==
  LET m == Merged(t)
  IN IF t.sigAll \/ t.kind \in {"mint", "melt"} THEN [i \in DOMAIN m |-> i]
     ELSE [i \in DOMAIN m |-> CHOOSE a \in DOMAIN m : Cardinality({b \in DOMAIN m : Before(m, b, a)}) = i - 1]

OutputData(t) ==
  LET m == Merged(t)
      order == SortedIndices(t)
  IN [i \in DOMAIN m |-> m[order[i]]]

\* completeSwap, completeMint and completeMelt up to the request.
Complete(o) ==
  /\ o \in held /\ call[o] = "idle" /\ wire[o] = None
  /\ call' = [call EXCEPT ![o] = "waiting"]
  /\ wire' = [wire EXCEPT ![o] = [type |-> "request", legacy |-> FALSE]]
  /\ UNCHANGED <<store, given, txn, held, nextCounter, randoms, mintVars>>

\* Variant: a signature for another amount is accepted.
PairsAnyAmount(out, sig) == sig.amount # None

\* validateReturnedSignatures and toProof: a signature belongs to its output if keyset
\* and amount agree; a blank takes the amount the mint chose.
Pairs(out, sig) == sig.ours /\ (out.amount = 0 \/ sig.amount = out.amount)

ToProof(out, sig) == [id |-> out.id, amount |-> sig.amount]

\* Swaps and mints answer with one signature for each output, melts with at most as many.
Acceptable(t, sigs) ==
  LET outs == OutputData(t)
  IN /\ IF t.kind = "melt" THEN Len(sigs) <= Len(outs) ELSE Len(sigs) = Len(outs)
     /\ \A i \in DOMAIN sigs : Pairs(outs[i], sigs[i])

\* Variant: the proofs keep the order of the request.
ReorderedNot(t, proofs) == proofs

\* The proofs in the order of keep and send outputs again.
Reordered(t, proofs) ==
  LET order == SortedIndices(t)
  IN [s \in DOMAIN proofs |-> proofs[CHOOSE i \in DOMAIN proofs : order[i] = s]]

\* The application drops inputs when they are spent.  It keeps those of a melt that was
\* answered without change, which may be pending and may still fail.
Dropped(o, sigs) == IF txn[o].kind = "melt" /\ sigs = <<>> THEN {} ELSE txn[o].inputs

\* The operation returns; the application stores what it keeps and drops the inputs.
Returns(o, sigs) ==
  \E outs \in {OutputData(txn[o])}, n \in {Len(txn[o].keep)} :
    \E proofs \in {[i \in DOMAIN sigs |-> ToProof(outs[i], sigs[i])]} :
      \E ordered \in {IF txn[o].kind = "melt" THEN proofs ELSE Reordered(txn[o], proofs)} :
        /\ store' = (store \ Dropped(o, sigs)) \cup ToSet(SubSeq(ordered, 1,
                      IF Len(ordered) < n THEN Len(ordered) ELSE n))
        /\ given' = [given EXCEPT ![o] = SubSeq(ordered, n + 1, Len(ordered))]

\* The caller still has something after an exception if it prepared the operation itself
\* or saved it; a MeltChangeError hands the blanks back in any case.
StillHeld(o, changeError) == IF txn[o].kept \/ changeError THEN held ELSE held \ {o}

\* The answer of completeMelt without change leaves the blanks with the caller.
HeldAfter(o, sigs) == IF txn[o].kind = "melt" /\ sigs = <<>> THEN held ELSE held \ {o}

\* The answer arrives where the call waits.
Answered(o) ==
  /\ call[o] = "waiting" /\ wire[o] # None /\ wire[o].type = "answer"
  /\ wire' = [wire EXCEPT ![o] = None]
  /\ LET sigs == wire[o].sigs IN
     IF Acceptable(txn[o], sigs)
     THEN /\ Returns(o, sigs)
          /\ held' = HeldAfter(o, sigs)
          /\ call' = [call EXCEPT ![o] = "done"]
     ELSE /\ held' = StillHeld(o, txn[o].kind = "melt")
          /\ call' = [call EXCEPT ![o] = "idle"]
          /\ UNCHANGED <<store, given>>
  /\ UNCHANGED <<txn, nextCounter, randoms, mintVars>>

\* withLegacyQuoteSigFallback: the mint did not accept the quote's signature and the
\* request goes out again with the legacy one.
FallBack(o) ==
  /\ call[o] = "waiting" /\ wire[o] # None /\ wire[o].type = "error"
  /\ wire[o].signature /\ txn[o].legacy /\ ~wire[o].legacy
  /\ wire' = [wire EXCEPT ![o] = [type |-> "request", legacy |-> TRUE]]
  /\ UNCHANGED <<appVars, nextCounter, randoms, mintVars>>

\* Any other error, or no answer at all: the call throws (StaleKeysetError if the mint
\* rejected the keyset, after a repair that KeyChain models).
Throw(o) ==
  /\ call[o] = "waiting"
  /\ \/ wire[o] = None
     \/ wire[o] # None /\ wire[o].type = "error"
        /\ ~(wire[o].signature /\ txn[o].legacy /\ ~wire[o].legacy)
  /\ wire' = [wire EXCEPT ![o] = None]
  /\ call' = [call EXCEPT ![o] = "idle"]
  /\ held' = StillHeld(o, FALSE)
  /\ UNCHANGED <<store, given, txn, nextCounter, randoms, mintVars>>

\* createMeltChangeProofs by the caller, with the change of the quote it looked up.
LateChange(o) ==
  /\ o \in held /\ call[o] # "waiting" /\ payment[o] = "PAID" /\ txn[o].keep # <<>>
  /\ LET t == txn[o]
         change == {ToProof(t.keep[i], answers[o][i]) : i \in DOMAIN answers[o]}
     IN store' = (store \ t.inputs) \cup change
  /\ held' = held \ {o} /\ call' = [call EXCEPT ![o] = "done"]
  /\ UNCHANGED <<given, txn, nextCounter, randoms, wire, mintVars>>
-----------------------------------------------------------------------------
(* The mint.                                                                *)

Sign(outs, amounts) ==
  [i \in DOMAIN amounts |-> [b |-> outs[i].id, amount |-> amounts[i], ours |-> TRUE]]

SignedNow(sigs) ==
  [c \in DOMAIN signed \cup {sigs[i].b : i \in DOMAIN sigs} |->
     IF c \in DOMAIN signed THEN signed[c]
     ELSE sigs[CHOOSE i \in DOMAIN sigs : sigs[i].b = c].amount]

Fresh(t) == /\ Ids(t.inputs) \cap spent = {}
            /\ {Merged(t)[i].id : i \in DOMAIN Merged(t)} \cap DOMAIN signed = {}

Waits(o) == wire[o] # None /\ wire[o].type = "request"

Reply(o, answer) == wire' = [wire EXCEPT ![o] = answer]
Error(o, bySignature) ==
  Reply(o, [type |-> "error", signature |-> bySignature, legacy |-> wire[o].legacy])

\* A swap or a mint is executed.
Executes(o) ==
  /\ Waits(o) /\ txn[o].kind # "melt" /\ Fresh(txn[o]) /\ answers[o] = None
  /\ \E outs \in {OutputData(txn[o])} :
       \E sigs \in {Sign(outs, [i \in DOMAIN outs |-> outs[i].amount])} :
         /\ signed' = SignedNow(sigs) /\ spent' = spent \cup Ids(txn[o].inputs)
         /\ answers' = [answers EXCEPT ![o] = sigs]
         /\ Reply(o, [type |-> "answer", sigs |-> sigs])
  /\ UNCHANGED <<appVars, nextCounter, randoms, payment, forfeited>>

\* A melt starts: its inputs are pending, and the answer may say so.
Starts(o, async) ==
  LET t == txn[o]
  IN /\ Waits(o) /\ t.kind = "melt" /\ Fresh(t) /\ payment[o] # "PENDING"
     /\ spent' = spent \cup Ids(t.inputs)
     /\ payment' = [payment EXCEPT ![o] = "PENDING"]
     /\ IF async THEN Reply(o, [type |-> "answer", sigs |-> <<>>]) ELSE UNCHANGED wire
     /\ UNCHANGED <<appVars, nextCounter, randoms, signed, answers, forfeited>>

\* It is paid and the change, whatever the fee leaves, is signed on the first blanks.
Pays(o, over) ==
  \E amounts \in {Split[over]} \ {Throws}, n \in {Len(txn[o].keep)} :
    \E fit \in {SubSeq(amounts, 1, IF Len(amounts) < n THEN Len(amounts) ELSE n)} :
      \E sigs \in {Sign(txn[o].keep, fit)} :
        /\ payment' = [payment EXCEPT ![o] = "PAID"]
        /\ signed' = SignedNow(sigs) /\ answers' = [answers EXCEPT ![o] = sigs]
        /\ forfeited' = forfeited + (IF n = 0 THEN 0 ELSE over - AmountSum(fit))
        /\ IF Waits(o) THEN Reply(o, [type |-> "answer", sigs |-> sigs]) ELSE UNCHANGED wire
        /\ UNCHANGED <<appVars, nextCounter, randoms, spent>>

Settles(o) ==
  /\ payment[o] = "PENDING"
  /\ LET t == txn[o]
     IN \E over \in 0..(AmountOfProofs(t.inputs) - t.quote - Fee(Cardinality(t.inputs))) :
          over <= MaxAmount /\ Pays(o, over)

\* The payment fails and the inputs are free again.
Fails(o) ==
  /\ payment[o] = "PENDING"
  /\ payment' = [payment EXCEPT ![o] = "UNPAID"]
  /\ spent' = spent \ Ids(txn[o].inputs)
  /\ IF Waits(o) THEN Error(o, FALSE) ELSE UNCHANGED wire
  /\ UNCHANGED <<appVars, nextCounter, randoms, signed, answers, forfeited>>

\* A request that was executed before is answered from the cache.
Repeats(o) ==
  /\ Waits(o) /\ answers[o] # None
  /\ Reply(o, [type |-> "answer", sigs |-> answers[o]])
  /\ UNCHANGED <<appVars, nextCounter, randoms, mintVars>>

\* It is refused: spent or signed already, an inactive keyset, a signature on the quote
\* in a form the mint does not know.
Refuses(o, bySignature) ==
  /\ Waits(o)
  /\ bySignature => txn[o].legacy /\ ~wire[o].legacy /\ answers[o] = None
  /\ Error(o, bySignature)
  /\ UNCHANGED <<appVars, nextCounter, randoms, mintVars>>

\* The answer is damaged: one signature is missing, or is for another amount or keyset.
Damages(o) ==
  /\ wire[o] # None /\ wire[o].type = "answer"
  /\ wire[o].sigs = answers[o] /\ answers[o] # <<>>
  /\ LET sigs == wire[o].sigs
         n == Len(sigs)
     IN \E bad \in {Front(sigs), [sigs EXCEPT ![n].ours = FALSE],
                    [sigs EXCEPT ![1].amount = @ + 1]} :
          /\ bad # Front(sigs) \/ txn[o].kind # "melt"
          /\ (txn[o].kind = "melt" => bad[1].amount = sigs[1].amount)
          /\ Reply(o, [type |-> "answer", sigs |-> bad])
  /\ UNCHANGED <<appVars, nextCounter, randoms, mintVars>>

\* Request or answer is lost.
Loses(o) ==
  /\ wire[o] # None
  /\ wire' = [wire EXCEPT ![o] = None]
  /\ UNCHANGED <<appVars, nextCounter, randoms, mintVars>>
-----------------------------------------------------------------------------
(* Crashes and restores.                                                    *)

\* The process dies; saved previews survive it.
Crash ==
  /\ \E o \in Transactions : call[o] = "waiting"
  /\ call' = [o \in Transactions |-> IF call[o] = "waiting" THEN "idle" ELSE call[o]]
  /\ held' = {o \in held : txn[o].kept}
  /\ UNCHANGED <<store, given, txn, nextCounter, randoms, wire, mintVars>>

\* Proofs in a payment that has not ended are PENDING, not SPENT.
Pending == UNION {Ids(txn[o].inputs) : o \in {o \in Transactions : payment[o] = "PENDING"}}
Spent == spent \ Pending

Found == BatchRestore({c \in DOMAIN signed : c >= 0}, GapLimit, BatchSize, nextCounter - 1)

\* batchRestore with filterSpent, and a check of the states of what is stored.
RestoreFromSeed ==
  /\ UNCHANGED <<given, txn, held, call, nextCounter, randoms, wire, mintVars>>
  /\ store' = {p \in store : p.id \notin Spent}
                \cup {[id |-> c, amount |-> signed[c]] : c \in Found \ Spent}

Prepare(o) ==
  txn[o] = None /\ \E x \in Options :
    \/ "receive" \in x.kinds /\ PrepareReceive(o, x.det, x.kept)
    \/ \E amount \in SendAmounts, P \in SUBSET store :
         /\ "send" \in x.kinds
         /\ PrepareSend(o, amount, P, x.includeFees, x.det, x.kept, x.sigAll)
    \/ \E amount \in QuoteAmounts :
         "mint" \in x.kinds /\ PrepareMint(o, amount, x.det, x.kept, x.locked)
    \/ \E amount \in QuoteAmounts, P \in SUBSET store :
         "melt" \in x.kinds /\ PrepareMelt(o, amount, P, x.change, x.det, x.kept)

MintActs(o) ==
  \/ Executes(o) \/ Repeats(o) \/ Fails(o) \/ Damages(o) \/ Loses(o)
  \/ \E b \in BOOLEAN : Starts(o, b) \/ Refuses(o, b)
  \/ Settles(o)

TransactionNext ==
  \/ \E o \in Transactions :
       \/ Prepare(o) \/ Complete(o) \/ Answered(o) \/ FallBack(o) \/ Throw(o) \/ LateChange(o)
       \/ MintActs(o)
  \/ Crash \/ RestoreFromSeed

TransactionSpec == TransactionInit /\ [][TransactionNext]_transactionVars
-----------------------------------------------------------------------------
(* Properties.                                                              *)

Outputs(o) == {Merged(txn[o])[i].id : i \in DOMAIN Merged(txn[o])}
Given == UNION {ToSet(given[o]) : o \in Transactions}

\* Whatever the mint has signed and nobody has spent is never out of reach: it is stored
\* or handed out, its outputs are still in the caller's hands, or the seed finds it again
\* as far as the gap limit promises.  Only random outputs of a preview that nobody kept
\* are excepted.  Losing this loses money without any error.
NothingIsLost ==
  \A c \in DOMAIN signed \ (spent \cup Ids(Token)) :
    \/ c \in Ids(store \cup Given)
    \/ \E o \in held : c \in Outputs(o)
    \/ c >= 0 /\ (WithinGap({d \in DOMAIN signed : d >= 0}, c, GapLimit, nextCounter - 1)
                    => c \in Found)
    \/ c < 0 /\ \E o \in Transactions : txn[o] # None /\ c \in Outputs(o) /\ ~txn[o].kept

\* A proof the wallet keeps or hands out is one the mint has signed, for its amount, and
\* a send returns exactly the outputs prepared for it, in their order, although the request
\* listed them sorted and mixed with the change.
ProofsAreReal ==
  /\ \A p \in store \cup Given : p.id \in DOMAIN signed /\ signed[p.id] = p.amount
  /\ \A o \in Transactions : given[o] # <<>> => given[o] = txn[o].send

\* The usual keyset: every power of two up to the ceiling.
BinaryKeys ==
  \E bits \in 0..MaxAmount :
    /\ Keys = {Powers(bits)[k] : k \in 0..bits}
    /\ MaxAmount < 2 * Powers(bits)[bits]

\* With such a keyset the blanks of a melt suffice for whatever of the overpaid amount
\* comes back.
ChangeIsWhole == forfeited = 0
=============================================================================
