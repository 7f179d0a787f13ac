----------------------------- MODULE Conditions -----------------------------
(***************************************************************************)
(* Spending conditions: proofs locked to keys (P2PK) or to a hash and keys *)
(* (HTLC), with thresholds, a locktime, refund keys and blinded keys.  A   *)
(* lock is described to the builder, put into the secrets of a batch of    *)
(* outputs, signed input by input or, with SIG_ALL, once for the whole     *)
(* transaction, and judged by the verifier, which is the library's own.    *)
(*                                                                         *)
(* Keys and signatures are symbolic: a public key is the x of a person,    *)
(* its parity, and the slot and ephemeral key it is blinded for; a         *)
(* signature is who made it and over what.  The concatenation that SIG_ALL *)
(* signs is the record of its parts.                                       *)
(***************************************************************************)
EXTENDS Integers, Sequences, FiniteSets, SequencesExt, Outcomes

CONSTANTS LockKeys,       \* lock keys handed to the builder, in order
          RefundKeys,     \* refund keys handed to the builder
          Thresholds,     \* required signatures, or Null
          Locktimes,      \* locktimes, or Null
          Latest,         \* bound on the clock
          MaxSlots        \* keys a lock may have

\* The holders of keys, and their keys before any is blinded.
People == UNION {{k[i].x : i \in DOMAIN k} : k \in LockKeys \cup RefundKeys}
ClearKeys == [x : People, odd : BOOLEAN, slot : {0}, ephemeral : {Null}]

ASSUME ConditionSizes == Latest \in Nat /\ MaxSlots \in Nat /\ Locktimes \subseteq Nat \cup {Null}
ASSUME KeysAreClear == LockKeys \cup RefundKeys \subseteq Seq(ClearKeys)

VARIABLES
  builder,   \* what the builder was told, once it was
  proofs,    \* the proofs locked: secret, signatures and preimage
  kind,      \* of the transaction that spends them: "swap" or "melt"
  now,       \* the clock, in seconds
  signed,    \* by whom and in which lock state signatures were given
  verdict    \* of the verifier: "spendable", "locked" or "malformed"

conditionVars == <<builder, proofs, kind, now, signed, verdict>>

\* An input for which there is no value that the code accepts.
Refused == [refused |-> TRUE]
IsRefused(r) == "refused" \in DOMAIN r
Default(value, other) == IF value = Null THEN other ELSE value
-----------------------------------------------------------------------------
(* Keys.                                                                    *)

Clear(x, odd) == [x |-> x, odd |-> odd, slot |-> 0, ephemeral |-> Null]

\* The x-only identity of a key: its parity plays no role for a signature.
XOnly(k) == [k EXCEPT !.odd = FALSE]

\* dedupeP2PKPubkeys: the first of the keys with the same x.
KeepFirst(kept, k) == IF \E i \in DOMAIN kept : XOnly(kept[i]) = XOnly(k) THEN kept ELSE Append(kept, k)
DedupeP2PKPubkeys(keys) ==
  LET kept[i \in 0..Len(keys)] == IF i = 0 THEN <<>> ELSE KeepFirst(kept[i - 1], keys[i])
  IN kept[Len(keys)]

\* Slot 1 is the data field; the hash of an HTLC takes it.
FirstSlot(k) == IF k = "HTLC" THEN 2 ELSE 1

\* deriveP2BKBlindedPubkeys: one tweak for each slot.
Blinded(keys, first, ephemeral) ==
  [i \in DOMAIN keys |-> [keys[i] EXCEPT !.slot = first + i - 1, !.ephemeral = ephemeral]]

\* deriveP2BKSecretKey: the tweak fits one person, in one slot, under one ephemeral key.
Unblinds(person, key, slot, ephemeral) == key.x = person /\ key.slot = slot /\ key.ephemeral = ephemeral

\* deriveP2BKSecretKeys: for which of the blinded keys these people have the secret key.
DeriveP2BKSecretKeys(ephemeral, people, keys, first) ==
  {XOnly(keys[i]) : i \in {j \in DOMAIN keys : \E p \in people : Unblinds(p, keys[j], first + j - 1, ephemeral)}}
-----------------------------------------------------------------------------
(* The lock.                                                                *)

\* assertSpendingConditionRules: for the lock that is made and for the one that is verified.
SpendingConditionRules(main, refund, nSigs, nSigsRefund, hasLocktime) ==
  /\ nSigs # Null => nSigs \in 1..main
  /\ nSigsRefund # Null => nSigsRefund \in 1..refund
  /\ refund > 0 => hasLocktime

\* P2PKBuilder with addLockPubkey, addRefundPubkey, lockUntil, requireLockSignatures,
\* requireRefundSignatures, blindKeys, sigAll and addHashlock, and its toOptions.
OptionsOf(b, locks, refunds) ==
  IF locks = <<>> /\ ~b.hashlock THEN Refused
  ELSE [kind |-> IF b.hashlock THEN "HTLC" ELSE "P2PK",
        data |-> IF b.hashlock THEN Null ELSE Head(locks),
        pubkeys |-> IF b.hashlock THEN locks ELSE Tail(locks),
        refundKeys |-> refunds, locktime |-> b.locktime, blindKeys |-> b.blind, sigAll |-> b.sigAll,
        nSigs |-> IF b.nSigs = 1 /\ locks # <<>> THEN Null ELSE b.nSigs,
        nSigsRefund |-> IF b.nSigsRefund = 1 /\ refunds # <<>> THEN Null ELSE b.nSigsRefund]
ToOptions(b) == OptionsOf(b, DedupeP2PKPubkeys(b.locks), DedupeP2PKPubkeys(b.refunds))

\* P2PKBuilder.fromOptions.
FromOptions(o) ==
  [locks |-> IF o.kind = "HTLC" THEN o.pubkeys ELSE <<o.data>> \o o.pubkeys, refunds |-> o.refundKeys,
   hashlock |-> o.kind = "HTLC", locktime |-> o.locktime, blind |-> o.blindKeys, sigAll |-> o.sigAll,
   nSigs |-> o.nSigs, nSigsRefund |-> o.nSigsRefund]

\* normalizeP2PKOptions.
LockKeysOf(o) == IF o.kind = "HTLC" THEN o.pubkeys ELSE <<o.data>> \o o.pubkeys
Normalized(o, locks, refund, nSigs) ==
  IF \/ Len(refund) + Len(locks) + (IF o.kind = "HTLC" THEN 1 ELSE 0) > MaxSlots
     \/ ~SpendingConditionRules(Len(locks), Len(refund), nSigs, o.nSigsRefund, o.locktime # Null)
  THEN Refused
  ELSE [o EXCEPT !.data = IF o.kind = "HTLC" THEN @ ELSE Head(locks),
                 !.pubkeys = IF o.kind = "HTLC" THEN locks ELSE Tail(locks), !.refundKeys = refund, !.nSigs = nSigs]
NormalizeP2PKOptions(o) ==
  Normalized(o, DedupeP2PKPubkeys(LockKeysOf(o)), DedupeP2PKPubkeys(o.refundKeys),
             IF LockKeysOf(o) # <<>> THEN Default(o.nSigs, 1) ELSE o.nSigs)

\* buildP2PKTags: a threshold is written beside the keys it is about, unless it is 1.
BuildP2PKTags(locktime, pubkeys, refund, nSigs, nSigsRefund, sigAll) ==
  [locktime |-> locktime, pubkeys |-> pubkeys, refund |-> refund,
   nSigs |-> IF pubkeys # <<>> /\ nSigs > 1 THEN nSigs ELSE Null,
   nSigsRefund |-> IF refund # <<>> /\ nSigsRefund > 1 THEN nSigsRefund ELSE Null,
   sigflag |-> IF sigAll THEN "SIG_ALL" ELSE "SIG_INPUTS"]

\* createSingleP2PKData: lock keys first, then refund keys, blinded or as they are.
SecretOf(o, main, refund, ephemeral) ==
  [kind |-> o.kind, data |-> IF o.kind = "HTLC" THEN o.data ELSE Head(main),
   ephemeral |-> IF o.blindKeys THEN ephemeral ELSE Null,
   tags |-> BuildP2PKTags(o.locktime, IF o.kind = "HTLC" THEN main ELSE Tail(main), refund,
                          Default(o.nSigs, 1), Default(o.nSigsRefund, 1), o.sigAll)]
SplitKeys(o, keys, ephemeral) ==
  SecretOf(o, SubSeq(keys, 1, Len(LockKeysOf(o))), SubSeq(keys, Len(LockKeysOf(o)) + 1, Len(keys)), ephemeral)
LockedBy(o, ordered, ephemeral) ==
  IF IsRefused(o) THEN Refused
  ELSE SplitKeys(o, IF o.blindKeys THEN Blinded(ordered, FirstSlot(o.kind), ephemeral) ELSE ordered, ephemeral)
CreateSingleP2PKData(options, ephemeral) ==
  LET o == NormalizeP2PKOptions(options)
  IN LockedBy(o, LockKeysOf(o) \o o.refundKeys, ephemeral)

\* createP2PKData: the outputs of a SIG_ALL batch share an ephemeral key.
Ephemeral(o, i) == IF o.sigAll THEN 1 ELSE i

CreateP2PKData(options, count) ==
  [i \in 1..count |-> CreateSingleP2PKData(options, Ephemeral(options, i))]
-----------------------------------------------------------------------------
(* Reading a secret.                                                        *)

MainKeys(secret) == IF secret.kind = "P2PK" THEN <<secret.data>> \o secret.tags.pubkeys ELSE secret.tags.pubkeys
Locktime(secret) == IF secret.tags.locktime # Null /\ secret.tags.locktime > 0 THEN secret.tags.locktime ELSE Null
SigAllFlag(secret) == secret.tags.sigflag = "SIG_ALL"

LockState(secret, time) ==
  IF Locktime(secret) = Null THEN "PERMANENT" ELSE IF time < Locktime(secret) THEN "ACTIVE" ELSE "EXPIRED"

\* getP2PKExpectedWitnessPubkeys.
ExpectedWitnessPubkeys(secret, time) ==
  IF LockState(secret, time) # "EXPIRED" THEN ToSet(MainKeys(secret))
  ELSE IF secret.tags.refund # <<>> THEN ToSet(MainKeys(secret)) \cup ToSet(secret.tags.refund) ELSE {}
-----------------------------------------------------------------------------
(* Signing.                                                                 *)

\* maybeDeriveP2BKPrivateKeys: the blinded ones, the HTLC proofs of older releases included.
SecretKeys(secret, people) ==
  IF secret.ephemeral = Null THEN {Clear(p, FALSE) : p \in people}
  ELSE LET keys(first) == DeriveP2BKSecretKeys(secret.ephemeral, people, MainKeys(secret) \o secret.tags.refund, first)
       IN IF secret.kind = "HTLC" /\ keys(2) = {} THEN keys(1) ELSE keys(FirstSlot(secret.kind))

\* signP2PKProof for each of the keys that is required and has not signed yet.
SignProof(proof, people, message, time) ==
  [proof EXCEPT !.signatures = @ \cup {[key |-> k, over |-> message] :
     k \in SecretKeys(proof.secret, people) \cap {XOnly(r) : r \in ExpectedWitnessPubkeys(proof.secret, time)}}]

\* What is signed: the secret of an input with its nonce, or the transaction in the order of
\* its inputs and outputs, with the quote of a melt.
OfInput(i) == [input |-> i]
OfTransaction(inputs, outputs, quote) == [inputs |-> inputs, outputs |-> outputs, quote |-> quote]

IsSigAll(ps) == \E i \in DOMAIN ps : SigAllFlag(ps[i].secret)

\* assertSigAllInputs.
SigAllInputsMatch(ps) ==
  \A i \in DOMAIN ps : /\ SigAllFlag(ps[i].secret) /\ ps[i].secret.kind = ps[1].secret.kind
                       /\ ps[i].secret.data = ps[1].secret.data /\ ps[i].secret.tags = ps[1].secret.tags

Places(ps) == [i \in DOMAIN ps |-> i]

\* signP2PKProofs of the wallet: of a SIG_ALL transaction only the first input is signed.
SignP2PKProofs(ps, people, outputs, quote, time) ==
  IF ~IsSigAll(ps) THEN [i \in DOMAIN ps |-> SignProof(ps[i], people, OfInput(i), time)]
  ELSE [ps EXCEPT ![1] = SignProof(@, people, OfTransaction(Places(ps), outputs, quote), time)]
-----------------------------------------------------------------------------
(* The transaction.  Outputs are told by their amounts.                     *)

KeepOutputs == <<4>>
SendOutputs == <<2>>
Blanks      == <<0, 0>>

\* Variant: outputs are sorted for privacy whatever was signed.
SortedAlways(ps, outputs) == SortSeq(outputs, LAMBDA a, b : a < b)

\* createSwapTransaction: the order of SIG_ALL outputs is the one that was signed.
RequestOutputs(ps, outputs) ==
  IF IsSigAll(ps) THEN outputs ELSE SortSeq(outputs, LAMBDA a, b : a < b)

MergedOutputs == IF kind = "melt" THEN Blanks ELSE KeepOutputs \o SendOutputs
QuoteId == IF kind = "melt" THEN "quote" ELSE Null

\* extractSwapPackage, extractMeltPackage, serializePackage and deserializePackage: what the
\* other signers see; a melt is refused without its quote.
SigningPackage(ps, outputs, quote) ==
  [type |-> kind, quote |-> quote, inputs |-> Places(ps), outputs |-> outputs]
Transportable(package) == package.type = "melt" => package.quote # Null

\* signPackage with a key as it is, and mergeSignatures into the first input.
SignPackage(package, person) ==
  [key |-> Clear(person, FALSE), over |-> OfTransaction(package.inputs, package.outputs, package.quote)]
MergeSignatures(ps, signature) == [ps EXCEPT ![1].signatures = @ \cup {signature}]
-----------------------------------------------------------------------------
(* Verifying.                                                               *)

\* getValidSigners: by x, so one person counts once.
ValidSigners(proof, message, keys) ==
  {XOnly(keys[i]) : i \in {j \in DOMAIN keys : [key |-> XOnly(keys[j]), over |-> message] \in proof.signatures}}

WellFormed(secret) ==
  SpendingConditionRules(Len(MainKeys(secret)), Len(secret.tags.refund), secret.tags.nSigs,
                         secret.tags.nSigsRefund, Locktime(secret) # Null)

\* verifyP2PKSpendingConditions of a well-formed secret: the path taken.
PathOf(proof, message, main, tags, expired) ==
  IF /\ main # <<>> /\ (tags.refund # <<>> \/ ~expired)
     /\ Cardinality(ValidSigners(proof, message, main)) >= Default(tags.nSigs, 1)
  THEN "MAIN"
  ELSE IF ~expired THEN "FAILED"
  ELSE IF tags.refund = <<>> THEN "UNLOCKED"
  ELSE IF Cardinality(ValidSigners(proof, message, tags.refund)) >= Default(tags.nSigsRefund, 1)
  THEN "REFUND" ELSE "FAILED"
P2PKPath(proof, message, time) ==
  PathOf(proof, message, MainKeys(proof.secret), proof.secret.tags, LockState(proof.secret, time) = "EXPIRED")

\* verifyHTLCSpendingConditions: the receiver's path needs the preimage too.
PathWithPreimage(proof, path) ==
  IF \/ proof.secret.kind # "HTLC"
     \/ IF MainKeys(proof.secret) # <<>> THEN path # "MAIN" ELSE path # "FAILED"
  THEN path
  ELSE IF proof.preimage THEN "MAIN" ELSE "FAILED"
HTLCPath(proof, message, time) ==
  PathWithPreimage(proof, P2PKPath(proof, message, time))

\* Every input by itself, or the first one for all of them.
Verdict(ps, outputs, quote, time) ==
  IF \E i \in DOMAIN ps : ~WellFormed(ps[i].secret) THEN "malformed"
  ELSE IF IF IsSigAll(ps)
          THEN SigAllInputsMatch(ps) /\ HTLCPath(ps[1], OfTransaction(Places(ps), outputs, quote), time) # "FAILED"
          ELSE \A i \in DOMAIN ps : HTLCPath(ps[i], OfInput(i), time) # "FAILED"
  THEN "spendable" ELSE "locked"
-----------------------------------------------------------------------------
Builders ==
  [locks : LockKeys, refunds : RefundKeys, hashlock : BOOLEAN, locktime : Locktimes, blind : BOOLEAN,
   sigAll : BOOLEAN, nSigs : Thresholds, nSigsRefund : Thresholds]

ASSUME NullAssumption == Null \notin Nat \cup Builders \cup {"spendable", "locked", "malformed"}

ConditionsInit ==
  builder = Null /\ proofs = <<>> /\ kind \in {"swap", "melt"} /\ now = 0 /\ signed = {} /\ verdict = Null

\* Two proofs are locked by a builder whose options may have been stored and built again.
\* What spends them matters only if it is signed as a whole (a bound).
LockProofs(b, again) ==
  /\ builder = Null /\ (kind = "melt" => b.sigAll)
  /\ \E o \in {ToOptions(b)} :
       \E options \in {IF again /\ ~IsRefused(o) THEN ToOptions(FromOptions(o)) ELSE o} :
         /\ ~IsRefused(options)
         /\ \E secrets \in {CreateP2PKData(options, 2)} :
              /\ ~IsRefused(secrets[1])
              /\ proofs' = [i \in DOMAIN secrets |->
                              [secret |-> secrets[i], signatures |-> {}, preimage |-> FALSE]]
         /\ builder' = b
  /\ UNCHANGED <<kind, now, signed, verdict>>

\* signP2PKProofs, by people who sign together; a SIG_ALL batch has to match.
SignInputs(people) ==
  /\ proofs # <<>> /\ verdict = Null /\ (IsSigAll(proofs) => SigAllInputsMatch(proofs))
  /\ proofs' = SignP2PKProofs(proofs, people, MergedOutputs, QuoteId, now)
  /\ signed' = signed \cup {[who |-> p, state |-> LockState(proofs[1].secret, now)] : p \in people}
  /\ UNCHANGED <<builder, kind, now, verdict>>

\* Somebody else signs the package of a SIG_ALL transaction.
SignAsPackage(person) ==
  /\ proofs # <<>> /\ verdict = Null /\ IsSigAll(proofs)
  /\ \E package \in {SigningPackage(proofs, MergedOutputs, QuoteId)} :
       /\ Transportable(package)
       /\ proofs' = MergeSignatures(proofs, SignPackage(package, person))
  /\ signed' = signed \cup (IF builder.blind THEN {} ELSE {[who |-> person, state |-> LockState(proofs[1].secret, now)]})
  /\ UNCHANGED <<builder, kind, now, verdict>>

GivePreimage ==
  /\ proofs # <<>> /\ verdict = Null /\ builder.hashlock /\ ~proofs[1].preimage
  /\ proofs' = [i \in DOMAIN proofs |-> [proofs[i] EXCEPT !.preimage = TRUE]]
  /\ UNCHANGED <<builder, kind, now, signed, verdict>>

Tick == proofs # <<>> /\ verdict = Null /\ now < Latest /\ now' = now + 1
        /\ UNCHANGED <<builder, proofs, kind, signed, verdict>>

\* The request is made and its inputs are judged.
Submit ==
  /\ proofs # <<>> /\ verdict = Null
  /\ verdict' = Verdict(proofs, IF kind = "melt" THEN MergedOutputs ELSE RequestOutputs(proofs, MergedOutputs),
                        QuoteId, now)
  /\ UNCHANGED <<builder, proofs, kind, now, signed>>

ConditionsNext ==
  \/ \E b \in Builders, again \in BOOLEAN : LockProofs(b, again)
  \/ \E people \in {{p} : p \in People} \cup {People} : SignInputs(people)
  \/ \E p \in People : SignAsPackage(p)
  \/ GivePreimage \/ Tick \/ Submit

ConditionsSpec == ConditionsInit /\ [][ConditionsNext]_conditionVars
-----------------------------------------------------------------------------
(* Properties.  What the builder was told, in terms of people.              *)

Holders(keys) == {keys[i].x : i \in DOMAIN keys}
Enough(who, keys, threshold) == Cardinality(who \cap Holders(keys)) >= threshold
Everyone == {s.who : s \in signed}

\* A locktime of 0 is one to the builder and none to the verifier, who refuses refund keys
\* without a locktime: nobody can spend what is locked so.
Expired == builder.locktime \notin {Null, 0} /\ now >= builder.locktime
Unspendable == builder.locktime = 0 /\ builder.refunds # <<>>

MayTake(who) ==
  /\ builder.hashlock => proofs[1].preimage
  /\ builder.locks # <<>> => Enough(who, builder.locks, Default(builder.nSigs, 1))
MayRefund(who) ==
  Expired /\ (builder.refunds # <<>> => Enough(who, builder.refunds, Default(builder.nSigsRefund, 1)))

\* Locked proofs are spent only by the people the lock was built for: enough of the holders
\* of lock keys, a person counting once however often their key is listed, with the
\* preimage if there is a hash, or, after the locktime, enough of the holders of refund keys.
OnlyForTheEntitled ==
  verdict = "spendable" =>
    MayTake(Everyone) \/ MayRefund(Everyone)

SignedExpired == {s.who : s \in {t \in signed : t.state = "EXPIRED"}}

\* The verifier judges an HTLC by its lock keys alone once enough of them have signed.
Shadowed == builder.hashlock /\ ~proofs[1].preimage /\ builder.locks # <<>>
            /\ Enough(Everyone, builder.locks, Default(builder.nSigs, 1))

\* And these people succeed once they have signed, the refund's after the locktime, whether
\* keys are blinded, signatures cover inputs or the transaction, and whoever collected them;
\* save for an HTLC whose holders of lock keys have signed without the preimage, and for a
\* lock with refund keys and a locktime of 0.
EntitledSucceed ==
  verdict \notin {Null, "spendable"} =>
    Unspendable \/ (~MayTake(Everyone) /\ (MayRefund(SignedExpired) => Shadowed))

SpendableByTheEntitled == OnlyForTheEntitled /\ EntitledSucceed

\* verifyHTLCSpendingConditions says: "2. Refund path: signatures from refund pubkeys (only
\* valid after locktime)".  The verifier finds the lock keys satisfied first and then asks
\* for a preimage, whatever the refund keys have signed.
RefundIsAPath == verdict \notin {Null, "spendable"} => ~MayRefund(SignedExpired)
=============================================================================
