------------------------------- MODULE Tokens -------------------------------
(***************************************************************************)
(* Tokens: how proofs travel as a string (cashuB), as raw bytes (crawB) or *)
(* in the form of older releases (cashuA, decoded only).  A string carries *)
(* only the first octets of a keyset id; the receiver finds the id again   *)
(* among the keysets it knows.                                             *)
(*                                                                         *)
(* An id is a sequence of octets of which the first is the version, or a   *)
(* legacy one that is no hex.                                              *)
(***************************************************************************)
EXTENDS Cbor, FiniteSets

CONSTANTS ShortId,       \* octets of an id in a token (8)
          FullId         \* octets of a full id of version 1 on (33)

ASSUME TokenSizes == ShortId \in Nat \ {0} /\ FullId \in Nat /\ FullId > ShortId

HexId(octets) == [hex |-> TRUE, octets |-> octets]
LegacyId(octets) == [hex |-> FALSE, octets |-> octets]
-----------------------------------------------------------------------------
(* Witnesses: an object, or its JSON as the mint wants it.                  *)

ObjectWitness(signatures) == [object |-> TRUE, json |-> <<"{">> \o signatures \o <<"}">>]
JsonWitness(json) == [object |-> FALSE, json |-> json]

\* JSON.stringify of a witness: a string is quoted.
Stringify(w) == IF w.object THEN w.json ELSE <<"quote">> \o w.json \o <<"quote">>

\* parseWitnessData: what is no object when parsed is no witness.
Signatures(w) ==
  IF w = Absent \/ Head(w.json) # "{" THEN <<>> ELSE SubSeq(w.json, 2, Len(w.json) - 1)
-----------------------------------------------------------------------------
(* Encoding.                                                                *)

StripDleq(proofs) == [i \in DOMAIN proofs |-> [proofs[i] EXCEPT !.dleq = Absent]]

HasNonHexId(proofs) == \E i \in DOMAIN proofs : ~proofs[i].id.hex

\* convertToShortKeysetId.
ConvertToShortKeysetId(proofs) ==
  [i \in DOMAIN proofs |->
     [proofs[i] EXCEPT !.id.octets = SubSeq(@, 1, IF Len(@) < ShortId THEN Len(@) ELSE ShortId)]]

\* What is falsy is not there.
Given(text) == IF text = <<>> THEN Absent ELSE text
UnitOf(text) == IF Given(text) = Absent THEN <<"sat">> ELSE text

Entry(name, value) == <<name, value>>

\* A proof of the template; a blinding factor that is missing counts as zero.
DleqTemplate(d) ==
  MapV(<<Entry(<<"e">>, BytesV(d.e)), Entry(<<"s">>, BytesV(d.s)),
         Entry(<<"r">>, BytesV(IF d.r = Absent THEN <<0>> ELSE d.r))>>)
ProofTemplate(p) ==
  MapV(<<Entry(<<"a">>, IntV(p.amount)), Entry(<<"s">>, TextV(p.secret)), Entry(<<"c">>, BytesV(p.C))>>
         \o (IF p.dleq = Absent THEN <<>> ELSE <<Entry(<<"d">>, DleqTemplate(p.dleq))>>)
         \o (IF p.p2pk_e = Absent THEN <<>> ELSE <<Entry(<<"pe">>, BytesV(p.p2pk_e))>>)
         \o (IF p.witness = Absent THEN <<>> ELSE <<Entry(<<"w">>, TextV(Stringify(p.witness)))>>))

\* The ids in the order in which they are first seen.
IdsInOrder(proofs) ==
  SelectSeq([i \in DOMAIN proofs |-> [id |-> proofs[i].id, first |-> \A j \in 1..(i - 1) : proofs[j].id # proofs[i].id]],
            LAMBDA e : e.first)
ProofsOf(proofs, id) == SelectSeq(proofs, LAMBDA p : p.id = id)

\* templateFromToken: the proofs by id; the unit is sat unless given.
TemplateFromToken(token, proofs) ==
  LET ids == IdsInOrder(proofs)
  IN MapV(<<Entry(<<"m">>, TextV(token.mint)),
            Entry(<<"u">>, TextV(UnitOf(token.unit))),
            Entry(<<"t">>, ArrayV([i \in DOMAIN ids |->
              LET of == ProofsOf(proofs, ids[i].id)
              IN MapV(<<Entry(<<"i">>, BytesV(ids[i].id.octets)),
                        Entry(<<"p">>, ArrayV([k \in DOMAIN of |-> ProofTemplate(of[k])]))>>)]))>>
          \o (IF Given(token.memo) = Absent THEN <<>> ELSE <<Entry(<<"d">>, TextV(token.memo))>>))

\* getEncodedToken with getEncodedTokenV4.
GetEncodedToken(token, removeDleq) ==
  LET proofs == IF removeDleq THEN StripDleq(token.proofs) ELSE token.proofs
  IN IF HasNonHexId(proofs) \/ \E i \in DOMAIN proofs : proofs[i].dleq # Absent /\ proofs[i].dleq.r = Absent
     THEN Throws ELSE EncodeCBOR(TemplateFromToken(token, ConvertToShortKeysetId(proofs)))

\* getEncodedTokenBinary: ids as they are.
GetEncodedTokenBinary(token) == EncodeCBOR(TemplateFromToken(token, token.proofs))
-----------------------------------------------------------------------------
(* Decoding.                                                                *)

BytesOf(map, name) == IF Field(map, name, Absent) = Absent THEN Absent ELSE Field(map, name, Absent).v

ProofFromTemplate(p, id) ==
  LET d == Field(p, <<"d">>, Absent)
      w == Field(p, <<"w">>, Absent)
  IN [id |-> HexId(id), amount |-> BytesOf(p, <<"a">>), secret |-> BytesOf(p, <<"s">>), C |-> BytesOf(p, <<"c">>),
      dleq |-> IF d = Absent THEN Absent
               ELSE [e |-> BytesOf(d, <<"e">>), s |-> BytesOf(d, <<"s">>), r |-> BytesOf(d, <<"r">>)],
      p2pk_e |-> BytesOf(p, <<"pe">>), witness |-> IF w = Absent THEN Absent ELSE JsonWitness(w.v)]

\* tokenFromTemplate.
TokenFromTemplate(template) ==
  IF template.t # "map" \/ Field(template, <<"t">>, SimpleV("undefined")).t # "array" THEN Throws
  ELSE LET entries == Field(template, <<"t">>, Absent).v
       IN IF \E i \in DOMAIN entries : Field(entries[i], <<"p">>, SimpleV("undefined")).t # "array" THEN Throws
          ELSE [mint |-> BytesOf(template, <<"m">>), memo |-> Given(BytesOf(template, <<"d">>)),
                unit |-> UnitOf(BytesOf(template, <<"u">>)),
                proofs |-> FlattenSeq([i \in DOMAIN entries |->
                  LET ps == Field(entries[i], <<"p">>, Absent).v
                  IN [k \in DOMAIN ps |-> ProofFromTemplate(ps[k], BytesOf(entries[i], <<"i">>))]])]

\* handleTokens: the one entry of a cashuA token, or a template.
HandleTokens(version, content) ==
  IF version = "A"
  THEN IF Len(content.token) > 1 THEN Throws
       ELSE [mint |-> content.token[1].mint, proofs |-> content.token[1].proofs,
             unit |-> UnitOf(content.unit), memo |-> Given(content.memo)]
  ELSE IF version # "B" THEN Throws
  ELSE LET data == DecodeCBOR(content) IN IF data = Throws THEN Throws ELSE TokenFromTemplate(data)

\* Variant: the first id that fits will do.
FirstMatch(short, known) ==
  LET is == {i \in DOMAIN known : IsPrefix(short, known[i])}
  IN IF is = {} THEN Throws ELSE known[CHOOSE i \in is : \A j \in is : i <= j]

\* A short id stands for the one known id that begins with it.
OnlyMatch(short, known) ==
  LET ids == {k \in ToSet(known) : IsPrefix(short, k)}
  IN IF Cardinality(ids) = 1 THEN CHOOSE k \in ids : TRUE ELSE Throws

\* mapShortKeysetIds: legacy ids, those of version 0 and full ones are left alone.
FullKeysetId(id, known) ==
  IF ~id.hex \/ id.octets[1] = 0 \/ Len(id.octets) = FullId THEN id
  ELSE IF Len(id.octets) # ShortId \/ OnlyMatch(id.octets, known) = Throws THEN Throws
  ELSE HexId(OnlyMatch(id.octets, known))
MapShortKeysetIds(proofs, known) ==
  IF \E i \in DOMAIN proofs : FullKeysetId(proofs[i].id, known) = Throws THEN Throws
  ELSE [i \in DOMAIN proofs |-> [proofs[i] EXCEPT !.id = FullKeysetId(@, known)]]

\* getDecodedToken; getTokenMetadata reads the same without mapping ids.
GetDecodedToken(version, content, known) ==
  LET token == HandleTokens(version, content)
  IN IF token = Throws THEN Throws
     ELSE LET proofs == MapShortKeysetIds(token.proofs, known)
          IN IF proofs = Throws THEN Throws ELSE [token EXCEPT !.proofs = proofs]
GetTokenMetadata(version, content) ==
  LET token == HandleTokens(version, content)
  IN IF token = Throws THEN Throws
     ELSE [unit |-> token.unit, mint |-> token.mint, memo |-> token.memo,
           amounts |-> [i \in DOMAIN token.proofs |-> token.proofs[i].amount]]
GetDecodedTokenBinary(content) == HandleTokens("B", content)
-----------------------------------------------------------------------------
(* What a token must carry.                                                 *)

\* A proof for the comparison: its witness counts by the signatures in it.
Meaning(proofs, id) ==
  LET of == ProofsOf(proofs, id) IN [i \in DOMAIN of |-> [of[i] EXCEPT !.witness = Signatures(@)]]

Carries(decoded, token, proofs) ==
  /\ decoded # Throws /\ decoded.mint = token.mint
  /\ decoded.unit = UnitOf(token.unit) /\ decoded.memo = Given(token.memo)
  /\ Len(decoded.proofs) = Len(proofs)
  /\ \A i \in DOMAIN proofs : Meaning(decoded.proofs, proofs[i].id) = Meaning(proofs, proofs[i].id)

AmountsOf(s) == FoldLeft(LAMBDA sum, p : sum + p.amount, 0, s)

\* Who receives a token gets the proofs that were sent, in their order for each keyset, with
\* their full ids, proofs of origin and signatures; or an error, if they cannot be encoded or
\* if the keysets the receiver knows leave an id open.  A receiver who knows its keyset never
\* gets a proof under another id.  In binary form full ids travel.  Save for a witness that is
\* JSON already: it is quoted once more, and what is parsed from it is no witness.
TokensRoundTrip(token, removeDleq, known) ==
  LET proofs == IF removeDleq THEN StripDleq(token.proofs) ELSE token.proofs
      encoded == GetEncodedToken(token, removeDleq)
      ids == {proofs[i].id : i \in DOMAIN proofs}
      open(id) == /\ id.octets[1] # 0
                  /\ Cardinality({k \in ToSet(known) : IsPrefix(SubSeq(id.octets, 1, ShortId), k)}) # 1
  IN IF encoded = Throws
     THEN HasNonHexId(proofs) \/ \E i \in DOMAIN proofs : proofs[i].dleq # Absent /\ proofs[i].dleq.r = Absent
     ELSE /\ LET decoded == GetDecodedToken("B", encoded, known)
             IN IF \E id \in ids : open(id) THEN decoded = Throws
                ELSE (\A id \in ids : id.octets[1] = 0 \/ id.octets \in ToSet(known)) => Carries(decoded, token, proofs)
          /\ FoldLeft(LAMBDA a, b : a + b, 0, GetTokenMetadata("B", encoded).amounts) = AmountsOf(proofs)
          /\ Carries(GetDecodedTokenBinary(GetEncodedTokenBinary([token EXCEPT !.proofs = proofs])), token, proofs)
=============================================================================
