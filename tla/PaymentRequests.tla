-------------------------- MODULE PaymentRequests --------------------------
(***************************************************************************)
(* Payment requests: what a builder makes of its fields, the two encodings *)
(* (creqA: CBOR, creqB: tag-length-value parts), the payload that answers  *)
(* a request, and the amount on which payer and payee have to agree.       *)
(*                                                                         *)
(* A request has a field for each property of the class, Absent if it is   *)
(* undefined.  A text is a sequence of letters; an nprofile is the bytes   *)
(* behind its prefix.                                                      *)
(***************************************************************************)
EXTENDS Tokens

CONSTANTS KeyOctets,     \* octets of a public key (32)
          CreqLimit,     \* the most octets in a creqB of 1023 characters (631)
          ProfileLimit   \* the most octets in an nprofile of 1024 characters (630)

ASSUME KeyAssumption == KeyOctets \in 1..(Byte - 1)
ASSUME LimitAssumption == CreqLimit \in 1..(Byte ^ 2 - 1) /\ ProfileLimit \in (KeyOctets + 2)..(Byte ^ 2 - 1)

Listed(s) == IF s = Absent THEN <<>> ELSE s
Falsy(text) == text = Absent \/ text = <<>>
-----------------------------------------------------------------------------
(* Rules of a request.                                                      *)

\* PaymentRequestBuilder.build of collected fields; empty lists are left out.
Build(f) ==
  IF \/ f.mintsPreferred # Absent /\ f.mints = <<>>
     \/ f.supportedMethods # <<>> /\ f.unit = Absent
     \/ \E i, j \in DOMAIN f.supportedMethods : i # j /\ f.supportedMethods[i].method = f.supportedMethods[j].method
  THEN Throws
  ELSE LET OrAbsent(s) == IF s = <<>> THEN Absent ELSE s
       IN [f EXCEPT !.mints = OrAbsent(@), !.transport = OrAbsent(@), !.supportedMethods = OrAbsent(@)]

\* isMintListStrict; undefined counts as false.
IsMintListStrict(r) == Listed(r.mints) # <<>> /\ r.mintsPreferred # TRUE

UnitRule(r) == Falsy(r.unit) => r.amount = Absent /\ Listed(r.supportedMethods) = <<>>

\* normalizeMintUrl: slashes at the end do not count.
RECURSIVE NormalizeMintUrl(_)
NormalizeMintUrl(url) ==
  IF url # <<>> /\ Last(url) = "/" THEN NormalizeMintUrl(Front(url)) ELSE url
IncludesMint(r, mint) ==
  \E i \in DOMAIN Listed(r.mints) : NormalizeMintUrl(r.mints[i]) = NormalizeMintUrl(mint)

\* feesFor: nothing from a listed mint (as it is written), else the lowest fee among the
\* methods the mint melts.
FeesFor(r, mint, meltMethods) ==
  LET applicable == {m \in ToSet(Listed(r.supportedMethods)) : m.method \in meltMethods}
      fees == {IF m.fee = Absent THEN 0 ELSE m.fee : m \in applicable}
  IN IF ~UnitRule(r) THEN Throws
     ELSE IF mint \in ToSet(Listed(r.mints)) \/ fees = {} THEN 0
     ELSE CHOOSE f \in fees : \A g \in fees : f <= g

AmountToSend(r, mint, meltMethods) ==
  IF r.amount = Absent \/ FeesFor(r, mint, meltMethods) = Throws THEN Throws
  ELSE r.amount + FeesFor(r, mint, meltMethods)

KnownTags == {<<"pubkeys">>, <<"locktime">>, <<"refund">>, <<"n_sigs">>, <<"n_sigs_refund">>, <<"sigflag">>}

\* toP2PKOptions: empty tags and known ones repeated are malformed; Absent for a kind that is
\* no lock.  Other tags are passed on.
ToP2PKOptions(r) ==
  IF r.nut10 = Absent \/ r.nut10.kind \notin {"P2PK", "HTLC"} THEN Absent
  ELSE LET tags == Listed(r.nut10.tags)
           Tagged(key) == SelectSeq(tags, LAMBDA t : Head(t) = key)
       IN IF \/ r.nut10.data = <<>>
             \/ \E i \in DOMAIN tags : tags[i] = <<>> \/ \E j \in DOMAIN tags[i] : tags[i][j] = <<>>
             \/ \E key \in KnownTags : Len(Tagged(key)) > 1
          THEN Throws
          ELSE [kind |-> r.nut10.kind, data |-> r.nut10.data,
                known |-> [key \in KnownTags |-> IF Tagged(key) = <<>> THEN <<>> ELSE Tail(Head(Tagged(key)))],
                additionalTags |-> SelectSeq(tags, LAMBDA t : Head(t) \notin KnownTags)]
-----------------------------------------------------------------------------
(* Paying: the amount of the send, before input fees, and what settles.     *)

\* sendToRequest from a wallet [mint, unit, melts]: what is sent and its lock.
SendToRequest(r, wallet, chosen) ==
  LET base == IF r.amount # Absent THEN r.amount ELSE chosen
      listed == IncludesMint(r, wallet.mint)
      methods == ToSet(Listed(r.supportedMethods))
  IN IF \/ (r.amount = Absent) = (chosen = Absent)
        \/ r.amount # Absent /\ Falsy(r.unit)
        \/ ~Falsy(r.unit) /\ r.unit # wallet.unit
        \/ IsMintListStrict(r) /\ ~listed
        \/ methods # {} /\ \A m \in methods : m.method \notin wallet.melts
        \/ methods # {} /\ ~listed /\ FeesFor(r, wallet.mint, wallet.melts) = Throws
        \/ ToP2PKOptions(r) = Throws
        \/ r.nut10 # Absent /\ ToP2PKOptions(r) = Absent
     THEN Throws
     ELSE [net  |-> base + (IF methods = {} \/ listed THEN 0 ELSE FeesFor(r, wallet.mint, wallet.melts)),
           lock |-> ToP2PKOptions(r)]

\* isPaymentRequestSatisfied by proofs that net an amount after input fees.
IsPaymentRequestSatisfied(r, wallet, net, expected) ==
  LET base == IF r.amount # Absent THEN r.amount ELSE expected
      foreign == Listed(r.supportedMethods) # <<>> /\ ~IncludesMint(r, wallet.mint)
  IN IF base = Absent \/ (~Falsy(r.unit) /\ r.unit # wallet.unit)
        \/ (foreign /\ FeesFor(r, wallet.mint, wallet.melts) = Throws)
     THEN Throws
     ELSE net >= base + (IF foreign THEN FeesFor(r, wallet.mint, wallet.melts) ELSE 0)
-----------------------------------------------------------------------------
(* The payload: JSON values are those of Cbor.                              *)

NotGiven == SimpleV("undefined")
IsGiven(x) == x.t # "simple" \/ x.v # "undefined"
Present(name, text) == IF text = Absent THEN <<>> ELSE <<Entry(name, TextV(text))>>

EncodePayload(r, mint, proofs, memo, unit) ==
  IF IsMintListStrict(r) /\ ~IncludesMint(r, mint) THEN Throws
  ELSE MapV(Present(<<"id">>, r.id) \o Present(<<"memo">>, memo)
            \o <<Entry(<<"unit">>, TextV(IF r.unit # Absent THEN r.unit ELSE IF unit # Absent THEN unit ELSE <<"sat">>)),
                 Entry(<<"mint">>, TextV(mint)), Entry(<<"proofs">>, ArrayV(proofs))>>)

ProofShaped(p) == /\ p.t = "map"
                  /\ \A k \in {<<"id">>, <<"secret">>, <<"C">>} : Field(p, k, NotGiven).t = "text"
                  /\ Field(p, <<"amount">>, NotGiven).t = "int"

DecodePayload(json) ==
  IF json.t # "map" THEN Throws
  ELSE LET F(name) == Field(json, name, NotGiven)
           Filled(x) == x.t = "text" /\ x.v # <<>>
           Optional(x) == IF IsGiven(x) THEN x.v ELSE Absent
       IN IF \/ ~Filled(F(<<"mint">>)) \/ ~Filled(F(<<"unit">>))
             \/ \E name \in {<<"id">>, <<"memo">>} : IsGiven(F(name)) /\ F(name).t # "text"
             \/ F(<<"proofs">>).t # "array" \/ F(<<"proofs">>).v = <<>>
             \/ \E i \in DOMAIN F(<<"proofs">>).v : ~ProofShaped(F(<<"proofs">>).v[i])
          THEN Throws
          ELSE [id |-> Optional(F(<<"id">>)), memo |-> Optional(F(<<"memo">>)), unit |-> F(<<"unit">>).v,
                mint |-> F(<<"mint">>).v, proofs |-> F(<<"proofs">>).v]
-----------------------------------------------------------------------------
(* creqA.                                                                   *)

Each(s, Op(_)) == [i \in DOMAIN s |-> Op(s[i])]
OrUndefined(x, value) == IF x = Absent THEN NotGiven ELSE value
Tuples(tags) == ArrayV([i \in DOMAIN tags |-> ArrayV([j \in DOMAIN tags[i] |-> TextV(tags[i][j])])])
Flag(b) == SimpleV(IF b THEN "true" ELSE "false")

\* toRawRequest: what is not given is left out.
ToRawRequest(r) ==
  LET If(given, name, value) == IF given THEN <<Entry(name, value)>> ELSE <<>>
      transport(t) == MapV(<<Entry(<<"t">>, TextV(<<t.type>>)), Entry(<<"a">>, TextV(t.target)),
                             Entry(<<"g">>, OrUndefined(t.tags, Tuples(t.tags)))>>)
      method(m) == MapV(<<Entry(<<"mn">>, TextV(m.method))>> \o If(m.fee # Absent, <<"mf">>, IntV(m.fee)))
  IN MapV(If(r.transport # Absent, <<"t">>, ArrayV(Each(r.transport, transport)))
          \o If(~Falsy(r.id), <<"i">>, TextV(r.id))
          \o If(r.amount # Absent, <<"a">>, IntV(r.amount))
          \o If(~Falsy(r.unit), <<"u">>, TextV(r.unit))
          \o If(r.mints # Absent, <<"m">>, ArrayV(Each(r.mints, TextV)))
          \o If(r.mintsPreferred # Absent, <<"mp">>, Flag(r.mintsPreferred))
          \o If(Listed(r.supportedMethods) # <<>>, <<"sm">>, ArrayV(Each(r.supportedMethods, method)))
          \o If(~Falsy(r.description), <<"d">>, TextV(r.description))
          \o If(r.singleUse # Absent, <<"s">>, Flag(r.singleUse))
          \o If(r.nut10 # Absent, <<"nut10">>,
                MapV(<<Entry(<<"k">>, TextV(<<r.nut10.kind>>)), Entry(<<"d">>, TextV(r.nut10.data)),
                       Entry(<<"t">>, OrUndefined(r.nut10.tags, Tuples(r.nut10.tags)))>>)))

ToEncodedCreqA(r) == IF UnitRule(r) THEN EncodeCBOR(ToRawRequest(r)) ELSE Throws

\* fromRawRequest with the constructor, which makes booleans of the flags.
FromRawRequest(raw) ==
  LET F(map, name, Read(_)) == LET x == Field(map, name, NotGiven) IN IF IsGiven(x) THEN Read(x) ELSE Absent
      plain(x)   == x.v
      truth(x)   == CASE x.t = "simple" -> x.v \notin {"false", "null"}
                      [] x.t = "int"    -> x.v # 0
                      [] x.t = "text"   -> x.v # <<>>
                      [] OTHER          -> TRUE
      kind(x)    == Head(x.v)
      tuples(x)  == [i \in DOMAIN x.v |-> [j \in DOMAIN x.v[i].v |-> x.v[i].v[j].v]]
      texts(x)   == [i \in DOMAIN x.v |-> x.v[i].v]
      transport(t) == [type |-> F(t, <<"t">>, kind), target |-> F(t, <<"a">>, plain), tags |-> F(t, <<"g">>, tuples)]
      method(m)    == [method |-> F(m, <<"mn">>, plain), fee |-> F(m, <<"mf">>, plain)]
      transports(x) == [i \in DOMAIN x.v |-> transport(x.v[i])]
      methods(x)    == [i \in DOMAIN x.v |-> method(x.v[i])]
      lock(x)       == [kind |-> F(x, <<"k">>, kind), data |-> F(x, <<"d">>, plain), tags |-> F(x, <<"t">>, tuples)]
  IN [id |-> F(raw, <<"i">>, plain), amount |-> F(raw, <<"a">>, plain), unit |-> F(raw, <<"u">>, plain),
      mints |-> F(raw, <<"m">>, texts), mintsPreferred |-> F(raw, <<"mp">>, truth),
      supportedMethods |-> F(raw, <<"sm">>, methods), description |-> F(raw, <<"d">>, plain),
      singleUse |-> F(raw, <<"s">>, truth), transport |-> F(raw, <<"t">>, transports), nut10 |-> F(raw, <<"nut10">>, lock)]
-----------------------------------------------------------------------------
(* creqB.                                                                   *)

Part(tag, value) ==
  IF value = Throws \/ Len(value) >= Byte ^ 2 THEN Throws ELSE <<tag>> \o BigEndian(Len(value), 2) \o value
Joined(parts) == IF \E i \in DOMAIN parts : parts[i] = Throws THEN Throws ELSE FlattenSeq(parts)
Maybe(given, part) == IF given THEN <<part>> ELSE <<>>

\* A 64-bit number: what does not fit is cut off.
EncodeU64(n) == BigEndian(n, 8)
EncodeU8(b) == IF b THEN <<1>> ELSE <<0>>
EncodeTagTuple(tuple) ==
  IF \E i \in DOMAIN tuple : Len(tuple[i]) >= Byte THEN Throws
  ELSE FlattenSeq([i \in DOMAIN tuple |-> <<Len(tuple[i])>> \o tuple[i]])
TagParts(tag, tuples) == [i \in DOMAIN tuples |-> Part(tag, EncodeTagTuple(tuples[i]))]

\* An nprofile: a public key and relays, as far as bech32 takes them.
EncodeNprofile(pubkey, relays) ==
  LET octets == <<0, KeyOctets>> \o pubkey \o FlattenSeq([i \in DOMAIN relays |-> <<1, Len(relays[i])>> \o relays[i]])
  IN IF \/ Len(pubkey) # KeyOctets
        \/ \E i \in DOMAIN relays : Len(relays[i]) >= Byte
        \/ Len(octets) > ProfileLimit
     THEN Throws ELSE <<"nprofile1">> \o octets

RECURSIVE NprofileParts(_)
NprofileParts(data) ==
  IF data = <<>> THEN <<>>
  ELSE IF Len(data) < 2 THEN Throws
  ELSE IF Len(data) < 2 + data[2] THEN Throws
  ELSE LET rest == NprofileParts(SubSeq(data, 3 + data[2], Len(data)))
       IN IF rest = Throws THEN Throws ELSE <<[tag |-> data[1], value |-> SubSeq(data, 3, 2 + data[2])]>> \o rest

Values(parts, tag) == LET of == SelectSeq(parts, LAMBDA p : p.tag = tag) IN [i \in DOMAIN of |-> of[i].value]

DecodeNprofile(text) ==
  IF text = <<>> THEN Throws
  ELSE IF Head(text) # "nprofile1" \/ Len(Tail(text)) > ProfileLimit \/ NprofileParts(Tail(text)) = Throws THEN Throws
  ELSE LET parts == NprofileParts(Tail(text))
           keys == Values(parts, 0)
       IN IF keys = <<>> \/ \E i \in DOMAIN keys : Len(keys[i]) # KeyOctets THEN Throws
          ELSE [pubkey |-> Last(keys), relays |-> Values(parts, 1)]

TransportTypes == <<"nostr", "post">>
Nut10Types == <<"P2PK", "HTLC">>
ToKind(types, type) == (CHOOSE i \in DOMAIN types : types[i] = type) - 1
Relay == <<"r">>

\* The relays of an nprofile become tags in front of the others.
EncodeTransport(t) ==
  LET nostr == t.type = "nostr"
      profile == IF nostr THEN DecodeNprofile(t.target) ELSE Absent
  IN IF t.type \notin ToSet(TransportTypes) \/ profile = Throws THEN Throws
     ELSE Joined(<<Part(1, <<ToKind(TransportTypes, t.type)>>),
                   Part(2, IF nostr THEN profile.pubkey ELSE t.target)>>
                 \o TagParts(3, (IF nostr THEN [i \in DOMAIN profile.relays |-> <<Relay, profile.relays[i]>>] ELSE <<>>)
                                \o Listed(t.tags)))
EncodeNut10(n) ==
  IF n.kind \notin ToSet(Nut10Types) THEN Throws
  ELSE Joined(<<Part(1, <<ToKind(Nut10Types, n.kind)>>), Part(2, n.data)>> \o TagParts(3, Listed(n.tags)))
EncodeSupportedMethod(m) == Joined(<<Part(1, m.method)>> \o Maybe(m.fee # Absent, Part(2, EncodeU64(m.fee))))

\* encodeTLV.
EncodeTLV(r) ==
  LET Parts(tag, s, Encode(_)) == [i \in DOMAIN Listed(s) |-> Part(tag, Encode(s[i]))]
      text(s) == s
  IN Joined(Maybe(~Falsy(r.id), Part(1, r.id))
            \o Maybe(r.amount # Absent, Part(2, EncodeU64(r.amount)))
            \o Maybe(~Falsy(r.unit), Part(3, IF r.unit = <<"sat">> THEN <<0>> ELSE r.unit))
            \o Maybe(r.singleUse # Absent, Part(4, EncodeU8(r.singleUse)))
            \o Parts(5, r.mints, text)
            \o Maybe(~Falsy(r.description), Part(6, r.description))
            \o Parts(7, r.transport, EncodeTransport)
            \o Maybe(r.nut10 # Absent, Part(8, EncodeNut10(r.nut10)))
            \o Maybe(r.mintsPreferred # Absent, Part(9, EncodeU8(r.mintsPreferred)))
            \o Parts(10, r.supportedMethods, EncodeSupportedMethod))

\* The limit of encodeBech32m is on the request as a whole.
ToEncodedCreqB(r) ==
  LET octets == EncodeTLV(r)
  IN IF ~UnitRule(r) \/ octets = Throws THEN Throws ELSE IF Len(octets) > CreqLimit THEN Throws ELSE octets

\* decodeAllParts.
RECURSIVE DecodeAllParts(_)
DecodeAllParts(data) ==
  IF data = <<>> THEN <<>>
  ELSE IF Len(data) < 3 THEN Throws
  ELSE IF Len(data) < 3 + Number(SubSeq(data, 2, 3)) THEN Throws
  ELSE LET length == Number(SubSeq(data, 2, 3))
           rest == DecodeAllParts(SubSeq(data, 4 + length, Len(data)))
       IN IF rest = Throws THEN Throws ELSE <<[tag |-> data[1], value |-> SubSeq(data, 4, 3 + length)]>> \o rest

\* What was read at a tag: all of it, the last of it, or the only one; nothing read is
\* undefined, and one part that cannot be read throws.
All(read)  == IF Throws \in ToSet(read) THEN Throws ELSE IF read = <<>> THEN Absent ELSE read
One(read)  == LET all == All(read) IN IF all \in {Throws, Absent} THEN all ELSE Last(all)
Only(read) == IF Len(read) > 1 THEN Throws ELSE One(read)

ParseString(value) == value
ParseUnit(value) == IF Len(value) = 1 /\ value[1] = 0 THEN <<"sat">> ELSE value
ParseU64(value) == IF Len(value) = 8 THEN Number(value) ELSE Throws
ParseU8(value) == IF Len(value) = 1 THEN value[1] ELSE Throws
ParseFlag(value) == IF Len(value) = 1 THEN value[1] = 1 ELSE Throws

RECURSIVE ParseTagTuple(_)
ParseTagTuple(value) ==
  IF value = <<>> THEN <<>>
  ELSE IF Len(value) < 1 + value[1] THEN Throws
  ELSE LET rest == ParseTagTuple(SubSeq(value, 2 + value[1], Len(value)))
       IN IF rest = Throws THEN Throws ELSE <<SubSeq(value, 2, 1 + value[1])>> \o rest

\* Relay tags go back into the nprofile; no tags at all are undefined.
ParseTransport(value) ==
  LET parts == DecodeAllParts(value)
      Of(tag, Parse(_)) == Each(Values(parts, tag), Parse)
      kind == One(Of(1, ParseU8))
      target == One(Of(2, ParseString))
      tags == All(Of(3, ParseTagTuple))
  IN IF parts = Throws THEN Throws
     ELSE IF kind \in {Throws, Absent} \/ target = Absent \/ tags = Throws THEN Throws
     ELSE IF kind >= Len(TransportTypes) THEN Throws
     ELSE LET isRelay(tuple) == tuple # <<>> /\ Head(tuple) = Relay
              relays == SelectSeq(Listed(tags), isRelay)
              others == IF kind = 0 THEN SelectSeq(Listed(tags), LAMBDA t : ~isRelay(t)) ELSE Listed(tags)
              text == IF kind = 0 THEN EncodeNprofile(target, FlattenSeq([i \in DOMAIN relays |-> Tail(relays[i])]))
                      ELSE target
          IN IF text = Throws THEN Throws
             ELSE [type |-> TransportTypes[kind + 1], target |-> text, tags |-> IF others = <<>> THEN Absent ELSE others]

ParseNut10(value) ==
  LET parts == DecodeAllParts(value)
      Of(tag, Parse(_)) == Each(Values(parts, tag), Parse)
      kind == Only(Of(1, ParseU8))
      data == Only(Of(2, ParseString))
      tags == All(Of(3, ParseTagTuple))
  IN IF parts = Throws THEN Throws
     ELSE IF kind \in {Throws, Absent} \/ data \in {Throws, Absent} \/ tags = Throws THEN Throws
     ELSE IF kind >= Len(Nut10Types) THEN Throws
     ELSE [kind |-> Nut10Types[kind + 1], data |-> data, tags |-> Listed(tags)]

ParseSupportedMethod(value) ==
  LET parts == DecodeAllParts(value)
      Of(tag, Parse(_)) == Each(Values(parts, tag), Parse)
      method == Only(Of(1, ParseString))
      fee == Only(Of(2, ParseU64))
  IN IF parts = Throws THEN Throws
     ELSE IF method \in {Throws, Absent} \/ fee = Throws THEN Throws ELSE [method |-> method, fee |-> fee]

\* decodeTLV behind fromEncodedRequest; unknown tags are ignored.
FromCreqB(data) ==
  LET parts == DecodeAllParts(data)
      Of(tag, Parse(_)) == Each(Values(parts, tag), Parse)
      r == [id |-> One(Of(1, ParseString)), amount |-> One(Of(2, ParseU64)), unit |-> One(Of(3, ParseUnit)),
            singleUse |-> One(Of(4, ParseFlag)), mints |-> All(Of(5, ParseString)),
            description |-> One(Of(6, ParseString)), transport |-> All(Of(7, ParseTransport)),
            nut10 |-> Only(Of(8, ParseNut10)), mintsPreferred |-> One(Of(9, ParseFlag)),
            supportedMethods |-> All(Of(10, ParseSupportedMethod))]
  IN IF parts = Throws THEN Throws ELSE IF \E f \in DOMAIN r : r[f] = Throws THEN Throws ELSE r

\* fromEncodedRequest.
FromEncodedRequest(version, data) ==
  IF version = "B" THEN IF Len(data) > CreqLimit THEN Throws ELSE FromCreqB(data)
  ELSE IF version # "A" THEN Throws
  ELSE LET raw == DecodeCBOR(data) IN IF raw = Throws THEN Throws ELSE FromRawRequest(raw)
-----------------------------------------------------------------------------
(* What a request must keep.                                                *)

\* What a request says, whatever of it is empty or left out.  The relays of a nostr
\* transport are those of its profile and of its tags.
Readable(t) == t.type = "nostr" => DecodeNprofile(t.target) # Throws
Profile(t)  == IF t.type = "nostr" /\ Readable(t) THEN DecodeNprofile(t.target) ELSE [pubkey |-> t.target, relays |-> <<>>]
TransportContent(t) ==
  LET isRelay(tuple) == t.type = "nostr" /\ tuple # <<>> /\ Head(tuple) = Relay
      profile == Profile(t)
  IN [type |-> t.type, to |-> profile.pubkey, tags |-> SelectSeq(Listed(t.tags), LAMBDA g : ~isRelay(g)),
      relays |-> profile.relays \o FlattenSeq([i \in DOMAIN SelectSeq(Listed(t.tags), isRelay) |->
                                                Tail(SelectSeq(Listed(t.tags), isRelay)[i])])]
Content(r) ==
  [id |-> Given(Listed(r.id)), unit |-> Given(Listed(r.unit)), description |-> Given(Listed(r.description)),
   amount |-> r.amount, singleUse |-> r.singleUse, mintsPreferred |-> r.mintsPreferred, mints |-> Listed(r.mints),
   supportedMethods |-> Listed(r.supportedMethods),
   nut10 |-> IF r.nut10 = Absent THEN Absent ELSE [r.nut10 EXCEPT !.tags = Listed(@)],
   transport |-> [i \in DOMAIN Listed(r.transport) |-> TransportContent(r.transport[i])]]

\* The octets of a request in creqB, added up from what it holds: three for each part, and
\* one for each string of a tag.
SumOf(sizes) == FoldFunction(LAMBDA n, sum : n + sum, 0, sizes)
PartOctets(texts) == SumOf([i \in DOMAIN texts |-> 3 + Len(texts[i])])
TagOctets(tuples) == SumOf([i \in DOMAIN tuples |-> 3 + SumOf([j \in DOMAIN tuples[i] |-> 1 + Len(tuples[i][j])])])
TransportOctets(t) == 7 + Len(Profile(t).pubkey) + TagOctets(Listed(t.tags))
                      + TagOctets([i \in DOMAIN Profile(t).relays |-> <<Relay, Profile(t).relays[i]>>])
CreqOctets(r) ==
  LET OneOf(x, octets) == IF x = Absent THEN 0 ELSE 3 + octets
      methods == Listed(r.supportedMethods)
  IN PartOctets(SelectSeq(<<Listed(r.id), IF r.unit = <<"sat">> THEN <<0>> ELSE Listed(r.unit), Listed(r.description)>>,
                          LAMBDA text : text # <<>>))
     + OneOf(r.amount, 8) + OneOf(r.singleUse, 1) + OneOf(r.mintsPreferred, 1) + PartOctets(Listed(r.mints))
     + SumOf([i \in DOMAIN methods |-> 6 + Len(methods[i].method) + OneOf(methods[i].fee, 8)])
     + SumOf([i \in DOMAIN Listed(r.transport) |-> 3 + TransportOctets(r.transport[i])])
     + (IF r.nut10 = Absent THEN 0 ELSE 10 + Len(r.nut10.data) + TagOctets(Listed(r.nut10.tags)))

\* A request that creqB can express; creqA only needs the unit rule.
FitsB(r) ==
  LET ShortTags(tuples) == \A i \in DOMAIN tuples : \A j \in DOMAIN tuples[i] : Len(tuples[i][j]) < Byte
  IN /\ CreqOctets(r) <= CreqLimit
     /\ r.nut10 # Absent => r.nut10.kind \in ToSet(Nut10Types) /\ ShortTags(Listed(r.nut10.tags))
     /\ r.amount # Absent => r.amount < Byte ^ 8
     /\ \A i \in DOMAIN Listed(r.transport) : Readable(r.transport[i]) /\ ShortTags(Listed(r.transport[i].tags))

\* A nostr transport whose relays, those of its profile and of its tags, do not fit one
\* profile.
Overfull(r) ==
  \E i \in DOMAIN Listed(r.transport) :
    /\ r.transport[i].type = "nostr"
    /\ LET relays == TransportContent(r.transport[i]).relays
       IN 2 + KeyOctets + SumOf([j \in DOMAIN relays |-> 2 + Len(relays[j])]) > ProfileLimit

\* Either encoding of a request says what the request says, but for a creqB with more relays
\* than a profile holds, which is written and cannot be read.
RequestRoundTrips(r, version) ==
  LET encoded == IF version = "A" THEN ToEncodedCreqA(r) ELSE ToEncodedCreqB(r)
      decoded == FromEncodedRequest(version, encoded)
  IN IF encoded = Throws THEN ~UnitRule(r) \/ (version = "B" /\ ~FitsB(r))
     ELSE IF version = "B" /\ Overfull(r) THEN decoded = Throws
     ELSE decoded # Throws /\ Content(decoded) = Content(r)

\* What a wallet sends to the request it read settles the one that was made, and one unit
\* less does not; its payload is read as it was written.
PayerAndPayeeAgree(r, version, wallet, chosen, proofs) ==
  LET encoded == IF version = "A" THEN ToEncodedCreqA(r) ELSE ToEncodedCreqB(r)
      read == FromEncodedRequest(version, encoded)
      send == SendToRequest(read, wallet, chosen)
      payload == DecodePayload(EncodePayload(read, wallet.mint, proofs, Absent, wallet.unit))
  IN (encoded # Throws /\ UnitRule(r)) =>
       ((read # Throws /\ send # Throws) =>
          /\ IsPaymentRequestSatisfied(r, wallet, send.net, chosen)
          /\ send.net > 0 => ~IsPaymentRequestSatisfied(r, wallet, send.net - 1, chosen)
          /\ r.nut10 # Absent => send.lock = ToP2PKOptions(r)
          /\ proofs # <<>> => /\ payload # Throws /\ payload.proofs = proofs /\ payload.mint = wallet.mint
                              /\ payload.id = Content(r).id /\ payload.unit = wallet.unit)
=============================================================================
