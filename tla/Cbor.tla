-------------------------------- MODULE Cbor --------------------------------
(***************************************************************************)
(* The CBOR codec of tokens and payment requests.  Values are integers,    *)
(* byte and text strings, arrays, maps with text keys, the simple values   *)
(* and 64-bit floats; an encoding is a sequence of octets.  The radix of   *)
(* multi-octet numbers and the number of lengths that fit the initial      *)
(* octet are parameters (256 and 24), so that every width has small        *)
(* examples.  A letter of a text stands for its octet.                     *)
(***************************************************************************)
EXTENDS Integers, Sequences, SequencesExt, Outcomes

CONSTANTS Byte,        \* the values of an octet
          Short,       \* arguments below this are in the initial octet
          MaxDepth     \* MAX_CBOR_DEPTH

ASSUME CborSizes == Byte \in Nat \ {0} /\ Short \in Nat \ 0..3 /\ MaxDepth \in Nat

IntV(n)      == [t |-> "int", v |-> n]
BytesV(s)    == [t |-> "bytes", v |-> s]
TextV(s)     == [t |-> "text", v |-> s]
ArrayV(s)    == [t |-> "array", v |-> s]
MapV(s)      == [t |-> "map", v |-> s]         \* a sequence of <<key, value>>
SimpleV(x)   == [t |-> "simple", v |-> x]      \* "false", "true", "null" or "undefined"
FloatV(s)    == [t |-> "float", v |-> s]       \* its octets
-----------------------------------------------------------------------------
(* Encoding.                                                                *)

\* Most significant octet first.
BigEndian(n, width) == [i \in 1..width |-> (n \div Byte ^ (width - i)) % Byte]
Widths == <<1, 2, 4, 8>>

\* The initial octet: a major type and an argument, or how wide the argument is.
Initial(major, info) == major * (Short + 8) + info

\* encodeUnsigned, encodeSigned and encodeUnsignedBigInt and the heads of strings and
\* containers: the narrowest form that fits, up to a width.
Fits(n, width) == n < Short \/ n < Byte ^ width
EncodeHead(major, n) ==
  IF n < Short THEN <<Initial(major, n)>>
  ELSE LET i == CHOOSE j \in 1..4 : n < Byte ^ Widths[j] /\ \A k \in 1..(j - 1) : n >= Byte ^ Widths[k]
       IN <<Initial(major, Short + i - 1)>> \o BigEndian(n, Widths[i])

\* What the encoder refuses: integers beyond 64 bits, strings and maps beyond 32, and arrays
\* beyond 16.
RECURSIVE Encodable(_)
Encodable(x) ==
  \/ x.t \in {"simple", "float"}
  \/ x.t = "int" /\ Fits(IF x.v < 0 THEN -1 - x.v ELSE x.v, 8)
  \/ x.t \in {"bytes", "text"} /\ Fits(Len(x.v), 4)
  \/ x.t = "array" /\ Fits(Len(x.v), 2) /\ \A i \in DOMAIN x.v : Encodable(x.v[i])
  \/ x.t = "map" /\ Fits(Len(x.v), 4) /\ \A i \in DOMAIN x.v : Encodable(x.v[i][2])

Simples == <<"false", "true", "null", "undefined">>

\* encodeItem of an encodable value.
RECURSIVE EncodeItem(_)
EncodeItem(x) ==
  CASE x.t = "int"    -> IF x.v < 0 THEN EncodeHead(1, -1 - x.v) ELSE EncodeHead(0, x.v)
    [] x.t = "bytes"  -> EncodeHead(2, Len(x.v)) \o x.v
    [] x.t = "text"   -> EncodeHead(3, Len(x.v)) \o x.v
    [] x.t = "array"  -> EncodeHead(4, Len(x.v)) \o FlattenSeq([i \in DOMAIN x.v |-> EncodeItem(x.v[i])])
    [] x.t = "map"    -> EncodeHead(5, Len(x.v)) \o
                           FlattenSeq([i \in DOMAIN x.v |-> EncodeItem(TextV(x.v[i][1])) \o EncodeItem(x.v[i][2])])
    [] x.t = "simple" -> <<Initial(7, Short - 4 + (CHOOSE i \in 1..4 : Simples[i] = x.v) - 1)>>
    [] x.t = "float"  -> <<Initial(7, Short + 3)>> \o x.v

EncodeCBOR(x) == IF Encodable(x) THEN EncodeItem(x) ELSE Throws
-----------------------------------------------------------------------------
(* Decoding: a value and the offset behind it, counted from zero.           *)

At(value, offset) == [value |-> value, offset |-> offset]

\* ensureAvailable.
Available(data, offset, needed) == offset + needed <= Len(data)

Number(octets) == FoldLeft(LAMBDA n, o : n * Byte + o, 0, octets)

\* decodeLength.
DecodeLength(data, offset, info) ==
  IF info < Short THEN At(info, offset)
  ELSE IF info > Short + 3 \/ ~Available(data, offset, Widths[info - Short + 1]) THEN Throws
  ELSE LET w == Widths[info - Short + 1] IN At(Number(SubSeq(data, offset + 1, offset + w)), offset + w)

\* decodeByteString and decodeString.
DecodeString(data, head, kind) ==
  IF ~Available(data, head.offset, head.value) THEN Throws
  ELSE At([t |-> kind, v |-> SubSeq(data, head.offset + 1, head.offset + head.value)], head.offset + head.value)

\* decodeSimpleAndFloat: one octet is a number, more of them are a float.
DecodeSimple(data, offset, info) ==
  IF info \in (Short - 4)..(Short - 1) THEN At(SimpleV(Simples[info - Short + 5]), offset)
  ELSE IF info < Short \/ info > Short + 3 \/ ~Available(data, offset, Widths[info - Short + 1]) THEN Throws
  ELSE IF info = Short THEN At(IntV(data[offset + 1]), offset + 1)
  ELSE LET w == Widths[info - Short + 1] IN At(FloatV(SubSeq(data, offset + 1, offset + w)), offset + w)

\* isResultKeyType and String(key).
IsKey(x) == x.t \in {"text", "int"}
KeyOf(x) == IF x.t = "int" THEN <<x.v>> ELSE x.v

\* decodeItem: nothing is read behind the end.
Ends(data, offset) == offset >= Len(data)

RECURSIVE DecodeItem(_, _, _), DecodeItems(_, _, _, _)
DecodeItem(data, offset, depth) ==
  IF depth > MaxDepth \/ Ends(data, offset) THEN Throws
  ELSE LET major == data[offset + 1] \div (Short + 8)
           info  == data[offset + 1] % (Short + 8)
       IN IF major = 7 THEN DecodeSimple(data, offset + 1, info)
          ELSE IF major = 6 THEN Throws
          ELSE LET head == DecodeLength(data, offset + 1, info)
               IN IF head = Throws THEN Throws
                  ELSE CASE major = 0 -> At(IntV(head.value), head.offset)
                         [] major = 1 -> At(IntV(-1 - head.value), head.offset)
                         [] major = 2 -> DecodeString(data, head, "bytes")
                         [] major = 3 -> DecodeString(data, head, "text")
                         [] major = 4 -> LET items == DecodeItems(data, head.offset, depth + 1, head.value)
                                         IN IF items = Throws THEN Throws ELSE At(ArrayV(items.value), items.offset)
                         [] major = 5 -> LET items == DecodeItems(data, head.offset, depth + 1, 2 * head.value)
                                             n == head.value
                                         IN IF items = Throws \/ \E i \in 1..n : ~IsKey(items.value[2 * i - 1]) THEN Throws
                                            ELSE At(MapV([i \in 1..n |-> <<KeyOf(items.value[2 * i - 1]), items.value[2 * i]>>]),
                                                    items.offset)

\* The items of an array, or the keys and values of a map.
DecodeItems(data, offset, depth, count) ==
  IF count = 0 THEN At(<<>>, offset)
  ELSE LET first == DecodeItem(data, offset, depth)
       IN IF first = Throws THEN Throws
          ELSE LET rest == DecodeItems(data, first.offset, depth, count - 1)
               IN IF rest = Throws THEN Throws ELSE At(<<first.value>> \o rest.value, rest.offset)

\* decodeCBOR: a complete payload consumes the whole buffer.
DecodeCBOR(data) ==
  LET r == DecodeItem(data, 0, 0) IN IF r = Throws \/ r.offset # Len(data) THEN Throws ELSE r.value

\* A field of a decoded map; the last of several entries with one key counts.
Field(map, key, absent) ==
  LET is == {i \in DOMAIN map.v : map.v[i][1] = key}
  IN IF is = {} THEN absent ELSE map.v[CHOOSE i \in is : \A j \in is : j <= i][2]
-----------------------------------------------------------------------------
(* What the codec promises.                                                 *)

RECURSIVE Depth(_)
Depth(x) ==
  IF x.t = "array" THEN 1 + FoldLeft(LAMBDA m, y : IF Depth(y) > m THEN Depth(y) ELSE m, IF x.v = <<>> THEN -1 ELSE 0, x.v)
  ELSE IF x.t = "map" THEN 1 + FoldLeft(LAMBDA m, y : IF Depth(y[2]) > m THEN Depth(y[2]) ELSE m, IF x.v = <<>> THEN -1 ELSE 0, x.v)
  ELSE 0

\* What is encoded is decoded to the same value, whatever its width, unless it is nested too
\* deep; the beginning of an encoding is no encoding, nor is one with something behind it.
ValueRoundTrips(x) ==
  LET e == EncodeCBOR(x)
  IN e # Throws =>
       /\ DecodeCBOR(e) = (IF Depth(x) > MaxDepth THEN Throws ELSE x)
       /\ DecodeCBOR(Append(e, 0)) = Throws
       /\ \A n \in 0..(Len(e) - 1) : DecodeCBOR(SubSeq(e, 1, n)) = Throws
=============================================================================
