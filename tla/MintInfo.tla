------------------------------ MODULE MintInfo ------------------------------
(***************************************************************************)
(* What the wallet makes of /v1/info: the capabilities of the mint, its    *)
(* limits, clamped to the library's own, and the endpoints that need a     *)
(* clear or a blind auth token.                                            *)
(*                                                                         *)
(* An info document is a record; a field the mint left out is Absent and   *)
(* one that is not a safe integer is Malformed.  A path is a sequence of   *)
(* letters, and so is the pattern of a protected endpoint.                 *)
(***************************************************************************)
EXTENDS Integers, Sequences, FiniteSets, SequencesExt, Outcomes

CONSTANTS Malformed,             \* what a field of the document may be instead of a value
          MaxInfoList,           \* MAX_MINT_INFO_LIST
          DefaultArrayLength,    \* DEFAULT_MAX_ARRAY_LENGTH
          LargestArrayLength,    \* ABSOLUTE_MAX_ARRAY_LENGTH
          LargestBatMint,        \* ABSOLUTE_MAX_PER_MINT
          LargestBatch           \* ABSOLUTE_MAX_BATCH_SIZE

ASSUME InfoLimits == /\ {MaxInfoList, LargestArrayLength, LargestBatMint, LargestBatch} \subseteq Nat
                     /\ DefaultArrayLength \in 1..LargestArrayLength
-----------------------------------------------------------------------------
(* Normalisation.                                                           *)

Capped(list) == SubSeq(list, 1, IF Len(list) < MaxInfoList THEN Len(list) ELSE MaxInfoList)

OrElse(value, other) == IF value = Absent THEN other ELSE value

\* The methods of NUT-04 and NUT-05: missing limits become null, a missing name is derived.
NormalizeSwapMethods(methods) ==
  [i \in DOMAIN Capped(methods) |->
     [methods[i] EXCEPT !.min = OrElse(@, "null"), !.max = OrElse(@, "null"),
                        !.name = OrElse(@, methods[i].method)]]

\* A limit that is missing or malformed gets a default, one out of range is clamped.
ResolveMaxArrayLength(value) ==
  IF value \in {Absent, Malformed} THEN DefaultArrayLength
  ELSE IF value < 1 THEN 1
  ELSE IF value > LargestArrayLength THEN LargestArrayLength ELSE value

LimitOf(value, largest) ==
  IF value \in {Absent, Malformed} THEN largest ELSE IF value > largest THEN largest ELSE value

NormalizeNut22(nut22) == [nut22 EXCEPT !.bat_max_mint = LimitOf(@, LargestBatMint)]
NormalizeNut29(nut29) == [nut29 EXCEPT !.max_batch_size = LimitOf(@, LargestBatch)]

\* A malformed ttl of NUT-19 is the only thing that makes the document unusable.
NormalizeInfo(info) ==
  IF info.nut19 # Absent /\ info.nut19.ttl = Malformed THEN Malformed
  ELSE [info EXCEPT
    !.nut4.methods = NormalizeSwapMethods(@), !.nut5.methods = NormalizeSwapMethods(@),
    !.nut22 = IF @ = Absent THEN @ ELSE NormalizeNut22(@),
    !.nut29 = IF @ = Absent THEN @ ELSE NormalizeNut29(@)]
-----------------------------------------------------------------------------
(* Capabilities.                                                            *)

\* isSupported(4) and isSupported(5): the methods offered, none when disabled.
SupportedMethods(info, op) ==
  LET nut == IF op = "mint" THEN info.nut4 ELSE info.nut5
  IN IF nut.disabled THEN <<>> ELSE nut.methods

SupportsMintMeltMethod(info, op, method, unit) ==
  \E i \in DOMAIN SupportedMethods(info, op) :
    LET m == SupportedMethods(info, op)[i] IN m.method = method /\ m.unit = unit

\* These two look at the methods even when the operation is disabled.
SupportsNut04Description(info, method, unit) ==
  \E i \in DOMAIN info.nut4.methods :
    LET m == info.nut4.methods[i] IN m.method = method /\ m.unit = unit /\ m.description
SupportsAmountless(info, method, unit) ==
  \E i \in DOMAIN info.nut5.methods :
    LET m == info.nut5.methods[i] IN m.method = method /\ m.unit = unit /\ m.amountless

\* The cache policy of requests, in milliseconds; no ttl is for ever.
CachePolicy(info) ==
  IF info.nut19 = Absent \/ info.nut19.endpoints = {} THEN Absent
  ELSE [ttl |-> IF info.nut19.ttl = Absent THEN "for ever"
                ELSE IF info.nut19.ttl < 0 THEN 0 ELSE 1000 * info.nut19.ttl,
        endpoints |-> info.nut19.endpoints]
-----------------------------------------------------------------------------
(* Protected endpoints.                                                     *)

Without(p, first) == IF p # <<>> /\ p[1] = first THEN Tail(p) ELSE p
WithoutLast(p, last) == IF p # <<>> /\ Last(p) = last THEN Front(p) ELSE p

\* toEndpoints: entries that are no endpoint are dropped, methods are upper case.
ToEndpoints(entries) ==
  SelectSeq([i \in DOMAIN Capped(entries) |->
               [method |-> entries[i].method, path |-> entries[i].path, valid |-> entries[i].valid]],
            LAMBDA e : e.valid)

\* Variant: the end of a pattern is looked at before its anchors are taken off.
IndexedAnchored(e) ==
  IF e.path # <<>> /\ Last(e.path) = "*"
  THEN [method |-> e.method, prefix |-> TRUE, path |-> Without(Front(e.path), "^")]
  ELSE [method |-> e.method, prefix |-> FALSE, path |-> WithoutLast(Without(e.path, "^"), "$")]

\* buildIndex: the anchors of a regular expression are dropped, and a star at the end, with
\* or without the dot, makes a prefix.
Indexed(e) ==
  LET p == WithoutLast(Without(e.path, "^"), "$")
      n == Len(p)
  IN IF n >= 2 /\ p[n - 1] = "." /\ p[n] = "*"
     THEN [method |-> e.method, prefix |-> TRUE, path |-> SubSeq(p, 1, n - 2)]
     ELSE IF n >= 1 /\ p[n] = "*"
     THEN [method |-> e.method, prefix |-> TRUE, path |-> Front(p)]
     ELSE [method |-> e.method, prefix |-> FALSE, path |-> p]

BuildIndex(entries) == LET es == ToEndpoints(entries) IN {Indexed(es[i]) : i \in DOMAIN es}

\* matchesProtected.
MatchesProtected(index, method, path) ==
  \E e \in index : /\ e.method = method
                   /\ IF e.prefix THEN IsPrefix(e.path, path) ELSE e.path = path
-----------------------------------------------------------------------------
(* What a document must bring about.                                        *)

\* The ways to write an endpoint: anchors, and a star with or without its dot.
Written(base, shape) ==
  (IF shape.caret THEN <<"^">> ELSE <<>>) \o base \o (IF shape.star = "dotted" THEN <<".">> ELSE <<>>)
    \o (IF shape.star = "none" THEN <<>> ELSE <<"*">>) \o (IF shape.dollar THEN <<"$">> ELSE <<>>)

\* An endpoint needs its token however its entry is written: the path itself, or every path
\* that begins with it; and it needs it as long as the list of them is not too long.
ProtectedAsWritten(base, shape, place, path) ==
  LET filler == [method |-> "GET", path |-> <<"f">>, valid |-> TRUE]
      entry  == [method |-> "POST", path |-> Written(base, shape), valid |-> TRUE]
      index  == BuildIndex([i \in 1..place |-> IF i = place THEN entry ELSE filler])
  IN MatchesProtected(index, "POST", path) <=>
       place <= MaxInfoList /\ IF shape.star = "none" THEN path = base ELSE IsPrefix(base, path)

\* No document raises a limit above the library's own, and a disabled operation is not
\* offered by any method.
LimitsHold(info) ==
  LET known == NormalizeInfo(info)
      lists == {known.nut4.methods, known.nut5.methods}
  IN known # Malformed =>
       /\ \A list \in lists : Len(list) <= MaxInfoList
       /\ ResolveMaxArrayLength(info.arrays) \in 1..LargestArrayLength
       /\ known.nut22 # Absent => known.nut22.bat_max_mint <= LargestBatMint
       /\ known.nut29 # Absent => known.nut29.max_batch_size <= LargestBatch
       /\ CachePolicy(known) # Absent /\ known.nut19.ttl # Absent => CachePolicy(known).ttl >= 0
       /\ \A method \in {"bolt11", "bolt12"} :
            SupportsMintMeltMethod(known, "melt", method, "sat") =>
              ~info.nut5.disabled /\ \E i \in DOMAIN info.nut5.methods : info.nut5.methods[i].method = method
=============================================================================
