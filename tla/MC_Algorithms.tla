--------------------------- MODULE MC_Algorithms ---------------------------
(* What the wallet calculates, for TLC: coin selection, quotes, spending    *)
(* conditions, and one question at a time to the functions of amounts, mint *)
(* info and encodings.  They share nothing, so a behaviour is about one of  *)
(* them (the bound `using`); a question is answered in one step.            *)
EXTENDS Selection, Quotes, Conditions, Amounts, MintInfo, PaymentRequests

CONSTANTS q1, q2, k1
VARIABLES using, question

\* Denominations in an old, a current and a foreign keyset; fees below and above one sat.
P(n, a, k) == [id |-> n, amount |-> a, keyset |-> k]
MCUniverse == {P(1, 1, "old"), P(2, 2, "old"), P(3, 2, "new"), P(4, 4, "new"), P(5, 8, "new"),
               P(6, 4, "usd"), P(7, 3, "odd")}
MCFee       == [k \in {"old", "new", "usd", "odd"} |->
                  CASE k = "old" -> 600 [] k = "new" -> 100 [] k = "odd" -> 1900 [] OTHER -> 0]
MCStaleness == [k \in {"old", "new", "usd", "odd"} |->
                  CASE k = "old" -> 1 [] k = "new" -> 3 [] k = "odd" -> 2 [] OTHER -> 4]

MCLock   == {<<>>, <<Clear("a", FALSE)>>, <<Clear("a", FALSE), Clear("b", TRUE), Clear("a", TRUE)>>}
MCRefund == {<<>>, <<Clear("c", FALSE), Clear("a", FALSE)>>}
-----------------------------------------------------------------------------
(* Values to encode: around every width and depth.                          *)

Sides   == <<0, 1, Short - 1, Short, Byte - 1, Byte, Byte^2 - 1, Byte^2, Byte^4 - 1, Byte^4, Byte^8 - 1, Byte^8>>
Lengths == <<0, 1, Short - 1, Short, Byte - 1, Byte, Byte^2>>
Leaves  == Each(Sides, IntV) \o Each(Sides, LAMBDA n : IntV(-1 - n))
           \o Each(Lengths, LAMBDA n : BytesV([i \in 1..n |-> 0])) \o Each(Lengths, LAMBDA n : TextV([i \in 1..n |-> "x"]))
           \o Each(Simples, SimpleV) \o <<FloatV([i \in 1..8 |-> 1])>>
RECURSIVE Nest(_, _)
Nest(n, x) == IF n = 0 THEN x ELSE ArrayV(<<Nest(n - 1, x)>>)
Around(x) == <<ArrayV(<<x, IntV(1)>>), MapV(<<<<<<"k">>, x>>, <<<<"z">>, ArrayV(<<>>)>>>>), Nest(MaxDepth, x), Nest(MaxDepth + 1, x)>>
MCValues == Leaves \o FlattenSeq(Each(Leaves, Around))
            \o Each(<<Short, Byte, Byte^2 - 1, Byte^2>>, LAMBDA n : ArrayV([i \in 1..n |-> IntV(1)]))

\* Proofs of three keysets, two of which have the same short id, and of legacy ones.
Dleqs == {Absent, [e |-> <<1>>, s |-> <<2>>, r |-> <<3>>], [e |-> <<1>>, s |-> <<2>>, r |-> Absent]}
Proof(id, a, dleq, witness) ==
  [id |-> id, amount |-> a, secret |-> <<"x">>, C |-> <<4>>, dleq |-> dleq,
   p2pk_e |-> IF a = 1 THEN Absent ELSE <<5>>, witness |-> witness]
MCIds   == {HexId(<<1, 1, 1>>), HexId(<<1, 1, 2>>), HexId(<<1, 2, 1>>)}
MCProofs == {<<>>} \cup {<<Proof(i, 1, d, ObjectWitness(<<"g">>))>> : i \in MCIds \cup {HexId(<<0, 1>>), LegacyId(<<1, 1, 1>>)}, d \in Dleqs}
            \cup {<<Proof(i, 1, Absent, Absent), Proof(j, 2, d, Absent), Proof(i, 4, Absent, ObjectWitness(<<"g">>))>> :
                    i, j \in MCIds, d \in Dleqs}
MCKnown == {<<>>, <<<<1, 1, 1>>, <<1, 2, 1>>>>, <<<<1, 1, 2>>, <<1, 1, 1>>, <<1, 1, 1>>>>}
MCTokens == [mint : {<<"x">>}, unit : {<<>>, <<"y">>}, memo : {<<>>, <<"x">>}, proofs : MCProofs]

\* Requests: a family for the price, one for transports and locks, and one for the limits of
\* creqB and of a profile.  A transport with Relays - 1 one-letter relays in a tag fills its
\* profile, and a description of Spare letters the request.
Nostr(letter, relays, tags) == [type |-> "nostr", target |-> EncodeNprofile(<<"k", letter>>, relays), tags |-> tags]
MCTransports ==
  {Absent, <<>>, <<[type |-> "post", target |-> <<"p", "u">>, tags |-> Absent]>>,
   <<Nostr("k", <<<<"w", "s">>, <<"v">>>>, <<<<<<"n">>, <<"1", "7">>>>>>), Nostr("l", <<>>, <<<<Relay, <<"x">>>>, <<<<"n">>>>>>)>>}
Relays == (ProfileLimit - KeyOctets - 2) \div 3 + 1
Crowded ==
  {<<Nostr("k", IF named THEN <<<<"w">>>> ELSE <<>>, <<<<Relay>> \o [i \in 1..n |-> <<"v">>]>>)>> : named \in BOOLEAN, n \in {Relays - 2, Relays - 1, Relays}}
  \cup {<<Nostr("k", <<>>, <<<<<<"n">>, [i \in 1..n |-> "z"]>>>>)>> : n \in {Byte - 1, Byte}}
  \cup {<<[type |-> "nostr", target |-> <<"k", "k">>, tags |-> Absent]>>}
Spare == CreqLimit - 3 - 4 - 4 - 11     \* with a unit, the flag and an amount
Lock(sort, data, tags) == [kind |-> sort, data |-> data, tags |-> tags]
MCLocks ==
  {Absent, Lock("P2PK", <<"k">>, <<<<<<"pubkeys">>, <<"k", "2">>>>, <<<<"note">>, <<"z">>>>>>), Lock("HTLC", <<"k">>, Absent),
   Lock("OTHER", <<"d">>, <<>>), Lock("P2PK", <<"k">>, <<<<<<"refund">>>>, <<<<"refund">>, <<"z">>>>>>),
   Lock("P2PK", <<"k">>, <<<<[i \in 1..Byte |-> "z"]>>>>)}
Method(name, fee) == [method |-> <<"b", name>>, fee |-> fee]
MCMethods == {<<>>, <<Method("1", 3), Method("2", Absent)>>, <<Method("1", 3), Method("3", 2)>>}
MCRequests ==
  [id : {Absent}, amount : {Absent, 0, 5}, unit : {Absent, <<"sat">>, <<"u", "u">>},
   mints : {Absent, <<<<"h">>, <<"m", "/">>>>, <<<<"h">>>>}, description : {Absent}, transport : {Absent}, singleUse : {Absent},
   nut10 : {Absent}, mintsPreferred : {Absent, TRUE, FALSE}, supportedMethods : MCMethods]
  \cup
  [id : {<<>>, <<"i">>}, amount : {Byte^8 - 1}, unit : {<<"sat">>}, mints : {<<>>}, description : {<<"d">>},
   transport : MCTransports, singleUse : {TRUE}, nut10 : MCLocks, mintsPreferred : {Absent}, supportedMethods : {Absent}]
  \cup
  [id : {<<>>, <<"i">>}, amount : {Byte^8 - 1}, unit : {<<"sat">>}, mints : {Absent},
   description : {[i \in 1..n |-> "d"] : n \in {1, Spare - 4, Spare - 3, Spare, Spare + 1, Byte^2}}, transport : {Absent} \cup Crowded,
   singleUse : {FALSE}, nut10 : {Absent}, mintsPreferred : {Absent}, supportedMethods : {Absent}]
MCWallet == [mint |-> <<"m">>, unit |-> <<"sat">>, melts |-> {<<"b", "1">>, <<"b", "3">>}]
MCPayment == MapV(<<Entry(<<"id">>, TextV(<<"k">>)), Entry(<<"amount">>, IntV(5)), Entry(<<"secret">>, TextV(<<"s">>)),
                    Entry(<<"C">>, TextV(<<"c">>))>>)
-----------------------------------------------------------------------------
(* The questions.                                                           *)

Splits == [about : {"split"}, amount : 0..11, keys : {{}, {1, 2, 4, 8}, {1, 2}, {2, 4}, {1, 3, 5}},
           given : {<<>>, <<2>>, <<1, 1, 4>>, <<0, 0>>}, fees : BOOLEAN, ppk : {300, 1000, 1900},
           have : {<<>>, <<1, 2, 2, 4>>}, target : {0, 2, 3}]
Sums   == [about : {"sum"}, a : 0..20, n : 0..9, d : 0..9]

Paths  == UNION {[1..n -> {"v", "w"}] : n \in 0..3}
Shapes == [caret : BOOLEAN, star : {"none", "plain", "dotted"}, dollar : BOOLEAN]
Endpoints == [about : {"endpoint"}, base : Paths, shape : Shapes, place : {1, MaxInfoList, MaxInfoList + 1}, path : Paths]
Offers == [method : {"bolt11", "bolt12"}, unit : {"sat"}, name : {Absent}, min : {Absent}, max : {Absent}]
Nut(S) == [disabled : BOOLEAN, methods : {[i \in 1..n |-> o] : n \in {0, 1, MaxInfoList + 1}, o \in S}]
Infos  == [about : {"info"}, nut4 : Nut(Offers), nut5 : Nut(Offers), arrays : {Absent, Malformed, -1, 2, 9},
           nut19 : {Absent} \cup [ttl : {Absent, Malformed, -1, 5}, endpoints : {{}, {"e"}}],
           nut22 : {Absent} \cup [bat_max_mint : {Absent, Malformed, -1, 9}],
           nut29 : {Absent} \cup [max_batch_size : {Absent, Malformed, 1, 9}]]

MCQuestions ==
  \/ question \in Splits \/ question \in Sums \/ question \in Endpoints \/ question \in Infos
  \/ question \in [about : {"value"}, place : DOMAIN MCValues]
  \/ question \in [about : {"token"}, token : MCTokens, strip : BOOLEAN, known : MCKnown]
  \/ question \in [about : {"request"}, request : MCRequests, version : {"A", "B"}, chosen : {Absent, 4}]

MCInit ==
  /\ using \in {"selection", "quotes", "conditions", "questions"}
  /\ IF using = "questions" THEN MCQuestions ELSE question = [about |-> "nothing"]
  /\ IF using = "selection" THEN TRUE
     ELSE pick = [target |-> 1, includeFees |-> FALSE, exactMatch |-> FALSE, rotating |-> FALSE, repeated |-> FALSE]
          /\ coins = {P(1, 1, "old")}
  /\ SelectionInit /\ QuotesInit /\ ConditionsInit
  /\ using # "quotes" => ~legacy
  /\ using # "conditions" => kind = "swap"

Answer == /\ question.about # "nothing" /\ question' = [about |-> "nothing"]
          /\ UNCHANGED <<selectionVars, quoteVars, conditionVars, using>>

MCNext ==
  \/ using = "selection" /\ SelectionNext /\ UNCHANGED <<quoteVars, conditionVars, using, question>>
  \/ using = "quotes" /\ QuotesNext /\ UNCHANGED <<selectionVars, conditionVars, using, question>>
  \/ using = "conditions" /\ ConditionsNext /\ UNCHANGED <<selectionVars, quoteVars, using, question>>
  \/ Answer

MCSpec == MCInit /\ [][MCNext]_<<selectionVars, quoteVars, conditionVars, using, question>>
-----------------------------------------------------------------------------
(* The answers.                                                             *)

\* Outputs are worth the amount they are made for, and with the receiver's fee included leave
\* the receiver that amount; the arithmetic they rest on loses nothing (splitAmount,
\* getKeepAmounts, receiveFeeAmounts, Amount).
SplitsAreExact == [][
  /\ question.about = "split" =>
       SplitIsExact(question.amount, question.keys, question.given, question.fees, question.ppk, question.have, question.target)
  /\ question.about = "sum" => ArithmeticIsExact(question.a, question.n, question.d)]_question

\* Every endpoint the mint protects gets its token, in whatever form its pattern is written,
\* and no document of a mint lifts the library's limits (MintInfo).
EndpointsAreProtected == [][
  /\ question.about = "endpoint" => ProtectedAsWritten(question.base, question.shape, question.place, question.path)
  /\ question.about = "info" => LimitsHold(question)]_question

\* Values, tokens and payment requests survive their encodings, and who pays a request agrees
\* with who made it on the price (encodeCBOR, getEncodedToken, encodeTLV, sendToRequest,
\* isPaymentRequestSatisfied).
RoundTrips == [][
  /\ question.about = "value" => ValueRoundTrips(MCValues[question.place])
  /\ question.about = "token" => TokensRoundTrip(question.token, question.strip, question.known)
  /\ question.about = "request" =>
       /\ RequestRoundTrips(question.request, question.version)
       /\ PayerAndPayeeAgree(question.request, question.version, MCWallet, question.chosen, <<MCPayment>>)]_question
=============================================================================
