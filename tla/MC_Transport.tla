---------------------------- MODULE MC_Transport ----------------------------
(* One HTTP request, calls that wait for quotes, a stream and a pool, for   *)
(* TLC.  They share nothing, so a behaviour is about one of them (the bound *)
(* `using`).                                                                *)
EXTENDS Requests, WalletEvents, Streams

CONSTANTS q1, q2
VARIABLE using

Option(method, cached, ttl, idempotent, timed, stream, signal) ==
  [method |-> method, cached |-> cached, ttl |-> ttl, idempotent |-> idempotent, timed |-> timed,
   stream |-> stream, signal |-> signal]
MCCallOptions ==
  {Option(method, cached, ttl, idempotent, timed, stream, signal) :
     method \in {"GET", "POST"}, cached \in {{}, {"POST"}}, ttl \in {Absent, 2, Infinite},
     idempotent \in {Absent, TRUE}, timed \in {Absent, TRUE}, stream \in BOOLEAN, signal \in BOOLEAN}
MCGlobalOptions == {[timed |-> Absent, idempotent |-> Absent], [timed |-> TRUE, idempotent |-> Absent]}

MCCalls == {OnceAnyMintPaid({q1, q2}, TRUE, TRUE, FALSE), OnceMintPaid(q1, FALSE, TRUE),
            OnceMeltPaid(q2, TRUE, FALSE), OnceAnyMintPaid({q1, q2}, FALSE, FALSE, TRUE),
            OnceAnyMintPaid({}, FALSE, FALSE, FALSE)}

MCInit ==
  /\ using \in {"request", "waits", "stream", "pool"}
  /\ RequestIn(IF using = "request" THEN "start" ELSE "settled") /\ Init /\ StreamInit /\ PoolInit
  /\ using # "request" => opt = Option("GET", {}, Absent, Absent, Absent, TRUE, FALSE)
  /\ using # "stream" => opts = [max |-> 1, drop |-> "oldest"]
  /\ using # "pool" => limit = 1

MCNext ==
  \/ using = "request" /\ RequestNext /\ UNCHANGED <<vars, streamVars, poolVars, using>>
  \/ using = "waits" /\ Next /\ UNCHANGED <<requestVars, streamVars, poolVars, using>>
  \/ using = "stream" /\ StreamNext /\ UNCHANGED <<requestVars, vars, poolVars, using>>
  \/ using = "pool" /\ PoolNext /\ UNCHANGED <<requestVars, vars, streamVars, using>>

\* A consumer asks again, and subscriptions get their answer.
MCSpec == /\ MCInit /\ [][MCNext]_<<requestVars, vars, streamVars, poolVars, using>>
          /\ RequestFairness
          /\ WF_streamVars(using = "stream" /\ Resume)
          /\ WF_streamVars(using = "stream" /\ Subscribed)
=============================================================================
