-------------------------- MODULE Transport_proofs --------------------------
(***************************************************************************)
(* Proofs about how the wallet talks to the mint: HTTP requests, calls     *)
(* that wait for quotes, the stream of proof states and the pool that      *)
(* works through batches.  They share nothing; each part has an invariant  *)
(* of its own.                                                             *)
(***************************************************************************)
EXTENDS Requests, WalletEvents, Streams, FiniteSetTheorems, SequenceTheorems, TLAPS

(***************************************************************************)
(* Requests, for any options, retry limits, delays and clocks.             *)
(*                                                                         *)
(* A request that must not be repeated is sent once, unless its endpoint   *)
(* is cached.  Then the mint keeps its first answer at least until the     *)
(* announced time after the start of the request, and a backoff that would *)
(* end later than that is abandoned.                                       *)
(***************************************************************************)
RequestTypeInv ==
  /\ opt.ttl \in Nat \cup {Absent}
  /\ phase \in {"start", "fetch", "body", "wait", "settled"}
  /\ attempts \in Nat /\ retries \in Nat /\ clock \in Nat /\ wake \in Nat
  /\ executions \in Nat /\ expires \in Nat \cup {Absent}

\* Only a body that is being read, or that was given up with the request, is still read.
ReadInv ==
  /\ phase \in {"start", "fetch", "wait"} => reads = 0
  /\ phase = "body" /\ opt.stream => reads = 0

\* Without the mint's cache: no second attempt.
SentOnce ==
  /\ executions <= attempts /\ attempts <= 1
  /\ phase \in {"start", "wait"} => attempts = 0

\* With it: the first answer outlives every attempt.
AnsweredFromCache ==
  /\ executions \in {0, 1}
  /\ executions = 1 => expires \in Nat /\ expires >= opt.ttl /\ (opt.ttl = Infinite => expires = Infinite)
  /\ attempts = 0 => executions = 0
  /\ opt.ttl # Infinite /\ attempts # 0 =>
       /\ phase = "start" => clock <= opt.ttl
       /\ phase = "wait" => clock <= wake /\ wake <= opt.ttl

OnceInv ==
  /\ ~IsCachable(opt) /\ ~IsIdempotent(opt) => SentOnce
  /\ IsCachable(opt) => AnsweredFromCache

RequestInv == RequestTypeInv /\ ReadInv /\ OnceInv

LEMMA RequestInvInit == RequestInit => RequestInv
<1> SUFFICES ASSUME RequestInit PROVE RequestInv
  OBVIOUS
<1>1. PICK c \in CallOptions, g \in GlobalOptions : opt = Merge(c, g)
  BY DEF RequestInit, RequestIn
<1>2. opt.ttl \in Nat \cup {Absent}
  BY <1>1, OptionsAssumption DEF Merge
<1>3. QED
  BY <1>2 DEF RequestInit, RequestIn, RequestInv, RequestTypeInv, ReadInv, OnceInv, SentOnce, AnsweredFromCache

\* What a failed attempt leads to: the end, a backoff that ends before the deadline, or the
\* single retry at once.
LEMMA AttemptThrowsCases ==
  ASSUME RequestTypeInv, NEW e, AttemptThrows(e)
  PROVE  /\ retries' \in Nat /\ wake' \in Nat
         /\ \/ phase' = "settled"
            \/ /\ IsCachable(opt) /\ e \in {"network", "5xx"} /\ phase' = "wait"
               /\ clock <= wake' /\ (opt.ttl # Infinite => wake' <= opt.ttl)
            \/ ~IsCachable(opt) /\ IsIdempotent(opt) /\ e = "network" /\ phase' = "start"
<1>1. CASE ~IsCachable(opt)
  BY <1>1 DEF AttemptThrows, Settle, RequestTypeInv
<1>2. CASE IsCachable(opt) /\ phase' = "settled" /\ UNCHANGED <<retries, wake>>
  BY <1>2 DEF RequestTypeInv
<1>3. CASE IsCachable(opt) /\ ~(phase' = "settled" /\ UNCHANGED <<retries, wake>>)
  <2>1. PICK delay \in Delays(retries) : IsRetryableError(e) /\ RetryOrAbandon(e, delay)
    BY <1>3 DEF AttemptThrows, Settle
  <2>2. delay \in Nat
    BY DelaysAssumption DEF Delays
  <2>3. /\ RetryLater(delay)
        /\ opt.ttl # Infinite => ~(clock + delay > opt.ttl)
    BY <1>3, <2>1 DEF RetryOrAbandon, Settle
  <2>4. /\ retries' = retries + 1 /\ wake' = clock + delay
        /\ phase' \in {"settled", "wait"}
    BY <2>3 DEF RetryLater, Settle
  <2>5. opt.ttl \in Nat
    BY <1>3 DEF IsCachable, RequestTypeInv
  <2>6. QED
    BY <1>3, <2>1, <2>2, <2>3, <2>4, <2>5 DEF RequestTypeInv, IsRetryableError
<1>4. QED
  BY <1>1, <1>2, <1>3

\* A failed attempt keeps the invariant if no read goes on when it is tried again.
LEMMA AttemptThrowsStep ==
  ASSUME RequestInv, NEW e, phase \in {"fetch", "body"}, AttemptThrows(e),
         e \in {"network", "5xx"} => reads' = 0,
         UNCHANGED <<opt, attempts, clock, mintVars>>
  PROVE  RequestInv'
<1>1. /\ retries' \in Nat /\ wake' \in Nat
      /\ \/ phase' = "settled"
         \/ /\ IsCachable(opt) /\ e \in {"network", "5xx"} /\ phase' = "wait"
            /\ clock <= wake' /\ (opt.ttl # Infinite => wake' <= opt.ttl)
         \/ ~IsCachable(opt) /\ IsIdempotent(opt) /\ e = "network" /\ phase' = "start"
  BY AttemptThrowsCases DEF RequestInv
<1>2. RequestTypeInv' /\ ReadInv'
  BY <1>1 DEF RequestInv, RequestTypeInv, ReadInv, mintVars
<1>3. OnceInv'
  BY <1>1 DEF RequestInv, OnceInv, SentOnce, AnsweredFromCache, mintVars
<1>4. QED
  BY <1>2, <1>3 DEF RequestInv

\* An attempt, or none if the caller has aborted.
LEMMA AttemptStep == RequestInv /\ Attempt => RequestInv'
<1> SUFFICES ASSUME RequestInv, Attempt PROVE RequestInv'
  OBVIOUS
<1>1. CASE callerAborted
  BY <1>1 DEF Attempt, Settle, RequestInv, RequestTypeInv, ReadInv, OnceInv, SentOnce, AnsweredFromCache, mintVars
<1>2. CASE ~callerAborted
  <2>1. AttemptAnyway
    BY <1>2 DEF Attempt
  <2>2. \/ UNCHANGED mintVars
        \/ /\ executions' = executions + 1
           /\ IsCachable(opt) => ~(expires # Absent /\ (expires = Infinite \/ clock <= expires))
           /\ expires' = IF ~IsCachable(opt) THEN Absent
                         ELSE IF opt.ttl = Infinite THEN Infinite ELSE clock + opt.ttl
    BY <2>1 DEF AttemptAnyway, Reaches
  <2>3. IsCachable(opt) => opt.ttl \in Nat
    BY DEF IsCachable, RequestInv, RequestTypeInv
  <2>4. RequestTypeInv' /\ ReadInv'
    BY <2>1, <2>2, <2>3, InfiniteAssumption
       DEF AttemptAnyway, RequestInv, RequestTypeInv, ReadInv, mintVars
  <2>5. ~IsCachable(opt) /\ ~IsIdempotent(opt) => SentOnce'
    BY <2>1, <2>2 DEF AttemptAnyway, RequestInv, RequestTypeInv, OnceInv, SentOnce, mintVars
  <2>6. IsCachable(opt) => AnsweredFromCache'
    <3> SUFFICES ASSUME IsCachable(opt) PROVE AnsweredFromCache'
      OBVIOUS
    <3>1. CASE UNCHANGED mintVars
      BY <2>1, <3>1 DEF AttemptAnyway, RequestInv, RequestTypeInv, OnceInv, AnsweredFromCache, mintVars
    <3>2. CASE ~UNCHANGED mintVars
      <4>1. executions = 0
        BY <2>1, <2>2, <2>3, <3>2, InfiniteAssumption
           DEF AttemptAnyway, RequestInv, RequestTypeInv, OnceInv, AnsweredFromCache
      <4>2. QED
        BY <2>1, <2>2, <2>3, <3>2, <4>1, InfiniteAssumption
           DEF AttemptAnyway, RequestInv, RequestTypeInv, AnsweredFromCache
    <3>3. QED
      BY <3>1, <3>2
  <2>7. opt' = opt
    BY <2>1 DEF AttemptAnyway
  <2>8. QED
    BY <2>4, <2>5, <2>6, <2>7 DEF RequestInv, OnceInv
<1>3. QED
  BY <1>1, <1>2

LEMMA RequestInvStep == RequestInv /\ [RequestNext]_requestVars => RequestInv'
<1> SUFFICES ASSUME RequestInv, [RequestNext]_requestVars PROVE RequestInv'
  OBVIOUS
<1>1. CASE Attempt
  BY <1>1, AttemptStep
<1>2. CASE FetchRejects
  <2> DEFINE e == IF Signaled THEN AbortError(FALSE) ELSE "network"
  <2>1. /\ phase \in {"fetch", "body"} /\ AttemptThrows(e)
        /\ UNCHANGED <<opt, attempts, clock, mintVars>>
        /\ reads' = 0
    BY <1>2 DEF FetchRejects, RequestInv, ReadInv
  <2> HIDE DEF e
  <2>2. QED
    BY <2>1, AttemptThrowsStep
<1>3. CASE BodyAborted
  <2>1. AbortError(~opt.stream) \in {"network", "5xx"} => reads' = 0
    BY <1>3 DEF BodyAborted, AbortError, RequestInv, ReadInv
  <2>2. QED
    BY <1>3, <2>1, AttemptThrowsStep DEF BodyAborted
<1>4. ASSUME NEW good \in BOOLEAN, BodyEnds(good) PROVE RequestInv'
  <2>1. CASE status = "ok" /\ good
    BY <1>4, <2>1 DEF BodyEnds, Settle, RequestInv, RequestTypeInv, ReadInv, OnceInv, SentOnce, AnsweredFromCache, mintVars
  <2>2. CASE ~(status = "ok" /\ good)
    BY <1>4, <2>2, AttemptThrowsStep DEF BodyEnds
  <2>3. QED
    BY <2>1, <2>2
<1>5. ASSUME NEW s \in Statuses, NEW tooLarge \in BOOLEAN, NEW stops \in BOOLEAN, Respond(s, tooLarge, stops)
      PROVE  RequestInv'
  <2>1. CASE phase' = "settled" /\ UNCHANGED <<retries, wake>>
    BY <1>5, <2>1 DEF Respond, RequestInv, RequestTypeInv, ReadInv, OnceInv, SentOnce, AnsweredFromCache, mintVars
  <2>2. CASE phase' = "body" /\ UNCHANGED <<retries, wake>> /\ reads' = IF opt.stream THEN 0 ELSE 1
    BY <1>5, <2>2 DEF Respond, RequestInv, RequestTypeInv, ReadInv, OnceInv, SentOnce, AnsweredFromCache, mintVars
  <2>3. CASE \E e \in {"badResponse", StatusError(s, FALSE)} : AttemptThrows(e) /\ UNCHANGED reads
    BY <1>5, <2>3, AttemptThrowsStep DEF Respond, RequestInv, ReadInv
  <2>4. QED
    BY <1>5, <2>1, <2>2, <2>3 DEF Respond, Settle
<1>6. CASE CallerAborts \/ BackoffEnds
  BY <1>6 DEF CallerAborts, BackoffEnds, Settle, RequestInv, RequestTypeInv, ReadInv, OnceInv, SentOnce,
              AnsweredFromCache, IsCachable, mintVars
<1>7. CASE Tick
  BY <1>7 DEF Tick, RequestInv, RequestTypeInv, ReadInv, OnceInv, SentOnce, AnsweredFromCache, IsCachable, mintVars
<1>8. CASE AbandonedReadEnds \/ TimeoutFires \/ UNCHANGED requestVars
  BY <1>8 DEF AbandonedReadEnds, TimeoutFires, TimeoutWhileConnecting, requestVars, RequestInv, RequestTypeInv, ReadInv,
              OnceInv, SentOnce, AnsweredFromCache, mintVars
<1>9. QED
  BY <1>1, <1>2, <1>3, <1>4, <1>5, <1>6, <1>7, <1>8 DEF RequestNext

LEMMA RequestInvHolds == RequestSpec => []RequestInv
BY RequestInvInit, RequestInvStep, PTL DEF RequestSpec

\* The mint executes a request that must not be repeated at most once.
THEOREM ExecutedOnceHolds == RequestSpec => []ExecutedOnce
<1>1. RequestInv => ExecutedOnce
  BY DEF RequestInv, RequestTypeInv, OnceInv, SentOnce, AnsweredFromCache, ExecutedOnce
<1>2. QED
  BY <1>1, RequestInvHolds, PTL

\* Only Attempt calls fetch.
LEMMA OnlyAttemptSends ==
  ASSUME RequestNext, attempts' # attempts
  PROVE  phase = "start" /\ ~callerAborted /\ UNCHANGED reads
BY DEF RequestNext, Attempt, AttemptAnyway, FetchRejects, BodyAborted, AbandonedReadEnds, Respond, BodyEnds,
       TimeoutFires, TimeoutWhileConnecting, CallerAborts, BackoffEnds, Tick

\* No attempt starts while the body of an earlier one is still read.
THEOREM NoReadLeftBehindHolds == RequestSpec => NoReadLeftBehind
<1>1. RequestInv /\ [RequestNext]_requestVars => [attempts' # attempts => reads = 0]_requestVars
  BY OnlyAttemptSends DEF RequestInv, ReadInv, requestVars
<1>2. QED
  BY <1>1, RequestInvHolds, PTL DEF RequestSpec, NoReadLeftBehind

\* Nothing is sent once the caller has aborted.
THEOREM AbortIsFinalHolds == RequestSpec => AbortIsFinal
<1>1. [RequestNext]_requestVars => [callerAborted => attempts' = attempts]_requestVars
  BY OnlyAttemptSends DEF requestVars
<1>2. QED
  BY <1>1, PTL DEF RequestSpec, AbortIsFinal
-----------------------------------------------------------------------------
(***************************************************************************)
(* Waits, for any number of calls, quotes and ways to make a call.         *)
(*                                                                         *)
(* The invariant is about one call at a time: until it is over, the quotes *)
(* it has a canceller for are exactly those whose subscription starts or   *)
(* exists; afterwards it has none, and every subscription that still       *)
(* starts is doomed.  A step concerns one call, or, when a connection      *)
(* attempt fails, all of them in the same way.                             *)
(***************************************************************************)
SubStates == {"none", "starting", "live", "deaf", "closed", "failed", "refused"}

Active(w, q) == sub[w][q] \in {"starting", "live", "deaf"}
Lost(w, q)   == sub[w][q] \in {"failed", "refused"}

TypeInv ==
  /\ call \in [Waits -> Calls \cup {Absent}]
  /\ outcome \in [Waits -> Quotes \cup {"aborted", "error", "timeout", Absent}]
  /\ cancels \in [Waits -> SUBSET Quotes]
  /\ sub \in [Waits -> [Quotes -> SubStates]]
  /\ doomed \subseteq Waits \X Quotes

\* A call before it is made, while it waits, and when it is over.
Before(w) == cancels[w] = {} /\ ~Done(w) /\ \A q \in Quotes : sub[w][q] = "none"

Waiting(w) ==
  /\ cancels[w] # {} /\ cancels[w] \subseteq call[w].ids
  /\ \A q \in Quotes : q \in cancels[w] <=> Active(w, q)
  /\ \A q \in call[w].ids : Active(w, q) \/ Lost(w, q)

Ended(w) ==
  /\ cancels[w] = {}
  /\ \A q \in Quotes : ~Exists(w, q) /\ (sub[w][q] = "starting" => <<w, q>> \in doomed)
  /\ outcome[w] = "error" /\ ~call[w].failOnError => \A q \in call[w].ids : Lost(w, q)

WaitInv(w) ==
  /\ ~Made(w) => Before(w)
  /\ Made(w) /\ ~Done(w) => Waiting(w)
  /\ Done(w) => Ended(w)
  /\ ~Done(w) => \A q \in Quotes : <<w, q>> \notin doomed

Inv == TypeInv /\ \A w \in Waits : WaitInv(w)

LEMMA InvInit == Init => Inv
BY AbsentAssumption DEF Init, Inv, TypeInv, WaitInv, Before, Made, Done, SubStates

\* A step that leaves a call alone.
LEMMA Frame ==
  ASSUME NEW v \in Waits, WaitInv(v),
         call'[v] = call[v], outcome'[v] = outcome[v], cancels'[v] = cancels[v],
         sub'[v] = sub[v],
         \A q \in Quotes : <<v, q>> \in doomed' <=> <<v, q>> \in doomed
  PROVE  WaitInv(v)'
<1>1. \A q \in Quotes : (Active(v, q)' <=> Active(v, q)) /\ (Exists(v, q)' <=> Exists(v, q))
  BY DEF Active, Exists
<1>2. (Made(v)' <=> Made(v)) /\ (Done(v)' <=> Done(v))
  BY DEF Made, Done
<1>3. Before(v) => Before(v)'
  BY <1>2 DEF Before
<1>4. Waiting(v) => Waiting(v)'
  BY <1>1 DEF Waiting, Active, Lost
<1>5. Ended(v) => Ended(v)'
  BY <1>1 DEF Ended, Lost
<1>6. QED
  BY <1>2, <1>3, <1>4, <1>5 DEF WaitInv

\* cleanup ends its call.  The result is no error, or every quote of the call has failed.
LEMMA CleanupStep ==
  ASSUME Inv, NEW w \in Waits, NEW r \in Quotes \cup {"aborted", "timeout"},
         Made(w), Cleanup(w, r), UNCHANGED call
  PROVE  Inv'
<1> USE DEF Inv
<1>1. TypeInv'
  <2>1. Cancelled(w, cancels[w]) \in [Quotes -> SubStates]
    BY DEF TypeInv, Cancelled, SubStates
  <2>2. WaitsForCanceller(w, cancels[w]) \subseteq Waits \X Quotes
    BY DEF TypeInv, WaitsForCanceller, Starting
  <2>3. QED
    BY <2>1, <2>2 DEF TypeInv, Cleanup
<1>2. ASSUME NEW v \in Waits \ {w} PROVE WaitInv(v)'
  <2>1. \A q \in Quotes : <<v, q>> \notin WaitsForCanceller(w, cancels[w])
    BY DEF WaitsForCanceller
  <2>2. QED
    BY <1>2, <2>1, Frame DEF Cleanup, TypeInv
<1>3. WaitInv(w)'
  <2>1. Waiting(w) /\ Made(w)'
    BY DEF WaitInv, Cleanup, Made
  <2>2. Done(w)' /\ outcome'[w] = r /\ r # Absent
    BY AbsentAssumption DEF Cleanup, Done, TypeInv
  <2>3. \A q \in Quotes : sub'[w][q] = IF q \in cancels[w] /\ Exists(w, q) THEN "closed" ELSE sub[w][q]
    BY DEF Cleanup, Cancelled, TypeInv
  <2>4. \A q \in Quotes : ~Exists(w, q)'
    BY <2>1, <2>3 DEF Waiting, Exists, Active
  <2>5. \A q \in Quotes : sub'[w][q] = "starting" => <<w, q>> \in doomed'
    <3> SUFFICES ASSUME NEW q \in Quotes, sub'[w][q] = "starting" PROVE <<w, q>> \in doomed'
      OBVIOUS
    <3>1. sub[w][q] = "starting" /\ q \in cancels[w]
      BY <2>1, <2>3 DEF Waiting, Active
    <3>2. QED
      BY <3>1 DEF Cleanup, WaitsForCanceller, Starting
  <2>6. cancels'[w] = {}
    BY DEF Cleanup, TypeInv
  <2>7. Ended(w)'
    BY <2>2, <2>4, <2>5, <2>6, QuotesAssumption DEF Ended
  <2>8. QED
    BY <2>1, <2>2, <2>7 DEF WaitInv
<1>4. QED
  BY <1>1, <1>2, <1>3

\* A failure of subscriptions that start or exist, in any of the calls.
LEMMA FailStep ==
  ASSUME Inv, NEW lost \in [Waits -> SUBSET Quotes], NEW how \in {"failed", "refused"},
         \A w \in Waits : \A q \in lost[w] : Active(w, q),
         Fail(lost, how), UNCHANGED call
  PROVE  Inv'
<1> USE DEF Inv
<1> DEFINE over == {w \in Waits : Over(w, lost[w])}
<1>1. ASSUME NEW w \in Waits
      PROVE  /\ outcome'[w] = IF w \in over THEN "error" ELSE outcome[w]
             /\ cancels'[w] = IF w \in over THEN {} ELSE cancels[w] \ lost[w]
             /\ \A q \in Quotes : sub'[w][q] =
                  IF q \in lost[w] THEN how
                  ELSE IF w \in over /\ q \in cancels[w] /\ Exists(w, q) THEN "closed"
                  ELSE sub[w][q]
  BY DEF Fail, Cancelled
<1>2. ASSUME NEW w \in Waits, NEW q \in Quotes
      PROVE  <<w, q>> \in doomed' <=>
               \/ <<w, q>> \in doomed /\ q \notin lost[w]
               \/ w \in over /\ q \in (cancels[w] \ lost[w]) \cap Starting(w)
  BY DEF Fail, WaitsForCanceller
<1>3. TypeInv'
  <2>1. sub' \in [Waits -> [Quotes -> SubStates]]
    <3>1. \A w \in Waits : Cancelled(w, cancels[w]) \in [Quotes -> SubStates]
      BY DEF TypeInv, Cancelled, SubStates
    <3>2. QED
      BY <3>1 DEF Fail, TypeInv, SubStates
  <2>2. outcome' \in [Waits -> Quotes \cup {"aborted", "error", "timeout", Absent}]
    BY DEF Fail, TypeInv
  <2>3. cancels' \in [Waits -> SUBSET Quotes]
    BY DEF Fail, TypeInv
  <2>4. doomed' \subseteq Waits \X Quotes
    <3>1. \A w \in Waits : WaitsForCanceller(w, cancels[w] \ lost[w]) \subseteq Waits \X Quotes
      BY DEF WaitsForCanceller, Starting, TypeInv
    <3>2. UNION {WaitsForCanceller(w, cancels[w] \ lost[w]) : w \in over} \subseteq Waits \X Quotes
      BY <3>1
    <3>3. {d \in doomed : d[2] \notin lost[d[1]]} \subseteq Waits \X Quotes
      BY DEF TypeInv
    <3>4. QED
      BY <3>2, <3>3 DEF Fail
  <2>5. QED
    BY <2>1, <2>2, <2>3, <2>4 DEF TypeInv
<1>4. ASSUME NEW w \in Waits PROVE WaitInv(w)'
  <2>0. /\ Made(w)' <=> Made(w)
        /\ lost[w] \subseteq Quotes /\ cancels[w] \subseteq Quotes
        /\ sub[w] \in [Quotes -> SubStates]
        /\ Made(w) => call[w].ids \subseteq Quotes
    BY CallsAssumption DEF Made, TypeInv
  <2>1. CASE ~Made(w)
    <3>1. Before(w) /\ w \notin over /\ lost[w] = {}
      BY <2>0, <2>1 DEF WaitInv, Before, Over, Active
    <3>2. Before(w)' /\ ~Done(w)'
      BY <1>1, <3>1 DEF Before, Done
    <3>3. \A q \in Quotes : <<w, q>> \notin doomed
      BY <3>2, <3>1 DEF WaitInv, Before
    <3>4. \A q \in Quotes : <<w, q>> \notin doomed'
      BY <1>2, <3>1, <3>3
    <3>5. QED
      BY <2>0, <2>1, <3>2, <3>4 DEF WaitInv
  <2>2. CASE Done(w)
    <3>1. Ended(w) /\ w \notin over
      BY <2>2 DEF WaitInv, Over
    <3>2. Ended(w)'
      <4>1. cancels'[w] = {} /\ outcome'[w] = outcome[w]
        BY <1>1, <3>1 DEF Ended
      <4>2. \A q \in Quotes : ~Exists(w, q)' /\ (sub'[w][q] = "starting" => <<w, q>> \in doomed')
        BY <1>1, <1>2, <3>1 DEF Ended, Exists
      <4>3. outcome'[w] = "error" /\ ~call'[w].failOnError => \A q \in call'[w].ids : Lost(w, q)'
        <5>1. Made(w)
          BY <2>2 DEF WaitInv, Before
        <5>2. \A q \in call[w].ids : Lost(w, q) => Lost(w, q)'
          BY <1>1, <2>0, <3>1, <5>1 DEF Lost
        <5>3. QED
          BY <3>1, <4>1, <5>2 DEF Ended
      <4>4. QED
        BY <4>1, <4>2, <4>3 DEF Ended
    <3>3. Made(w) /\ Done(w)'
      BY <1>1, <2>2, <3>1 DEF WaitInv, Done, Before
    <3>4. QED
      BY <2>0, <3>2, <3>3 DEF WaitInv
  <2>3. CASE Made(w) /\ ~Done(w) /\ w \in over
    <3>1. Waiting(w) /\ (call[w].failOnError \/ cancels[w] \subseteq lost[w])
      BY <2>3 DEF WaitInv, Over
    <3>2. Done(w)'
      BY <1>1, <2>3, AbsentAssumption DEF Done
    <3>3. \A q \in Quotes : ~Exists(w, q)' /\ (sub'[w][q] = "starting" => <<w, q>> \in doomed')
      <4> SUFFICES ASSUME NEW q \in Quotes
                   PROVE  ~Exists(w, q)' /\ (sub'[w][q] = "starting" => <<w, q>> \in doomed')
        OBVIOUS
      <4>1. ~Exists(w, q)'
        BY <1>1, <2>3, <3>1 DEF Exists, Waiting, Active
      <4>2. ASSUME sub'[w][q] = "starting" PROVE <<w, q>> \in doomed'
        <5>1. q \notin lost[w] /\ sub[w][q] = "starting"
          BY <1>1, <2>3, <4>2
        <5>2. q \in cancels[w]
          BY <3>1, <5>1 DEF Waiting, Active
        <5>3. QED
          BY <1>2, <2>3, <5>1, <5>2 DEF Starting
      <4>3. QED
        BY <4>1, <4>2
    <3>4. ~call'[w].failOnError => \A q \in call'[w].ids : Lost(w, q)'
      <4>1. ~call[w].failOnError => \A q \in call[w].ids : q \in lost[w] \/ Lost(w, q)
        BY <2>0, <2>3, <3>1 DEF Waiting
      <4>2. \A q \in call[w].ids : q \in lost[w] \/ Lost(w, q) => Lost(w, q)'
        BY <1>1, <2>0, <2>3, <3>1 DEF Lost, Exists
      <4>3. QED
        BY <4>1, <4>2
    <3>5. Ended(w)'
      BY <1>1, <2>3, <3>3, <3>4 DEF Ended
    <3>6. QED
      BY <2>0, <2>3, <3>2, <3>5 DEF WaitInv
  <2>4. CASE Made(w) /\ ~Done(w) /\ w \notin over
    <3>1. Waiting(w) /\ \A q \in Quotes : <<w, q>> \notin doomed
      BY <2>4 DEF WaitInv
    <3>2. ~Done(w)' /\ \A q \in Quotes : <<w, q>> \notin doomed'
      BY <1>1, <1>2, <2>4, <3>1 DEF Done
    <3>3. cancels'[w] # {}
      BY <1>1, <2>4, <3>1 DEF Over, Waiting
    <3>4. \A q \in Quotes : q \in cancels'[w] <=> Active(w, q)'
      BY <1>1, <2>4, <3>1 DEF Waiting, Active
    <3>5. \A q \in call'[w].ids : Active(w, q)' \/ Lost(w, q)'
      BY <1>1, <2>0, <2>4, <3>1 DEF Waiting, Active, Lost
    <3>6. Waiting(w)'
      BY <1>1, <2>4, <3>1, <3>3, <3>4, <3>5 DEF Waiting
    <3>7. QED
      BY <2>0, <2>4, <3>2, <3>6 DEF WaitInv
  <2>5. QED
    BY <2>1, <2>2, <2>3, <2>4
<1>5. QED
  BY <1>3, <1>4

LEMMA OnceStep ==
  ASSUME Inv, NEW w \in Waits, NEW c \in Calls, Once(w, c)
  PROVE  Inv'
<1> USE DEF Inv
<1>0. c.ids \subseteq Quotes /\ c # Absent
  BY CallsAssumption, AbsentAssumption
<1>1. TypeInv'
  <2>1. call' \in [Waits -> Calls \cup {Absent}]
    BY DEF Once, TypeInv
  <2>2. outcome' \in [Waits -> Quotes \cup {"aborted", "error", "timeout", Absent}]
    BY DEF Once, TypeInv
  <2>3. cancels' \in [Waits -> SUBSET Quotes]
    BY <1>0 DEF Once, TypeInv
  <2>4. sub' \in [Waits -> [Quotes -> SubStates]]
    BY DEF Once, TypeInv, SubStates
  <2>5. QED
    BY <2>1, <2>2, <2>3, <2>4 DEF Once, TypeInv
<1>2. ASSUME NEW v \in Waits \ {w} PROVE WaitInv(v)'
  BY <1>2, Frame DEF Once, TypeInv
<1>3. WaitInv(w)'
  <2>1. Before(w) /\ call'[w] = c /\ Made(w)'
    BY <1>0 DEF Once, WaitInv, Made, TypeInv
  <2>2. CASE (c.signal /\ w \in aborted) \/ c.ids = {}
    <3>1. Done(w)' /\ cancels'[w] = {} /\ sub'[w] = sub[w] /\ outcome'[w] \in {"aborted", "error"}
      BY <2>1, <2>2, AbsentAssumption DEF Once, Done, TypeInv, Before
    <3>2. outcome'[w] = "error" => c.ids = {}
      BY <2>2 DEF Once, TypeInv
    <3>3. Ended(w)'
      BY <2>1, <3>1, <3>2 DEF Ended, Before, Exists
    <3>4. QED
      BY <2>1, <3>1, <3>3 DEF WaitInv
  <2>3. CASE ~(c.signal /\ w \in aborted) /\ c.ids # {}
    <3>1. /\ cancels'[w] = c.ids /\ outcome'[w] = outcome[w] /\ doomed' = doomed
          /\ \A q \in Quotes : sub'[w][q] = IF q \in c.ids THEN "starting" ELSE "none"
      BY <2>3 DEF Once, TypeInv
    <3>2. Waiting(w)'
      BY <1>0, <2>1, <2>3, <3>1 DEF Waiting, Active
    <3>3. ~Done(w)' /\ \A q \in Quotes : <<w, q>> \notin doomed'
      BY <2>1, <3>1 DEF Before, Done, WaitInv
    <3>4. QED
      BY <2>1, <3>2, <3>3 DEF WaitInv
  <2>4. QED
    BY <2>2, <2>3
<1>4. QED
  BY <1>1, <1>2, <1>3

LEMMA SubscribeStep ==
  ASSUME Inv, NEW w \in Waits, NEW q \in Quotes, Subscribe(w, q)
  PROVE  Inv'
<1> USE DEF Inv
<1>1. TypeInv'
  BY DEF Subscribe, TypeInv, SubStates
<1>2. ASSUME NEW v \in Waits \ {w} PROVE WaitInv(v)'
  BY <1>2, Frame DEF Subscribe, TypeInv
<1>3. WaitInv(w)'
  <2>0. /\ \A r \in Quotes \ {q} : sub'[w][r] = sub[w][r]
        /\ sub'[w][q] = IF <<w, q>> \in doomed THEN "closed" ELSE "live"
        /\ (Made(w)' <=> Made(w)) /\ (Done(w)' <=> Done(w)) /\ Made(w)
        /\ call[w].ids \subseteq Quotes
    <3>1. Made(w)
      BY DEF Subscribe, WaitInv, Before
    <3>2. QED
      BY <3>1, CallsAssumption DEF Subscribe, TypeInv, Made, Done
  <2>1. CASE Done(w)
    <3>1. Ended(w) /\ <<w, q>> \in doomed
      BY <2>1 DEF WaitInv, Ended, Subscribe
    <3>2. Ended(w)'
      <4>1. \A r \in Quotes : ~Exists(w, r)' /\ (sub'[w][r] = "starting" => <<w, r>> \in doomed')
        BY <2>0, <3>1 DEF Ended, Exists, Subscribe
      <4>2. \A r \in call[w].ids : Lost(w, r) => Lost(w, r)'
        BY <2>0 DEF Lost, Subscribe
      <4>3. QED
        BY <3>1, <4>1, <4>2 DEF Ended, Subscribe
    <3>3. QED
      BY <2>0, <2>1, <3>2 DEF WaitInv
  <2>2. CASE ~Done(w)
    <3>1. Waiting(w) /\ \A r \in Quotes : <<w, r>> \notin doomed
      BY <2>0, <2>2 DEF WaitInv
    <3>2. Waiting(w)'
      BY <2>0, <3>1 DEF Waiting, Active, Lost, Subscribe
    <3>3. QED
      BY <2>0, <2>2, <3>1, <3>2 DEF WaitInv, Subscribe
  <2>3. QED
    BY <2>1, <2>2
<1>4. QED
  BY <1>1, <1>2, <1>3

LEMMA SocketLostStep ==
  ASSUME Inv, SocketLost
  PROVE  Inv'
<1> USE DEF Inv
<1>1. TypeInv'
  BY DEF SocketLost, TypeInv, SubStates
<1>2. ASSUME NEW w \in Waits PROVE WaitInv(w)'
  <2>0. \A q \in Quotes : sub'[w][q] = IF sub[w][q] = "live" THEN "deaf" ELSE sub[w][q]
    BY DEF SocketLost
  <2>1. \A q \in Quotes : /\ Active(w, q)' <=> Active(w, q)
                          /\ Exists(w, q)' <=> Exists(w, q)
                          /\ Lost(w, q)' <=> Lost(w, q)
                          /\ sub'[w][q] = "starting" <=> sub[w][q] = "starting"
                          /\ sub[w][q] = "none" => sub'[w][q] = "none"
    BY <2>0 DEF Active, Exists, Lost
  <2>2. (Made(w)' <=> Made(w)) /\ (Done(w)' <=> Done(w))
    BY DEF SocketLost, Made, Done
  <2>3. Made(w) => call[w].ids \subseteq Quotes
    BY CallsAssumption DEF Made, TypeInv
  <2>4. Before(w) => Before(w)'
    BY <2>1, <2>2 DEF Before, SocketLost
  <2>5. Made(w) /\ Waiting(w) => Waiting(w)'
    BY <2>1, <2>3 DEF Waiting, SocketLost
  <2>6. Made(w) /\ Ended(w) => Ended(w)'
    BY <2>1, <2>3 DEF Ended, SocketLost
  <2>7. Done(w) => Made(w)
    BY DEF WaitInv, Before
  <2>8. QED
    BY <2>2, <2>4, <2>5, <2>6, <2>7 DEF WaitInv, SocketLost
<1>3. QED
  BY <1>1, <1>2

LEMMA InvStep == Inv /\ [Next]_vars => Inv'
<1> SUFFICES ASSUME Inv, [Next]_vars PROVE Inv'
  OBVIOUS
<1>0. ASSUME UNCHANGED waitVars PROVE Inv'
  <2>1. TypeInv'
    BY <1>0 DEF Inv, TypeInv, waitVars
  <2>2. \A w \in Waits : WaitInv(w)'
    BY <1>0, Frame DEF Inv, waitVars
  <2>3. QED
    BY <2>1, <2>2 DEF Inv
<1>1. ASSUME NEW w \in Waits, NEW c \in Calls, Once(w, c) PROVE Inv'
  BY <1>1, OnceStep
<1>2. ASSUME NEW w \in Waits, Abort(w) PROVE Inv'
  <2>1. CASE Made(w) /\ call[w].signal /\ ~Done(w)
    BY <1>2, <2>1, CleanupStep DEF Abort
  <2>2. CASE ~(Made(w) /\ call[w].signal /\ ~Done(w))
    BY <1>0, <1>2, <2>2 DEF Abort, waitVars
  <2>3. QED
    BY <2>1, <2>2
<1>3. ASSUME NEW w \in Waits, Timeout(w) PROVE Inv'
  BY <1>3, CleanupStep DEF Timeout
<1>4. ASSUME NEW w \in Waits, NEW q \in Quotes, Subscribe(w, q) PROVE Inv'
  BY <1>4, SubscribeStep
<1>5. ASSUME NEW w \in Waits, NEW q \in Quotes, SubscribeThrows(w, q) \/ SubscriptionError(w, q)
      PROVE  Inv'
  <2>1. /\ Only(w, q) \in [Waits -> SUBSET Quotes]
        /\ \A v \in Waits : \A r \in Only(w, q)[v] : Active(v, r)
    BY <1>5 DEF Only, Active, SubscribeThrows, SubscriptionError
  <2>2. PICK how \in {"failed", "refused"} : Fail(Only(w, q), how) /\ UNCHANGED call
    BY <1>5 DEF SubscribeThrows, SubscriptionError
  <2>3. QED
    BY <2>1, <2>2, FailStep
<1>6. ASSUME NEW w \in Waits, NEW q \in Quotes, Notify(w, q) PROVE Inv'
  <2>1. Made(w)
    BY <1>6 DEF Notify, Inv, WaitInv, Before
  <2>2. QED
    BY <1>6, <2>1, CleanupStep DEF Notify
<1>7. CASE ConnectFails
  <2> DEFINE lost == [w \in Waits |-> Starting(w)]
  <2>1. lost \in [Waits -> SUBSET Quotes] /\ \A w \in Waits : \A q \in lost[w] : Active(w, q)
    BY DEF Starting, Active
  <2>2. Fail(lost, "failed") /\ UNCHANGED call
    BY <1>7 DEF ConnectFails
  <2> HIDE DEF lost
  <2>3. QED
    BY <2>1, <2>2, FailStep
<1>8. CASE SocketLost
  BY <1>8, SocketLostStep
<1>9. CASE Opens \/ (\E q \in Quotes : Pay(q)) \/ UNCHANGED vars
  BY <1>0, <1>9 DEF Opens, Pay, vars, waitVars
<1>10. QED
  BY <1>1, <1>2, <1>3, <1>4, <1>5, <1>6, <1>7, <1>8, <1>9 DEF Next

LEMMA InvHolds == Spec => []Inv
BY InvInit, InvStep, PTL DEF Spec

-----------------------------------------------------------------------------
\* However the end of a call, the connection and the creation of its subscriptions are
\* ordered, cleanup and cancelSafely leave no subscription behind.
THEOREM NothingLeftBehindHolds == Spec => []NothingLeftBehind
<1>1. Inv => NothingLeftBehind
  BY DEF Inv, WaitInv, Ended, NothingLeftBehind
<1>2. QED
  BY <1>1, InvHolds, PTL

\* onceAnyMintPaid ends with an error exactly when its last subscription has failed, or the
\* first one if it was asked to, and no call waits for nothing.
THEOREM FailsWithTheLastHolds == Spec => []FailsWithTheLast
<1>1. Inv => FailsWithTheLast
  <2> SUFFICES ASSUME Inv, NEW w \in Waits, Made(w)
               PROVE  /\ outcome[w] = "error" /\ ~call[w].failOnError =>
                           \A q \in call[w].ids : sub[w][q] \in {"failed", "refused"}
                      /\ ~Done(w) => \E q \in call[w].ids : sub[w][q] \in {"starting", "live", "deaf"}
    BY DEF FailsWithTheLast
  <2>1. CASE Done(w)
    BY <2>1 DEF Inv, WaitInv, Ended, Lost
  <2>2. CASE ~Done(w)
    <3>1. Waiting(w) /\ outcome[w] # "error"
      BY <2>2, AbsentAssumption DEF Inv, WaitInv, Done
    <3>2. PICK q : q \in cancels[w]
      BY <3>1 DEF Waiting
    <3>3. q \in Quotes /\ q \in call[w].ids
      BY <3>1, <3>2 DEF Waiting, Inv, TypeInv
    <3>4. QED
      BY <2>2, <3>1, <3>2, <3>3 DEF Waiting, Active
  <2>3. QED
    BY <2>1, <2>2
<1>2. QED
  BY <1>1, InvHolds, PTL
-----------------------------------------------------------------------------
(***************************************************************************)
(* The stream, for any number of updates and any buffer.  Seen as one      *)
(* sequence, what the consumer has got and what waits in the buffer grows, *)
(* and with what was shed it accounts for every update exactly once.       *)
(***************************************************************************)
Grows(s)   == \A i, j \in 1..Len(s) : i < j => s[i] < s[j]
Members(s) == {s[i] : i \in 1..Len(s)}

StreamTypeInv ==
  /\ opts.max \in Nat \ {0} /\ updates \in Nat
  /\ got \in Seq(Nat) /\ queue \in Seq(Nat) /\ IsFiniteSet(shed)

OrderInv ==
  /\ Grows(got) /\ Grows(queue)
  /\ \A u \in Members(got), v \in Members(queue) : u < v

AccountInv ==
  /\ Members(got) \cup Members(queue) \cup shed = 1..updates
  /\ (Members(got) \cup Members(queue)) \cap shed = {}
  /\ Len(got) + Len(queue) + Cardinality(shed) = updates

StreamInv == StreamTypeInv /\ OrderInv /\ AccountInv

\* What becomes of a sequence when an element joins it at the end.
LEMMA AppendFacts ==
  ASSUME NEW s \in Seq(Nat), NEW x \in Nat
  PROVE  /\ Append(s, x) \in Seq(Nat) /\ Len(Append(s, x)) = Len(s) + 1
         /\ Members(Append(s, x)) = Members(s) \cup {x}
         /\ Grows(s) /\ (\A u \in Members(s) : u < x) => Grows(Append(s, x))
<1>1. PICK t : t = Append(s, x)
  OBVIOUS
<1>2. /\ t \in Seq(Nat) /\ Len(t) = Len(s) + 1 /\ Len(s) \in Nat
      /\ t[Len(s) + 1] = x /\ \A i \in 1..Len(s) : t[i] = s[i] /\ s[i] \in Nat
  BY <1>1
<1>3. Members(t) = Members(s) \cup {x}
  <2>1. ASSUME NEW i \in 1..Len(t) PROVE t[i] \in Members(s) \cup {x}
    <3>1. i \in 1..Len(s) \/ i = Len(s) + 1
      BY <1>2
    <3>2. QED
      BY <1>2, <3>1 DEF Members
  <2>2. ASSUME NEW i \in 1..Len(s) PROVE s[i] \in Members(t)
    <3>1. i \in 1..Len(t) /\ t[i] = s[i]
      BY <1>2
    <3>2. QED
      BY <3>1 DEF Members
  <2>3. x \in Members(t)
    <3>1. Len(s) + 1 \in 1..Len(t) /\ t[Len(s) + 1] = x
      BY <1>2
    <3>2. QED
      BY <3>1 DEF Members
  <2>4. QED
    BY <2>1, <2>2, <2>3 DEF Members
<1>4. ASSUME Grows(s), \A u \in Members(s) : u < x PROVE Grows(t)
  <2>1. \A i \in 1..Len(s) : s[i] < x
    BY <1>4 DEF Members
  <2>2. ASSUME NEW i \in 1..Len(t), NEW j \in 1..Len(t), i < j PROVE t[i] < t[j]
    <3>0. Len(t) = Len(s) + 1 /\ Len(s) \in Nat
      BY <1>2
    <3>1. i \in 1..Len(s) /\ (j \in 1..Len(s) \/ j = Len(s) + 1)
      BY <2>2, <3>0
    <3>2. QED
      BY <1>2, <1>4, <2>1, <2>2, <3>1 DEF Grows
  <2>3. QED
    BY <2>2 DEF Grows
<1>5. QED
  BY <1>1, <1>2, <1>3, <1>4

\* And when its first element leaves it.
LEMMA TailFacts ==
  ASSUME NEW s \in Seq(Nat), s # <<>>
  PROVE  /\ Tail(s) \in Seq(Nat) /\ Len(Tail(s)) = Len(s) - 1 /\ Head(s) \in Nat
         /\ Members(s) = Members(Tail(s)) \cup {Head(s)}
         /\ Grows(s) => Grows(Tail(s)) /\ \A u \in Members(Tail(s)) : Head(s) < u
<1>1. PICK t : t = Tail(s)
  OBVIOUS
<1>2. /\ t \in Seq(Nat) /\ Len(t) = Len(s) - 1 /\ Len(s) \in Nat \ {0} /\ Head(s) = s[1] /\ s[1] \in Nat
      /\ \A i \in 1..Len(t) : t[i] = s[i + 1]
      /\ \A i \in 1..Len(s) : s[i] \in Nat
  BY <1>1
<1>3. Members(s) = Members(t) \cup {s[1]}
  <2>1. ASSUME NEW i \in 1..Len(t) PROVE t[i] \in Members(s)
    <3>1. i + 1 \in 1..Len(s) /\ t[i] = s[i + 1]
      BY <1>2
    <3>2. QED
      BY <3>1 DEF Members
  <2>2. ASSUME NEW i \in 1..Len(s), i # 1 PROVE s[i] \in Members(t)
    <3>1. i - 1 \in 1..Len(t) /\ t[i - 1] = s[i]
      BY <1>2, <2>2
    <3>2. QED
      BY <3>1 DEF Members
  <2>3. s[1] \in Members(s)
    BY <1>2 DEF Members
  <2>4. QED
    BY <2>1, <2>2, <2>3 DEF Members
<1>4. ASSUME Grows(s) PROVE Grows(t) /\ \A u \in Members(t) : s[1] < u
  <2>0. \A i \in 1..Len(t) : i + 1 \in 1..Len(s) /\ 1 < i + 1 /\ 1 \in 1..Len(s)
    BY <1>2
  <2>1. Grows(t)
    <3>1. ASSUME NEW i \in 1..Len(t), NEW j \in 1..Len(t), i < j PROVE t[i] < t[j]
      <4>1. i + 1 < j + 1
        BY <3>1
      <4>2. QED
        BY <1>2, <1>4, <2>0, <4>1 DEF Grows
    <3>2. QED
      BY <3>1 DEF Grows
  <2>2. \A i \in 1..Len(t) : s[1] < t[i]
    BY <1>2, <1>4, <2>0 DEF Grows
  <2>3. QED
    BY <2>1, <2>2 DEF Members
<1>5. QED
  BY <1>1, <1>2, <1>3, <1>4

LEMMA StreamInvInit == StreamInit => StreamInv
<1> SUFFICES ASSUME StreamInit PROVE StreamInv
  OBVIOUS
<1>1. opts.max \in Nat \ {0}
  BY BuffersAssumption DEF StreamInit
<1>2. QED
  BY <1>1, FS_EmptySet DEF StreamInit, StreamInv, StreamTypeInv, OrderInv, AccountInv, Grows, Members

\* The generator hands out the oldest update it has.
LEMMA HandOutStep ==
  ASSUME StreamInv, queue # <<>>, got' = Append(got, Head(queue)), queue' = Tail(queue),
         UNCHANGED <<opts, updates, shed>>
  PROVE  StreamInv'
<1>1. got \in Seq(Nat) /\ queue \in Seq(Nat) /\ Len(got) \in Nat /\ Len(queue) \in Nat
  BY DEF StreamInv, StreamTypeInv
<1>2. /\ queue' \in Seq(Nat) /\ Len(queue') = Len(queue) - 1 /\ Head(queue) \in Nat
      /\ Members(queue) = Members(queue') \cup {Head(queue)}
      /\ Grows(queue) => Grows(queue') /\ \A u \in Members(queue') : Head(queue) < u
  BY <1>1, TailFacts
<1>3. /\ got' \in Seq(Nat) /\ Len(got') = Len(got) + 1
      /\ Members(got') = Members(got) \cup {Head(queue)}
      /\ Grows(got) /\ (\A u \in Members(got) : u < Head(queue)) => Grows(got')
  BY <1>1, <1>2, AppendFacts
<1>4. StreamTypeInv'
  BY <1>2, <1>3 DEF StreamInv, StreamTypeInv
<1>5. OrderInv'
  BY <1>2, <1>3 DEF StreamInv, OrderInv
<1>6. AccountInv'
  <2>1. Len(got') + Len(queue') = Len(got) + Len(queue)
    BY <1>1, <1>2, <1>3
  <2>2. QED
    BY <1>2, <1>3, <2>1 DEF StreamInv, AccountInv
<1>7. QED
  BY <1>4, <1>5, <1>6 DEF StreamInv

\* push: the buffer takes the update, sheds its oldest for it, or sheds it.
LEMMA PushStep == StreamInv /\ Push => StreamInv'
<1> SUFFICES ASSUME StreamInv, Push PROVE StreamInv'
  OBVIOUS
<1>0. PICK n : n = updates + 1
  OBVIOUS
<1>1. /\ n \in Nat /\ updates \in Nat /\ updates' = n /\ n = updates + 1
      /\ 1..n = 1..updates \cup {n} /\ n \notin 1..updates /\ \A u \in 1..updates : u < n
      /\ got \in Seq(Nat) /\ queue \in Seq(Nat) /\ Len(got) \in Nat /\ Len(queue) \in Nat
      /\ IsFiniteSet(shed) /\ Cardinality(shed) \in Nat /\ opts.max \in Nat \ {0}
  <2>1. updates \in Nat /\ updates' = n
    BY <1>0 DEF StreamInv, StreamTypeInv, Push
  <2>2. /\ got \in Seq(Nat) /\ queue \in Seq(Nat) /\ Len(got) \in Nat /\ Len(queue) \in Nat
        /\ IsFiniteSet(shed) /\ Cardinality(shed) \in Nat /\ opts.max \in Nat \ {0}
    BY FS_CardinalityType DEF StreamInv, StreamTypeInv
  <2>3. n \in Nat /\ 1..n = 1..updates \cup {n} /\ n \notin 1..updates /\ \A u \in 1..updates : u < n
    BY <1>0, <2>1
  <2>4. QED
    BY <1>0, <2>1, <2>2, <2>3
<1>2. /\ Members(got) \cup Members(queue) \cup shed = 1..updates
      /\ (Members(got) \cup Members(queue)) \cap shed = {}
      /\ Len(got) + Len(queue) + Cardinality(shed) = updates
      /\ Grows(got) /\ Grows(queue) /\ \A u \in Members(got), v \in Members(queue) : u < v
  BY DEF StreamInv, AccountInv, OrderInv
<1>3. /\ opts' = opts /\ got' = got
      /\ \/ queue' = Append(queue, n) /\ shed' = shed
         \/ /\ queue' = Append(Tail(queue), n) /\ shed' = shed \cup {Head(queue)}
            /\ ~(Len(queue) < opts.max)
         \/ queue' = queue /\ shed' = shed \cup {n}
  BY <1>0 DEF Push, Shifted
<1>4. CASE queue' = Append(queue, n) /\ shed' = shed
  <2>1. /\ queue' \in Seq(Nat) /\ Len(queue') = Len(queue) + 1 /\ Members(queue') = Members(queue) \cup {n}
        /\ Grows(queue')
    BY <1>1, <1>2, <1>4, AppendFacts
  <2>2. StreamTypeInv' /\ OrderInv'
    BY <1>1, <1>2, <1>3, <1>4, <2>1 DEF StreamTypeInv, OrderInv
  <2>3. Members(got') \cup Members(queue') \cup shed' = 1..updates'
    BY <1>1, <1>2, <1>3, <1>4, <2>1
  <2>4. Len(got') + Len(queue') + Cardinality(shed') = updates'
    BY <1>1, <1>2, <1>3, <1>4, <2>1
  <2>5. (Members(got') \cup Members(queue')) \cap shed' = {}
    BY <1>1, <1>2, <1>3, <1>4, <2>1
  <2>6. QED
    BY <2>2, <2>3, <2>4, <2>5 DEF StreamInv, AccountInv
<1>5. CASE /\ queue' = Append(Tail(queue), n) /\ shed' = shed \cup {Head(queue)}
           /\ ~(Len(queue) < opts.max)
  <2>1. queue # <<>>
    BY <1>1, <1>5
  <2>2. /\ Tail(queue) \in Seq(Nat) /\ Len(Tail(queue)) = Len(queue) - 1
        /\ Members(queue) = Members(Tail(queue)) \cup {Head(queue)}
        /\ Grows(Tail(queue)) /\ (\A u \in Members(Tail(queue)) : Head(queue) < u) /\ Head(queue) \in Nat
    BY <1>1, <1>2, <2>1, TailFacts
  <2>3. /\ queue' \in Seq(Nat) /\ Len(queue') = Len(Tail(queue)) + 1
        /\ Members(queue') = Members(Tail(queue)) \cup {n} /\ Grows(queue')
    BY <1>1, <1>2, <1>5, <2>2, AppendFacts
  <2>4. Head(queue) \in 1..updates /\ Head(queue) \notin shed
    BY <1>2, <2>2
  <2>5. IsFiniteSet(shed') /\ Cardinality(shed') = Cardinality(shed) + 1
    BY <1>1, <1>5, <2>4, FS_AddElement
  <2>6. StreamTypeInv' /\ OrderInv'
    <3>1. \A u \in Members(got), v \in Members(queue') : u < v
      BY <1>1, <1>2, <2>2, <2>3
    <3>2. OrderInv'
      BY <1>2, <1>3, <2>3, <3>1 DEF OrderInv
    <3>3. StreamTypeInv'
      BY <1>1, <1>3, <2>3, <2>5 DEF StreamTypeInv
    <3>4. QED
      BY <3>2, <3>3
  <2>7. Members(got') \cup Members(queue') \cup shed' = 1..updates'
    BY <1>1, <1>2, <1>3, <1>5, <2>2, <2>3
  <2>8. Head(queue) \notin Members(got') \cup Members(queue')
    <3>1. ~(Head(queue) < Head(queue)) /\ Head(queue) \in Members(queue) /\ Head(queue) # n
      BY <1>1, <2>2, <2>4
    <3>2. Head(queue) \notin Members(got) /\ Head(queue) \notin Members(Tail(queue))
      BY <1>2, <2>2, <3>1
    <3>3. QED
      BY <1>3, <2>3, <3>1, <3>2
  <2>9. (Members(got') \cup Members(queue')) \cap shed' = {}
    <3>1. n \notin shed /\ Members(Tail(queue)) \subseteq Members(queue)
      BY <1>1, <1>2, <2>2
    <3>2. QED
      BY <1>2, <1>3, <1>5, <2>3, <2>8, <3>1
  <2>10. Len(got') + Len(queue') + Cardinality(shed') = updates'
    <3>0. Len(got') = Len(got)
      BY <1>3
    <3>1. Len(got') = Len(got) /\ Len(queue') = Len(queue)
      BY <1>1, <2>2, <2>3, <3>0
    <3>2. QED
      BY <1>1, <1>2, <2>5, <3>1
  <2>11. QED
    BY <2>6, <2>7, <2>9, <2>10 DEF StreamInv, AccountInv
<1>6. CASE queue' = queue /\ shed' = shed \cup {n}
  <2>1. IsFiniteSet(shed') /\ Cardinality(shed') = Cardinality(shed) + 1
    BY <1>1, <1>2, <1>6, FS_AddElement
  <2>2. StreamTypeInv' /\ OrderInv'
    BY <1>1, <1>2, <1>3, <1>6, <2>1 DEF StreamTypeInv, OrderInv
  <2>3. Members(got') \cup Members(queue') \cup shed' = 1..updates'
    BY <1>1, <1>2, <1>3, <1>6
  <2>4. (Members(got') \cup Members(queue')) \cap shed' = {}
    BY <1>1, <1>2, <1>3, <1>6
  <2>5. Len(got') + Len(queue') + Cardinality(shed') = updates'
    <3>1. Len(got') = Len(got) /\ Len(queue') = Len(queue)
      BY <1>3, <1>6
    <3>2. QED
      BY <1>1, <1>2, <2>1, <3>1
  <2>6. QED
    BY <2>2, <2>3, <2>4, <2>5 DEF StreamInv, AccountInv
<1>7. QED
  BY <1>3, <1>4, <1>5, <1>6

LEMMA StreamInvStep == StreamInv /\ [StreamNext]_streamVars => StreamInv'
<1> SUFFICES ASSUME StreamInv, [StreamNext]_streamVars PROVE StreamInv'
  OBVIOUS
<1>1. CASE Push
  BY <1>1, PushStep
<1>2. CASE Resume /\ queue # <<>>
  BY <1>2, HandOutStep DEF Resume, RunLoop, Shifted
<1>3. CASE UNCHANGED <<opts, updates, got, queue, shed>>
  <2>1. StreamTypeInv'
    BY <1>3 DEF StreamInv, StreamTypeInv
  <2>2. OrderInv' /\ AccountInv'
    BY <1>3 DEF StreamInv, OrderInv, AccountInv
  <2>3. QED
    BY <2>1, <2>2 DEF StreamInv
<1>4. QED
  BY <1>1, <1>2, <1>3
     DEF StreamNext, Resume, RunLoop, Leave, Break, Subscribed, SourceFails, AbortStream,
         StartStream, streamVars

\* Every update of the mint reaches the consumer of the stream once and in order, waits
\* in its buffer, or is reported as shed (push, onDrop), for any buffer and either policy.
THEOREM NothingIsSkippedHolds == StreamSpec => []NothingIsSkipped
<1>1. StreamInv => NothingIsSkipped
  <2> SUFFICES ASSUME StreamInv PROVE NothingIsSkipped
    OBVIOUS
  <2>0. PICK all, n, m : all = got \o queue /\ n = Len(got) /\ m = Len(queue)
    OBVIOUS
  <2>1. got \in Seq(Nat) /\ queue \in Seq(Nat) /\ n \in Nat /\ m \in Nat
    BY <2>0 DEF StreamInv, StreamTypeInv
  <2>2. /\ all \in Seq(Nat) /\ Len(all) = n + m
        /\ \A i \in 1..(n + m) : all[i] = IF i <= n THEN got[i] ELSE queue[i - n]
    BY <2>0, <2>1, ConcatProperties
  <2>3. DOMAIN all = 1..(n + m)
    BY <2>1, <2>2
  <2>4. ASSUME NEW i \in 1..(n + m) PROVE IF i <= n THEN i \in 1..n ELSE i - n \in 1..m
    BY <2>1
  <2>5. /\ \A i \in 1..n : got[i] \in Members(got)
        /\ \A i \in 1..m : queue[i] \in Members(queue)
    BY <2>0 DEF Members
  <2>6. ASSUME NEW i \in DOMAIN all, NEW j \in DOMAIN all, i < j PROVE all[i] < all[j]
    <3>1. CASE j <= n
      <4>1. i \in 1..n /\ j \in 1..n /\ all[i] = got[i] /\ all[j] = got[j]
        BY <2>1, <2>2, <2>3, <2>6, <3>1
      <4>2. QED
        BY <2>0, <2>6, <4>1 DEF StreamInv, OrderInv, Grows
    <3>2. CASE ~(i <= n)
      <4>1. i - n \in 1..m /\ j - n \in 1..m /\ all[i] = queue[i - n] /\ all[j] = queue[j - n] /\ i - n < j - n
        BY <2>1, <2>2, <2>3, <2>6, <3>2
      <4>2. QED
        BY <2>0, <4>1 DEF StreamInv, OrderInv, Grows
    <3>3. CASE i <= n /\ ~(j <= n)
      <4>1. i \in 1..n /\ j - n \in 1..m
        BY <2>1, <2>3, <3>3
      <4>2. all[i] = got[i] /\ all[j] = queue[j - n]
        BY <2>2, <2>3, <3>3
      <4>3. QED
        BY <2>5, <4>1, <4>2 DEF StreamInv, OrderInv
    <3>4. QED
      BY <3>1, <3>2, <3>3
  <2>7. {all[i] : i \in DOMAIN all} = Members(got) \cup Members(queue)
    <3>1. ASSUME NEW i \in DOMAIN all PROVE all[i] \in Members(got) \cup Members(queue)
      BY <2>2, <2>3, <2>4, <2>5
    <3>2. ASSUME NEW i \in 1..n PROVE got[i] \in {all[k] : k \in DOMAIN all}
      <4>1. i \in DOMAIN all /\ all[i] = got[i]
        BY <2>1, <2>2, <2>3
      <4>2. QED
        BY <4>1
    <3>3. ASSUME NEW i \in 1..m PROVE queue[i] \in {all[k] : k \in DOMAIN all}
      <4>1. PICK k : k = n + i
        OBVIOUS
      <4>2. k \in 1..(n + m) /\ ~(k <= n) /\ k - n = i
        BY <2>1, <4>1
      <4>3. k \in DOMAIN all /\ all[k] = queue[i]
        BY <2>2, <2>3, <4>2
      <4>4. QED
        BY <4>3
    <3>4. Members(got) = {got[i] : i \in 1..n} /\ Members(queue) = {queue[i] : i \in 1..m}
      BY <2>0 DEF Members
    <3>5. QED
      BY <3>1, <3>2, <3>3, <3>4
  <2>8. {all[i] : i \in DOMAIN all} \cup shed = 1..updates /\ Len(all) + Cardinality(shed) = updates
    BY <2>0, <2>2, <2>7 DEF StreamInv, AccountInv
  <2>9. QED
    BY <2>0, <2>6, <2>8 DEF NothingIsSkipped
<1>2. QED
  BY <1>1, StreamInvInit, StreamInvStep, PTL DEF StreamSpec
-----------------------------------------------------------------------------
(***************************************************************************)
(* The pool, for any number of items, workers and failures.  The invariant *)
(* accounts for every claimed item: it is in flight or has its result,     *)
(* unless a worker has thrown, and then the cursor is past the last item   *)
(* for good.                                                               *)
(***************************************************************************)
Failed == \E k \in DOMAIN worker : worker[k] = Threw

PoolTypeInv ==
  /\ next \in Nat \ {0}
  /\ worker \in [1..(IF limit < Items THEN limit ELSE Items) -> Int]
  /\ limit \in Limits
  /\ results \subseteq 1..Items

\* Nothing is left to claim once a worker has stopped, for whatever reason.
CursorInv == \A k \in DOMAIN worker : worker[k] \in {Returned, Threw} => next > Items

\* Every claimed item is somewhere.
ClaimedInv ==
  ~Failed => \A i \in 1..Items : i < next => i \in results \/ \E k \in DOMAIN worker : worker[k] = i

ResolvedInv == settled = "resolved" => results = 1..Items

PoolInv == PoolTypeInv /\ CursorInv /\ ClaimedInv /\ ResolvedInv

LEMMA PoolInvInit == PoolInit => PoolInv
<1> SUFFICES ASSUME PoolInit PROVE PoolInv
  OBVIOUS
<1>1. PoolTypeInv
  BY LimitsAssumption DEF PoolInit, PoolTypeInv, New
<1>2. CursorInv
  BY DEF PoolInit, CursorInv, New, Returned, Threw
<1>3. ClaimedInv /\ ResolvedInv
  BY DEF PoolInit, ClaimedInv, ResolvedInv
<1>4. QED
  BY <1>1, <1>2, <1>3 DEF PoolInv

\* What the step of one worker keeps: it stops or claims the next item, and brings the
\* result of the item that it had, if any.
LEMMA ClaimStep ==
  ASSUME PoolInv, NEW k \in DOMAIN worker, Claim(k),
         worker[k] = New \/ InFlight(k),
         results' = IF InFlight(k) THEN results \cup {worker[k]} ELSE results,
         UNCHANGED <<limit, settled>>
  PROVE  PoolInv'
<1> USE LimitsAssumption DEF New, Returned, Threw, InFlight
<1>1. PoolTypeInv'
  <2>1. next' \in Nat \ {0} /\ results' \subseteq 1..Items /\ limit' \in Limits
    <3>1. next \in Nat \ {0} /\ next' = next + 1
      BY DEF PoolInv, PoolTypeInv, Claim
    <3>2. results' \subseteq 1..Items
      BY DEF PoolInv, PoolTypeInv
    <3>3. limit' \in Limits
      BY DEF PoolInv, PoolTypeInv
    <3>4. QED
      BY <3>1, <3>2, <3>3
  <2> DEFINE W == 1..(IF limit < Items THEN limit ELSE Items)
  <2>2. worker \in [W -> Int] /\ W' = W
    BY DEF PoolInv, PoolTypeInv
  <2>3. worker' = [worker EXCEPT ![k] = IF next <= Items THEN next ELSE Returned] /\ next \in Nat
    BY DEF PoolInv, PoolTypeInv, Claim
  <2> HIDE DEF W
  <2>4. worker' \in [W' -> Int]
    BY <2>2, <2>3
  <2>5. QED
    BY <2>1, <2>4 DEF PoolTypeInv, W
<1>2. /\ DOMAIN worker' = DOMAIN worker
      /\ \A j \in DOMAIN worker : j # k => worker'[j] = worker[j]
      /\ worker'[k] = IF next <= Items THEN next ELSE Returned
      /\ next' = next + 1 /\ next \in Nat \ {0}
  BY DEF PoolInv, PoolTypeInv, Claim
<1>3. CursorInv'
  BY <1>2 DEF PoolInv, CursorInv
<1>4. ClaimedInv'
  <2> SUFFICES ASSUME ~Failed', NEW i \in 1..Items, i < next'
               PROVE  i \in results' \/ \E j \in DOMAIN worker' : worker'[j] = i
    BY DEF ClaimedInv
  <2>1. ~Failed
    BY <1>2 DEF Failed
  <2>2. CASE i = next
    BY <1>2, <2>2
  <2>3. CASE i < next
    <3>1. i \in results \/ \E j \in DOMAIN worker : worker[j] = i
      BY <2>1, <2>3 DEF PoolInv, ClaimedInv
    <3>2. QED
      BY <1>2, <3>1
  <2>4. QED
    BY <1>2, <2>2, <2>3
<1>5. ResolvedInv'
  BY DEF PoolInv, PoolTypeInv, ResolvedInv
<1>6. QED
  BY <1>1, <1>3, <1>4, <1>5 DEF PoolInv

LEMMA ItemThrowsStep ==
  ASSUME PoolInv, NEW k \in DOMAIN worker, ItemThrows(k)
  PROVE  PoolInv'
<1> USE LimitsAssumption DEF New, Returned, Threw, InFlight, Poisoned
<1>1. PoolTypeInv'
  BY DEF PoolInv, PoolTypeInv, ItemThrows
<1>2. CursorInv'
  BY DEF PoolInv, PoolTypeInv, CursorInv, ItemThrows
<1>3. ClaimedInv'
  BY DEF PoolInv, PoolTypeInv, ClaimedInv, Failed, ItemThrows
<1>4. ResolvedInv'
  BY DEF PoolInv, ResolvedInv, ItemThrows
<1>5. QED
  BY <1>1, <1>2, <1>3, <1>4 DEF PoolInv

\* All workers have returned, so the cursor has passed every item.
LEMMA PoolSettlesStep == PoolInv /\ PoolSettles => PoolInv'
<1> SUFFICES ASSUME PoolInv, PoolSettles PROVE PoolInv'
  OBVIOUS
<1> USE LimitsAssumption DEF New, Returned, Threw
<1>1. PoolTypeInv' /\ CursorInv' /\ ClaimedInv'
  BY DEF PoolInv, PoolTypeInv, CursorInv, ClaimedInv, Failed, PoolSettles
<1>2. ASSUME settled' = "resolved" PROVE results' = 1..Items
  <2>1. /\ ~Failed /\ \A k \in DOMAIN worker : worker[k] = Returned
        /\ results' = results /\ results \subseteq 1..Items
    BY <1>2 DEF PoolInv, PoolTypeInv, PoolSettles, Failed
  <2>2. ASSUME NEW i \in 1..Items PROVE i \in results
    <3>1. 1 \in DOMAIN worker
      BY DEF PoolInv, PoolTypeInv
    <3>2. next > Items /\ next \in Nat
      BY <2>1, <3>1 DEF PoolInv, PoolTypeInv, CursorInv
    <3>3. QED
      BY <2>1, <3>2 DEF PoolInv, ClaimedInv
  <2>3. QED
    BY <2>1, <2>2
<1>3. QED
  BY <1>1, <1>2 DEF PoolInv, ResolvedInv

LEMMA PoolInvStep == PoolInv /\ [PoolNext]_poolVars => PoolInv'
<1> SUFFICES ASSUME PoolInv, [PoolNext]_poolVars PROVE PoolInv'
  OBVIOUS
<1>1. ASSUME NEW k \in DOMAIN worker, StartWorker(k) PROVE PoolInv'
  <2>1. /\ Claim(k) /\ worker[k] = New /\ ~InFlight(k)
        /\ results' = results /\ UNCHANGED <<limit, settled>>
    BY <1>1 DEF StartWorker, InFlight, New
  <2>2. QED
    BY <2>1, ClaimStep
<1>2. ASSUME NEW k \in DOMAIN worker, Finishes(k) PROVE PoolInv'
  <2>1. /\ Claim(k) /\ InFlight(k)
        /\ results' = results \cup {worker[k]} /\ UNCHANGED <<limit, settled>>
    BY <1>2 DEF Finishes
  <2>2. QED
    BY <2>1, ClaimStep
<1>3. CASE UNCHANGED poolVars
  BY <1>3 DEF poolVars, PoolInv, PoolTypeInv, CursorInv, ClaimedInv, ResolvedInv, Failed
<1>4. QED
  BY <1>1, <1>2, <1>3, ItemThrowsStep, PoolSettlesStep DEF PoolNext

\* After a failure no worker of runPool claims another item, and the pool resolves only
\* with the result of every item.
THEOREM PoolStopsOnFailureHolds == PoolSpec => PoolStopsOnFailure
<1> DEFINE A == /\ (\E k \in DOMAIN worker : worker[k] = Threw) =>
                     \A k \in DOMAIN worker : worker'[k] > 0 => worker'[k] = worker[k]
                /\ settled' = "resolved" => results' = 1..Items
<1>1. PoolInv /\ PoolInv' /\ [PoolNext]_poolVars => [A]_poolVars
  <2> SUFFICES ASSUME PoolInv, PoolInv', PoolNext PROVE A
    OBVIOUS
  <2>1. settled' = "resolved" => results' = 1..Items
    BY DEF PoolInv, ResolvedInv
  <2>2. ASSUME \E k \in DOMAIN worker : worker[k] = Threw, NEW k \in DOMAIN worker, worker'[k] > 0
        PROVE  worker'[k] = worker[k]
    <3>1. next > Items /\ next \in Nat /\ Items \in Nat
      BY <2>2, LimitsAssumption DEF PoolInv, PoolTypeInv, CursorInv
    <3>2. ASSUME NEW j \in DOMAIN worker, Claim(j) PROVE worker'[k] = worker[k]
      BY <2>2, <3>1, <3>2 DEF Claim, PoolInv, PoolTypeInv, Returned
    <3>3. ASSUME NEW j \in DOMAIN worker, ItemThrows(j) PROVE worker'[k] = worker[k]
      BY <2>2, <3>3 DEF ItemThrows, PoolInv, PoolTypeInv, Threw
    <3>4. QED
      BY <3>2, <3>3 DEF PoolNext, StartWorker, Finishes, PoolSettles
  <2>3. QED
    BY <2>1, <2>2
<1>2. QED
  BY <1>1, PoolInvInit, PoolInvStep, PTL DEF PoolSpec, PoolStopsOnFailure
=============================================================================
