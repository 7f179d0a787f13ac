------------------------------ MODULE Requests ------------------------------
(***************************************************************************)
(* One HTTP request of the library: the options it is made with, its       *)
(* attempts, the timeout and the caller's signal that stay armed until the *)
(* body is read, the classification of what went wrong, and the retries,   *)
(* with backoff for the endpoints the mint caches (NUT-19) and one at once *)
(* for requests that are safe to repeat.                                   *)
(*                                                                         *)
(* The transport and the mint are external: an attempt reaches the mint    *)
(* when it is made or never, any answer may come or none, and the mint     *)
(* keeps its answers to cached endpoints for the announced time.           *)
(***************************************************************************)
EXTENDS Integers, Outcomes

CONSTANTS CallOptions,       \* the per-call options to choose from
          GlobalOptions,     \* what setGlobalRequestOptions may have set
          MaxCachedRetries,  \* MAX_CACHED_RETRIES
          BaseDelay,         \* BASE_DELAY
          MaxDelay,          \* MAX_DELAY
          SlowClock,         \* bound on the time that passes while the mint works
          Infinite           \* ttl: null in the mint's policy, no limit

ASSUME OptionsAssumption ==
  CallOptions \subseteq [method : {"GET", "POST"}, cached : SUBSET {"GET", "POST"},
                         ttl : Nat \cup {Absent}, idempotent : BOOLEAN \cup {Absent},
                         timed : BOOLEAN \cup {Absent}, stream : BOOLEAN, signal : BOOLEAN]
ASSUME RetriesAssumption == MaxCachedRetries \in Nat
ASSUME DelaysAssumption  == BaseDelay \in Nat /\ MaxDelay \in Nat /\ SlowClock \in Nat
ASSUME InfiniteAssumption == Infinite \in Nat /\ Absent \notin Nat \cup BOOLEAN

VARIABLES
  opt,         \* the options after request() has merged them
  phase,       \* "start", "fetch", "body", "wait" (backoff) or "settled"
  attempts,    \* the number of calls of fetch
  retries,     \* retries
  clock,       \* Date.now() - startTime
  wake,        \* when the backoff timer fires
  timedOut,    \* timeoutController.signal.aborted of this attempt
  callerAborted, \* the caller's signal is aborted
  status,      \* the status of the response whose body is read
  result,      \* what the caller got
  reads,       \* bodies the platform is still reading and nobody can stop
  executions,  \* how often the mint has executed the request
  expires      \* until when the mint has the answer in its cache

mintVars == <<executions, expires>>
requestVars == <<opt, phase, attempts, retries, clock, wake, timedOut, callerAborted,
                 status, result, reads, mintVars>>

Statuses == {"ok", "400", "4xx", "429", "5xx"}

\* request(): a global value of these options is a default, the call's own wins.
Merge(call, global) ==
  [call EXCEPT !.timed = IF @ = Absent THEN global.timed ELSE @,
               !.idempotent = IF @ = Absent THEN global.idempotent ELSE @]

\* isCachable: the policy lists the path with this method, for some time.
IsCachable(o) == o.method \in o.cached /\ o.ttl \notin {Absent, 0}

\* idempotent: a GET unless the options say otherwise.
IsIdempotent(o) == IF o.idempotent = Absent THEN o.method = "GET" ELSE o.idempotent

\* A request, in its first phase or (to have none) in its last.
RequestIn(p) ==
  /\ \E c \in CallOptions, g \in GlobalOptions : opt = Merge(c, g)
  /\ phase = p /\ attempts = 0 /\ retries = 0 /\ clock = 0 /\ wake = 0
  /\ timedOut = FALSE /\ callerAborted = FALSE /\ status = Absent /\ result = Absent
  /\ reads = 0 /\ executions = 0 /\ expires = Absent
RequestInit == RequestIn("start")

Timed    == opt.timed = TRUE
Signaled == timedOut \/ callerAborted
-----------------------------------------------------------------------------
(* Errors.                                                                  *)

\* Variant: the timeout of a read that goes on is retried too.
RetryableUnlessAborted(e) == e \in {"network", "uncancellable", "5xx"}

\* isRetryableError.
IsRetryableError(e) == e \in {"network", "5xx"}

\* abortError: the reason of a failed read while a signal is aborted.
AbortError(readGoesOn) ==
  IF timedOut THEN IF readGoesOn THEN "uncancellable" ELSE "network"
  ELSE "callerAbort"

\* The error of a response that is not ok; only a body that was read can tell the
\* mint's own code.
StatusError(s, parsed) ==
  CASE s = "429" -> "rateLimit"
    [] s = "400" /\ parsed -> "mintError"
    [] s = "5xx" -> "5xx"
    [] OTHER -> "4xx"

Settle(r) == phase' = "settled" /\ result' = r

\* A random part of the capped delay of retry n.
Delays(n) == {d \in 0..MaxDelay : d <= 2^n * BaseDelay}

\* One more attempt after the delay; waitWithAbort rejects at once if the caller has
\* aborted meanwhile.
RetryLater(delay) ==
  /\ retries' = retries + 1
  /\ wake' = clock + delay
  /\ IF callerAborted THEN Settle("callerAbort") ELSE phase' = "wait" /\ UNCHANGED result

\* Variant: the deadline is compared with the time before the delay only.
RetryAnyway(e, delay) == RetryLater(delay)

\* The catch of retry(): the request is abandoned if the delay would pass the deadline.
RetryOrAbandon(e, delay) ==
  IF opt.ttl # Infinite /\ clock + delay > opt.ttl
  THEN Settle(e) /\ UNCHANGED <<retries, wake>>
  ELSE RetryLater(delay)

\* requestWithRetry: what happens when an attempt throws e.
AttemptThrows(e) ==
  IF IsCachable(opt)
  THEN IF /\ IsRetryableError(e)
          /\ retries < MaxCachedRetries
          /\ opt.ttl = Infinite \/ clock < opt.ttl
       THEN \E delay \in Delays(retries) : RetryOrAbandon(e, delay)
       ELSE Settle(e) /\ UNCHANGED <<retries, wake>>
  ELSE IF IsIdempotent(opt) /\ retries = 0 /\ e = "network"
       THEN phase' = "start" /\ retries' = 1 /\ UNCHANGED <<wake, result>>
       ELSE Settle(e) /\ UNCHANGED <<retries, wake>>
-----------------------------------------------------------------------------
(* The mint.                                                                *)

\* The request reaches the mint, which executes it unless it has the answer cached.
Reaches ==
  IF IsCachable(opt) /\ expires # Absent /\ (expires = Infinite \/ clock <= expires)
  THEN UNCHANGED mintVars
  ELSE /\ executions' = executions + 1
       /\ expires' = IF ~IsCachable(opt) THEN Absent
                     ELSE IF opt.ttl = Infinite THEN Infinite ELSE clock + opt.ttl
-----------------------------------------------------------------------------
(* An attempt.                                                              *)

\* Variant: fetch is called whatever the caller's signal says.
AttemptAnyway ==
  /\ phase = "start"
  /\ phase' = "fetch" /\ attempts' = attempts + 1 /\ timedOut' = FALSE
  /\ Reaches \/ UNCHANGED mintVars
  /\ UNCHANGED <<opt, retries, clock, wake, callerAborted, status, result, reads>>

\* _request up to its fetch, with a timeout of its own.
Attempt ==
  IF callerAborted
  THEN /\ phase = "start" /\ Settle("callerAbort")
       /\ UNCHANGED <<opt, attempts, retries, clock, wake, timedOut, callerAborted, status,
                      reads, mintVars>>
  ELSE AttemptAnyway

\* fetch rejects: the network failed, or one of the signals stopped it.
FetchRejects ==
  /\ phase = "fetch"
  /\ AttemptThrows(IF Signaled THEN AbortError(FALSE) ELSE "network")
  /\ UNCHANGED <<opt, attempts, clock, timedOut, callerAborted, status, reads, mintVars>>

\* The headers arrive and readBodyText starts; onResponseMeta may have aborted the
\* request, and the announced length may already be too large.
Respond(s, tooLarge, stops) ==
  /\ phase = "fetch" /\ ~Signaled
  /\ stops => opt.signal
  /\ callerAborted' = stops
  /\ status' = s
  /\ IF tooLarge \/ (stops /\ ~opt.stream)
     THEN /\ \/ stops /\ Settle("callerAbort") /\ UNCHANGED <<retries, wake>>
             \/ ~stops /\ AttemptThrows(IF s = "ok" THEN "badResponse" ELSE StatusError(s, FALSE))
          /\ UNCHANGED reads
     ELSE /\ phase' = "body" /\ reads' = IF opt.stream THEN 0 ELSE 1
          /\ UNCHANGED <<retries, wake, result>>
  /\ UNCHANGED <<opt, attempts, clock, timedOut, mintVars>>

\* The body has been read, or the read failed on its own or at the size limit.
BodyEnds(good) ==
  /\ phase = "body" /\ ~Signaled
  /\ reads' = 0
  /\ IF status = "ok" /\ good
     THEN Settle("answer") /\ UNCHANGED <<retries, wake>>
     ELSE AttemptThrows(IF status = "ok" THEN "badResponse" ELSE StatusError(status, good))
  /\ UNCHANGED <<opt, attempts, clock, timedOut, callerAborted, status, mintVars>>

\* The read is given up: a stream is cancelled, any other body goes on being read.
BodyAborted ==
  /\ phase = "body" /\ Signaled
  /\ AttemptThrows(AbortError(~opt.stream))
  /\ UNCHANGED <<opt, attempts, clock, timedOut, callerAborted, status, reads, mintVars>>

\* A body nobody waits for comes to its end.
AbandonedReadEnds ==
  /\ reads = 1 /\ phase # "body"
  /\ reads' = 0
  /\ UNCHANGED <<opt, phase, attempts, retries, clock, wake, timedOut, callerAborted, status,
                 result, mintVars>>
-----------------------------------------------------------------------------
(* Timers and signals.                                                      *)

\* Variant: the timeout is cleared as soon as the headers are there.
TimeoutWhileConnecting ==
  /\ phase = "fetch" /\ Timed /\ ~timedOut
  /\ timedOut' = TRUE
  /\ UNCHANGED <<opt, phase, attempts, retries, clock, wake, callerAborted, status, result,
                 reads, mintVars>>

\* The timeout of the attempt fires; the finally clears it only when the body is read.
TimeoutFires ==
  \/ TimeoutWhileConnecting
  \/ /\ phase = "body" /\ Timed /\ ~timedOut
     /\ timedOut' = TRUE
     /\ UNCHANGED <<opt, phase, attempts, retries, clock, wake, callerAborted, status, result,
                    reads, mintVars>>

\* The caller aborts; a backoff rejects at once.
CallerAborts ==
  /\ opt.signal /\ ~callerAborted /\ phase # "settled"
  /\ callerAborted' = TRUE
  /\ IF phase = "wait" THEN Settle("callerAbort") ELSE UNCHANGED <<phase, result>>
  /\ UNCHANGED <<opt, attempts, retries, clock, wake, timedOut, status, reads, mintVars>>

\* The backoff is over.
BackoffEnds ==
  /\ phase = "wait" /\ clock >= wake
  /\ phase' = "start"
  /\ UNCHANGED <<opt, attempts, retries, clock, wake, timedOut, callerAborted, status, result,
                 reads, mintVars>>

\* Time passes: during a backoff until its timer fires, otherwise as long as SlowClock.
Tick ==
  /\ \/ phase = "wait" /\ clock < wake
     \/ phase \in {"fetch", "body"} /\ clock < SlowClock
  /\ clock' = clock + 1
  /\ UNCHANGED <<opt, phase, attempts, retries, wake, timedOut, callerAborted, status, result,
                 reads, mintVars>>

RequestNext ==
  \/ Attempt \/ FetchRejects \/ BodyAborted \/ AbandonedReadEnds
  \/ \E s \in Statuses, tooLarge, stops \in BOOLEAN : Respond(s, tooLarge, stops)
  \/ \E good \in BOOLEAN : BodyEnds(good)
  \/ TimeoutFires \/ CallerAborts \/ BackoffEnds \/ Tick

RequestSpec == RequestInit /\ [][RequestNext]_requestVars

\* The library runs, its timers fire, and a fetch or a read that was stopped rejects.
\* Nothing is assumed of the mint, the network or the caller.
RequestFairness ==
  /\ WF_requestVars(Attempt) /\ WF_requestVars(BackoffEnds) /\ WF_requestVars(phase = "wait" /\ Tick)
  /\ WF_requestVars(TimeoutFires) /\ WF_requestVars(Signaled /\ FetchRejects)
  /\ WF_requestVars(BodyAborted)

FairRequestSpec == RequestSpec /\ RequestFairness
-----------------------------------------------------------------------------
(* Properties.                                                              *)

\* A request that must not be repeated is executed by the mint once, whatever is lost on
\* the way: a retry is only made where the mint still has the answer in its cache.  A
\* wrong match of the policy, or a backoff that ends after it, pays or swaps twice.
ExecutedOnce == IsIdempotent(opt) \/ executions <= 1

\* No attempt starts while the platform is still reading the body of an earlier one that
\* could not be cancelled, so at most one such read is ever running.
NoReadLeftBehind == [][attempts' # attempts => reads = 0]_requestVars

\* Once the caller has aborted, nothing is sent any more, whatever the attempt under way
\* fails with and whether its retry waits or not.
AbortIsFinal == [][callerAborted => attempts' = attempts]_requestVars

\* A request with a timeout settles even if the mint never answers, or answers and never
\* ends the body.
TimedRequestsSettle == Timed ~> (phase = "settled")
=============================================================================
