---------------------------- MODULE CounterSource ----------------------------
(***************************************************************************)
(* EphemeralCounterSource (wallet/CounterSource.ts): the in-memory cursors *)
(* of deterministic counters, one per keyset, behind a lock per keyset     *)
(* that is a chain of promises.                                            *)
(*                                                                         *)
(* A call runs in up to three synchronous stretches of JavaScript, and     *)
(* each is one action: Call (up to `await prev`), one of the four bodies   *)
(* (up to `return await fn()`), and Settle (the `finally` block).  A body  *)
(* that throws reaches `finally` without another await, so it releases the *)
(* lock in the same step.                                                  *)
(***************************************************************************)
EXTENDS Integers

CONSTANTS Keysets,  \* keyset identifiers
          Calls,    \* method invocations, each made at most once
          Requests, \* the requests a caller may make
          Initial,  \* constructor argument: the cursor of each keyset
          NoCall    \* stands for an absent promise

Nothing == [op |-> "none"]
Refused == [op |-> "refused"]
Done    == [op |-> "done"]
Span(s, n) == [op |-> "range", start |-> s, count |-> n]

ReserveRequests   == [op : {"reserve"}, keyset : Keysets, n : Int]
ReserveAtRequests == [op : {"reserveAt"}, keyset : Keysets, start : Int, count : Int]
AdvanceRequests   == [op : {"advance"}, keyset : Keysets, minNext : Int]
SetNextRequests   == [op : {"setNext"}, keyset : Keysets, next : Int]
AllRequests == ReserveRequests \cup ReserveAtRequests \cup AdvanceRequests \cup SetNextRequests

ASSUME RequestsAssumption == Requests \subseteq AllRequests
ASSUME InitialAssumption  == Initial \in [Keysets -> Nat]
ASSUME CallsAssumption    == NoCall \notin Calls

VARIABLES next,     \* next[k]: the cursor of keyset k
          locks,    \* locks[k]: the call whose promise ends k's chain, or NoCall
          asked,    \* asked[c]: the request of call c, or Nothing
          prev,     \* prev[c]: the call whose chain c awaits, or NoCall
          status,   \* status[c]: how far call c has run
          result,   \* result[c]: what c's body returned or threw, or Nothing
          arrival,  \* arrival[c]: c's place in the order of the calls
          clock,    \* the number of calls that reached a lock so far
          epoch,    \* epoch[k]: how often setNext lowered k's cursor
          granted   \* granted[c]: the epoch in which c's range was handed out

vars == <<next, locks, asked, prev, status, result, arrival, clock, epoch, granted>>

\* Calls that hold a place in their keyset's chain: not yet released.
InChain(c) == status[c] \in {"waiting", "ran"}

\* A promise that was never created, or whose executor called release().
Released(c) == c # NoCall => status[c] \in {"returned", "threw"}

Init ==
  /\ next    = Initial
  /\ locks   = [k \in Keysets |-> NoCall]
  /\ asked   = [c \in Calls |-> Nothing]
  /\ prev    = [c \in Calls |-> NoCall]
  /\ status  = [c \in Calls |-> "idle"]
  /\ result  = [c \in Calls |-> Nothing]
  /\ arrival = [c \in Calls |-> 0]
  /\ clock   = 0
  /\ epoch   = [k \in Keysets |-> 0]
  /\ granted = [c \in Calls |-> 0]

\* The checks reserve() and reserveAt() make before they queue for the lock.
RejectedAtOnce(r) ==
  \/ r.op = "reserve" /\ r.n < 0
  \/ r.op = "reserveAt" /\ (r.start < 0 \/ r.count < 0)

\* The call is rejected before it touches the lock.
CallRejected(c, r) ==
  /\ status[c] = "idle"
  /\ RejectedAtOnce(r)
  /\ asked'  = [asked EXCEPT ![c] = r]
  /\ status' = [status EXCEPT ![c] = "threw"]
  /\ result' = [result EXCEPT ![c] = Refused]
  /\ UNCHANGED <<next, locks, prev, arrival, clock, epoch, granted>>

\* Variant: the chain is stored before the previous one is read.
CallAwaitsItself(c, r) ==
  /\ status[c] = "idle"
  /\ ~RejectedAtOnce(r)
  /\ asked'   = [asked EXCEPT ![c] = r]
  /\ prev'    = [prev EXCEPT ![c] = c]
  /\ locks'   = [locks EXCEPT ![r.keyset] = c]
  /\ status'  = [status EXCEPT ![c] = "waiting"]
  /\ clock'   = clock + 1
  /\ arrival' = [arrival EXCEPT ![c] = clock + 1]
  /\ UNCHANGED <<next, result, epoch, granted>>

\* withLock up to `await prev`: the call appends its promise to the chain.
Call(c, r) ==
  /\ status[c] = "idle"
  /\ ~RejectedAtOnce(r)
  /\ asked'   = [asked EXCEPT ![c] = r]
  /\ prev'    = [prev EXCEPT ![c] = locks[r.keyset]]
  /\ locks'   = [locks EXCEPT ![r.keyset] = c]
  /\ status'  = [status EXCEPT ![c] = "waiting"]
  /\ clock'   = clock + 1
  /\ arrival' = [arrival EXCEPT ![c] = clock + 1]
  /\ UNCHANGED <<next, result, epoch, granted>>

\* `await prev` has resolved.  The chain of prev[c] also awaits the chains
\* before it, all released by the time prev[c] ran.
HasLock(c) == status[c] = "waiting" /\ Released(prev[c])

\* Variants: the finally block always, or never, deletes the map entry.
AlwaysDeletes(c) == [locks EXCEPT ![asked[c].keyset] = NoCall]
\* The value of locks once the finally block of c has run: the entry goes
\* away only if no later call has replaced it.
LocksWithout(c) ==
  LET k == asked[c].keyset
  IN  IF locks[k] = c THEN [locks EXCEPT ![k] = NoCall] ELSE locks

\* The body returns: the value is awaited once more before the finally block.
BodyReturns(c, a) ==
  /\ status' = [status EXCEPT ![c] = "ran"]
  /\ result' = [result EXCEPT ![c] = a]
  /\ UNCHANGED <<locks, asked, prev, arrival, clock>>

\* The body throws: the finally block follows in the same stretch.
BodyThrows(c) ==
  /\ status' = [status EXCEPT ![c] = "threw"]
  /\ result' = [result EXCEPT ![c] = Refused]
  /\ locks'  = LocksWithout(c)
  /\ UNCHANGED <<next, asked, prev, arrival, clock, epoch, granted>>

\* Variant: the cursor moves by the count, whatever the start.
HandOutByCount(c, s, n) ==
  /\ BodyReturns(c, Span(s, n))
  /\ next'    = [next EXCEPT ![asked[c].keyset] = @ + n]
  /\ granted' = [granted EXCEPT ![c] = epoch[asked[c].keyset]]
  /\ UNCHANGED epoch

HandOut(c, s, n) ==
  /\ BodyReturns(c, Span(s, n))
  /\ next'    = [next EXCEPT ![asked[c].keyset] = s + n]
  /\ granted' = [granted EXCEPT ![c] = epoch[asked[c].keyset]]
  /\ UNCHANGED epoch

\* reserve: n = 0 reports the cursor and leaves it.
Reserve(c) ==
  /\ HasLock(c) /\ asked[c].op = "reserve"
  /\ HandOut(c, next[asked[c].keyset], asked[c].n)

\* Variant: the start is not compared with the cursor.
ReserveAtUnchecked(c) ==
  /\ HasLock(c) /\ asked[c].op = "reserveAt"
  /\ HandOut(c, asked[c].start, asked[c].count)

\* reserveAt: counters below start are burned.
ReserveAt(c) ==
  /\ HasLock(c) /\ asked[c].op = "reserveAt"
  /\ asked[c].start >= next[asked[c].keyset]
  /\ HandOut(c, asked[c].start, asked[c].count)

ReserveAtRefused(c) ==
  /\ HasLock(c) /\ asked[c].op = "reserveAt"
  /\ asked[c].start < next[asked[c].keyset]
  /\ BodyThrows(c)

AdvanceToAtLeast(c) ==
  LET k == asked[c].keyset
  IN  /\ HasLock(c) /\ asked[c].op = "advance"
      /\ BodyReturns(c, Done)
      /\ next' = IF asked[c].minNext > next[k]
                 THEN [next EXCEPT ![k] = asked[c].minNext] ELSE next
      /\ UNCHANGED <<epoch, granted>>

SetNext(c) ==
  LET k == asked[c].keyset
  IN  /\ HasLock(c) /\ asked[c].op = "setNext"
      /\ asked[c].next >= 0
      /\ BodyReturns(c, Done)
      /\ next'  = [next EXCEPT ![k] = asked[c].next]
      /\ epoch' = IF asked[c].next < next[k] THEN [epoch EXCEPT ![k] = @ + 1] ELSE epoch
      /\ UNCHANGED granted

SetNextRefused(c) ==
  /\ HasLock(c) /\ asked[c].op = "setNext"
  /\ asked[c].next < 0
  /\ BodyThrows(c)

\* The finally block of a body that returned.
Settle(c) ==
  /\ status[c] = "ran"
  /\ status' = [status EXCEPT ![c] = "returned"]
  /\ locks'  = LocksWithout(c)
  /\ UNCHANGED <<next, asked, prev, result, arrival, clock, epoch, granted>>

Run(c) == \/ Reserve(c)
          \/ ReserveAt(c)
          \/ ReserveAtRefused(c)
          \/ AdvanceToAtLeast(c)
          \/ SetNext(c)
          \/ SetNextRefused(c)

Next == \E c \in Calls : \/ \E r \in Requests : CallRejected(c, r) \/ Call(c, r)
                         \/ Run(c)
                         \/ Settle(c)

Spec == Init /\ [][Next]_vars

\* The event loop runs every microtask whose promise has resolved; nobody
\* has to make a call.
Fairness == \A c \in Calls : WF_vars(Run(c)) /\ WF_vars(Settle(c))

FairSpec == Spec /\ Fairness
-----------------------------------------------------------------------------
Statuses == {"idle", "waiting", "ran", "returned", "threw"}
Spans    == [op : {"range"}, start : Nat, count : Nat]

\* Every variable stays in its domain; in particular no cursor is negative
\* although callers may pass negative numbers.
TypeOK ==
  /\ next    \in [Keysets -> Nat]
  /\ locks   \in [Keysets -> Calls \cup {NoCall}]
  /\ asked   \in [Calls -> Requests \cup {Nothing}]
  /\ prev    \in [Calls -> Calls \cup {NoCall}]
  /\ status  \in [Calls -> Statuses]
  /\ result  \in [Calls -> {Nothing, Refused, Done} \cup Spans]
  /\ arrival \in [Calls -> Nat]
  /\ clock   \in Nat
  /\ epoch   \in [Keysets -> Nat]
  /\ granted \in [Calls -> Nat]

SameKeyset(c, d) == asked[c].keyset = asked[d].keyset

\* The call has `await prev` behind it and its finally block still ahead.
InSection(c) == HasLock(c) \/ status[c] = "ran"

\* withLock admits one call per keyset at a time: two calls never both stand
\* between `await prev` and release(), whatever order promises settle in.
MutualExclusion ==
  \A c, d \in Calls :
    InSection(c) /\ InSection(d) /\ SameKeyset(c, d) => c = d

HasRange(c) == result[c] \in Spans

\* Of two ranges handed out for a keyset with no lowering setNext between
\* them, the one asked for first lies wholly below the other: no counter is
\* issued twice and callers are served in the order they called.
RangesInCallOrder ==
  \A c, d \in Calls :
    /\ HasRange(c) /\ HasRange(d) /\ SameKeyset(c, d)
    /\ granted[c] = granted[d] /\ arrival[c] < arrival[d]
    => result[c].start + result[c].count <= result[d].start

InChainOf(c, k) == InChain(c) /\ asked[c].keyset = k

\* A lock entry exists exactly while a call of the keyset is in its chain,
\* and it is then the newest of them: the map neither leaks nor loses a tail.
LockIsTail ==
  \A k \in Keysets :
    /\ locks[k] # NoCall => InChainOf(locks[k], k)
    /\ \A c \in Calls : InChainOf(c, k) =>
         locks[k] # NoCall /\ arrival[c] <= arrival[locks[k]]

\* A cursor is lowered by nothing but the body of setNext.
OnlySetNextLowers ==
  [][\A k \in Keysets :
       next'[k] < next[k] =>
         \E c \in Calls : /\ asked[c] \in SetNextRequests /\ asked[c].keyset = k
                          /\ status[c] = "waiting" /\ status'[c] = "ran"]_vars

\* Every call that was made returns or throws.
EveryCallSettles ==
  \A c \in Calls : status[c] # "idle" ~> status[c] \in {"returned", "threw"}

\* The lock is invisible: the calls behave as if each took effect at one
\* instant on a bare cursor.
Alloc == INSTANCE CounterAllocator WITH cursor <- next, answer <- result

AtomicCounters == Alloc!AllocSpec
=============================================================================
