------------------------ MODULE CounterSource_proofs ------------------------
(***************************************************************************)
(* Proofs about CounterSource, for any keysets, calls and requests.        *)
(*                                                                         *)
(* The argument: the calls in the chain of a keyset are ordered by arrival *)
(* and prev points at the immediate predecessor (ChainInv), so a call      *)
(* whose prev is released is the oldest of the chain; hence at most one    *)
(* call is past `await prev`, and bodies run in the order of the calls     *)
(* (RangeInv).                                                             *)
(***************************************************************************)
EXTENDS CounterSource, TLAPS

\* The fields of a request, by method.
LEMMA RequestFields ==
  ASSUME NEW r \in Requests
  PROVE  /\ r # Nothing
         /\ r.keyset \in Keysets
         /\ r.op = "reserve" => r.n \in Int
         /\ r.op = "reserveAt" => r.start \in Int /\ r.count \in Int
         /\ r.op = "advance" => r.minNext \in Int
         /\ r.op = "setNext" => r.next \in Int
<1>1. r \in AllRequests
  BY RequestsAssumption
<1>2. r.op # "none"
  BY <1>1 DEF AllRequests, ReserveRequests, ReserveAtRequests, AdvanceRequests,
              SetNextRequests
<1>3. r # Nothing
  BY <1>2 DEF Nothing
<1>4. QED
  BY <1>1, <1>3 DEF AllRequests, ReserveRequests, ReserveAtRequests, AdvanceRequests,
              SetNextRequests

\* A span is a range exactly when its start and its count are natural.
LEMMA SpanType ==
  ASSUME NEW s \in Nat, NEW n \in Nat
  PROVE  Span(s, n) \in Spans /\ Span(s, n).start = s /\ Span(s, n).count = n
BY DEF Span, Spans

\* What a call that is in its chain has asked: a request that passed the
\* checks made before the lock.
AskedInv ==
  \A c \in Calls :
    /\ InChain(c) => asked[c] \in Requests /\ ~RejectedAtOnce(asked[c])
    /\ status[c] = "idle" => asked[c] = Nothing
    /\ status[c] \in {"idle", "waiting"} => result[c] = Nothing

TypeInv == TypeOK /\ AskedInv

\* Every body leaves natural numbers behind.
LEMMA TypeInvStep == TypeInv /\ [Next]_vars => TypeInv'
<1> SUFFICES ASSUME TypeInv, [Next]_vars PROVE TypeInv'
  OBVIOUS
<1> USE DEF TypeInv, TypeOK, AskedInv, InChain, Statuses
<1>1. ASSUME NEW c \in Calls, NEW r \in Requests, CallRejected(c, r) PROVE TypeInv'
  BY <1>1 DEF CallRejected
<1>2. ASSUME NEW c \in Calls, NEW r \in Requests, Call(c, r) PROVE TypeInv'
  <2>1. r.keyset \in Keysets
    BY RequestFields
  <2>2. QED
    BY <1>2, <2>1 DEF Call
<1>3. ASSUME NEW c \in Calls, Run(c) PROVE TypeInv'
  <2> DEFINE k == asked[c].keyset
  <2>1. status[c] = "waiting" /\ asked[c] \in Requests /\ ~RejectedAtOnce(asked[c])
    BY <1>3 DEF Run, Reserve, ReserveAt, ReserveAtRefused, AdvanceToAtLeast, SetNext,
                SetNextRefused, HasLock
  <2>2. k \in Keysets
    BY <2>1, RequestFields
  <2>3. ASSUME NEW s \in Nat, NEW n \in Nat, HandOut(c, s, n) PROVE TypeInv'
    <3>1. Span(s, n) \in Spans
      BY SpanType
    <3>2. QED
      BY <2>1, <2>2, <2>3, <3>1 DEF HandOut, BodyReturns
  <2>4. CASE Reserve(c)
    <3>1. next[k] \in Nat /\ asked[c].n \in Nat
      BY <2>1, <2>2, <2>4, RequestFields DEF Reserve, RejectedAtOnce
    <3>2. QED
      BY <3>1, <2>3, <2>4 DEF Reserve
  <2>5. CASE ReserveAt(c)
    <3>1. asked[c].start \in Nat /\ asked[c].count \in Nat
      BY <2>1, <2>2, <2>5, RequestFields DEF ReserveAt, RejectedAtOnce
    <3>2. QED
      BY <3>1, <2>3, <2>5 DEF ReserveAt
  <2>6. CASE AdvanceToAtLeast(c)
    <3>1. asked[c].minNext \in Int
      BY <2>1, <2>6, RequestFields DEF AdvanceToAtLeast
    <3>2. next' \in [Keysets -> Nat]
      BY <3>1, <2>2, <2>6 DEF AdvanceToAtLeast
    <3>3. QED
      BY <2>1, <3>2, <2>6 DEF AdvanceToAtLeast, BodyReturns
  <2>7. CASE SetNext(c)
    <3>1. asked[c].next \in Nat
      BY <2>1, <2>7, RequestFields DEF SetNext
    <3>2. next' \in [Keysets -> Nat] /\ epoch' \in [Keysets -> Nat]
      BY <3>1, <2>2, <2>7 DEF SetNext
    <3>3. QED
      BY <2>1, <3>2, <2>7 DEF SetNext, BodyReturns
  <2>8. CASE ReserveAtRefused(c) \/ SetNextRefused(c)
    <3>1. BodyThrows(c)
      BY <2>8 DEF ReserveAtRefused, SetNextRefused
    <3>2. locks' \in [Keysets -> Calls \cup {NoCall}]
      BY <2>2, <3>1 DEF BodyThrows, LocksWithout
    <3>3. QED
      BY <2>1, <3>1, <3>2 DEF BodyThrows
  <2>9. QED
    BY <1>3, <2>4, <2>5, <2>6, <2>7, <2>8 DEF Run
<1>4. ASSUME NEW c \in Calls, Settle(c) PROVE TypeInv'
  <2>1. locks' \in [Keysets -> Calls \cup {NoCall}]
    BY <1>4, RequestFields DEF Settle, LocksWithout
  <2>2. QED
    BY <1>4, <2>1 DEF Settle
<1>5. CASE UNCHANGED vars
  BY <1>5 DEF vars
<1>6. QED
  BY <1>1, <1>2, <1>3, <1>4, <1>5 DEF Next

LEMMA TypeInvInit == Init => TypeInv
BY InitialAssumption DEF Init, TypeInv, TypeOK, AskedInv, InChain, Statuses, Nothing

\* The type invariant of EphemeralCounterSource: whatever callers pass, every
\* cursor and every range handed out stays a natural number.
THEOREM TypeCorrect == Spec => []TypeOK
<1>1. TypeInv => TypeOK
  BY DEF TypeInv
<1>2. QED
  BY <1>1, TypeInvInit, TypeInvStep, PTL DEF Spec

-----------------------------------------------------------------------------
\* d holds a place in the chain in which c waits.
Mate(d, c) == InChain(d) /\ SameKeyset(d, c)

\* Calls of a keyset are linked in order of arrival: everything older than c
\* is prev[c] or older than it, and nothing is older once prev[c] is released.
ChainInv ==
  /\ \A c \in Calls : InChain(c) => arrival[c] \in 1..clock
  /\ \A c, d \in Calls : InChain(c) /\ InChain(d) /\ arrival[c] = arrival[d] => c = d
  /\ \A c \in Calls : status[c] = "ran" => Released(prev[c])
  /\ \A c \in Calls : InChain(c) /\ prev[c] # NoCall =>
       /\ status[prev[c]] # "idle"
       /\ SameKeyset(prev[c], c)
  /\ \A c, d \in Calls : InChain(c) /\ Mate(d, c) /\ arrival[d] < arrival[c] =>
       prev[c] # NoCall /\ (d = prev[c] \/ arrival[d] < arrival[prev[c]])
  /\ \A c, d \in Calls : InChain(c) /\ Released(prev[c]) /\ Mate(d, c) =>
       arrival[c] <= arrival[d]

IInv == TypeInv /\ ChainInv /\ LockIsTail

\* A body that returned: its call stays in the chain, nothing else moves there.
Served(c) == \E a \in {Done} \cup Spans : BodyReturns(c, a)

\* A step of the call c out of the chain.
Leave(c) ==
  /\ InChain(c) /\ Released(prev[c])
  /\ \E s \in {"returned", "threw"} : status' = [status EXCEPT ![c] = s]
  /\ locks' = LocksWithout(c)
  /\ UNCHANGED <<asked, prev, arrival, clock>>

\* The steps of a call, as far as the chain is concerned.
LEMMA StepKinds ==
  ASSUME TypeInv, NEW c \in Calls
  PROVE  /\ Run(c) => HasLock(c) /\ (Served(c) \/ Leave(c))
         /\ Settle(c) /\ Released(prev[c]) => Leave(c)
<1> USE DEF InChain
<1>1. ASSUME Run(c) PROVE HasLock(c) /\ (Served(c) \/ Leave(c))
  <2>1. HasLock(c)
    BY <1>1 DEF Run, Reserve, ReserveAt, ReserveAtRefused, AdvanceToAtLeast, SetNext,
                SetNextRefused
  <2>2. asked[c] \in Requests /\ ~RejectedAtOnce(asked[c])
    BY <2>1 DEF TypeInv, AskedInv, HasLock
  <2>3. CASE ReserveAtRefused(c) \/ SetNextRefused(c)
    BY <2>1, <2>3 DEF ReserveAtRefused, SetNextRefused, BodyThrows, Leave, HasLock
  <2>4. CASE AdvanceToAtLeast(c) \/ SetNext(c)
    BY <2>1, <2>4 DEF AdvanceToAtLeast, SetNext, Served
  <2>5. CASE Reserve(c)
    <3>1. next[asked[c].keyset] \in Nat /\ asked[c].n \in Nat
      BY <2>2, <2>5, RequestFields DEF Reserve, RejectedAtOnce, TypeInv, TypeOK
    <3>2. QED
      BY <2>1, <2>5, <3>1, SpanType DEF Reserve, HandOut, Served
  <2>6. CASE ReserveAt(c)
    <3>1. asked[c].start \in Nat /\ asked[c].count \in Nat
      BY <2>2, <2>6, RequestFields DEF ReserveAt, RejectedAtOnce
    <3>2. QED
      BY <2>1, <2>6, <3>1, SpanType DEF ReserveAt, HandOut, Served
  <2>7. QED
    BY <1>1, <2>3, <2>4, <2>5, <2>6 DEF Run
<1>2. ASSUME Settle(c), Released(prev[c]) PROVE Leave(c)
  BY <1>2 DEF Settle, Leave
<1>3. QED
  BY <1>1, <1>2

\* A new call goes to the end of the chain.
LEMMA CallStep ==
  ASSUME IInv, NEW c \in Calls, NEW r \in Requests, Call(c, r), TypeInv'
  PROVE  ChainInv' /\ LockIsTail'
<1> USE DEF IInv, TypeInv, TypeOK, InChain, InChainOf, SameKeyset, Mate, Released
<1> DEFINE k == r.keyset
<1>1. k \in Keysets
  BY RequestFields
<1>2. /\ status[c] = "idle" /\ asked'[c] = r /\ prev'[c] = locks[k]
      /\ status'[c] = "waiting" /\ arrival'[c] = clock + 1 /\ clock' = clock + 1
      /\ locks' = [locks EXCEPT ![k] = c]
  BY DEF Call
<1>3. \A d \in Calls : d # c =>
        /\ asked'[d] = asked[d] /\ prev'[d] = prev[d] /\ status'[d] = status[d]
        /\ arrival'[d] = arrival[d]
  BY DEF Call
<1>4. locks[k] = NoCall => \A d \in Calls : InChain(d) => asked[d].keyset # k
  BY <1>1 DEF LockIsTail
<1>5. locks[k] # NoCall => /\ InChain(locks[k]) /\ asked[locks[k]].keyset = k
                           /\ \A d \in Calls : InChain(d) /\ asked[d].keyset = k =>
                                arrival[d] <= arrival[locks[k]]
  BY <1>1 DEF LockIsTail
<1>6. ChainInv'
  <2> USE DEF ChainInv
  <2>1. \A d \in Calls : InChain(d)' => arrival'[d] \in 1..clock'
    BY <1>2, <1>3
  <2>2. \A d, e \in Calls : InChain(d)' /\ InChain(e)' /\ arrival'[d] = arrival'[e] => d = e
    BY <1>2, <1>3
  <2>3. \A d \in Calls : status'[d] = "ran" => Released(prev[d])'
    BY <1>2, <1>3, CallsAssumption
  <2>4. \A d \in Calls : InChain(d)' /\ prev'[d] # NoCall =>
          status'[prev'[d]] # "idle" /\ SameKeyset(prev[d], d)'
    BY <1>2, <1>3, <1>5, CallsAssumption
  <2>5. \A d, e \in Calls : InChain(d)' /\ Mate(e, d)' /\ arrival'[e] < arrival'[d] =>
          prev'[d] # NoCall /\ (e = prev'[d] \/ arrival'[e] < arrival'[prev'[d]])
    <3>1. SUFFICES ASSUME NEW d \in Calls, NEW e \in Calls, InChain(d)', Mate(e, d)',
                          arrival'[e] < arrival'[d]
                   PROVE  prev'[d] # NoCall /\ (e = prev'[d] \/ arrival'[e] < arrival'[prev'[d]])
      OBVIOUS
    <3>2. e # c /\ InChain(e)
      BY <1>2, <1>3, <3>1
    <3>3. CASE d = c
      <4>1. asked[e].keyset = k /\ locks[k] \in Calls /\ locks[k] # c
        <5>1. asked[e].keyset = k
          BY <1>2, <1>3, <3>1, <3>2, <3>3
        <5>2. locks[k] # NoCall
          BY <1>4, <3>2, <5>1
        <5>3. locks[k] \in Calls
          BY <1>1, <5>2
        <5>4. locks[k] # c
          BY <1>2, <1>5, <5>2
        <5>5. QED
          BY <5>1, <5>3, <5>4
      <4>2. arrival[e] <= arrival[locks[k]] /\ InChain(locks[k])
        BY <1>4, <1>5, <3>2, <4>1, CallsAssumption
      <4>3. e = locks[k] \/ arrival[e] < arrival[locks[k]]
        <5>1. \A x, y \in Calls : InChain(x) /\ InChain(y) /\ arrival[x] = arrival[y] => x = y
          BY DEF ChainInv
        <5>2. arrival[e] = arrival[locks[k]] => e = locks[k]
          BY <3>2, <4>1, <4>2, <5>1
        <5>3. arrival[e] \in Nat /\ arrival[locks[k]] \in Nat
          BY <4>1
        <5>4. arrival[e] # arrival[locks[k]] => arrival[e] < arrival[locks[k]]
          <6> HIDE DEF IInv, TypeInv, ChainInv, InChain, k
          <6>1. arrival[e] <= arrival[locks[k]]
            BY <4>2
          <6>2. QED
            BY <5>3, <6>1
        <5>5. QED
          BY <5>2, <5>4
      <4>4. prev'[c] = locks[k] /\ prev'[c] # NoCall
        BY <1>2, <4>1, CallsAssumption
      <4>5. arrival'[e] = arrival[e] /\ arrival'[locks[k]] = arrival[locks[k]]
        BY <1>3, <3>2, <4>1
      <4>6. QED
        BY <3>3, <4>3, <4>4, <4>5
    <3>4. CASE d # c
      <4>1. prev[d] # NoCall /\ (e = prev[d] \/ arrival[e] < arrival[prev[d]])
        BY <1>2, <1>3, <3>1, <3>2, <3>4
      <4>2. prev[d] # c
        BY <1>2, <1>3, <3>1, <3>4, <4>1
      <4>3. QED
        BY <1>2, <1>3, <3>2, <3>4, <4>1, <4>2
    <3>5. QED
      BY <3>3, <3>4
  <2>6. \A d, e \in Calls : InChain(d)' /\ Released(prev[d])' /\ Mate(e, d)' =>
          arrival'[d] <= arrival'[e]
    BY <1>2, <1>3, <1>4, <1>5, CallsAssumption
  <2>7. QED
    BY <2>1, <2>2, <2>3, <2>4, <2>5, <2>6
<1>7. LockIsTail'
  <2>1. ASSUME NEW j \in Keysets, j # k
        PROVE  /\ locks'[j] = locks[j]
               /\ \A d \in Calls : InChainOf(d, j)' <=> InChainOf(d, j)
    BY <1>1, <1>2, <1>3, <2>1
  <2>2. ASSUME NEW j \in Keysets, j # k, NEW d \in Calls, InChainOf(d, j)
        PROVE  d # c /\ arrival'[d] = arrival[d]
    BY <1>2, <1>3, <2>2
  <2>3. \A d \in Calls : InChain(d)' => arrival'[d] <= clock + 1
    BY <1>2, <1>3 DEF ChainInv
  <2>4. QED
    BY <1>1, <1>2, <1>3, <2>1, <2>2, <2>3, CallsAssumption DEF LockIsTail
<1>8. QED
  BY <1>6, <1>7

\* The oldest call of a chain leaves it: its successor becomes the oldest.
LEMMA LeaveStep ==
  ASSUME IInv, NEW c \in Calls, Leave(c), TypeInv'
  PROVE  ChainInv' /\ LockIsTail'
<1> USE DEF IInv, TypeInv, TypeOK, InChain, InChainOf, SameKeyset, Mate, Released
<1> DEFINE k == asked[c].keyset
<1>1. /\ status'[c] \in {"returned", "threw"} /\ InChain(c) /\ Released(prev[c])
      /\ asked' = asked /\ prev' = prev /\ arrival' = arrival /\ clock' = clock
      /\ \A d \in Calls : d # c => status'[d] = status[d]
  BY DEF Leave
<1>2. k \in Keysets
  BY <1>1, RequestFields DEF AskedInv
<1>3. \A d \in Calls : InChain(d) /\ asked[d].keyset = k => arrival[c] <= arrival[d]
  BY <1>1 DEF ChainInv
<1>4. ChainInv'
  <2> USE DEF ChainInv
  <2>1. \A d \in Calls : InChain(d)' => InChain(d) /\ d # c
    BY <1>1
  <2>2. \A d \in Calls : Released(prev[d])' /\ InChain(d) => Released(prev[d]) \/ prev[d] = c
    BY <1>1
  <2>3. \A d \in Calls : status'[d] = "ran" => Released(prev[d])'
    BY <1>1
  <2>4. \A d \in Calls : InChain(d)' /\ prev'[d] # NoCall =>
          status'[prev'[d]] # "idle" /\ SameKeyset(prev[d], d)'
    BY <1>1
  <2>5. \A d, e \in Calls : InChain(d)' /\ Mate(e, d)' /\ arrival'[e] < arrival'[d] =>
          prev'[d] # NoCall /\ (e = prev'[d] \/ arrival'[e] < arrival'[prev'[d]])
    BY <1>1, <2>1
  <2>6. \A d, e \in Calls : InChain(d)' /\ Released(prev[d])' /\ Mate(e, d)' =>
          arrival'[d] <= arrival'[e]
    <3>1. SUFFICES ASSUME NEW d \in Calls, NEW e \in Calls,
                          InChain(d)', Released(prev[d])', Mate(e, d)',
                          arrival[e] < arrival[d]
                   PROVE  FALSE
      BY <1>1
    <3>2. InChain(d) /\ InChain(e) /\ e # c /\ SameKeyset(e, d)
      BY <1>1, <2>1, <3>1
    <3>3. prev[d] = c
      BY <2>2, <3>1, <3>2
    <3>4. asked[d].keyset = k /\ arrival[e] < arrival[c]
      BY <1>1, <3>1, <3>2, <3>3, CallsAssumption
    <3>5. QED
      BY <1>3, <3>2, <3>4
  <2>7. QED
    BY <1>1, <2>1, <2>3, <2>4, <2>5, <2>6
<1>5. LockIsTail'
  <2>1. CASE locks[k] = c
    <3>1. \A d \in Calls : asked[d].keyset = k => ~InChain(d)'
      <4>1. ASSUME NEW d \in Calls, asked[d].keyset = k, InChain(d), d # c PROVE FALSE
        <5>1. arrival[d] <= arrival[c] /\ arrival[c] <= arrival[d]
          BY <1>2, <1>3, <2>1, <4>1 DEF LockIsTail
        <5>2. arrival[c] = arrival[d]
          BY <5>1
        <5>3. QED
          BY <1>1, <4>1, <5>2 DEF ChainInv
      <4>2. QED
        BY <1>1, <4>1
    <3>2. locks' = [locks EXCEPT ![k] = NoCall]
      BY <2>1 DEF Leave, LocksWithout
    <3>3. QED
      BY <1>1, <1>2, <3>1, <3>2 DEF LockIsTail
  <2>2. CASE locks[k] # c
    <3>1. locks' = locks
      BY <2>2 DEF Leave, LocksWithout
    <3>2. QED
      BY <1>1, <1>2, <2>2, <3>1, CallsAssumption DEF LockIsTail
  <2>3. QED
    BY <2>1, <2>2
<1>6. QED
  BY <1>4, <1>5

\* Neither a call rejected before the lock nor a body that returned changes
\* who is in the chains.
LEMMA SameChainStep ==
  ASSUME IInv, TypeInv', NEW c \in Calls,
         \/ HasLock(c) /\ Served(c)
         \/ \E r \in Requests : CallRejected(c, r)
  PROVE  ChainInv' /\ LockIsTail'
<1> USE DEF IInv, TypeInv, TypeOK, InChain, InChainOf, SameKeyset, Mate, Released
<1>1. CASE HasLock(c) /\ Served(c)
  <2>1. /\ status[c] = "waiting" /\ Released(prev[c]) /\ status'[c] = "ran"
        /\ \A d \in Calls : d # c => status'[d] = status[d]
        /\ locks' = locks /\ asked' = asked /\ prev' = prev /\ arrival' = arrival
        /\ clock' = clock
    BY <1>1 DEF HasLock, Served, BodyReturns
  <2>2. ChainInv'
    <3>1. \A d \in Calls : /\ InChain(d)' <=> InChain(d)
                           /\ Released(prev[d])' <=> Released(prev[d])
                           /\ status'[d] = "ran" => status[d] = "ran" \/ d = c
                           /\ status'[d] = "idle" <=> status[d] = "idle"
      BY <2>1
    <3>2. \A d, e \in Calls : Mate(d, e)' <=> Mate(d, e)
      BY <2>1, <3>1
    <3>3. \A d \in Calls : status'[d] = "ran" => Released(prev[d])'
      BY <2>1, <3>1 DEF ChainInv
    <3>4. \A d \in Calls : InChain(d)' /\ prev'[d] # NoCall =>
            status'[prev'[d]] # "idle" /\ SameKeyset(prev[d], d)'
      BY <2>1, <3>1 DEF ChainInv
    <3>5. QED
      BY <2>1, <3>1, <3>2, <3>3, <3>4 DEF ChainInv
  <2>3. LockIsTail'
    BY <2>1 DEF LockIsTail
  <2>4. QED
    BY <2>2, <2>3
<1>2. CASE \E r \in Requests : CallRejected(c, r)
  <2>1. /\ status[c] = "idle" /\ status'[c] = "threw"
        /\ \A d \in Calls : d # c => status'[d] = status[d] /\ asked'[d] = asked[d]
        /\ locks' = locks /\ prev' = prev /\ arrival' = arrival /\ clock' = clock
    BY <1>2 DEF CallRejected
  <2>2. ChainInv'
    <3>1. \A d \in Calls : (InChain(d)' <=> InChain(d)) /\ (InChain(d) => d # c)
      BY <2>1
    <3>2. \A d \in Calls : InChain(d) => prev[d] # c /\ (Released(prev[d])' <=> Released(prev[d]))
      BY <2>1, CallsAssumption DEF ChainInv
    <3>3. \A d, e \in Calls : InChain(e) => (Mate(d, e)' <=> Mate(d, e))
      BY <2>1, <3>1
    <3>4. \A d \in Calls : status'[d] = "ran" => Released(prev[d])'
      BY <2>1, <3>2 DEF ChainInv
    <3>5. \A d \in Calls : InChain(d)' /\ prev'[d] # NoCall =>
            status'[prev'[d]] # "idle" /\ SameKeyset(prev[d], d)'
      BY <2>1, <3>1, <3>2, CallsAssumption DEF ChainInv
    <3>6. QED
      BY <2>1, <3>1, <3>2, <3>3, <3>4, <3>5 DEF ChainInv
  <2>3. LockIsTail'
    <3>1. \A d \in Calls : \A k \in Keysets : InChainOf(d, k)' <=> InChainOf(d, k)
      BY <2>1
    <3>2. QED
      BY <2>1, <3>1, CallsAssumption DEF LockIsTail
  <2>4. QED
    BY <2>2, <2>3
<1>3. QED
  BY <1>1, <1>2

LEMMA IInvInit == Init => IInv
BY TypeInvInit DEF Init, IInv, ChainInv, LockIsTail, InChain, InChainOf, Mate, Released

LEMMA IInvStep == IInv /\ [Next]_vars => IInv'
<1> SUFFICES ASSUME IInv, [Next]_vars PROVE IInv'
  OBVIOUS
<1>1. TypeInv'
  BY TypeInvStep DEF IInv
<1>2. CASE UNCHANGED vars
  <2>1. ChainInv'
    BY <1>2 DEF IInv, ChainInv, InChain, Mate, SameKeyset, Released, vars
  <2>2. LockIsTail'
    BY <1>2 DEF IInv, LockIsTail, InChainOf, InChain, vars
  <2>3. QED
    BY <1>1, <2>1, <2>2 DEF IInv
<1>3. ASSUME NEW c \in Calls, NEW r \in Requests, CallRejected(c, r) PROVE IInv'
  BY <1>1, <1>3, SameChainStep DEF IInv
<1>4. ASSUME NEW c \in Calls, NEW r \in Requests, Call(c, r) PROVE IInv'
  BY <1>1, <1>4, CallStep DEF IInv
<1>5. ASSUME NEW c \in Calls, Run(c) PROVE IInv'
  <2>1. HasLock(c) /\ (Served(c) \/ Leave(c))
    BY <1>5, StepKinds DEF IInv
  <2>2. QED
    BY <1>1, <2>1, SameChainStep, LeaveStep DEF IInv
<1>6. ASSUME NEW c \in Calls, Settle(c) PROVE IInv'
  <2>1. Released(prev[c])
    BY <1>6 DEF IInv, ChainInv, Settle
  <2>2. Leave(c)
    BY <1>6, <2>1, StepKinds DEF IInv
  <2>3. QED
    BY <1>1, <2>2, LeaveStep DEF IInv
<1>7. QED
  BY <1>2, <1>3, <1>4, <1>5, <1>6 DEF Next

LEMMA Invariance == Spec => []IInv
BY IInvInit, IInvStep, PTL DEF Spec

\* withLock admits one call per keyset at a time.
THEOREM MutualExclusionHolds == Spec => []MutualExclusion
<1>1. IInv => MutualExclusion
  <2>1. SUFFICES ASSUME IInv, NEW c \in Calls, NEW d \in Calls,
                        InSection(c), InSection(d), SameKeyset(c, d)
                 PROVE  c = d
    BY DEF MutualExclusion
  <2>2. /\ InChain(c) /\ Released(prev[c])
        /\ InChain(d) /\ Released(prev[d])
    BY <2>1 DEF IInv, ChainInv, InSection, HasLock, InChain
  <2>3. arrival[c] <= arrival[d] /\ arrival[d] <= arrival[c]
    BY <2>1, <2>2 DEF IInv, ChainInv, Mate, SameKeyset
  <2>4. arrival[c] = arrival[d]
    BY <2>1, <2>3 DEF IInv, TypeInv, TypeOK
  <2>5. QED
    BY <2>1, <2>2, <2>4 DEF IInv, ChainInv
<1>2. QED
  BY <1>1, Invariance, PTL

\* The lock map holds exactly the newest call of every chain that is in use.
THEOREM LockIsTailHolds == Spec => []LockIsTail
<1>1. IInv => LockIsTail
  BY DEF IInv
<1>2. QED
  BY <1>1, Invariance, PTL

-----------------------------------------------------------------------------
\* A call whose body has run.
HasRun(c) == status[c] \in {"ran", "returned", "threw"} /\ arrival[c] > 0

\* Bodies run in the order of the calls, and a range handed out since the
\* last lowering of the cursor lies below the cursor.
RangeInv ==
  /\ \A c \in Calls : status[c] = "waiting" => arrival[c] > 0
  /\ \A c \in Calls : status[c] = "idle" => arrival[c] = 0
  /\ \A c \in Calls : arrival[c] <= clock
  /\ \A c \in Calls : HasRange(c) => status[c] \in {"ran", "returned"} /\ asked[c] \in Requests
                                      /\ arrival[c] > 0
  /\ \A c, d \in Calls : HasRun(c) /\ status[d] = "waiting" /\ SameKeyset(c, d) =>
       arrival[c] < arrival[d]
  /\ \A c \in Calls : HasRange(c) =>
       /\ granted[c] <= epoch[asked[c].keyset]
       /\ granted[c] = epoch[asked[c].keyset] =>
            result[c].start + result[c].count <= next[asked[c].keyset]
  /\ RangesInCallOrder

RInv == IInv /\ RangeInv

\* The spans that the first of two bodies got lie below the other's.
LEMMA HandOutStep ==
  ASSUME RInv, IInv', NEW c \in Calls, HasLock(c), NEW s \in Nat, NEW n \in Nat,
         s >= next[asked[c].keyset], HandOut(c, s, n)
  PROVE  RangeInv'
<1> USE DEF IInv, TypeInv, TypeOK, InChain, HasRange
<1> DEFINE k == asked[c].keyset
<1>1. /\ status[c] = "waiting" /\ status'[c] = "ran"
      /\ \A d \in Calls : d # c => status'[d] = status[d] /\ result'[d] = result[d]
                                   /\ granted'[d] = granted[d]
      /\ asked' = asked /\ arrival' = arrival /\ clock' = clock /\ epoch' = epoch
      /\ result'[c] = Span(s, n) /\ granted'[c] = epoch[k]
      /\ next' = [next EXCEPT ![k] = s + n]
  BY DEF HandOut, BodyReturns, HasLock
<1>2. asked[c] \in Requests /\ k \in Keysets /\ next'[k] = s + n
  BY <1>1, RequestFields DEF AskedInv
<1>3. Span(s, n) \in Spans /\ Span(s, n).start = s /\ Span(s, n).count = n
  BY SpanType
<1>4. \A d \in Calls : status[d] = "waiting" /\ SameKeyset(c, d) => arrival[c] <= arrival[d]
  BY DEF RInv, ChainInv, HasLock, Mate, SameKeyset
<1>5. \A d \in Calls : status[d] = "waiting" /\ SameKeyset(c, d) /\ d # c =>
        arrival[c] < arrival[d]
  <2>1. \A d \in Calls : status[d] = "waiting" /\ arrival[c] = arrival[d] => d = c
    BY <1>1 DEF RInv, ChainInv
  <2>2. \A d \in Calls : arrival[c] \in Nat /\ arrival[d] \in Nat
    BY DEF RInv
  <2>3. QED
    BY <1>4, <2>1, <2>2
<1>6. \A d \in Calls : HasRange(d)' => d = c \/ HasRange(d)
  BY <1>1
<1>7. /\ \A d \in Calls : status'[d] = "waiting" => arrival'[d] > 0
      /\ \A d \in Calls : status'[d] = "idle" => arrival'[d] = 0
      /\ \A d \in Calls : arrival'[d] <= clock'
      /\ \A d \in Calls : HasRange(d)' =>
           status'[d] \in {"ran", "returned"} /\ asked'[d] \in Requests /\ arrival'[d] > 0
  BY <1>1, <1>2 DEF RInv, RangeInv
<1>8. \A d, e \in Calls : HasRun(d)' /\ status'[e] = "waiting" /\ SameKeyset(d, e)' =>
        arrival'[d] < arrival'[e]
  BY <1>1, <1>5 DEF RInv, RangeInv, HasRun, SameKeyset
<1>9. ASSUME NEW d \in Calls, HasRange(d)'
      PROVE  /\ granted'[d] <= epoch'[asked'[d].keyset]
             /\ granted'[d] = epoch'[asked'[d].keyset] =>
                  result'[d].start + result'[d].count <= next'[asked'[d].keyset]
  <2>1. CASE d = c
    BY <1>1, <1>2, <1>3, <2>1
  <2>2. CASE d # c
    <3>1. HasRange(d) /\ asked[d].keyset \in Keysets /\ result'[d] = result[d]
      BY <1>1, <1>9, <2>2, RequestFields DEF RInv, RangeInv
    <3>2. CASE asked[d].keyset # k
      BY <1>1, <2>2, <3>1, <3>2 DEF RInv, RangeInv
    <3>3. CASE asked[d].keyset = k
      <4>1. granted[d] = epoch[k] => result[d].start + result[d].count <= next[k]
        BY <3>1, <3>3 DEF RInv, RangeInv
      <4>2. result[d].start \in Nat /\ result[d].count \in Nat /\ next[k] \in Nat
        BY <1>2, <3>1 DEF Spans, RInv
      <4>3. granted[d] <= epoch[k]
        BY <3>1, <3>3 DEF RInv, RangeInv
      <4>4. next[k] <= s + n
        BY <4>2
      <4>5. QED
        BY <1>1, <1>2, <2>2, <3>3, <4>1, <4>2, <4>3, <4>4
    <3>4. QED
      BY <3>2, <3>3
  <2>3. QED
    BY <2>1, <2>2
<1>10. RangesInCallOrder'
  <2>1. SUFFICES ASSUME NEW d \in Calls, NEW e \in Calls,
                        HasRange(d)', HasRange(e)', SameKeyset(d, e)',
                        granted'[d] = granted'[e], arrival'[d] < arrival'[e]
                 PROVE  result'[d].start + result'[d].count <= result'[e].start
    BY DEF RangesInCallOrder
  <2>2. CASE d # c /\ e # c
    BY <1>1, <2>1, <2>2 DEF RInv, RangeInv, RangesInCallOrder, SameKeyset
  <2>3. CASE d = c
    <3>1. e # c /\ HasRange(e)
      BY <1>1, <2>1, <2>3
    <3>2. HasRun(e) /\ SameKeyset(e, c)
      BY <1>1, <2>1, <2>3, <3>1 DEF RInv, RangeInv, HasRun, SameKeyset
    <3>3. arrival[e] < arrival[c]
      BY <1>1, <3>2 DEF RInv, RangeInv
    <3>4. QED
      BY <1>1, <2>1, <2>3, <3>3
  <2>4. CASE d # c /\ e = c
    <3>1. HasRange(d) /\ asked[d].keyset = k /\ granted[d] = epoch[k]
      BY <1>1, <2>1, <2>4 DEF SameKeyset
    <3>2. result[d].start + result[d].count <= next[k]
      BY <3>1 DEF RInv, RangeInv
    <3>3. result[d].start \in Nat /\ result[d].count \in Nat /\ next[k] \in Nat
      BY <1>2, <3>1 DEF Spans, RInv
    <3>4. result'[e].start = s /\ result'[d] = result[d]
      BY <1>1, <1>3, <2>4
    <3>5. QED
      BY <3>2, <3>3, <3>4
  <2>5. QED
    BY <2>2, <2>3, <2>4
<1>11. QED
  BY <1>7, <1>8, <1>9, <1>10 DEF RangeInv

\* A body that returned without a range, or threw, leaves the ranges alone.
LEMMA NoRangeStep ==
  ASSUME RInv, IInv', NEW c \in Calls, HasLock(c),
         \/ ReserveAtRefused(c)
         \/ AdvanceToAtLeast(c)
         \/ SetNext(c)
         \/ SetNextRefused(c)
  PROVE  RangeInv'
<1> USE DEF IInv, TypeInv, TypeOK, InChain, HasRange
<1> DEFINE k == asked[c].keyset
<1>1. /\ status[c] = "waiting" /\ status'[c] \in {"ran", "threw"}
      /\ \A d \in Calls : d # c => status'[d] = status[d] /\ result'[d] = result[d]
      /\ asked' = asked /\ arrival' = arrival /\ clock' = clock /\ granted' = granted
      /\ result'[c] \in {Done, Refused}
  BY DEF ReserveAtRefused, AdvanceToAtLeast, SetNext, SetNextRefused, BodyReturns, BodyThrows,
         HasLock, RInv, Statuses
<1>2. asked[c] \in Requests /\ k \in Keysets
  BY <1>1, RequestFields DEF AskedInv, RInv
<1>3. ASSUME NEW j \in Keysets
      PROVE  /\ epoch'[j] >= epoch[j]
             /\ epoch'[j] = epoch[j] => next'[j] >= next[j]
  <2>1. CASE ReserveAtRefused(c) \/ SetNextRefused(c)
    BY <2>1 DEF ReserveAtRefused, SetNextRefused, BodyThrows, RInv
  <2>2. CASE AdvanceToAtLeast(c)
    <3>1. asked[c].minNext \in Int
      BY <1>2, <2>2, RequestFields DEF AdvanceToAtLeast
    <3>2. QED
      BY <1>2, <2>2, <3>1 DEF AdvanceToAtLeast, RInv
  <2>3. CASE SetNext(c)
    <3>1. asked[c].next \in Int
      BY <1>2, <2>3, RequestFields DEF SetNext
    <3>2. QED
      BY <1>2, <2>3, <3>1 DEF SetNext, RInv
  <2>4. QED
    BY <2>1, <2>2, <2>3
<1>4. Done \notin Spans /\ Refused \notin Spans
  BY DEF Done, Refused, Spans
<1>5. \A d \in Calls : HasRange(d)' => d # c /\ HasRange(d) /\ result'[d] = result[d]
  BY <1>1, <1>4
<1>6. \A d \in Calls : status[d] = "waiting" /\ SameKeyset(c, d) /\ d # c =>
        arrival[c] < arrival[d]
  <2>1. \A d \in Calls : status[d] = "waiting" /\ arrival[c] = arrival[d] => d = c
    BY <1>1 DEF RInv, ChainInv
  <2>2. \A d \in Calls : status[d] = "waiting" /\ SameKeyset(c, d) => arrival[c] <= arrival[d]
    BY DEF RInv, ChainInv, HasLock, Mate, SameKeyset
  <2>3. \A d \in Calls : arrival[c] \in Nat /\ arrival[d] \in Nat
    BY DEF RInv
  <2>4. QED
    BY <2>1, <2>2, <2>3
<1>7. /\ \A d \in Calls : status'[d] = "waiting" => arrival'[d] > 0
      /\ \A d \in Calls : status'[d] = "idle" => arrival'[d] = 0
      /\ \A d \in Calls : arrival'[d] <= clock'
      /\ \A d \in Calls : HasRange(d)' =>
           status'[d] \in {"ran", "returned"} /\ asked'[d] \in Requests /\ arrival'[d] > 0
  BY <1>1, <1>5 DEF RInv, RangeInv
<1>8. \A d, e \in Calls : HasRun(d)' /\ status'[e] = "waiting" /\ SameKeyset(d, e)' =>
        arrival'[d] < arrival'[e]
  BY <1>1, <1>6 DEF RInv, RangeInv, HasRun, SameKeyset
<1>9. ASSUME NEW d \in Calls, HasRange(d)'
      PROVE  /\ granted'[d] <= epoch'[asked'[d].keyset]
             /\ granted'[d] = epoch'[asked'[d].keyset] =>
                  result'[d].start + result'[d].count <= next'[asked'[d].keyset]
  <2> DEFINE j == asked[d].keyset
  <2>1. HasRange(d) /\ result'[d] = result[d] /\ j \in Keysets
    BY <1>5, <1>9, RequestFields DEF RInv, RangeInv
  <2>2. /\ granted[d] <= epoch[j]
        /\ granted[d] = epoch[j] => result[d].start + result[d].count <= next[j]
    BY <2>1 DEF RInv, RangeInv
  <2>3. /\ result[d].start \in Nat /\ result[d].count \in Nat /\ granted[d] \in Nat
        /\ next[j] \in Nat /\ epoch[j] \in Nat /\ next'[j] \in Nat /\ epoch'[j] \in Nat
    BY <2>1 DEF Spans, RInv
  <2>4. QED
    BY <1>1, <1>3, <2>1, <2>2, <2>3
<1>10. RangesInCallOrder'
  BY <1>1, <1>5 DEF RInv, RangeInv, RangesInCallOrder, SameKeyset
<1>11. QED
  BY <1>7, <1>8, <1>9, <1>10 DEF RangeInv

\* The other steps: calls, the finally block and stuttering.
LEMMA OutsideStep ==
  ASSUME RInv, IInv', NEW c \in Calls,
         \/ \E r \in Requests : CallRejected(c, r) \/ Call(c, r)
         \/ Settle(c)
  PROVE  RangeInv'
<1> USE DEF IInv, TypeInv, TypeOK, InChain, HasRange
<1>1. CASE Settle(c)
  <2>1. /\ status[c] = "ran" /\ status'[c] = "returned"
        /\ \A d \in Calls : d # c => status'[d] = status[d]
        /\ UNCHANGED <<next, asked, result, arrival, clock, epoch, granted>>
    BY <1>1 DEF Settle, RInv
  <2>2. RangesInCallOrder'
    BY <2>1 DEF RInv, RangeInv, RangesInCallOrder, SameKeyset
  <2>3. \A d, e \in Calls : HasRun(d)' /\ status'[e] = "waiting" /\ SameKeyset(d, e)' =>
          arrival'[d] < arrival'[e]
    BY <2>1 DEF RInv, RangeInv, HasRun, SameKeyset
  <2>4. QED
    BY <2>1, <2>2, <2>3 DEF RInv, RangeInv
<1>2. ASSUME NEW r \in Requests, CallRejected(c, r) \/ Call(c, r) PROVE RangeInv'
  <2>1. /\ status[c] = "idle" /\ status'[c] \in {"threw", "waiting"}
        /\ \A d \in Calls : d # c => /\ status'[d] = status[d] /\ asked'[d] = asked[d]
                                     /\ arrival'[d] = arrival[d] /\ result'[d] = result[d]
        /\ next' = next /\ epoch' = epoch /\ granted' = granted /\ result'[c] \notin Spans
    <3>1. Nothing \notin Spans /\ Refused \notin Spans
      BY DEF Nothing, Refused, Spans
    <3>2. result[c] = Nothing \/ status[c] # "idle"
      BY DEF RInv, AskedInv
    <3>3. QED
      BY <1>2, <3>1, <3>2 DEF CallRejected, Call, RInv
  <2>2. clock' >= clock /\ \A d \in Calls : d # c => arrival'[d] <= clock
    BY <1>2, <2>1 DEF CallRejected, Call, RInv, RangeInv
  <2>3. \/ status'[c] = "threw" /\ clock' = clock /\ arrival' = arrival
        \/ status'[c] = "waiting" /\ clock' = clock + 1 /\ arrival'[c] = clock + 1
    BY <1>2 DEF CallRejected, Call, RInv
  <2>4. \A d \in Calls : HasRange(d)' => d # c /\ HasRange(d)
    BY <2>1
  <2>5. arrival[c] = 0
    BY <2>1 DEF RInv, RangeInv
  <2>6. \A d, e \in Calls : HasRun(d)' /\ status'[e] = "waiting" /\ SameKeyset(d, e)' =>
          arrival'[d] < arrival'[e]
    BY <2>1, <2>2, <2>3, <2>5 DEF RInv, RangeInv, HasRun, SameKeyset
  <2>7. RangesInCallOrder'
    BY <2>1, <2>4 DEF RInv, RangeInv, RangesInCallOrder, SameKeyset
  <2>8. /\ \A d \in Calls : status'[d] = "waiting" => arrival'[d] > 0
        /\ \A d \in Calls : status'[d] = "idle" => arrival'[d] = 0
        /\ \A d \in Calls : arrival'[d] <= clock'
    <3>1. clock \in Nat
      BY DEF RInv
    <3>2. QED
      BY <2>1, <2>2, <2>3, <2>5, <3>1 DEF RInv, RangeInv
  <2>9. \A d \in Calls : HasRange(d)' =>
          status'[d] \in {"ran", "returned"} /\ asked'[d] \in Requests /\ arrival'[d] > 0
    BY <2>1, <2>4 DEF RInv, RangeInv
  <2>10. \A d \in Calls : HasRange(d)' =>
           /\ granted'[d] <= epoch'[asked'[d].keyset]
           /\ granted'[d] = epoch'[asked'[d].keyset] =>
                result'[d].start + result'[d].count <= next'[asked'[d].keyset]
    BY <2>1, <2>4 DEF RInv, RangeInv
  <2>11. QED
    BY <2>6, <2>7, <2>8, <2>9, <2>10 DEF RangeInv
<1>3. QED
  BY <1>1, <1>2

LEMMA RInvInit == Init => RInv
<1>1. Init => RangeInv
  BY InitialAssumption
  DEF Init, RangeInv, RangesInCallOrder, HasRange, HasRun, Spans, Nothing
<1>2. QED
  BY <1>1, IInvInit DEF RInv

LEMMA RInvStep == RInv /\ [Next]_vars => RInv'
<1> SUFFICES ASSUME RInv, [Next]_vars PROVE RInv'
  OBVIOUS
<1>1. IInv'
  BY IInvStep DEF RInv
<1>2. CASE UNCHANGED vars
  <2>1. RangeInv'
    BY <1>2 DEF vars, RInv, RangeInv, RangesInCallOrder, HasRange, HasRun, SameKeyset
  <2>2. QED
    BY <1>1, <2>1 DEF RInv
<1>3. ASSUME NEW c \in Calls, NEW r \in Requests, CallRejected(c, r) \/ Call(c, r) PROVE RInv'
  BY <1>1, <1>3, OutsideStep DEF RInv
<1>4. ASSUME NEW c \in Calls, Run(c) PROVE RInv'
  <2>1. HasLock(c) /\ asked[c] \in Requests /\ ~RejectedAtOnce(asked[c])
    <3>1. HasLock(c)
      BY <1>4 DEF Run, Reserve, ReserveAt, ReserveAtRefused, AdvanceToAtLeast, SetNext,
                  SetNextRefused
    <3>2. QED
      BY <3>1 DEF HasLock, RInv, IInv, TypeInv, AskedInv, InChain
  <2>2. next[asked[c].keyset] \in Nat
    BY <2>1, RequestFields DEF RInv, IInv, TypeInv, TypeOK
  <2>3. CASE Reserve(c)
    <3>1. asked[c].n \in Nat
      BY <2>1, <2>3, RequestFields DEF Reserve, RejectedAtOnce
    <3>2. QED
      BY <1>1, <2>1, <2>2, <2>3, <3>1, HandOutStep DEF Reserve, RInv
  <2>4. CASE ReserveAt(c)
    <3>1. asked[c].start \in Nat /\ asked[c].count \in Nat
      BY <2>1, <2>4, RequestFields DEF ReserveAt, RejectedAtOnce
    <3>2. QED
      BY <1>1, <2>1, <2>4, <3>1, HandOutStep DEF ReserveAt, RInv
  <2>5. QED
    BY <1>1, <1>4, <2>1, <2>3, <2>4, NoRangeStep DEF Run, RInv
<1>5. ASSUME NEW c \in Calls, Settle(c) PROVE RInv'
  BY <1>1, <1>5, OutsideStep DEF RInv
<1>6. QED
  BY <1>2, <1>3, <1>4, <1>5 DEF Next

\* No counter is issued twice between two lowerings of the cursor, and the
\* callers of a keyset are served in the order they called.
THEOREM RangesInCallOrderHolds == Spec => []RangesInCallOrder
<1>1. RInv => RangesInCallOrder
  BY DEF RInv, RangeInv
<1>2. QED
  BY <1>1, RInvInit, RInvStep, PTL DEF Spec

\* Nothing but the body of setNext lowers a cursor.
THEOREM OnlySetNextLowersHolds == Spec => OnlySetNextLowers
<1> DEFINE Lowering(k) == next'[k] < next[k] =>
             \E c \in Calls : /\ asked[c] \in SetNextRequests /\ asked[c].keyset = k
                              /\ status[c] = "waiting" /\ status'[c] = "ran"
<1>1. ASSUME TypeInv, [Next]_vars, NEW k \in Keysets PROVE Lowering(k)
  <2> USE <1>1 DEF TypeInv, TypeOK, AskedInv, InChain
  <2>1. CASE next' = next
    BY <2>1
  <2>2. ASSUME NEW c \in Calls, Run(c), next' # next PROVE Lowering(k)
    <3>1. HasLock(c) /\ asked[c] \in Requests /\ ~RejectedAtOnce(asked[c])
      BY <2>2 DEF Run, Reserve, ReserveAt, ReserveAtRefused, AdvanceToAtLeast, SetNext,
                  SetNextRefused, HasLock
    <3>2. asked[c].keyset \in Keysets /\ next[k] \in Nat /\ next[asked[c].keyset] \in Nat
      BY <3>1, RequestFields
    <3>3. CASE Reserve(c)
      <4>1. asked[c].n \in Nat
        BY <3>1, <3>3, RequestFields DEF Reserve, RejectedAtOnce
      <4>2. QED
        BY <3>2, <3>3, <4>1 DEF Reserve, HandOut
    <3>4. CASE ReserveAt(c)
      <4>1. asked[c].start \in Nat /\ asked[c].count \in Nat
        BY <3>1, <3>4, RequestFields DEF ReserveAt, RejectedAtOnce
      <4>2. QED
        BY <3>2, <3>4, <4>1 DEF ReserveAt, HandOut
    <3>5. CASE AdvanceToAtLeast(c)
      <4>1. asked[c].minNext \in Int
        BY <3>1, <3>5, RequestFields DEF AdvanceToAtLeast
      <4>2. QED
        BY <3>2, <3>5, <4>1 DEF AdvanceToAtLeast
    <3>6. CASE SetNext(c)
      <4>1. asked[c] \in SetNextRequests
        BY <3>1, <3>6, RequestsAssumption
        DEF SetNext, AllRequests, ReserveRequests, ReserveAtRequests, AdvanceRequests
      <4>2. asked[c].keyset # k => next'[k] = next[k]
        BY <3>2, <3>6 DEF SetNext
      <4>3. status[c] = "waiting" /\ status'[c] = "ran"
        BY <3>6 DEF SetNext, HasLock, BodyReturns
      <4>4. QED
        BY <3>2, <4>1, <4>2, <4>3
    <3>7. CASE ReserveAtRefused(c) \/ SetNextRefused(c)
      BY <2>2, <3>7 DEF ReserveAtRefused, SetNextRefused, BodyThrows
    <3>8. QED
      BY <2>2, <3>3, <3>4, <3>5, <3>6, <3>7 DEF Run
  <2>3. QED
    BY <2>1, <2>2 DEF Next, CallRejected, Call, Settle, vars
<1>2. TypeInv /\ [Next]_vars => [\A k \in Keysets : Lowering(k)]_vars
  BY <1>1
<1>3. QED
  BY <1>2, TypeInvInit, TypeInvStep, PTL DEF Spec, OnlySetNextLowers

-----------------------------------------------------------------------------
\* Every step of the locked source is a step of the bare cursor or changes
\* nothing a caller sees.
LEMMA AllocStep == TypeInv /\ [Next]_vars => [Alloc!AllocNext]_Alloc!allocVars
<1> SUFFICES ASSUME TypeInv, [Next]_vars PROVE [Alloc!AllocNext]_Alloc!allocVars
  OBVIOUS
<1> USE DEF TypeInv, TypeOK, AskedInv, InChain, Alloc!AllocNext, Alloc!allocVars, Alloc!TakeEffect,
            Alloc!Answer, Alloc!MoveTo, Alloc!Pending, Alloc!Nothing, Alloc!Refused, Alloc!Done,
            Alloc!Span, Alloc!Unacceptable, Nothing, Refused, Done, Span
<1>1. ASSUME NEW c \in Calls, NEW r \in Requests, CallRejected(c, r) PROVE Alloc!AskRefused(c)
  BY <1>1 DEF CallRejected, RejectedAtOnce, Alloc!AskRefused
<1>2. ASSUME NEW c \in Calls, NEW r \in Requests, Call(c, r) PROVE Alloc!Ask(c)
  BY <1>2 DEF Call, Alloc!Ask
<1>3. ASSUME NEW c \in Calls, Run(c) PROVE Alloc!TakeEffect(c)
  <2>1. HasLock(c) /\ asked[c] \in Requests /\ ~RejectedAtOnce(asked[c])
    BY <1>3 DEF Run, Reserve, ReserveAt, ReserveAtRefused, AdvanceToAtLeast, SetNext,
                SetNextRefused, HasLock
  <2>2. asked[c] # Nothing /\ result[c] = Nothing
    BY <2>1, RequestFields DEF HasLock
  <2>3. CASE Reserve(c)
    <3>1. asked[c].n \in Nat
      BY <2>1, <2>3, RequestFields DEF Reserve, RejectedAtOnce
    <3>2. Alloc!Reserve(c)
      BY <2>2, <2>3, <3>1 DEF Reserve, HandOut, BodyReturns, Alloc!Reserve
    <3>3. QED
      BY <3>2
  <2>4. CASE ReserveAt(c)
    <3>1. asked[c].start \in Nat /\ asked[c].count \in Nat
      BY <2>1, <2>4, RequestFields DEF ReserveAt, RejectedAtOnce
    <3>2. Alloc!ReserveAt(c)
      BY <2>2, <2>4, <3>1 DEF ReserveAt, HandOut, BodyReturns, Alloc!ReserveAt
    <3>3. QED
      BY <3>2
  <2>5. CASE AdvanceToAtLeast(c)
    <3>1. asked[c].keyset \in Keysets
      BY <2>1, RequestFields
    <3>2. next' = [next EXCEPT ![asked[c].keyset] =
                     IF asked[c].minNext > next[asked[c].keyset] THEN asked[c].minNext
                                                                 ELSE next[asked[c].keyset]]
      BY <2>5, <3>1 DEF AdvanceToAtLeast
    <3>3. Alloc!Advance(c)
      BY <2>2, <2>5, <3>2 DEF AdvanceToAtLeast, BodyReturns, Alloc!Advance
    <3>4. QED
      BY <3>3
  <2>6. CASE SetNext(c)
    <3>1. Alloc!SetNext(c)
      BY <2>2, <2>6 DEF SetNext, BodyReturns, Alloc!SetNext
    <3>2. QED
      BY <3>1
  <2>7. CASE ReserveAtRefused(c) \/ SetNextRefused(c)
    <3>1. Alloc!Unacceptable(asked[c])
      BY <2>1, <2>7, RequestFields DEF ReserveAtRefused, SetNextRefused
    <3>2. BodyThrows(c)
      BY <2>7 DEF ReserveAtRefused, SetNextRefused
    <3>3. Alloc!Refuse(c)
      BY <2>2, <3>1, <3>2 DEF BodyThrows, Alloc!Refuse
    <3>4. QED
      BY <3>3
  <2>8. QED
    BY <1>3, <2>3, <2>4, <2>5, <2>6, <2>7 DEF Run
<1>4. ASSUME NEW c \in Calls, Settle(c) PROVE UNCHANGED Alloc!allocVars
  BY <1>4 DEF Settle
<1>5. QED
  BY <1>1, <1>2, <1>3, <1>4 DEF Next, vars

\* EphemeralCounterSource implements the contract of CounterSource: behind
\* its chain of promises every call acts at one instant.
THEOREM AtomicCountersHold == Spec => AtomicCounters
<1>1. Init => Alloc!AllocInit
  BY DEF Init, Alloc!AllocInit, Nothing, Alloc!Nothing
<1>2. QED
  BY <1>1, AllocStep, TypeInvInit, TypeInvStep, PTL DEF Spec, AtomicCounters, Alloc!AllocSpec
=============================================================================
