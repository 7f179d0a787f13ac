-------------------------- MODULE CounterAllocator --------------------------
(***************************************************************************)
(* What a CounterSource promises (the interface of CounterSource.ts):      *)
(* every call takes effect at one instant between its invocation and its   *)
(* return, a reservation hands out counters at or above the cursor and     *)
(* moves the cursor past them, advanceToAtLeast never lowers the cursor,   *)
(* and only setNext may.  No lock and no queue appear here.                *)
(***************************************************************************)
EXTENDS Integers

CONSTANTS Keysets,  \* keyset identifiers
          Calls,    \* method invocations, each made at most once
          Requests, \* the requests a caller may make
          Initial   \* constructor argument: the cursor of each keyset

VARIABLES asked,    \* asked[c]: the request of call c, or Nothing
          cursor,   \* cursor[k]: the next free counter of keyset k
          answer    \* answer[c]: what call c took effect with, or Nothing

allocVars == <<asked, cursor, answer>>

Nothing == [op |-> "none"]
Refused == [op |-> "refused"]
Done    == [op |-> "done"]
Span(s, n) == [op |-> "range", start |-> s, count |-> n]

AllocInit ==
  /\ asked  = [c \in Calls |-> Nothing]
  /\ cursor = Initial
  /\ answer = [c \in Calls |-> Nothing]

Pending(c) == asked[c] # Nothing /\ answer[c] = Nothing

Answer(c, a) == answer' = [answer EXCEPT ![c] = a]

MoveTo(k, n) == cursor' = [cursor EXCEPT ![k] = n]

\* A caller makes a request.
Ask(c) ==
  /\ asked[c] = Nothing
  /\ \E r \in Requests : asked' = [asked EXCEPT ![c] = r]
  /\ UNCHANGED <<cursor, answer>>

\* reserve(n): the n counters from the cursor on; n = 0 reports the cursor.
Reserve(c) ==
  LET r == asked[c]
  IN  /\ Pending(c) /\ r.op = "reserve" /\ r.n >= 0
      /\ Answer(c, Span(cursor[r.keyset], r.n))
      /\ MoveTo(r.keyset, cursor[r.keyset] + r.n)
      /\ UNCHANGED asked

\* reserveAt(start, count): the caller's range, if none of it was handed out.
ReserveAt(c) ==
  LET r == asked[c]
  IN  /\ Pending(c) /\ r.op = "reserveAt" /\ r.count >= 0
      /\ r.start >= cursor[r.keyset]
      /\ Answer(c, Span(r.start, r.count))
      /\ MoveTo(r.keyset, r.start + r.count)
      /\ UNCHANGED asked

\* advanceToAtLeast(minNext): a monotonic bump.
Advance(c) ==
  LET r == asked[c]
  IN  /\ Pending(c) /\ r.op = "advance"
      /\ Answer(c, Done)
      /\ MoveTo(r.keyset, IF r.minNext > cursor[r.keyset] THEN r.minNext
                                                          ELSE cursor[r.keyset])
      /\ UNCHANGED asked

\* setNext(next): a hard set.
SetNext(c) ==
  LET r == asked[c]
  IN  /\ Pending(c) /\ r.op = "setNext" /\ r.next >= 0
      /\ Answer(c, Done)
      /\ MoveTo(r.keyset, r.next)
      /\ UNCHANGED asked

\* A request for negative counters, or for counters below the cursor.
Unacceptable(r) ==
  \/ r.op = "reserve"   /\ r.n < 0
  \/ r.op = "reserveAt" /\ (r.start < 0 \/ r.count < 0 \/ r.start < cursor[r.keyset])
  \/ r.op = "setNext"   /\ r.next < 0

\* A refusal moves nothing.
Refuse(c) ==
  /\ Pending(c) /\ Unacceptable(asked[c])
  /\ Answer(c, Refused)
  /\ UNCHANGED <<asked, cursor>>

\* A caller whose request is refused before it is queued learns so at once.
AskRefused(c) ==
  /\ asked[c] = Nothing
  /\ \E r \in Requests :
       /\ Unacceptable(r)
       /\ asked' = [asked EXCEPT ![c] = r]
  /\ Answer(c, Refused)
  /\ UNCHANGED cursor

TakeEffect(c) ==
  Reserve(c) \/ ReserveAt(c) \/ Advance(c) \/ SetNext(c) \/ Refuse(c)

AllocNext == \E c \in Calls : Ask(c) \/ AskRefused(c) \/ TakeEffect(c)

AllocSpec == AllocInit /\ [][AllocNext]_allocVars
=============================================================================
