--------------------------- MODULE WalletCounters ---------------------------
(***************************************************************************)
(* How wallet operations claim deterministic counters of one keyset        *)
(* (Wallet.addCountersToOutputTypes), report them (countersReserved), use  *)
(* them in a request to the mint, and what a restart makes of it.          *)
(*                                                                         *)
(* The counter source acts atomically (theorem AtomicCountersHold of       *)
(* CounterSource_proofs), so each of its calls is one step here; between   *)
(* two of them other operations run.  The application follows the docs: a  *)
(* handler of countersReserved saves `next`, and a restart seeds the       *)
(* source with what was saved.                                             *)
(***************************************************************************)
EXTENDS Integers, Sequences

CONSTANTS Ops,        \* wallet operations, each run at most once
          Requests,   \* the output types an operation may ask for
          Bumps,      \* arguments of counters.advanceToAtLeast
          MaxCrashes  \* bound on the number of restarts

\* An output type: counter 0 asks for automatic counters, any other counter
\* is the caller's choice.  size is the number of denominations; an output
\* type that is not deterministic has none here.
OutputTypes == [counter : Nat, size : Nat]

\* An operation has output types for what it sends and for what it keeps;
\* the counters of the first are assigned before those of the second.
Parts == {"send", "keep"}

ASSUME RequestsAssumption == Requests \subseteq [Parts -> OutputTypes]
ASSUME BumpsAssumption    == Bumps \subseteq Nat
ASSUME CrashesAssumption  == MaxCrashes \in Nat

VARIABLES cursor,    \* the source's next counter
          saved,     \* the counter the application has stored
          stage,     \* stage[o]: how far operation o has run
          asked,     \* asked[o]: its output types
          start,     \* start[o]: the first counter of each of its output types
          events,    \* reservations whose event has not been emitted yet
          crashes    \* the number of restarts so far

vars == <<cursor, saved, stage, asked, start, events, crashes>>

NoOutputs == [p \in Parts |-> [counter |-> 0, size |-> 0]]

Init ==
  /\ cursor  = 0
  /\ saved   = 0
  /\ stage   = [o \in Ops |-> "idle"]
  /\ asked   = [o \in Ops |-> NoOutputs]
  /\ start   = [o \in Ops |-> [p \in Parts |-> 0]]
  /\ events  = <<>>
  /\ crashes = 0

IsManual(ot) == ot.counter > 0 /\ ot.size > 0

End(ot) == ot.counter + ot.size

CountersNeeded(ot) == IF ot.counter = 0 THEN ot.size ELSE 0

Total(r) == CountersNeeded(r.send) + CountersNeeded(r.keep)

SomeManual(r) == IsManual(r.send) \/ IsManual(r.keep)

Overlap(r) ==
  /\ IsManual(r.send) /\ IsManual(r.keep)
  /\ r.send.counter < End(r.keep) /\ r.keep.counter < End(r.send)

\* The smallest range that holds all manual output types of r.
ManualStart(r) ==
  IF IsManual(r.send) /\ (IsManual(r.keep) => r.send.counter <= r.keep.counter)
  THEN r.send.counter ELSE r.keep.counter

ManualEnd(r) ==
  IF IsManual(r.send) /\ (IsManual(r.keep) => End(r.send) >= End(r.keep))
  THEN End(r.send) ELSE End(r.keep)

AfterClaim(r) == IF Total(r) = 0 THEN "ready" ELSE "reserving"

\* addCountersToOutputTypes up to its first await.
Begin(o, r) ==
  /\ stage[o] = "idle"
  /\ stage' = [stage EXCEPT ![o] = IF Overlap(r) THEN "failed"
                                   ELSE IF SomeManual(r) THEN "claiming"
                                   ELSE AfterClaim(r)]
  /\ asked' = [asked EXCEPT ![o] = r]
  /\ start' = [start EXCEPT ![o] = [p \in Parts |-> r[p].counter]]
  /\ UNCHANGED <<cursor, saved, events, crashes>>

\* Variant: the claim is a bump that does nothing if the cursor is past it.
ClaimByBump(o) ==
  LET r == asked[o]
  IN  /\ stage[o] = "claiming"
      /\ stage'  = [stage EXCEPT ![o] = AfterClaim(r)]
      /\ cursor' = IF ManualEnd(r) > cursor THEN ManualEnd(r) ELSE cursor
      /\ UNCHANGED <<saved, asked, start, events, crashes>>

\* reserveAt over the manual range: refused if it starts below the cursor.
\* Without automatic outputs the method returns here, and emits nothing.
Claim(o) ==
  LET r == asked[o]
  IN  /\ stage[o] = "claiming"
      /\ IF ManualStart(r) < cursor
         THEN stage' = [stage EXCEPT ![o] = "failed"] /\ cursor' = cursor
         ELSE stage' = [stage EXCEPT ![o] = AfterClaim(r)] /\ cursor' = ManualEnd(r)
      /\ UNCHANGED <<saved, asked, start, events, crashes>>

\* The counters of the automatic output types follow each other from n on.
Patched(r, n) ==
  [p \in Parts |-> IF r[p].counter > 0 THEN r[p].counter
                  ELSE IF p = "send" THEN n ELSE n + CountersNeeded(r.send)]

\* reserve for the automatic outputs.
Reserve(o) ==
  /\ stage[o] = "reserving"
  /\ cursor' = cursor + Total(asked[o])
  /\ start'  = [start EXCEPT ![o] = Patched(asked[o], cursor)]
  /\ events' = Append(events, [op |-> o, next |-> cursor + Total(asked[o])])
  /\ stage'  = [stage EXCEPT ![o] = "reserved"]
  /\ UNCHANGED <<saved, asked, crashes>>

\* Variant: the handler saves the first counter of the range.
EmitStart ==
  /\ events # <<>>
  /\ saved'  = start[Head(events).op].send
  /\ stage'  = [stage EXCEPT ![Head(events).op] = "ready"]
  /\ events' = Tail(events)
  /\ UNCHANGED <<cursor, asked, start, crashes>>

\* The continuation of the await: the event fires before the method returns.
\* Continuations run in the order in which the reservations were made.
Emit ==
  /\ events # <<>>
  /\ saved'  = Head(events).next
  /\ stage'  = [stage EXCEPT ![Head(events).op] = "ready"]
  /\ events' = Tail(events)
  /\ UNCHANGED <<cursor, asked, start, crashes>>

\* The operation derives its outputs and sends them to the mint.
Send(o) ==
  /\ stage[o] = "ready"
  /\ stage' = [stage EXCEPT ![o] = "sent"]
  /\ UNCHANGED <<cursor, saved, asked, start, events, crashes>>

\* wallet.counters.advanceToAtLeast.
AdvanceToAtLeast(n) ==
  /\ n > cursor
  /\ cursor' = n
  /\ UNCHANGED <<saved, stage, asked, start, events, crashes>>

\* The process dies and comes back with counterInit: loadCountersFromDb().
Restart ==
  /\ crashes < MaxCrashes
  /\ crashes' = crashes + 1
  /\ cursor'  = saved
  /\ events'  = <<>>
  /\ stage'   = [o \in Ops |-> IF stage[o] \in {"idle", "sent", "failed"} THEN stage[o]
                                                                         ELSE "lost"]
  /\ UNCHANGED <<saved, asked, start>>

Next == \/ \E o \in Ops : (\E r \in Requests : Begin(o, r)) \/ Claim(o) \/ Reserve(o) \/ Send(o)
        \/ Emit
        \/ \E n \in Bumps : AdvanceToAtLeast(n)
        \/ Restart

Spec == Init /\ [][Next]_vars
-----------------------------------------------------------------------------
Stages == {"idle", "claiming", "reserving", "reserved", "ready", "sent", "failed", "lost"}

\* Every variable stays in its domain.
TypeOK ==
  /\ cursor  \in Nat
  /\ saved   \in Nat
  /\ stage   \in [Ops -> Stages]
  /\ asked   \in [Ops -> [Parts -> OutputTypes]]
  /\ start   \in [Ops -> [Parts -> Nat]]
  /\ events  \in Seq([op : Ops, next : Nat])
  /\ crashes \in Nat

\* The counters of one part of operation o.
Counters(o, p) == start[o][p] .. start[o][p] + asked[o][p].size - 1

\* No operation so far has asked for counters of the caller's choice.
AllAutomatic == \A o \in Ops : ~SomeManual(asked[o])

\* No counter, hence no blinded message and no secret, is used for two
\* outputs sent to the mint: not within an operation, not by two operations
\* that interleave and, with automatic counters, not by an operation before
\* and one after a restart.
NoCounterReuse ==
  AllAutomatic \/ crashes = 0 =>
    \A o1, o2 \in Ops : \A p1, p2 \in Parts :
      /\ stage[o1] = "sent" /\ stage[o2] = "sent"
      /\ o1 # o2 \/ p1 # p2
      => Counters(o1, p1) \cap Counters(o2, p2) = {}

\* A counter that may be in use at the mint lies below what a restart would
\* resume from.
InUseIsSaved ==
  \A o \in Ops : \A p \in Parts :
    stage[o] \in {"ready", "sent"} => \A n \in Counters(o, p) : n < saved

\* With automatic counters, every counter in use has been saved.
AutomaticIsSaved == AllAutomatic => InUseIsSaved

\* What is saved never moves backwards, although each event overwrites it.
SavedNeverDecreases == [][saved' >= saved]_vars

\* What a restart resumes from is never ahead of the source itself.
SavedBelowCursor == saved <= cursor
=============================================================================
