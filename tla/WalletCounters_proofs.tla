----------------------- MODULE WalletCounters_proofs -----------------------
(***************************************************************************)
(* Proofs about WalletCounters, for any operations and output types.       *)
(*                                                                         *)
(* The argument is a ledger: every range an operation holds ends at or     *)
(* below the cursor and is apart from every other held range; a restart    *)
(* keeps this true because the ranges of operations that survive it end at *)
(* or below the saved counter, which holds as long as every reservation is *)
(* reported, that is as long as no caller has chosen counters.             *)
(***************************************************************************)
EXTENDS WalletCounters, SequenceTheorems, TLAPS

\* Output types and requests are made of natural numbers.
LEMMA RequestTypes ==
  ASSUME NEW r \in [Parts -> OutputTypes]
  PROVE  /\ r.send.counter \in Nat /\ r.send.size \in Nat
         /\ r.keep.counter \in Nat /\ r.keep.size \in Nat
         /\ CountersNeeded(r.send) \in Nat /\ CountersNeeded(r.keep) \in Nat
         /\ Total(r) \in Nat /\ ManualEnd(r) \in Nat /\ ManualStart(r) \in Nat
BY DEF Parts, OutputTypes, CountersNeeded, Total, ManualEnd, ManualStart, End, IsManual

LEMMA TypeInit == Init => TypeOK
BY DEF Init, TypeOK, Stages, OutputTypes, NoOutputs

LEMMA TypeStep == TypeOK /\ [Next]_vars => TypeOK'
<1> SUFFICES ASSUME TypeOK, [Next]_vars PROVE TypeOK'
  OBVIOUS
<1> USE DEF TypeOK, Stages
<1>1. ASSUME NEW o \in Ops, NEW r \in Requests, Begin(o, r) PROVE TypeOK'
  <2>1. r \in [Parts -> OutputTypes]
    BY RequestsAssumption
  <2>2. [p \in Parts |-> r[p].counter] \in [Parts -> Nat]
    BY <2>1 DEF OutputTypes
  <2>3. QED
    BY <1>1, <2>1, <2>2 DEF Begin, AfterClaim
<1>2. ASSUME NEW o \in Ops, Claim(o) PROVE TypeOK'
  <2>1. ManualEnd(asked[o]) \in Nat
    BY RequestTypes
  <2>2. QED
    BY <1>2, <2>1 DEF Claim, AfterClaim
<1>3. ASSUME NEW o \in Ops, Reserve(o) PROVE TypeOK'
  <2>0. asked[o] \in [Parts -> OutputTypes] /\ CountersNeeded(asked[o].send) \in Nat
    BY RequestTypes
  <2>1. Total(asked[o]) \in Nat /\ Patched(asked[o], cursor) \in [Parts -> Nat]
    BY <2>0, RequestTypes DEF Patched, OutputTypes
  <2>2. cursor + Total(asked[o]) \in Nat
    BY <2>1
  <2>3. events' \in Seq([op : Ops, next : Nat])
    BY <1>3, <2>2 DEF Reserve
  <2>4. QED
    BY <1>3, <2>1, <2>2, <2>3 DEF Reserve
<1>4. CASE Emit
  <2>1. Head(events) \in [op : Ops, next : Nat] /\ Tail(events) \in Seq([op : Ops, next : Nat])
    BY <1>4, HeadTailProperties DEF Emit
  <2>2. QED
    BY <1>4, <2>1 DEF Emit
<1>5. ASSUME NEW o \in Ops, Send(o) PROVE TypeOK'
  BY <1>5 DEF Send
<1>6. ASSUME NEW n \in Bumps, AdvanceToAtLeast(n) PROVE TypeOK'
  BY <1>6, BumpsAssumption DEF AdvanceToAtLeast
<1>7. CASE Restart
  BY <1>7 DEF Restart
<1>8. CASE UNCHANGED vars
  BY <1>8 DEF vars
<1>9. QED
  BY <1>1, <1>2, <1>3, <1>4, <1>5, <1>6, <1>7, <1>8 DEF Next

-----------------------------------------------------------------------------
Held(o, i) == \/ stage[o] \in {"reserved", "ready", "sent"}
              \/ stage[o] = "reserving" /\ IsManual(asked[o][i])

Size(o, i) == asked[o][i].size
Stop(o, i) == start[o][i] + asked[o][i].size

\* The range of one output type ends before the other's begins.
Apart(o, i, p, j) == Stop(o, i) <= start[p][j] \/ Stop(p, j) <= start[o][i]

\* What an operation that still waits for counters has asked.
WaitingInv ==
  \A o \in Ops :
    stage[o] \in {"claiming", "reserving"} =>
      /\ asked[o] \in Requests /\ ~Overlap(asked[o])
      /\ start[o] = [p \in Parts |-> asked[o][p].counter]
      /\ stage[o] = "claiming" => SomeManual(asked[o])

\* Held ranges end below the cursor and are apart.
LedgerInv ==
  /\ \A o \in Ops : \A i \in Parts :
       Held(o, i) /\ Size(o, i) > 0 => Stop(o, i) <= cursor
  /\ \A o, p \in Ops : \A i, j \in Parts :
       /\ Held(o, i) /\ Size(o, i) > 0
       /\ Held(p, j) /\ Size(p, j) > 0
       /\ o # p \/ i # j
       => Apart(o, i, p, j)

\* Events to come are those of the reserved operations, in cursor order.
EventInv ==
  /\ \A i \in 1..Len(events) :
       LET e == events[i]
       IN  /\ stage[e.op] = "reserved"
           /\ saved <= e.next /\ e.next <= cursor
           /\ \A j \in Parts : Size(e.op, j) > 0 => Stop(e.op, j) <= e.next
  /\ \A i, j \in 1..Len(events) : i < j =>
       events[i].op # events[j].op /\ events[i].next <= events[j].next
  /\ saved <= cursor

\* The ranges of the operations a restart leaves in place are saved.
SavedInv ==
  \A o \in Ops : \A i \in Parts :
    stage[o] \in {"ready", "sent"} /\ Size(o, i) > 0 => Stop(o, i) <= saved

Inv == TypeOK /\ WaitingInv /\ LedgerInv /\ EventInv /\ (AllAutomatic => SavedInv)

LEMMA InvInit == Init => Inv
BY TypeInit DEF Init, Inv, WaitingInv, LedgerInv, EventInv, SavedInv, Held

\* What the type invariant says of one range and of one event.
LEMMA RangeTypes ==
  ASSUME TypeOK, NEW o \in Ops, NEW p \in Parts
  PROVE  /\ start[o][p] \in Nat /\ Size(o, p) \in Nat /\ Stop(o, p) \in Nat
         /\ asked[o] \in [Parts -> OutputTypes] /\ asked[o][p] \in OutputTypes
         /\ cursor \in Nat /\ saved \in Nat
BY DEF TypeOK, Size, Stop, OutputTypes

LEMMA EventTypes ==
  ASSUME TypeOK, NEW i \in 1..Len(events)
  PROVE  events[i].op \in Ops /\ events[i].next \in Nat
<1>1. events \in Seq([op : Ops, next : Nat])
  BY DEF TypeOK
<1>2. events[i] \in [op : Ops, next : Nat]
  BY <1>1, ElementOfSeq
<1>3. QED
  BY <1>2

\* A step keeps the events' invariant if it emits and reserves nothing, and
\* leaves the operations of the events alone.
LEMMA EventsKept ==
  ASSUME Inv, TypeOK', events' = events, saved' = saved, cursor <= cursor',
         \A o \in Ops : stage[o] = "reserved" =>
           stage'[o] = "reserved" /\ asked'[o] = asked[o] /\ start'[o] = start[o]
  PROVE  EventInv'
<1>1. EventInv /\ TypeOK
  BY DEF Inv
<1>2. cursor \in Nat /\ cursor' \in Nat /\ saved \in Nat
  BY <1>1 DEF TypeOK
<1>3. saved' <= cursor'
  BY <1>1, <1>2 DEF EventInv
<1>4. ASSUME NEW i \in 1..Len(events)
      PROVE  /\ stage'[events[i].op] = "reserved"
             /\ saved <= events[i].next /\ events[i].next <= cursor'
             /\ \A j \in Parts : Size(events[i].op, j)' > 0 =>
                                 Stop(events[i].op, j)' <= events[i].next
  <2>1. /\ stage[events[i].op] = "reserved"
        /\ saved <= events[i].next /\ events[i].next <= cursor
        /\ \A j \in Parts : Size(events[i].op, j) > 0 =>
                            Stop(events[i].op, j) <= events[i].next
    BY <1>1 DEF EventInv
  <2>2. events[i].op \in Ops /\ events[i].next \in Nat
    BY <1>1, EventTypes
  <2>3. events[i].next <= cursor'
    BY <1>2, <2>1, <2>2
  <2>4. QED
    BY <2>1, <2>2, <2>3 DEF Size, Stop
<1>5. \A i, j \in 1..Len(events) : i < j =>
        events[i].op # events[j].op /\ events[i].next <= events[j].next
  BY <1>1 DEF EventInv
<1>6. QED
  BY <1>3, <1>4, <1>5 DEF EventInv

\* An operation starts: it holds nothing yet, or nothing at all.
LEMMA BeginStep ==
  ASSUME Inv, TypeOK', NEW o \in Ops, NEW r \in Requests, Begin(o, r),
         AllAutomatic' => AllAutomatic
  PROVE  Inv'
<1>0. TypeOK /\ WaitingInv /\ LedgerInv /\ (AllAutomatic => SavedInv) /\ cursor \in Nat
  BY DEF Inv, TypeOK
<1>1. /\ stage[o] = "idle" /\ asked'[o] = r /\ start'[o] = [p \in Parts |-> r[p].counter]
      /\ \A p \in Ops : p # o => /\ stage'[p] = stage[p] /\ asked'[p] = asked[p]
                                 /\ start'[p] = start[p]
      /\ cursor' = cursor /\ saved' = saved /\ events' = events
  BY <1>0 DEF Begin, TypeOK
<1>2. r \in [Parts -> OutputTypes]
  BY RequestsAssumption
<1>3. /\ stage'[o] = "claiming" => ~Overlap(r) /\ SomeManual(r)
      /\ stage'[o] = "reserving" => ~SomeManual(r) /\ ~Overlap(r)
      /\ stage'[o] = "ready" => r.send.size = 0 /\ r.keep.size = 0
      /\ stage'[o] \in {"claiming", "reserving", "ready", "failed"}
  <2>1. stage'[o] = IF Overlap(r) THEN "failed"
                    ELSE IF SomeManual(r) THEN "claiming" ELSE AfterClaim(r)
    BY <1>0 DEF Begin, TypeOK
  <2>2. QED
    BY <1>2, <2>1, RequestTypes
       DEF AfterClaim, Total, CountersNeeded, SomeManual, IsManual, Overlap
<1>4. \A p \in Ops : \A i \in Parts : Held(p, i)' /\ Size(p, i)' > 0 =>
        p # o /\ Held(p, i) /\ Size(p, i) > 0 /\ Stop(p, i)' = Stop(p, i)
  BY <1>1, <1>3 DEF Held, Size, Stop, SomeManual, Parts
<1>5. WaitingInv'
  BY <1>0, <1>1, <1>3 DEF WaitingInv
<1>6. LedgerInv'
  BY <1>0, <1>1, <1>4 DEF LedgerInv, Apart
<1>7. EventInv'
  BY <1>0, <1>1, EventsKept
<1>8. AllAutomatic => SavedInv'
  BY <1>0, <1>1, <1>3 DEF SavedInv, Size, Stop, Parts
<1>9. QED
  BY <1>5, <1>6, <1>7, <1>8 DEF Inv

\* reserveAt takes the manual ranges at or above the cursor.
LEMMA ClaimStep ==
  ASSUME Inv, TypeOK', NEW o \in Ops, Claim(o),
         AllAutomatic' => AllAutomatic
  PROVE  Inv'
<1> DEFINE r == asked[o]
<1>0. /\ TypeOK /\ WaitingInv /\ LedgerInv /\ (AllAutomatic => SavedInv)
      /\ cursor \in Nat /\ cursor' \in Nat
  BY DEF Inv, TypeOK
<1>1. /\ stage[o] = "claiming" /\ r \in Requests /\ ~Overlap(r) /\ SomeManual(r)
      /\ start[o] = [p \in Parts |-> r[p].counter]
      /\ \A p \in Ops : p # o => stage'[p] = stage[p]
      /\ asked' = asked /\ start' = start /\ saved' = saved /\ events' = events
  BY <1>0 DEF Claim, WaitingInv, TypeOK
<1>2. r \in [Parts -> OutputTypes]
  BY RequestsAssumption, <1>1
<1>3. ManualStart(r) \in Nat /\ ManualEnd(r) \in Nat
  BY <1>2, RequestTypes
<1>4. CASE ManualStart(r) < cursor
  <2>1. stage'[o] = "failed" /\ cursor' = cursor
    BY <1>0, <1>4 DEF Claim, TypeOK
  <2>2. \A p \in Ops : \A i \in Parts : Held(p, i)' => Held(p, i) /\ p # o
    BY <1>1, <2>1 DEF Held
  <2>3. WaitingInv'
    BY <1>0, <1>1, <2>1 DEF WaitingInv
  <2>4. LedgerInv'
    BY <1>0, <1>1, <2>1, <2>2 DEF LedgerInv, Size, Stop, Apart
  <2>5. EventInv'
    BY <1>0, <1>1, <2>1, EventsKept
  <2>6. AllAutomatic => SavedInv'
    BY <1>1 DEF AllAutomatic
  <2>7. QED
    BY <2>3, <2>4, <2>5, <2>6 DEF Inv
<1>5. CASE ManualStart(r) >= cursor
  <2>1. /\ cursor' = ManualEnd(r) /\ stage'[o] \in {"ready", "reserving"}
        /\ stage'[o] = "ready" => Total(r) = 0
    BY <1>0, <1>3, <1>5 DEF Claim, AfterClaim, TypeOK
  <2>2. ManualStart(r) <= ManualEnd(r)
    BY <1>1, <1>2 DEF ManualStart, ManualEnd, SomeManual, IsManual, End, OutputTypes, Parts
  <2>3. \A i \in Parts : IsManual(r[i]) => /\ ManualStart(r) <= r[i].counter
                                           /\ End(r[i]) <= ManualEnd(r)
    <3>1. IsManual(r["send"]) => /\ ManualStart(r) <= r["send"].counter
                                 /\ End(r["send"]) <= ManualEnd(r)
      BY <1>2 DEF ManualStart, ManualEnd, End, OutputTypes, Parts
    <3>2. IsManual(r["keep"]) => /\ ManualStart(r) <= r["keep"].counter
                                 /\ End(r["keep"]) <= ManualEnd(r)
      BY <1>2 DEF ManualStart, ManualEnd, End, OutputTypes, Parts
    <3>3. QED
      BY <3>1, <3>2 DEF Parts
  <2>4. \A i \in Parts : Held(o, i)' /\ Size(o, i)' > 0 => IsManual(r[i])
    <3>1. stage'[o] = "ready" => \A i \in Parts : r[i].size > 0 => r[i].counter > 0
      BY <1>2, <2>1, RequestTypes DEF Total, CountersNeeded, Parts, OutputTypes
    <3>2. QED
      BY <1>1, <2>1, <3>1 DEF Held, Size, IsManual
  <2>5. \A p \in Ops : \A i \in Parts : Held(p, i)' /\ p # o => Held(p, i)
    BY <1>1 DEF Held
  <2>6. WaitingInv'
    BY <1>0, <1>1, <2>1 DEF WaitingInv
  <2>7. \A i \in Parts : Stop(o, i)' = End(r[i]) /\ start'[o][i] = r[i].counter
    BY <1>1 DEF Stop, End
  <2>8. \A p \in Ops : \A i \in Parts : Held(p, i)' /\ Size(p, i)' > 0 =>
          Stop(p, i)' <= cursor'
    <3>1. ASSUME NEW p \in Ops, NEW i \in Parts, Held(p, i)', Size(p, i)' > 0, p # o
          PROVE  Stop(p, i)' <= cursor'
      <4>1. Stop(p, i) <= cursor
        BY <1>0, <1>1, <2>5, <3>1 DEF LedgerInv, Size
      <4>2. Stop(p, i)' = Stop(p, i) /\ Stop(p, i) \in Nat
        BY <1>0, <1>1, RangeTypes DEF Stop
      <4>3. QED
        BY <1>0, <1>3, <1>5, <2>1, <2>2, <4>1, <4>2
    <3>2. ASSUME NEW i \in Parts, Held(o, i)', Size(o, i)' > 0
          PROVE  Stop(o, i)' <= cursor'
      BY <2>1, <2>3, <2>4, <2>7, <3>2
    <3>3. QED
      BY <3>1, <3>2
  <2>9. LedgerInv'
    <3>1. ASSUME NEW p \in Ops, NEW i \in Parts, NEW j \in Parts, p # o,
                 Held(p, i)', Size(p, i)' > 0, Held(o, j)', Size(o, j)' > 0
          PROVE  Apart(p, i, o, j)' /\ Apart(o, j, p, i)'
      <4>1. Stop(p, i) <= cursor
        BY <1>0, <1>1, <2>5, <3>1 DEF LedgerInv, Size
      <4>2. Stop(p, i)' = Stop(p, i) /\ Stop(p, i) \in Nat
        BY <1>0, <1>1, RangeTypes DEF Stop
      <4>3. ManualStart(r) <= start'[o][j] /\ start'[o][j] \in Nat
        BY <1>0, <1>1, <2>3, <2>4, <2>7, <3>1, RangeTypes
      <4>4. Stop(p, i)' <= start'[o][j]
        BY <1>0, <1>3, <1>5, <4>1, <4>2, <4>3
      <4>5. QED
        BY <4>4 DEF Apart
    <3>2. ASSUME NEW i \in Parts, NEW j \in Parts, i # j,
                 Held(o, i)', Size(o, i)' > 0, Held(o, j)', Size(o, j)' > 0
          PROVE  Apart(o, i, o, j)'
      <4>1. IsManual(r[i]) /\ IsManual(r[j])
        BY <2>4, <3>2
      <4>2. {i, j} = {"send", "keep"}
        BY <3>2 DEF Parts
      <4>3. r.send.counter \in Nat /\ r.keep.counter \in Nat
            /\ End(r.send) \in Nat /\ End(r.keep) \in Nat
        BY <1>2, RequestTypes DEF End
      <4>4. End(r[i]) <= r[j].counter \/ End(r[j]) <= r[i].counter
        BY <1>1, <4>1, <4>2, <4>3 DEF Overlap
      <4>5. QED
        BY <2>7, <4>4 DEF Apart
    <3>3. ASSUME NEW p \in Ops, NEW q \in Ops, NEW i \in Parts, NEW j \in Parts,
                 p # o, q # o, p # q \/ i # j,
                 Held(p, i)', Size(p, i)' > 0, Held(q, j)', Size(q, j)' > 0
          PROVE  Apart(p, i, q, j)'
      BY <1>0, <1>1, <2>5, <3>3 DEF LedgerInv, Apart, Size, Stop
    <3>4. ASSUME NEW p \in Ops, NEW q \in Ops, NEW i \in Parts, NEW j \in Parts,
                 p # q \/ i # j,
                 Held(p, i)', Size(p, i)' > 0, Held(q, j)', Size(q, j)' > 0
          PROVE  Apart(p, i, q, j)'
      BY <3>1, <3>2, <3>3, <3>4
    <3>5. QED
      BY <2>8, <3>4 DEF LedgerInv
  <2>10. EventInv'
    <3>1. cursor <= cursor'
      BY <1>0, <1>3, <1>5, <2>1, <2>2
    <3>2. QED
      BY <1>0, <1>1, <3>1, EventsKept
  <2>11. AllAutomatic => SavedInv'
    BY <1>1 DEF AllAutomatic
  <2>12. QED
    BY <2>6, <2>9, <2>10, <2>11 DEF Inv
<1>6. QED
  BY <1>0, <1>3, <1>4, <1>5

\* reserve takes the range at the cursor, for all automatic output types.
LEMMA ReserveStep ==
  ASSUME Inv, TypeOK', NEW o \in Ops, Reserve(o),
         AllAutomatic' => AllAutomatic
  PROVE  Inv'
<1> DEFINE r == asked[o]
<1>0. /\ TypeOK /\ WaitingInv /\ LedgerInv /\ EventInv /\ (AllAutomatic => SavedInv)
      /\ cursor \in Nat /\ cursor' \in Nat /\ saved \in Nat
  BY DEF Inv, TypeOK
<1>1. /\ stage[o] = "reserving" /\ ~Overlap(r)
      /\ start[o] = [p \in Parts |-> r[p].counter]
      /\ stage'[o] = "reserved" /\ start'[o] = Patched(r, cursor)
      /\ \A p \in Ops : p # o => stage'[p] = stage[p] /\ start'[p] = start[p]
      /\ asked' = asked /\ saved' = saved /\ cursor' = cursor + Total(r)
      /\ events' = Append(events, [op |-> o, next |-> cursor'])
  BY <1>0 DEF Reserve, WaitingInv, TypeOK
<1>2. /\ r \in [Parts -> OutputTypes] /\ Total(r) \in Nat
      /\ CountersNeeded(r.send) \in Nat /\ CountersNeeded(r.keep) \in Nat
  BY <1>0, RequestTypes DEF TypeOK
<1>3. cursor <= cursor'
  BY <1>0, <1>1, <1>2
\* A manual range stays where it was; an automatic one is at the old cursor.
<1>4. ASSUME NEW i \in Parts, Size(o, i) > 0
      PROVE  \/ /\ IsManual(r[i]) /\ Held(o, i)
                /\ start'[o][i] = start[o][i] /\ Stop(o, i)' = Stop(o, i)
             \/ /\ ~IsManual(r[i])
                /\ cursor <= start'[o][i] /\ Stop(o, i)' <= cursor'
  <2>1. CASE r[i].counter > 0
    <3>1. start'[o][i] = r[i].counter
      BY <1>1, <2>1 DEF Patched
    <3>2. QED
      BY <1>1, <1>4, <2>1, <3>1 DEF Held, IsManual, Size, Stop
  <2>2. CASE ~(r[i].counter > 0)
    <3>1. r[i].counter = 0 /\ r[i].size \in Nat
      BY <1>2, <2>2 DEF OutputTypes
    <3>2. CASE i = "send"
      <4>1. start'[o][i] = cursor /\ CountersNeeded(r.send) = r[i].size
        BY <1>1, <2>2, <3>1, <3>2 DEF Patched, CountersNeeded
      <4>2. Stop(o, i)' = cursor + CountersNeeded(r.send)
        BY <1>1, <4>1 DEF Stop
      <4>3. QED
        BY <1>0, <1>1, <1>2, <2>2, <4>1, <4>2 DEF IsManual, Total
    <3>3. CASE i = "keep"
      <4>1. /\ start'[o][i] = cursor + CountersNeeded(r.send)
            /\ CountersNeeded(r.keep) = r[i].size
        BY <1>1, <2>2, <3>1, <3>3 DEF Patched, CountersNeeded
      <4>2. Stop(o, i)' = cursor + CountersNeeded(r.send) + CountersNeeded(r.keep)
        BY <1>1, <4>1 DEF Stop
      <4>3. QED
        BY <1>0, <1>1, <1>2, <2>2, <4>1, <4>2 DEF IsManual, Total
    <3>4. QED
      BY <3>2, <3>3 DEF Parts
  <2>3. QED
    BY <2>1, <2>2
<1>5. \A p \in Ops : \A i \in Parts : p # o /\ Held(p, i)' =>
        /\ Held(p, i) /\ start'[p][i] = start[p][i] /\ Stop(p, i)' = Stop(p, i)
  BY <1>1 DEF Held, Stop
<1>6. \A p \in Ops : \A i \in Parts : Size(p, i)' = Size(p, i)
  BY <1>1 DEF Size
<1>7. WaitingInv'
  BY <1>0, <1>1 DEF WaitingInv
\* A held range is an old one, or lies between the two cursors.
<1>8. ASSUME NEW p \in Ops, NEW i \in Parts, Held(p, i)', Size(p, i)' > 0
      PROVE  \/ /\ Held(p, i) /\ Stop(p, i) <= cursor
                /\ start'[p][i] = start[p][i] /\ Stop(p, i)' = Stop(p, i)
             \/ p = o /\ ~IsManual(r[i]) /\ cursor <= start'[p][i] /\ Stop(p, i)' <= cursor'
  BY <1>0, <1>4, <1>5, <1>6, <1>8 DEF LedgerInv
<1>9. \A p \in Ops : \A i \in Parts : Held(p, i)' /\ Size(p, i)' > 0 => Stop(p, i)' <= cursor'
  <2>1. SUFFICES ASSUME NEW p \in Ops, NEW i \in Parts, Held(p, i)', Size(p, i)' > 0
                 PROVE  Stop(p, i)' <= cursor'
    OBVIOUS
  <2>2. Stop(p, i) \in Nat
    BY <1>0, RangeTypes
  <2>3. QED
    BY <1>0, <1>3, <1>8, <2>1, <2>2
<1>10. \A p, q \in Ops : \A i, j \in Parts :
         /\ Held(p, i)' /\ Size(p, i)' > 0
         /\ Held(q, j)' /\ Size(q, j)' > 0
         /\ p # q \/ i # j
         => Apart(p, i, q, j)'
  <2>1. SUFFICES ASSUME NEW p \in Ops, NEW q \in Ops, NEW i \in Parts, NEW j \in Parts,
                        Held(p, i)', Size(p, i)' > 0,
                        Held(q, j)', Size(q, j)' > 0, p # q \/ i # j
                 PROVE  Apart(p, i, q, j)'
    OBVIOUS
  <2>2. /\ Stop(p, i) \in Nat /\ Stop(q, j) \in Nat
        /\ start'[p][i] \in Nat /\ start'[q][j] \in Nat
    BY <1>0, RangeTypes DEF TypeOK
  <2>3. CASE /\ Held(p, i) /\ Stop(p, i) <= cursor
             /\ start'[p][i] = start[p][i] /\ Stop(p, i)' = Stop(p, i)
    <3>1. CASE /\ Held(q, j) /\ start'[q][j] = start[q][j] /\ Stop(q, j)' = Stop(q, j)
      <4>1. Apart(p, i, q, j)
        BY <1>0, <1>6, <2>1, <2>3, <3>1 DEF LedgerInv
      <4>2. QED
        BY <2>3, <3>1, <4>1 DEF Apart
    <3>2. CASE cursor <= start'[q][j]
      <4>1. Stop(p, i)' <= start'[q][j]
        BY <1>0, <2>2, <2>3, <3>2
      <4>2. QED
        BY <4>1 DEF Apart
    <3>3. QED
      BY <1>8, <2>1, <3>1, <3>2
  <2>4. CASE p = o /\ ~IsManual(r[i]) /\ cursor <= start'[p][i]
    <3>1. CASE /\ Held(q, j) /\ Stop(q, j) <= cursor /\ Stop(q, j)' = Stop(q, j)
      <4>1. Stop(q, j)' <= start'[p][i]
        BY <1>0, <2>2, <2>4, <3>1
      <4>2. QED
        BY <4>1 DEF Apart
    <3>2. CASE q = o /\ ~IsManual(r[j])
      <4>1. p = q /\ {i, j} = {"send", "keep"}
        BY <2>1, <2>4, <3>2 DEF Parts
      <4>2. Stop(o, "send")' <= start'[o]["keep"]
        <5>1. /\ r["send"].counter = 0 /\ r["keep"].counter = 0
              /\ r["send"].size \in Nat
          BY <1>2, <1>6, <2>1, <2>4, <3>2, <4>1 DEF IsManual, OutputTypes, Size, Parts
        <5>2. start'[o]["send"] = cursor
          BY <1>1, <5>1 DEF Patched, Parts
        <5>3. start'[o]["keep"] = cursor + r["send"].size
          BY <1>1, <5>1 DEF Patched, Parts, CountersNeeded
        <5>4. Stop(o, "send")' = cursor + r["send"].size
          BY <1>1, <5>2 DEF Stop
        <5>5. QED
          BY <1>0, <5>1, <5>3, <5>4
      <4>3. QED
        BY <2>4, <3>2, <4>1, <4>2 DEF Apart
    <3>3. QED
      BY <1>8, <2>1, <3>1, <3>2
  <2>5. QED
    BY <1>8, <2>1, <2>3, <2>4
<1>11. LedgerInv'
  BY <1>9, <1>10 DEF LedgerInv
<1>12. EventInv'
  <2>1. Size(o, "send") > 0 => Stop(o, "send")' <= cursor'
    BY <1>1, <1>6, <1>9 DEF Held, Parts
  <2>2. Size(o, "keep") > 0 => Stop(o, "keep")' <= cursor'
    BY <1>1, <1>6, <1>9 DEF Held, Parts
  <2>3. events \in Seq([op : Ops, next : Nat]) /\ [op |-> o, next |-> cursor'] \in [op : Ops, next : Nat]
    BY <1>0 DEF TypeOK
  <2>4. /\ Len(events') = Len(events) + 1 /\ Len(events) \in Nat
        /\ \A i \in 1..Len(events) : events'[i] = events[i]
        /\ events'[Len(events) + 1] = [op |-> o, next |-> cursor']
    BY <1>1, <2>3, AppendProperties, LenProperties
  <2>5. ASSUME NEW i \in 1..Len(events)
        PROVE  /\ events[i].op \in Ops /\ events[i].op # o
               /\ stage'[events[i].op] = "reserved"
               /\ saved <= events[i].next /\ events[i].next <= cursor'
               /\ \A j \in Parts : Size(events[i].op, j)' > 0 =>
                                   Stop(events[i].op, j)' <= events[i].next
    <3>1. /\ stage[events[i].op] = "reserved"
          /\ saved <= events[i].next /\ events[i].next <= cursor
          /\ \A j \in Parts : Size(events[i].op, j) > 0 =>
                              Stop(events[i].op, j) <= events[i].next
      BY <1>0 DEF EventInv
    <3>2. events[i].op \in Ops /\ events[i].next \in Nat /\ events[i].op # o
      BY <1>0, <1>1, <3>1, EventTypes
    <3>3. events[i].next <= cursor'
      BY <1>0, <1>3, <3>1, <3>2
    <3>4. \A j \in Parts : Stop(events[i].op, j)' = Stop(events[i].op, j)
      BY <1>1, <3>2 DEF Stop
    <3>5. QED
      BY <1>1, <1>6, <3>1, <3>2, <3>3, <3>4
  <2>6. saved' <= cursor'
    BY <1>0, <1>1, <1>3 DEF EventInv
  <2>7. ASSUME NEW i \in 1..Len(events')
        PROVE  (/\ stage[events[i].op] = "reserved"
                /\ saved <= events[i].next /\ events[i].next <= cursor
                /\ \A j \in Parts : Size(events[i].op, j) > 0 =>
                                    Stop(events[i].op, j) <= events[i].next)'
    <3>1. i \in 1..Len(events) \/ i = Len(events) + 1
      BY <2>4, <2>7
    <3>2. CASE i \in 1..Len(events)
      <4>1. events'[i] = events[i]
        BY <2>4, <3>2
      <4>2. QED
        BY <1>1, <2>5, <3>2, <4>1 DEF Size, Stop
    <3>3. CASE i = Len(events) + 1
      <4>1. events'[i].op = o /\ events'[i].next = cursor'
        BY <2>4, <3>3
      <4>2. \A j \in Parts : Size(o, j)' > 0 => Stop(o, j)' <= cursor'
        BY <1>1, <1>9 DEF Held
      <4>3. QED
        BY <1>0, <1>1, <2>6, <4>1, <4>2 DEF Size, Stop
    <3>4. QED
      BY <3>1, <3>2, <3>3
  <2>8. \A i, j \in 1..Len(events') : i < j =>
           events'[i].op # events'[j].op /\ events'[i].next <= events'[j].next
    <3>1. SUFFICES ASSUME NEW i \in 1..Len(events'), NEW j \in 1..Len(events'), i < j
          PROVE events'[i].op # events'[j].op /\ events'[i].next <= events'[j].next
      OBVIOUS
    <3>2. i \in 1..Len(events) /\ (j \in 1..Len(events) \/ j = Len(events) + 1)
      BY <2>4, <3>1
    <3>3. CASE j \in 1..Len(events)
      BY <1>0, <2>4, <3>1, <3>2, <3>3 DEF EventInv
    <3>4. CASE j = Len(events) + 1
      <4>1. events'[j].op = o /\ events'[j].next = cursor' /\ events'[i] = events[i]
        BY <2>4, <3>2, <3>4
      <4>2. QED
        BY <2>5, <3>2, <4>1
    <3>5. QED
      BY <3>2, <3>3, <3>4
  <2>9. QED
    BY <2>6, <2>7, <2>8 DEF EventInv
<1>13. ASSUME AllAutomatic PROVE SavedInv'
  <2>1. ASSUME NEW p \in Ops, NEW i \in Parts, stage'[p] \in {"ready", "sent"}, Size(p, i)' > 0
        PROVE  Stop(p, i)' <= saved'
    <3>1. p # o
      BY <1>1, <2>1
    <3>2. Stop(p, i) <= saved
      BY <1>0, <1>1, <1>6, <1>13, <2>1, <3>1 DEF SavedInv
    <3>3. QED
      BY <1>1, <3>1, <3>2 DEF Stop
  <2>2. QED
    BY <2>1 DEF SavedInv
<1>14. QED
  BY <1>7, <1>11, <1>12, <1>13 DEF Inv

\* The oldest event is reported; the others, being newer, stay ahead of it.
LEMMA EmitStep ==
  ASSUME Inv, TypeOK', Emit,
         AllAutomatic' => AllAutomatic
  PROVE  Inv'
<1> DEFINE o == events[1].op
<1>0. /\ TypeOK /\ WaitingInv /\ LedgerInv /\ EventInv /\ (AllAutomatic => SavedInv)
      /\ cursor \in Nat /\ saved \in Nat /\ events \in Seq([op : Ops, next : Nat])
  BY DEF Inv, TypeOK
<1>1. events # <<>> /\ Len(events) \in Nat /\ 1 \in 1..Len(events)
  BY <1>0, EmptySeq, LenProperties DEF Emit
<1>2. Head(events) = events[1] /\ o \in Ops
  BY <1>0, <1>1, EventTypes
<1>3. /\ Len(events') = Len(events) - 1
      /\ \A i \in 1..Len(events') : i + 1 \in 1..Len(events) /\ events'[i] = events[i + 1]
  BY <1>0, <1>1, HeadTailProperties, LenProperties DEF Emit
<1>4. /\ stage'[o] = "ready" /\ \A p \in Ops : p # o => stage'[p] = stage[p]
      /\ asked' = asked /\ start' = start /\ cursor' = cursor /\ saved' = events[1].next
  BY <1>0, <1>2 DEF Emit, TypeOK
<1>5. /\ stage[o] = "reserved" /\ saved <= saved' /\ saved' <= cursor
      /\ \A j \in Parts : Size(o, j) > 0 => Stop(o, j) <= saved'
  BY <1>0, <1>1, <1>4 DEF EventInv
<1>6. WaitingInv'
  BY <1>0, <1>4 DEF WaitingInv
<1>7. LedgerInv'
  <2>1. \A p \in Ops : \A i \in Parts :
          Held(p, i)' = Held(p, i) /\ Size(p, i)' = Size(p, i) /\ Stop(p, i)' = Stop(p, i)
    BY <1>4, <1>5 DEF Held, Size, Stop
  <2>2. QED
    BY <1>0, <1>4, <2>1 DEF LedgerInv, Apart
<1>8. EventInv'
  <2>1. ASSUME NEW i \in 1..Len(events')
        PROVE  (/\ stage[events[i].op] = "reserved"
                /\ saved <= events[i].next /\ events[i].next <= cursor
                /\ \A j \in Parts : Size(events[i].op, j) > 0 =>
                                    Stop(events[i].op, j) <= events[i].next)'
    <3>1. i + 1 \in 1..Len(events) /\ 1 < i + 1 /\ events'[i] = events[i + 1]
      BY <1>1, <1>3, <2>1
    <3>2. events[i + 1].op # o /\ events[1].next <= events[i + 1].next
      BY <1>0, <1>1, <3>1 DEF EventInv
    <3>3. /\ stage[events[i + 1].op] = "reserved" /\ events[i + 1].next <= cursor
          /\ \A j \in Parts : Size(events[i + 1].op, j) > 0 =>
                              Stop(events[i + 1].op, j) <= events[i + 1].next
      BY <1>0, <3>1 DEF EventInv
    <3>4. events[i + 1].op \in Ops
      BY <1>0, <3>1, EventTypes
    <3>5. QED
      BY <1>4, <3>1, <3>2, <3>3, <3>4 DEF Size, Stop
  <2>2. \A i, j \in 1..Len(events') : i < j =>
           events'[i].op # events'[j].op /\ events'[i].next <= events'[j].next
    <3>1. ASSUME NEW i \in 1..Len(events'), NEW j \in 1..Len(events'), i < j
          PROVE events'[i].op # events'[j].op /\ events'[i].next <= events'[j].next
      <4>1. /\ i + 1 \in 1..Len(events) /\ j + 1 \in 1..Len(events) /\ i + 1 < j + 1
            /\ events'[i] = events[i + 1] /\ events'[j] = events[j + 1]
        BY <1>3, <3>1
      <4>2. QED
        BY <1>0, <4>1 DEF EventInv
    <3>2. QED
      BY <3>1
  <2>3. QED
    BY <1>4, <1>5, <2>1, <2>2 DEF EventInv
<1>9. ASSUME AllAutomatic PROVE SavedInv'
  <2>1. ASSUME NEW p \in Ops, NEW i \in Parts, stage'[p] \in {"ready", "sent"}, Size(p, i)' > 0
        PROVE  Stop(p, i)' <= saved'
    <3>1. CASE p = o
      BY <1>4, <1>5, <2>1, <3>1 DEF Size, Stop
    <3>2. CASE p # o
      <4>1. Stop(p, i) <= saved
        BY <1>0, <1>4, <1>9, <2>1, <3>2 DEF SavedInv, Size
      <4>2. Stop(p, i) \in Nat /\ saved' \in Nat
        BY <1>0, RangeTypes DEF TypeOK
      <4>3. QED
        BY <1>0, <1>4, <1>5, <4>1, <4>2 DEF Stop
    <3>3. QED
      BY <3>1, <3>2
  <2>2. QED
    BY <2>1 DEF SavedInv
<1>10. QED
  BY <1>6, <1>7, <1>8, <1>9 DEF Inv

\* A request is sent: the ranges stay held.
LEMMA SendStep ==
  ASSUME Inv, TypeOK', NEW o \in Ops, Send(o),
         AllAutomatic' => AllAutomatic
  PROVE  Inv'
<1>0. /\ TypeOK /\ WaitingInv /\ LedgerInv /\ (AllAutomatic => SavedInv) /\ cursor \in Nat
  BY DEF Inv, TypeOK
<1>1. /\ stage[o] = "ready" /\ stage'[o] = "sent"
      /\ \A p \in Ops : p # o => stage'[p] = stage[p]
      /\ asked' = asked /\ start' = start /\ cursor' = cursor
      /\ saved' = saved /\ events' = events
  BY <1>0 DEF Send, TypeOK
<1>2. \A p \in Ops : \A i \in Parts :
        Held(p, i)' = Held(p, i) /\ Size(p, i)' = Size(p, i) /\ Stop(p, i)' = Stop(p, i)
  BY <1>1 DEF Held, Size, Stop
<1>3. WaitingInv'
  BY <1>0, <1>1 DEF WaitingInv
<1>4. LedgerInv'
  BY <1>0, <1>1, <1>2 DEF LedgerInv, Apart
<1>5. EventInv'
  BY <1>0, <1>1, EventsKept
<1>6. AllAutomatic => SavedInv'
  BY <1>0, <1>1, <1>2 DEF SavedInv
<1>7. QED
  BY <1>3, <1>4, <1>5, <1>6 DEF Inv

\* The application raises the cursor.
LEMMA AdvanceStep ==
  ASSUME Inv, TypeOK', NEW n \in Bumps, AdvanceToAtLeast(n),
         AllAutomatic' => AllAutomatic
  PROVE  Inv'
<1>0. /\ TypeOK /\ WaitingInv /\ LedgerInv /\ (AllAutomatic => SavedInv)
      /\ cursor \in Nat /\ cursor' \in Nat
  BY DEF Inv, TypeOK
<1>1. /\ stage' = stage /\ asked' = asked /\ start' = start /\ cursor <= cursor'
      /\ saved' = saved /\ events' = events
  BY <1>0, BumpsAssumption DEF AdvanceToAtLeast
<1>2. LedgerInv'
  <2>1. ASSUME NEW p \in Ops, NEW i \in Parts, Held(p, i)', Size(p, i)' > 0
        PROVE  Stop(p, i)' <= cursor'
    <3>1. Stop(p, i) <= cursor /\ Stop(p, i) \in Nat
      BY <1>0, <1>1, <2>1, RangeTypes DEF LedgerInv, Held, Size
    <3>2. QED
      BY <1>0, <1>1, <3>1 DEF Stop
  <2>2. QED
    BY <1>0, <1>1, <2>1 DEF LedgerInv, Apart, Held, Size, Stop
<1>3. EventInv'
  BY <1>0, <1>1, EventsKept
<1>4. WaitingInv' /\ (AllAutomatic => SavedInv')
  BY <1>0, <1>1 DEF WaitingInv, SavedInv, Size, Stop
<1>5. QED
  BY <1>2, <1>3, <1>4 DEF Inv

\* The source restarts from what was saved: what is still held was saved.
LEMMA RestartStep ==
  ASSUME Inv, TypeOK', AllAutomatic, Restart
  PROVE  Inv'
<1>0. TypeOK /\ LedgerInv /\ SavedInv /\ saved \in Nat
  BY DEF Inv, TypeOK
<1>1. /\ asked' = asked /\ start' = start /\ saved' = saved /\ cursor' = saved /\ events' = <<>>
      /\ \A p \in Ops : /\ stage'[p] \in {"idle", "sent", "failed", "lost"}
                        /\ stage'[p] = "sent" => stage[p] = "sent"
  BY <1>0 DEF Restart, TypeOK, Stages
<1>2. \A p \in Ops : \A i \in Parts : Held(p, i)' =>
        Held(p, i) /\ stage[p] = "sent" /\ Size(p, i)' = Size(p, i) /\ Stop(p, i)' = Stop(p, i)
  BY <1>1 DEF Held, Size, Stop
<1>3. WaitingInv'
  BY <1>1 DEF WaitingInv
<1>4. LedgerInv'
  BY <1>0, <1>1, <1>2 DEF LedgerInv, SavedInv, Apart
<1>5. EventInv'
  BY <1>0, <1>1 DEF EventInv
<1>6. SavedInv'
  BY <1>0, <1>1 DEF SavedInv, Size, Stop
<1>7. QED
  BY <1>3, <1>4, <1>5, <1>6 DEF Inv

\* What each operation has asked stays as long as it has begun.
IdleInv == \A o \in Ops : stage[o] = "idle" => asked[o] = NoOutputs

\* Once an operation has chosen its counters, this remains so.
LEMMA AutomaticBefore ==
  ASSUME TypeOK, IdleInv, [Next]_vars
  PROVE  AllAutomatic' => AllAutomatic
<1>1. ASSUME NEW o \in Ops, NEW r \in Requests, Begin(o, r) PROVE AllAutomatic' => AllAutomatic
  <2>1. /\ asked[o] = NoOutputs
        /\ \A p \in Ops : p # o => asked'[p] = asked[p]
    BY <1>1 DEF Begin, TypeOK, IdleInv
  <2>2. ~SomeManual(NoOutputs)
    BY DEF SomeManual, IsManual, NoOutputs, Parts
  <2>3. QED
    BY <2>1, <2>2 DEF AllAutomatic
<1>2. CASE asked' = asked
  BY <1>2 DEF AllAutomatic
<1>3. QED
  BY <1>1, <1>2
     DEF Next, Claim, Reserve, Send, Emit, AdvanceToAtLeast, Restart, vars

\* Events wait in the order of the cursors they report, from the saved
\* counter up to the cursor.
OrderInv ==
  /\ saved <= cursor
  /\ \A i \in 1..Len(events) : saved <= events[i].next /\ events[i].next <= cursor
  /\ \A i, j \in 1..Len(events) : i < j => events[i].next <= events[j].next

\* The part of the invariant that holds whatever callers choose.
BaseInv == TypeOK /\ WaitingInv /\ IdleInv /\ OrderInv

LEMMA BaseInit == Init => BaseInv
BY TypeInit DEF Init, BaseInv, WaitingInv, IdleInv, OrderInv

LEMMA BaseStep ==
  ASSUME BaseInv, [Next]_vars
  PROVE  BaseInv'
<1>0. /\ TypeOK /\ TypeOK' /\ WaitingInv /\ IdleInv /\ OrderInv
      /\ cursor \in Nat /\ cursor' \in Nat /\ saved \in Nat /\ saved' \in Nat
      /\ events \in Seq([op : Ops, next : Nat]) /\ Len(events) \in Nat
  BY TypeStep, LenProperties DEF BaseInv, TypeOK
<1>1. \A i \in 1..Len(events) : events[i].next \in Nat
  BY <1>0, EventTypes
<1> DEFINE Waits == WaitingInv /\ IdleInv
<1>2. ASSUME NEW o \in Ops, NEW r \in Requests, Begin(o, r) PROVE Waits' /\ OrderInv'
  <2>1. /\ stage'[o] \in {"failed", "claiming", "reserving", "ready"}
        /\ stage'[o] = "claiming" => ~Overlap(r) /\ SomeManual(r)
        /\ stage'[o] = "reserving" => ~Overlap(r)
        /\ asked'[o] = r /\ start'[o] = [p \in Parts |-> r[p].counter]
        /\ \A p \in Ops : p # o => /\ stage'[p] = stage[p] /\ asked'[p] = asked[p]
                                   /\ start'[p] = start[p]
        /\ cursor' = cursor /\ saved' = saved /\ events' = events
    BY <1>0, <1>2 DEF Begin, TypeOK, AfterClaim
  <2>2. QED
    BY <1>0, <2>1 DEF WaitingInv, IdleInv, OrderInv
<1>3. ASSUME NEW o \in Ops, Claim(o) PROVE Waits' /\ OrderInv'
  <2> DEFINE r == asked[o]
  <2>1. /\ stage[o] = "claiming" /\ r \in Requests /\ SomeManual(r)
        /\ stage'[o] \in {"failed", "ready", "reserving"}
        /\ \A p \in Ops : p # o => stage'[p] = stage[p]
        /\ asked' = asked /\ start' = start /\ saved' = saved /\ events' = events
    BY <1>0, <1>3 DEF Claim, WaitingInv, TypeOK, AfterClaim
  <2>2. r \in [Parts -> OutputTypes]
    BY <2>1, RequestsAssumption
  <2>3. ManualStart(r) \in Nat /\ ManualEnd(r) \in Nat /\ ManualStart(r) <= ManualEnd(r)
    BY <2>1, <2>2, RequestTypes
       DEF ManualStart, ManualEnd, SomeManual, IsManual, End, OutputTypes, Parts
  <2>4. cursor <= cursor'
    BY <1>0, <1>3, <2>3 DEF Claim
  <2>5. Waits'
    BY <1>0, <2>1 DEF WaitingInv, IdleInv
  <2>6. OrderInv'
    BY <1>0, <1>1, <2>1, <2>4 DEF OrderInv
  <2>7. QED
    BY <2>5, <2>6
<1>4. ASSUME NEW o \in Ops, Reserve(o) PROVE Waits' /\ OrderInv'
  <2> DEFINE e == [op |-> o, next |-> cursor + Total(asked[o])]
  <2>1. Total(asked[o]) \in Nat
    BY <1>0, RequestTypes DEF TypeOK
  <2>2. /\ stage[o] = "reserving" /\ stage'[o] = "reserved"
        /\ \A p \in Ops : p # o => stage'[p] = stage[p] /\ start'[p] = start[p]
        /\ asked' = asked /\ saved' = saved /\ cursor' = e.next /\ cursor <= cursor'
        /\ events' = Append(events, e)
    BY <1>0, <1>4, <2>1 DEF Reserve, TypeOK
  <2>3. Waits'
    BY <1>0, <2>2 DEF WaitingInv, IdleInv
  <2>4. /\ Len(events') = Len(events) + 1 /\ events'[Len(events) + 1] = e
        /\ \A i \in 1..Len(events) : events'[i] = events[i]
    BY <1>0, <2>1, <2>2, AppendProperties
  <2>5. \A i \in 1..Len(events') : i \in 1..Len(events) \/ i = Len(events) + 1
    BY <1>0, <2>4
  <2>6. \A i \in 1..Len(events') :
          saved' <= events'[i].next /\ events'[i].next <= cursor'
    BY <1>0, <1>1, <2>2, <2>4, <2>5 DEF OrderInv
  <2>7. ASSUME NEW i \in 1..Len(events'), NEW j \in 1..Len(events'), i < j
        PROVE  events'[i].next <= events'[j].next
    <3>1. i \in 1..Len(events)
      BY <1>0, <2>4, <2>7
    <3>2. CASE j \in 1..Len(events)
      BY <1>0, <2>4, <2>7, <3>1, <3>2 DEF OrderInv
    <3>3. CASE j = Len(events) + 1
      BY <1>0, <2>2, <2>4, <2>6, <3>1, <3>3
    <3>4. QED
      BY <2>5, <3>2, <3>3
  <2>8. OrderInv'
    BY <1>0, <2>2, <2>6, <2>7 DEF OrderInv
  <2>9. QED
    BY <2>3, <2>8
<1>5. ASSUME NEW o \in Ops, Send(o) PROVE Waits' /\ OrderInv'
  BY <1>0, <1>5 DEF Send, WaitingInv, IdleInv, OrderInv, TypeOK
<1>6. CASE Emit
  <2>1. events # <<>> /\ 1 \in 1..Len(events) /\ Head(events) = events[1]
    BY <1>0, <1>6, EmptySeq, LenProperties DEF Emit
  <2>2. /\ Len(events') = Len(events) - 1
        /\ \A i \in 1..Len(events') : i + 1 \in 1..Len(events) /\ events'[i] = events[i + 1]
    BY <1>0, <1>6, <2>1, HeadTailProperties, LenProperties DEF Emit
  <2>3. /\ \A p \in Ops : stage'[p] \in {stage[p], "ready"}
        /\ asked' = asked /\ start' = start /\ cursor' = cursor /\ saved' = events[1].next
    BY <1>0, <1>6, <2>1 DEF Emit, TypeOK
  <2>4. Waits'
    BY <1>0, <2>3 DEF WaitingInv, IdleInv
  <2>5. \A i \in 1..Len(events') : 1 < i + 1
    BY <1>0, <2>2
  <2>6. /\ saved' <= cursor'
        /\ \A i \in 1..Len(events') : saved' <= events'[i].next /\ events'[i].next <= cursor'
    BY <1>0, <2>1, <2>2, <2>3, <2>5 DEF OrderInv
  <2>7. \A i, j \in 1..Len(events') : i < j => i + 1 < j + 1
    BY <1>0, <2>2
  <2>8. \A i, j \in 1..Len(events') : i < j => events'[i].next <= events'[j].next
    BY <1>0, <2>2, <2>7 DEF OrderInv
  <2>9. OrderInv'
    BY <2>6, <2>8 DEF OrderInv
  <2>10. QED
    BY <1>0, <2>4, <2>9 DEF BaseInv
<1>7. ASSUME NEW n \in Bumps, AdvanceToAtLeast(n) PROVE Waits' /\ OrderInv'
  <2>1. /\ stage' = stage /\ asked' = asked /\ start' = start /\ cursor <= cursor'
        /\ saved' = saved /\ events' = events
    BY <1>0, <1>7, BumpsAssumption DEF AdvanceToAtLeast
  <2>2. QED
    BY <1>0, <1>1, <2>1 DEF WaitingInv, IdleInv, OrderInv
<1>8. CASE Restart
  <2>1. /\ asked' = asked /\ saved' = saved /\ cursor' = saved /\ events' = <<>>
        /\ \A p \in Ops : /\ stage'[p] \in {"idle", "sent", "failed", "lost"}
                          /\ stage'[p] = "idle" => stage[p] = "idle"
    BY <1>0, <1>8 DEF Restart, TypeOK, Stages
  <2>2. Waits'
    BY <1>0, <2>1 DEF WaitingInv, IdleInv
  <2>3. 1..Len(events') = {}
    BY <2>1
  <2>4. OrderInv'
    <3>1. saved' <= cursor'
      BY <1>0, <2>1
    <3>2. QED
      BY <2>3, <3>1, Zenon DEF OrderInv
  <2>5. QED
    BY <1>0, <2>2, <2>4 DEF BaseInv
<1>9. CASE UNCHANGED vars
  <2>1. /\ cursor' = cursor /\ saved' = saved /\ stage' = stage /\ asked' = asked
        /\ start' = start /\ events' = events
    BY <1>9 DEF vars
  <2>2. Waits'
    BY <1>0, <2>1 DEF WaitingInv, IdleInv
  <2>3. OrderInv'
    BY <1>0, <2>1, Zenon DEF OrderInv
  <2>4. QED
    BY <1>0, <2>2, <2>3 DEF BaseInv
<1>10. QED
  BY <1>0, <1>2, <1>3, <1>4, <1>5, <1>6, <1>7, <1>8, <1>9 DEF Next, BaseInv

LEMMA BaseHolds == Spec => []BaseInv
<1>1. BaseInv /\ [Next]_vars => BaseInv'
  BY BaseStep
<1>2. QED
  BY BaseInit, <1>1, PTL DEF Spec

\* The ledger is kept as long as no counter of a caller's choice has met a
\* restart.
Covered == AllAutomatic \/ crashes = 0

FullInv == BaseInv /\ (Covered => Inv)

LEMMA InvStep ==
  ASSUME FullInv, [Next]_vars
  PROVE  FullInv'
<1>0. BaseInv' /\ TypeOK /\ TypeOK'
  BY BaseStep DEF FullInv, BaseInv
<1>1. AllAutomatic' => AllAutomatic
  BY AutomaticBefore DEF FullInv, BaseInv
<1>2. crashes' = 0 => crashes = 0
  <2>1. crashes' = crashes \/ crashes' = crashes + 1
    BY DEF Next, Begin, Claim, Reserve, Send, Emit, AdvanceToAtLeast, Restart, vars
  <2>2. QED
    BY <1>0, <2>1 DEF TypeOK
<1>3. SUFFICES ASSUME Covered' PROVE Inv'
  BY <1>0 DEF FullInv
<1>4. Inv
  BY <1>1, <1>2, <1>3 DEF FullInv, Covered
<1>5. ASSUME NEW o \in Ops, NEW r \in Requests, Begin(o, r) PROVE Inv'
  BY <1>0, <1>1, <1>4, <1>5, BeginStep
<1>6. ASSUME NEW o \in Ops, Claim(o) PROVE Inv'
  BY <1>0, <1>1, <1>4, <1>6, ClaimStep
<1>7. ASSUME NEW o \in Ops, Reserve(o) PROVE Inv'
  BY <1>0, <1>1, <1>4, <1>7, ReserveStep
<1>8. ASSUME NEW o \in Ops, Send(o) PROVE Inv'
  BY <1>0, <1>1, <1>4, <1>8, SendStep
<1>9. CASE Emit
  BY <1>0, <1>1, <1>4, <1>9, EmitStep
<1>10. ASSUME NEW n \in Bumps, AdvanceToAtLeast(n) PROVE Inv'
  BY <1>0, <1>1, <1>4, <1>10, AdvanceStep
<1>11. CASE Restart
  <2>1. crashes' # 0
    BY <1>0, <1>11 DEF Restart, TypeOK
  <2>2. AllAutomatic
    BY <1>1, <1>3, <2>1 DEF Covered
  <2>3. QED
    BY <1>0, <1>4, <1>11, <2>2, RestartStep
<1>12. CASE UNCHANGED vars
  <2>1. /\ cursor' = cursor /\ saved' = saved /\ stage' = stage /\ asked' = asked
        /\ start' = start /\ events' = events
    BY <1>12 DEF vars
  <2>2. WaitingInv' /\ LedgerInv' /\ EventInv' /\ (AllAutomatic => SavedInv')
    BY <1>4, <2>1 DEF Inv, WaitingInv, LedgerInv, EventInv, SavedInv, Held, Size, Stop, Apart
  <2>3. QED
    BY <1>0, <1>1, <2>2 DEF Inv
<1>13. QED
  BY <1>5, <1>6, <1>7, <1>8, <1>9, <1>10, <1>11, <1>12 DEF Next

LEMMA InvHolds == Spec => []FullInv
<1>1. Init => FullInv
  BY InvInit, BaseInit DEF FullInv
<1>2. FullInv /\ [Next]_vars => FullInv'
  BY InvStep
<1>3. QED
  BY <1>1, <1>2, PTL DEF Spec
-----------------------------------------------------------------------------
\* Every variable stays in its domain, whatever the operations do.
THEOREM TypeCorrect == Spec => []TypeOK
BY TypeInit, TypeStep, PTL DEF Spec

\* No counter is used for two outputs sent to the mint, by any number of
\* interleaved operations: across restarts as long as all counters are
\* automatic, and with caller-chosen counters as long as the process has not
\* restarted.
THEOREM NoCounterReuseHolds == Spec => []NoCounterReuse
<1>1. ASSUME Inv, NEW o1 \in Ops, NEW o2 \in Ops, NEW p1 \in Parts, NEW p2 \in Parts,
             stage[o1] = "sent", stage[o2] = "sent", o1 # o2 \/ p1 # p2
      PROVE  Counters(o1, p1) \cap Counters(o2, p2) = {}
  <2>1. TypeOK /\ LedgerInv
    BY <1>1 DEF Inv
  <2>2. /\ Size(o1, p1) \in Nat /\ Size(o2, p2) \in Nat
        /\ start[o1][p1] \in Nat /\ start[o2][p2] \in Nat
    BY <2>1, RangeTypes
  <2>3. Size(o1, p1) > 0 /\ Size(o2, p2) > 0 => Apart(o1, p1, o2, p2)
    BY <1>1, <2>1 DEF LedgerInv, Held
  <2>4. QED
    BY <2>2, <2>3 DEF Counters, Apart, Stop, Size
<1>2. FullInv => NoCounterReuse
  BY <1>1 DEF FullInv, Covered, NoCounterReuse
<1>3. QED
  BY InvHolds, <1>2, PTL

\* As long as all counters are automatic, one that may be in use at the mint
\* is below what a restart would resume from.
THEOREM AutomaticIsSavedHolds == Spec => []AutomaticIsSaved
<1>1. ASSUME Inv, AllAutomatic, NEW o \in Ops, NEW p \in Parts, stage[o] \in {"ready", "sent"},
             NEW n \in Counters(o, p)
      PROVE  n < saved
  <2>1. TypeOK /\ SavedInv
    BY <1>1 DEF Inv
  <2>2. Size(o, p) \in Nat /\ start[o][p] \in Nat /\ saved \in Nat
    BY <2>1, RangeTypes
  <2>3. Size(o, p) > 0 => Stop(o, p) <= saved
    BY <1>1, <2>1 DEF SavedInv
  <2>4. QED
    BY <1>1, <2>2, <2>3 DEF Counters, Stop, Size
<1>2. FullInv => AutomaticIsSaved
  BY <1>1 DEF FullInv, Covered, AutomaticIsSaved, InUseIsSaved
<1>3. QED
  BY InvHolds, <1>2, PTL

\* What is saved never moves backwards: events are handled oldest first, and
\* each reports a cursor no lower than the one before.
THEOREM SavedNeverDecreasesHolds == Spec => SavedNeverDecreases
<1>1. ASSUME BaseInv, [Next]_vars PROVE [saved' >= saved]_vars
  <2>1. saved \in Nat
    BY <1>1 DEF BaseInv, TypeOK
  <2>2. CASE Emit
    <3>1. TypeOK /\ OrderInv /\ events \in Seq([op : Ops, next : Nat]) /\ events # <<>>
      BY <1>1, <2>2 DEF BaseInv, TypeOK, Emit
    <3>2. 1 \in 1..Len(events) /\ Head(events) = events[1]
      BY <3>1, EmptySeq, LenProperties
    <3>3. saved <= events[1].next /\ events[1].next \in Nat
      BY <3>1, <3>2, EventTypes DEF OrderInv
    <3>4. saved' >= saved
      BY <2>1, <2>2, <3>2, <3>3 DEF Emit
    <3>5. QED
      BY <3>4
  <2>3. CASE ~Emit
    <3>1. saved' = saved
      BY <1>1, <2>3 DEF Next, Begin, Claim, Reserve, Send, AdvanceToAtLeast, Restart, vars
    <3>2. QED
      BY <2>1, <3>1
  <2>4. QED
    BY <2>2, <2>3
<1>2. QED
  BY BaseHolds, <1>1, PTL DEF Spec, SavedNeverDecreases

\* What a restart resumes from is never ahead of the source.
THEOREM SavedBelowCursorHolds == Spec => []SavedBelowCursor
<1>1. BaseInv => SavedBelowCursor
  BY DEF BaseInv, OrderInv, SavedBelowCursor
<1>2. QED
  BY BaseHolds, <1>1, PTL
=============================================================================
