------------------------ MODULE WSConnection_proofs ------------------------
(***************************************************************************)
(* Proofs about WSConnection, for any number of sockets, subscriptions and *)
(* notifications.                                                          *)
(*                                                                         *)
(* Sockets: the connection's socket is the one its promise stands for, or  *)
(* it has closed.  That is why an attempt, which starts only without a     *)
(* promise, never overwrites a socket that is still open.  Its handlers    *)
(* are set, so that its close event is heard and the promise goes with it. *)
(*                                                                         *)
(* Outcomes: what a subscription may still hear is the one request that is *)
(* awaited for it; whoever tells it takes the request away, now or when    *)
(* the error callback returns.  A request whose listener stayed behind is  *)
(* not answered again: every id is asked once and answered once.           *)
(*                                                                         *)
(* Order: a subscription lives through six phases, and while it listens    *)
(* the notifications in the queue are exactly those it has not heard, in   *)
(* order.  Frames that are thrown away belong to a socket that delivers    *)
(* nothing any more.                                                       *)
(***************************************************************************)
EXTENDS WSConnection, FiniteSetTheorems, TLAPS

ReadyStates == {"none", "connecting", "open", "closing", "closed"}

SocketType ==
  /\ ws \in Sockets \cup {NoSocket}
  /\ connection \in Sockets \cup {NoSocket}
  /\ ready \in [Sockets -> ReadyStates]
  /\ attempt \in [Sockets -> {"none", "waiting", "resolved", "rejected"}]
  /\ attached \in [Sockets -> BOOLEAN]

\* A socket exists only after its attempt, the connection's socket exists and has its
\* handlers, and without a promise for it, it has closed.
SocketInv ==
  /\ SocketType
  /\ \A s \in Sockets : attempt[s] = "none" => ready[s] = "none" /\ attached[s]
  /\ ws # NoSocket => /\ ready[ws] # "none" /\ attached[ws]
                      /\ connection = ws \/ ready[ws] = "closed"
  /\ PromiseIsCurrent
  /\ NoSocketLeaked

LEMMA SocketInit == Init => SocketInv
BY DEF Init, SocketInv, SocketType, ReadyStates, PromiseIsCurrent, NoSocketLeaked

\* Closing a socket.
LEMMA ClosedSocket ==
  ASSUME NEW r \in [Sockets -> ReadyStates], NEW s \in Sockets
  PROVE  /\ Closed(r, s) \in [Sockets -> ReadyStates]
         /\ Closed(r, s)[s] \notin {"connecting", "open"}
         /\ \A t \in Sockets \ {s} : Closed(r, s)[t] = r[t]
         /\ \A t \in Sockets : Closed(r, s)[t] = "none" <=> r[t] = "none"
BY DEF Closed, ReadyStates

\* What remains when the connection's socket is closed and let go.
LEMMA LetGo ==
  ASSUME SocketInv, ws' = NoSocket,
         NEW r \in [Sockets -> ReadyStates],
         \A t \in Sockets : /\ r[t] = "none" <=> ready[t] = "none"
                            /\ r[t] \in {"connecting", "open"} => t = ws,
         ready' = IF ws = NoSocket THEN r ELSE Closed(r, ws),
         connection' = NoSocket \/ (connection' \in Sockets /\ ready[connection'] = "none"),
         attempt' \in [Sockets -> {"none", "waiting", "resolved", "rejected"}],
         \A s \in Sockets : attempt'[s] = "none" => attempt[s] = "none",
         attached' \in [Sockets -> BOOLEAN],
         \A s \in Sockets : attempt[s] = "none" => attached'[s]
  PROVE  SocketInv'
<1>1. /\ ready' \in [Sockets -> ReadyStates]
      /\ \A t \in Sockets : ready'[t] = "none" <=> ready[t] = "none"
      /\ \A t \in Sockets : ready'[t] \notin {"connecting", "open"}
  <2>1. CASE ws = NoSocket
    BY <2>1, NoSocketAssumption DEF SocketInv, SocketType, NoSocketLeaked
  <2>2. CASE ws # NoSocket
    <3>1. ws \in Sockets
      BY <2>2 DEF SocketInv, SocketType
    <3>2. ready' = Closed(r, ws)
      BY <2>2
    <3>3. QED
      BY <3>1, <3>2, ClosedSocket
  <2>3. QED
    BY <2>1, <2>2
<1>2. QED
  BY <1>1 DEF SocketInv, SocketType, PromiseIsCurrent, NoSocketLeaked

LEMMA SettledAttempt ==
  ASSUME SocketType, NEW s \in Sockets, NEW outcome \in {"resolved", "rejected"}
  PROVE  /\ Settled(s, outcome) \in [Sockets -> {"none", "waiting", "resolved", "rejected"}]
         /\ \A t \in Sockets : Settled(s, outcome)[t] = "none" => attempt[t] = "none"
BY DEF Settled, SocketType

\* cleanupSocket takes the handlers of a socket only after its attempt.
LEMMA Detached ==
  ASSUME SocketInv, NEW r, CleanupSocket(r)
  PROVE  /\ attached' \in [Sockets -> BOOLEAN]
         /\ \A s \in Sockets : attempt[s] = "none" => attached'[s]
BY DEF CleanupSocket, SocketInv, SocketType

LEMMA FailStep ==
  ASSUME SocketInv, NEW s \in Sockets, NEW r \in [Sockets -> ReadyStates],
         \A t \in Sockets : /\ r[t] = "none" <=> ready[t] = "none"
                            /\ r[t] \in {"connecting", "open"} => t = ws,
         Fail(s, r)
  PROVE  SocketInv'
<1>1. /\ attempt' \in [Sockets -> {"none", "waiting", "resolved", "rejected"}]
      /\ \A t \in Sockets : attempt'[t] = "none" => attempt[t] = "none"
  BY SettledAttempt DEF Fail, SocketInv
<1>2. /\ ws' = NoSocket /\ connection' = NoSocket
      /\ ready' = IF ws = NoSocket THEN r ELSE Closed(r, ws)
  BY DEF Fail, CleanupSocket
<1>3. /\ attached' \in [Sockets -> BOOLEAN]
      /\ \A t \in Sockets : attempt[t] = "none" => attached'[t]
  BY Detached DEF Fail
<1>4. QED
  BY <1>1, <1>2, <1>3, LetGo

LEMMA SocketStep == SocketInv /\ [Next]_vars => SocketInv'
<1> SUFFICES ASSUME SocketInv, [Next]_vars PROVE SocketInv'
  OBVIOUS
<1> USE NoSocketAssumption
<1>0. /\ ready \in [Sockets -> ReadyStates]
      /\ \A t \in Sockets : ready[t] \in {"connecting", "open"} => t = ws
  BY DEF SocketInv, SocketType, NoSocketLeaked
<1>1. ASSUME NEW s \in Sockets, Connect(s) PROVE SocketInv'
  BY <1>1 DEF Connect, SocketInv, SocketType, ReadyStates, PromiseIsCurrent, NoSocketLeaked
<1>2. ASSUME NEW s \in Sockets, ConnectThrows(s) PROVE SocketInv'
  <2>1. /\ ws' = NoSocket /\ connection' = s /\ ready[s] = "none"
        /\ ready' = IF ws = NoSocket THEN ready ELSE Closed(ready, ws)
    BY <1>2 DEF ConnectThrows, CleanupSocket, SocketInv
  <2>2. attempt' = [attempt EXCEPT ![s] = "rejected"]
    BY <1>2 DEF ConnectThrows
  <2>3. /\ attempt' \in [Sockets -> {"none", "waiting", "resolved", "rejected"}]
        /\ \A t \in Sockets : attempt'[t] = "none" => attempt[t] = "none"
    BY <2>2 DEF SocketInv, SocketType
  <2>4. /\ attached' \in [Sockets -> BOOLEAN]
        /\ \A t \in Sockets : attempt[t] = "none" => attached'[t]
    BY <1>2, Detached DEF ConnectThrows
  <2>5. QED
    BY <1>0, <2>1, <2>3, <2>4, LetGo
<1>3. ASSUME NEW s \in Sockets, Timeout(s) \/ OnError(s) PROVE SocketInv'
  BY <1>0, <1>3, FailStep DEF Timeout, OnError
<1>4. ASSUME NEW s \in Sockets, OnOpen(s) PROVE SocketInv'
  <2>1. /\ attempt' \in [Sockets -> {"none", "waiting", "resolved", "rejected"}]
        /\ \A t \in Sockets : attempt'[t] = "none" => attempt[t] = "none"
    BY <1>4, SettledAttempt DEF OnOpen, SocketInv, SocketType
  <2>2. QED
    BY <1>4, <2>1 DEF OnOpen, SocketInv, SocketType, ReadyStates, PromiseIsCurrent, NoSocketLeaked
<1>5. ASSUME NEW s \in Sockets, NEW abnormal \in BOOLEAN, OnClose(s, abnormal) PROVE SocketInv'
  <2> DEFINE closed == [ready EXCEPT ![s] = "closed"]
  <2>1. /\ closed \in [Sockets -> ReadyStates] /\ ready[s] # "none"
        /\ \A t \in Sockets : /\ closed[t] = "none" <=> ready[t] = "none"
                              /\ closed[t] \in {"connecting", "open"} => t = ws
    BY <1>0, <1>5 DEF OnClose, ReadyStates
  <2>2. CASE ~attached[s] \/ ws \notin {s, NoSocket}
    BY <1>5, <2>1, <2>2 DEF OnClose, SocketInv, SocketType, PromiseIsCurrent, NoSocketLeaked
  <2>3. CASE ~(~attached[s] \/ ws \notin {s, NoSocket}) /\ attempt[s] # "resolved"
    BY <1>5, <2>1, <2>3, FailStep DEF OnClose
  <2>4. CASE ~(~attached[s] \/ ws \notin {s, NoSocket}) /\ attempt[s] = "resolved"
    BY <1>5, <2>1, <2>4 DEF OnClose, SocketInv, SocketType, PromiseIsCurrent, NoSocketLeaked
  <2>5. QED
    BY <2>2, <2>3, <2>4
<1>6. ASSUME NEW u \in Subs, CreateSubscriptionThrows(u) \/ CancelSubscriptionThrows(u) PROVE SocketInv'
  <2>1. /\ ws' = NoSocket /\ connection' = NoSocket /\ UNCHANGED <<attempt, attached>>
        /\ ws # NoSocket /\ ready' = Closed(ready, ws)
    BY <1>6 DEF CreateSubscriptionThrows, CancelSubscriptionThrows, SendThrows, IsOpen
  <2>2. QED
    BY <1>0, <2>1, LetGo DEF SocketInv, SocketType
<1>7. CASE Close
  <2>1. /\ ws' = NoSocket /\ connection' = NoSocket /\ UNCHANGED <<attempt, attached>>
        /\ ready' = IF ws = NoSocket THEN ready ELSE Closed(ready, ws)
    BY <1>7 DEF Close, CloseKeeps
  <2>2. QED
    BY <1>0, <2>1, LetGo DEF SocketInv, SocketType
<1>8. CASE UNCHANGED <<ws, connection, ready, attempt, attached>>
  BY <1>8 DEF SocketInv, SocketType, PromiseIsCurrent, NoSocketLeaked
<1>9. ASSUME NEW s \in Sockets, NEW kind \in {"result", "error"}, OnAnswer(s, kind)
      PROVE  UNCHANGED <<ws, connection, ready, attempt, attached>>
  BY <1>9 DEF OnAnswer, socketVars
<1>10. ASSUME NEW s \in Sockets, NEW u \in Subs, OnNotification(s, u)
       PROVE  UNCHANGED <<ws, connection, ready, attempt, attached>>
  BY <1>10 DEF OnNotification, socketVars
<1>11. ASSUME NEW u \in Subs, CreateSubscription(u) \/ CancelSubscription(u)
       PROVE  UNCHANGED <<ws, connection, ready, attempt, attached>>
  BY <1>11 DEF CreateSubscription, CancelSubscription, SendRpc, socketVars
<1>12. ASSUME HandleNextMessage \/ StopInterval \/ (\E throws \in BOOLEAN : EndCallback(throws)) \/ UNCHANGED vars
       PROVE  UNCHANGED <<ws, connection, ready, attempt, attached>>
  BY <1>12 DEF HandleNextMessage, StopInterval, EndCallback, vars, socketVars
<1>13. ASSUME NEW s \in Sockets, OnClosing(s) PROVE SocketInv'
  BY <1>13 DEF OnClosing, SocketInv, SocketType, ReadyStates, PromiseIsCurrent, NoSocketLeaked
<1>14. QED
  BY <1>1, <1>2, <1>3, <1>4, <1>5, <1>6, <1>7, <1>8, <1>9, <1>10, <1>11, <1>12, <1>13 DEF Next

LEMMA SocketsHold == Spec => []SocketInv
BY SocketInit, SocketStep, PTL DEF Spec

\* The promise that ensureConnection hands out stands for the socket in use; it is gone
\* once that socket was closed, given up or has told that it was lost.
THEOREM PromiseIsCurrentHolds == Spec => []PromiseIsCurrent
<1>1. SocketInv => PromiseIsCurrent
  BY DEF SocketInv
<1>2. QED
  BY <1>1, SocketsHold, PTL

\* No socket is left open that the connection does not know.
THEOREM NoSocketLeakedHolds == Spec => []NoSocketLeaked
<1>1. SocketInv => NoSocketLeaked
  BY DEF SocketInv
<1>2. QED
  BY <1>1, SocketsHold, PTL
-----------------------------------------------------------------------------
(* Outcomes.                                                                *)

\* At most one request is awaited for a subscription.  If it was told already, its error
\* callback runs still, or the subscription has lapsed and was told once.
Owed(u) ==
  /\ outcomes[u] \in {0, 1, 2}
  /\ \A a, b \in AwaitedBy(u) : a = b
  /\ stage[u] = "new" => outcomes[u] = 0 /\ AwaitedBy(u) = {}
  /\ u \notin lapsed => outcomes[u] # 2 /\ (outcomes[u] = 1 => AwaitedBy(u) \subseteq telling)
  /\ u \in lapsed => outcomes[u] # 0 /\ (outcomes[u] = 2 => AwaitedBy(u) = {})
  /\ u \in Hearing => outcomes[u] # 0

OutcomeInv ==
  /\ outcomes \in [Subs -> Int]
  /\ stage \in [Subs -> {"new", "asked", "cancelled", "cancelledEarly", "thrown"}]
  /\ \A u \in Subs : Owed(u)

LEMMA OutcomeInit == Init => OutcomeInv
BY DEF Init, OutcomeInv, Owed, AwaitedBy, Hearing

LEMMA AwaitedCount ==
  ASSUME NEW u \in Subs, Owed(u)
  PROVE  Cardinality(AwaitedBy(u)) = IF AwaitedBy(u) = {} THEN 0 ELSE 1
<1>1. CASE AwaitedBy(u) = {}
  BY <1>1, FS_EmptySet
<1>2. CASE AwaitedBy(u) # {}
  <2>1. PICK r \in AwaitedBy(u) : TRUE
    BY <1>2
  <2>2. AwaitedBy(u) = {r}
    BY <2>1 DEF Owed
  <2>3. QED
    BY <1>2, <2>2, FS_Singleton
<1>3. QED
  BY <1>1, <1>2

\* Telling everybody who waits, and no request is awaited any more.
LEMMA ToldAll ==
  ASSUME OutcomeInv, rpc' = {}, telling' = telling, lapsed' = lapsed \cup Hearing,
         NEW more \in [Subs -> {0, 1}], \A u \in Subs : more[u] = 1 => stage[u] = "new",
         outcomes' = [u \in Subs |-> outcomes[u] + Cardinality(AwaitedBy(u)) + more[u]],
         stage' \in [Subs -> {"new", "asked", "cancelled", "cancelledEarly", "thrown"}],
         \A u \in Subs : stage'[u] = "new" => stage[u] = "new" /\ more[u] = 0
  PROVE  OutcomeInv'
<1> SUFFICES ASSUME NEW u \in Subs PROVE outcomes'[u] \in Int /\ Owed(u)'
  BY DEF OutcomeInv
<1>1. Owed(u) /\ more[u] \in {0, 1}
  BY DEF OutcomeInv
<1>2. outcomes'[u] = outcomes[u] + (IF AwaitedBy(u) = {} THEN 0 ELSE 1) + more[u]
  BY <1>1, AwaitedCount
<1>3. AwaitedBy(u)' = {} /\ (u \in Hearing)' = (u \in Hearing)
  BY DEF AwaitedBy, Hearing
<1>4. AwaitedBy(u) # {} /\ AwaitedBy(u) \subseteq telling => u \in Hearing
  BY DEF AwaitedBy, Hearing
<1>5. CASE AwaitedBy(u) = {}
  BY <1>1, <1>2, <1>3, <1>5 DEF Owed
<1>6. CASE AwaitedBy(u) # {}
  <2>1. more[u] = 0 /\ outcomes'[u] = outcomes[u] + 1
    BY <1>1, <1>2, <1>6 DEF Owed
  <2>2. QED
    BY <1>1, <1>3, <1>4, <1>6, <2>1 DEF Owed
<1>7. QED
  BY <1>5, <1>6

LEMMA FailPendingStep ==
  ASSUME OutcomeInv, FailPendingRpc, UNCHANGED stage
  PROVE  OutcomeInv'
<1> DEFINE more == [u \in Subs |-> 0]
<1>1. \A u \in Subs : outcomes[u] + Cardinality(AwaitedBy(u)) = outcomes[u] + Cardinality(AwaitedBy(u)) + more[u]
  <2> SUFFICES ASSUME NEW u \in Subs
               PROVE  outcomes[u] + Cardinality(AwaitedBy(u)) = outcomes[u] + Cardinality(AwaitedBy(u)) + 0
    OBVIOUS
  <2>1. outcomes[u] \in Int /\ Cardinality(AwaitedBy(u)) \in {0, 1}
    BY AwaitedCount DEF OutcomeInv
  <2>2. QED
    BY <2>1
<1>2. outcomes' = [u \in Subs |-> outcomes[u] + Cardinality(AwaitedBy(u)) + more[u]]
  BY <1>1 DEF FailPendingRpc
<1>3. /\ more \in [Subs -> {0, 1}]
      /\ \A u \in Subs : more[u] = 0
  OBVIOUS
<1>4. /\ rpc' = {} /\ telling' = telling /\ lapsed' = lapsed \cup Hearing
      /\ stage' = stage /\ stage \in [Subs -> {"new", "asked", "cancelled", "cancelledEarly", "thrown"}]
  BY DEF FailPendingRpc, OutcomeInv
<1> HIDE DEF more
<1>5. QED
  BY <1>2, <1>3, <1>4, ToldAll

LEMMA SendThrowsStep ==
  ASSUME OutcomeInv, NEW u \in Subs, NEW method \in {"subscribe", "unsubscribe"},
         SendThrows(Request(method, u)), method = "subscribe" => stage[u] = "new",
         NEW how \in {"cancelled", "cancelledEarly", "thrown"}, stage' = [stage EXCEPT ![u] = how]
  PROVE  OutcomeInv'
<1> DEFINE more == [v \in Subs |-> IF u = v /\ method = "subscribe" THEN 1 ELSE 0]
<1>1. outcomes' = [v \in Subs |-> outcomes[v] + Cardinality(AwaitedBy(v)) + more[v]]
  BY DEF SendThrows, Request
<1>2. /\ more \in [Subs -> {0, 1}]
      /\ \A v \in Subs : more[v] = 1 => stage[v] = "new"
      /\ \A v \in Subs : more[v] # 0 => v = u
  OBVIOUS
<1>3. /\ stage' \in [Subs -> {"new", "asked", "cancelled", "cancelledEarly", "thrown"}]
      /\ \A v \in Subs : stage'[v] = "new" => stage[v] = "new" /\ v # u
  BY DEF OutcomeInv
<1>4. rpc' = {} /\ telling' = telling /\ lapsed' = lapsed \cup Hearing
  BY DEF SendThrows
<1> HIDE DEF more
<1>5. QED
  BY <1>1, <1>2, <1>3, <1>4, ToldAll

\* Fewer requests are awaited, and nobody is told.
LEMMA Forgotten ==
  ASSUME OutcomeInv, UNCHANGED <<outcomes, callVars>>, rpc' \subseteq rpc,
         stage' \in [Subs -> {"new", "asked", "cancelled", "cancelledEarly", "thrown"}],
         \A u \in Subs : stage'[u] = "new" => stage[u] = "new"
  PROVE  OutcomeInv'
<1>1. \A u \in Subs : AwaitedBy(u)' \subseteq AwaitedBy(u)
  BY DEF AwaitedBy
<1>2. QED
  BY <1>1 DEF OutcomeInv, Owed, Hearing, callVars

\* A request is sent.
LEMMA SendStep ==
  ASSUME OutcomeInv, NEW u \in Subs, NEW method \in {"subscribe", "unsubscribe"},
         SendRpc(Request(method, u)), method = "subscribe" => stage[u] = "new",
         NEW how \in {"asked", "cancelled", "cancelledEarly"}, stage' = [stage EXCEPT ![u] = how]
  PROVE  OutcomeInv'
<1> DEFINE r == Request(method, u)
<1>1. /\ rpc' = rpc \cup {r} /\ outcomes' = outcomes /\ r.sub = u /\ r.method = method
      /\ UNCHANGED callVars
  BY DEF SendRpc, Request
<1>2. ASSUME NEW v \in Subs PROVE AwaitedBy(v)' = AwaitedBy(v) \/ (v = u /\ stage[u] = "new" /\ AwaitedBy(v)' = {r})
  <2>1. CASE v = u /\ method = "subscribe"
    <3>1. AwaitedBy(u) = {} /\ stage[u] = "new"
      BY <2>1 DEF OutcomeInv, Owed
    <3>2. QED
      BY <1>1, <2>1, <3>1 DEF AwaitedBy
  <2>2. CASE ~(v = u /\ method = "subscribe")
    BY <1>1, <2>2 DEF AwaitedBy
  <2>3. QED
    BY <2>1, <2>2
<1>3. ASSUME NEW v \in Subs PROVE Owed(v)'
  <2>1. Owed(v) /\ (stage'[v] = "new" => stage[v] = "new" /\ v # u)
    BY DEF OutcomeInv
  <2>2. UNCHANGED <<lapsed, telling>> /\ (v \in Hearing)' = (v \in Hearing) /\ outcomes'[v] = outcomes[v]
    BY <1>1 DEF callVars, Hearing
  <2>3. CASE AwaitedBy(v)' = AwaitedBy(v)
    <3>1. stage'[v] = "new" => outcomes[v] = 0 /\ AwaitedBy(v) = {}
      BY <2>1 DEF Owed
    <3>2. QED
      BY <2>1, <2>2, <2>3, <3>1 DEF Owed
  <2>4. CASE v = u /\ stage[u] = "new" /\ AwaitedBy(v)' = {r}
    <3> HIDE DEF r
    <3>1. QED
      BY <2>1, <2>2, <2>4 DEF Owed
  <2>5. QED
    BY <1>2, <2>3, <2>4
<1>4. stage' \in [Subs -> {"new", "asked", "cancelled", "cancelledEarly", "thrown"}]
  BY DEF OutcomeInv
<1>5. QED
  BY <1>1, <1>3, <1>4 DEF OutcomeInv

\* A frame tells at most the subscription it answers, and one that was told already gets
\* no second answer.  Its request is awaited until the callback has returned.
LEMMA FrameStep ==
  ASSUME OutcomeInv, Idle, NEW f, HandleFrame(f), UNCHANGED stage,
         \A r \in rpc : f.kind # "note" /\ r.id = f.id /\ r.method = "subscribe" /\ r.sub \in Subs
                        => outcomes[r.sub] = 0
  PROVE  OutcomeInv'
<1> DEFINE answered == {r \in rpc : f.kind # "note" /\ r.id = f.id}
           subs == {r.sub : r \in {a \in answered : a.method = "subscribe"}}
<1>1. /\ rpc' = IF f.kind = "error" THEN rpc ELSE rpc \ answered
      /\ telling' = IF f.kind = "error" THEN answered ELSE {}
      /\ outcomes' = [u \in Subs |-> outcomes[u] + IF u \in subs THEN 1 ELSE 0]
      /\ lapsed' = lapsed /\ telling = {}
  BY DEF HandleFrame, Idle
<1> SUFFICES ASSUME NEW u \in Subs PROVE outcomes'[u] \in Int /\ Owed(u)'
  BY <1>1 DEF OutcomeInv
<1>2. Owed(u) /\ outcomes[u] \in Int
  BY DEF OutcomeInv
<1>3. AwaitedBy(u)' = IF f.kind = "error" THEN AwaitedBy(u) ELSE AwaitedBy(u) \ answered
  BY <1>1 DEF AwaitedBy
<1>4. (u \in Hearing)' => u \in subs
  BY <1>1 DEF Hearing
<1>5. CASE u \in subs
  <2>1. PICK r \in answered : r.method = "subscribe" /\ r.sub = u
    BY <1>5
  <2>2. r \in AwaitedBy(u) /\ outcomes[u] = 0
    BY <2>1 DEF AwaitedBy
  <2>3. AwaitedBy(u) = {r} /\ AwaitedBy(u)' \subseteq telling'
    BY <1>1, <1>2, <1>3, <2>1, <2>2 DEF Owed
  <2>4. outcomes'[u] = 1 /\ stage[u] # "new" /\ u \notin lapsed
    BY <1>1, <1>2, <1>5, <2>2 DEF Owed
  <2>5. QED
    BY <1>1, <1>2, <1>3, <2>3, <2>4 DEF Owed
<1>6. CASE u \notin subs
  <2>1. outcomes'[u] = outcomes[u] /\ AwaitedBy(u)' \subseteq AwaitedBy(u) /\ ~(u \in Hearing)'
    BY <1>1, <1>2, <1>3, <1>4, <1>6
  <2>2. QED
    BY <1>1, <1>2, <2>1 DEF Owed
<1>7. QED
  BY <1>5, <1>6

\* The error callback ends: its listener goes, or the subscription lapses.
LEMMA EndStep ==
  ASSUME OutcomeInv, NEW throws \in BOOLEAN, EndCallback(throws)
  PROVE  OutcomeInv'
<1>1. /\ telling' = {} /\ UNCHANGED <<stage, outcomes>>
      /\ rpc' = IF throws THEN rpc ELSE rpc \ telling
      /\ lapsed' = IF throws THEN lapsed \cup Hearing ELSE lapsed
  BY DEF EndCallback
<1> SUFFICES ASSUME NEW u \in Subs PROVE Owed(u)'
  BY <1>1 DEF OutcomeInv
<1>2. Owed(u)
  BY DEF OutcomeInv
<1>3. AwaitedBy(u)' = (IF throws THEN AwaitedBy(u) ELSE AwaitedBy(u) \ telling) /\ ~(u \in Hearing)'
  BY <1>1 DEF AwaitedBy, Hearing
<1>4. AwaitedBy(u) # {} /\ AwaitedBy(u) \subseteq telling => u \in Hearing
  BY DEF AwaitedBy, Hearing
<1>5. CASE throws
  BY <1>1, <1>2, <1>3, <1>4, <1>5 DEF Owed
<1>6. CASE ~throws
  BY <1>1, <1>2, <1>3, <1>6 DEF Owed
<1>7. QED
  BY <1>5, <1>6
-----------------------------------------------------------------------------
(* The wire: what the mint is asked, what it answers, and the frames.       *)

\* The connection has a socket over which frames came: it is open, or closing and has
\* not told so.
Linked == ws # NoSocket /\ ready[ws] \in {"open", "closing"}

\* What the mint has not answered, and what it notifies, over that socket: it can no
\* longer do either over another one.
Pend == IF Linked THEN requests[ws] ELSE <<>>
Served == IF Linked THEN serving[ws] ELSE {}

AsksFor(u, i) == Pend[i].method = "subscribe" /\ Pend[i].sub = u
Asked(u) == \E i \in DOMAIN Pend : AsksFor(u, i)

\* Frame i registers the callback of u; frame i notifies u.
AckAt(u, i) == queue[i].kind = "result" /\ \E r \in AwaitedBy(u) : r.id = queue[i].id
NoteAt(u, i) == queue[i].kind = "note" /\ queue[i].sub = u
Acked(u) == \E i \in DOMAIN queue : AckAt(u, i)
NoNotes(u) == \A i \in DOMAIN queue : ~NoteAt(u, i)

FrameType ==
  /\ queue \in Seq(Frames)
  /\ rpcId \in Nat
  /\ rpc \subseteq Requests
  /\ sent \in [Subs -> Nat]
  /\ heard \in [Subs -> Nat]
  /\ requests \in [Sockets -> Seq(Requests)]
  /\ serving \in [Sockets -> SUBSET Subs]

\* Frames came over the connection's socket only; ids name one request.
WireInv ==
  /\ FrameType
  /\ \A s \in Sockets : ready[s] \in {"none", "connecting"} => requests[s] = <<>> /\ serving[s] = {}
  /\ ~Linked => queue = <<>>
  /\ \A r \in rpc : r.id < rpcId
  /\ \A i \in DOMAIN queue : queue[i].kind # "note" => queue[i].id < rpcId
  /\ \A i \in DOMAIN Pend : Pend[i].id < rpcId /\ \A r \in rpc : r.id = Pend[i].id => r = Pend[i]

LEMMA WireInit == Init => WireInv
<1> SUFFICES ASSUME Init PROVE WireInv
  OBVIOUS
<1>1. Pend = <<>> /\ queue = <<>> /\ ~Linked
  BY DEF Init, Pend, Linked
<1>2. QED
  BY <1>1 DEF Init, WireInv, FrameType

\* What cleanupSocket leaves.
LEMMA Cleaned ==
  ASSUME SocketInv, WireInv, NEW r \in [Sockets -> ReadyStates], CleanupSocket(r),
         \A t \in Sockets : r[t] \in {"none", "connecting"} => ready[t] \in {"none", "connecting"}
  PROVE  /\ ws' = NoSocket /\ queue' = <<>>
         /\ \A t \in Sockets : ready'[t] \in {"none", "connecting"} => ready[t] \in {"none", "connecting"}
<1>1. CASE ws = NoSocket
  BY <1>1 DEF CleanupSocket, WireInv, Linked
<1>2. CASE ws # NoSocket
  <2>1. ws \in Sockets
    BY <1>2 DEF SocketInv, SocketType
  <2>2. ready' = Closed(r, ws) /\ ws' = NoSocket /\ queue' = <<>>
    BY <1>2 DEF CleanupSocket, StopMessageHandling
  <2>3. \A t \in Sockets : ready'[t] \in {"none", "connecting"} => r[t] \in {"none", "connecting"}
    BY <2>1, <2>2 DEF Closed
  <2>4. QED
    BY <2>2, <2>3
<1>3. QED
  BY <1>1, <1>2

\* The connection has no such socket any more: what was on the wire is gone.
Dropped ==
  /\ ~Linked' /\ queue' = <<>>
  /\ rpc' \subseteq rpc /\ rpcId' \in {rpcId, rpcId + 1}
  /\ listeners' \subseteq listeners
  /\ UNCHANGED <<mintVars, heard>>
  /\ \A u \in Subs : stage'[u] = "new" => stage[u] = "new"
  /\ \A t \in Sockets : ready'[t] \in {"none", "connecting"} => ready[t] \in {"none", "connecting"}

\* Nothing happens on the wire, though a subscription may be withdrawn.
Quiet ==
  /\ UNCHANGED <<Pend, Served, queue, rpc, rpcId, mintVars, outcomes, heard>>
  /\ listeners' \subseteq listeners
  /\ \A u \in Subs : stage'[u] = "new" <=> stage[u] = "new"
  /\ (~Linked)' => queue = <<>>
  /\ \A t \in Sockets : ready'[t] \in {"none", "connecting"} => ready[t] \in {"none", "connecting"}

LEMMA FailDrops ==
  ASSUME SocketInv, WireInv, OutcomeInv, NEW s \in Sockets, NEW r \in [Sockets -> ReadyStates], Fail(s, r),
         \A t \in Sockets : r[t] \in {"none", "connecting"} => ready[t] \in {"none", "connecting"},
         UNCHANGED <<rpcId, listeners, mintVars, stage, heard>>
  PROVE  Dropped
<1>1. CleanupSocket(r) /\ rpc' = {}
  BY DEF Fail, FailPendingRpc
<1>2. /\ ws' = NoSocket /\ queue' = <<>>
      /\ \A t \in Sockets : ready'[t] \in {"none", "connecting"} => ready[t] \in {"none", "connecting"}
  BY <1>1, Cleaned
<1>3. QED
  BY <1>1, <1>2 DEF Dropped, Linked

LEMMA SendThrowsDrops ==
  ASSUME SocketInv, WireInv, OutcomeInv, NEW r, SendThrows(r), listeners' \subseteq listeners,
         \A u \in Subs : stage'[u] = "new" => stage[u] = "new", ws # NoSocket
  PROVE  Dropped
<1>1. /\ rpcId' = rpcId + 1 /\ ws' = NoSocket /\ queue' = <<>> /\ rpc' = {}
      /\ ready' = Closed(ready, ws) /\ UNCHANGED <<mintVars, heard>>
  BY DEF SendThrows, StopMessageHandling
<1>2. ws \in Sockets /\ ready \in [Sockets -> ReadyStates]
  BY DEF SocketInv, SocketType
<1>3. \A t \in Sockets : ready'[t] \in {"none", "connecting"} => ready[t] \in {"none", "connecting"}
  BY <1>1, <1>2 DEF Closed
<1>4. QED
  BY <1>1, <1>3 DEF Dropped, Linked, WireInv, FrameType

\* Every step is quiet, gives the socket up, is one of five over it, or ends a callback.
LEMMA WireSteps ==
  ASSUME SocketInv, WireInv, OutcomeInv, [Next]_vars
  PROVE  \/ Quiet \/ Dropped \/ HandleNextMessage
         \/ \E throws \in BOOLEAN : EndCallback(throws)
         \/ \E s \in Sockets, kind \in {"result", "error"} : OnAnswer(s, kind)
         \/ \E s \in Sockets, u \in Subs : OnNotification(s, u)
         \/ \E u \in Subs : CreateSubscription(u)
         \/ \E u \in Subs : CancelSubscription(u) /\ IsOpen
<1> USE NoSocketAssumption
<1>0. /\ ready \in [Sockets -> ReadyStates] /\ ws \in Sockets \cup {NoSocket}
      /\ \A t \in Sockets : ready[t] \in {"connecting", "open"} => t = ws
      /\ attempt \in [Sockets -> {"none", "waiting", "resolved", "rejected"}]
  BY DEF SocketInv, SocketType, NoSocketLeaked
<1>1. ASSUME NEW s \in Sockets, Connect(s) PROVE Quiet
  <2>1. /\ ~Linked /\ ready[s] = "none" /\ ws' = s /\ ready' = [ready EXCEPT ![s] = "connecting"]
    BY <1>1 DEF Connect, SocketInv, Linked, WireInv
  <2>2. ~Linked' /\ queue = <<>>
    BY <1>0, <2>1 DEF Linked, WireInv
  <2>3. Pend' = Pend /\ Served' = Served
    BY <2>1, <2>2 DEF Pend, Served
  <2>4. QED
    BY <1>0, <1>1, <2>1, <2>2, <2>3 DEF Quiet, Connect
<1>2. ASSUME NEW s \in Sockets, ConnectThrows(s) PROVE Dropped
  <2>1. CleanupSocket(ready) /\ rpc' = {} /\ UNCHANGED <<rpcId, listeners, mintVars, stage, heard>>
    BY <1>2 DEF ConnectThrows, FailPendingRpc
  <2>2. /\ ws' = NoSocket /\ queue' = <<>>
        /\ \A t \in Sockets : ready'[t] \in {"none", "connecting"} => ready[t] \in {"none", "connecting"}
    BY <1>0, <2>1, Cleaned
  <2>3. QED
    BY <2>1, <2>2 DEF Dropped, Linked
<1>3. ASSUME NEW s \in Sockets, Timeout(s) \/ OnError(s) PROVE Dropped
  BY <1>0, <1>3, FailDrops DEF Timeout, OnError
<1>4. ASSUME NEW s \in Sockets, OnOpen(s) PROVE Quiet
  <2>1. /\ s = ws /\ ~Linked /\ ready' = [ready EXCEPT ![s] = "open"]
        /\ UNCHANGED <<ws, queue, rpcId, rpc, listeners, mintVars, stage, outcomes, heard>>
        /\ requests[s] = <<>> /\ serving[s] = {}
    BY <1>0, <1>4 DEF OnOpen, Linked, WireInv
  <2>2. Linked' /\ queue = <<>>
    BY <1>0, <2>1 DEF Linked, WireInv
  <2>3. Pend' = Pend /\ Served' = Served
    BY <2>1, <2>2 DEF Pend, Served, mintVars
  <2>4. QED
    BY <1>0, <2>1, <2>2, <2>3 DEF Quiet, WireInv
<1>5. ASSUME NEW s \in Sockets, NEW abnormal \in BOOLEAN, OnClose(s, abnormal) PROVE Quiet \/ Dropped
  <2> DEFINE closed == [ready EXCEPT ![s] = "closed"]
  <2>1. /\ closed \in [Sockets -> ReadyStates]
        /\ \A t \in Sockets : closed[t] \in {"none", "connecting"} => ready[t] \in {"none", "connecting"}
        /\ UNCHANGED <<rpcId, listeners, mintVars, stage, heard>>
    BY <1>0, <1>5 DEF OnClose, ReadyStates
  <2>2. CASE ~attached[s] \/ ws \notin {s, NoSocket}
    <3>1. /\ ready' = closed
          /\ UNCHANGED <<ws, queue, rpc, outcomes>>
      BY <1>5, <2>2 DEF OnClose
    <3>2. ws # s
      BY <2>2 DEF SocketInv
    <3>3. Linked' = Linked
      BY <1>0, <3>1, <3>2 DEF Linked
    <3>4. Pend' = Pend /\ Served' = Served
      BY <2>1, <3>1, <3>3 DEF Pend, Served, mintVars
    <3>5. QED
      BY <2>1, <3>1, <3>3, <3>4 DEF Quiet, WireInv
  <2>3. CASE ~(~attached[s] \/ ws \notin {s, NoSocket}) /\ attempt[s] # "resolved"
    <3>1. Fail(s, closed)
      BY <1>5, <2>3 DEF OnClose
    <3> HIDE DEF closed
    <3>2. QED
      BY <2>1, <3>1, FailDrops
  <2>4. CASE ~(~attached[s] \/ ws \notin {s, NoSocket}) /\ attempt[s] = "resolved"
    <3>1. ready' = closed /\ ws' = ws /\ queue' = <<>> /\ rpc' = {}
      BY <1>5, <2>4 DEF OnClose, StopMessageHandling, FailPendingRpc
    <3>2. ~Linked'
      BY <1>0, <2>4, <3>1 DEF Linked
    <3>3. QED
      BY <2>1, <3>1, <3>2 DEF Dropped, WireInv, FrameType
  <2>5. QED
    BY <2>2, <2>3, <2>4
<1>6. ASSUME NEW u \in Subs, CreateSubscriptionThrows(u) \/ CancelSubscriptionThrows(u) PROVE Dropped
  <2>1. \A v \in Subs : stage'[v] = "new" => stage[v] = "new"
    BY <1>6 DEF CreateSubscriptionThrows, CancelSubscriptionThrows, OutcomeInv
  <2>2. ws # NoSocket /\ listeners' \subseteq listeners
    BY <1>6 DEF CreateSubscriptionThrows, CancelSubscriptionThrows, IsOpen
  <2>3. SendThrows(Request("subscribe", u)) \/ SendThrows(Request("unsubscribe", u))
    BY <1>6 DEF CreateSubscriptionThrows, CancelSubscriptionThrows
  <2>4. QED
    BY <2>1, <2>2, <2>3, SendThrowsDrops
<1>7. CASE Close
  <2>1. /\ ws' = NoSocket /\ queue' = <<>>
        /\ UNCHANGED <<rpcId, rpc, listeners, mintVars, stage, heard>>
        /\ ready' = IF ws = NoSocket THEN ready ELSE Closed(ready, ws)
    BY <1>7 DEF Close, CloseKeeps, StopMessageHandling
  <2>2. \A t \in Sockets : ready'[t] \in {"none", "connecting"} => ready[t] \in {"none", "connecting"}
    BY <1>0, <2>1 DEF Closed
  <2>3. QED
    BY <2>1, <2>2 DEF Dropped, Linked, WireInv, FrameType
<1>8. ASSUME NEW u \in Subs, CancelSubscription(u), ~IsOpen PROVE Quiet
  <2>1. /\ listeners' = listeners \ {u}
        /\ UNCHANGED <<socketVars, queue, rpcId, rpc, mintVars, outcomes, heard>>
        /\ \A v \in Subs : stage'[v] = "new" <=> stage[v] = "new"
    BY <1>8 DEF CancelSubscription, OutcomeInv
  <2>2. Linked' = Linked /\ Pend' = Pend /\ Served' = Served
    BY <2>1 DEF Linked, Pend, Served, socketVars, mintVars
  <2>3. QED
    BY <2>1, <2>2 DEF Quiet, socketVars, WireInv
<1>9. CASE StopInterval \/ UNCHANGED vars
  <2>1. UNCHANGED <<socketVars, queue, rpcId, rpc, listeners, mintVars, stage, outcomes, heard>>
    BY <1>9 DEF StopInterval, vars
  <2>2. Linked' = Linked /\ Pend' = Pend /\ Served' = Served
    BY <2>1 DEF Linked, Pend, Served, socketVars, mintVars
  <2>3. QED
    BY <2>1, <2>2 DEF Quiet, socketVars, WireInv
<1>10. ASSUME NEW s \in Sockets, OnClosing(s) PROVE Quiet
  <2>1. /\ ready[s] = "open" /\ s = ws /\ ready' = [ready EXCEPT ![s] = "closing"]
        /\ UNCHANGED <<ws, queue, rpcId, rpc, listeners, mintVars, stage, outcomes, heard>>
    BY <1>0, <1>10 DEF OnClosing
  <2>2. Linked /\ Linked'
    BY <1>0, <2>1 DEF Linked
  <2>3. Pend' = Pend /\ Served' = Served
    BY <2>1, <2>2 DEF Pend, Served, mintVars
  <2>4. QED
    BY <1>0, <2>1, <2>2, <2>3 DEF Quiet
<1>11. QED
  BY <1>1, <1>2, <1>3, <1>4, <1>5, <1>6, <1>7, <1>8, <1>9, <1>10 DEF Next

\* What a frame arriving over the open socket does to the queue.
LEMMA ReceivedHere ==
  ASSUME SocketInv, WireInv, NEW s \in Sockets, NEW f \in Frames, ready[s] = "open", Received(s, f)
  PROVE  s = ws /\ Linked /\ queue' = Append(queue, f)
<1>1. s = ws /\ ws # NoSocket /\ attached[s]
  BY NoSocketAssumption DEF SocketInv, NoSocketLeaked
<1>2. QED
  BY <1>1 DEF Received, Linked

\* Taking the first element of a sequence, and adding one at its end.
LEMMA TailShifts ==
  ASSUME NEW S, NEW q \in Seq(S), q # <<>>
  PROVE  /\ Tail(q) \in Seq(S) /\ Head(q) = q[1] /\ q[1] \in S
         /\ 1 \in DOMAIN q
         /\ \A i \in DOMAIN Tail(q) : i + 1 \in DOMAIN q /\ Tail(q)[i] = q[i + 1] /\ i \in Nat \ {0}
         /\ \A i \in DOMAIN q : i = 1 \/ (i - 1 \in DOMAIN Tail(q) /\ i \in Nat /\ i > 1)
OBVIOUS

LEMMA AppendExtends ==
  ASSUME NEW S, NEW q \in Seq(S), NEW e \in S
  PROVE  /\ Append(q, e) \in Seq(S) /\ Append(q, e)[Len(q) + 1] = e
         /\ Len(q) + 1 \in DOMAIN Append(q, e)
         /\ \A i \in DOMAIN q : i \in DOMAIN Append(q, e) /\ Append(q, e)[i] = q[i] /\ i < Len(q) + 1 /\ i \in Nat \ {0}
         /\ \A i \in DOMAIN Append(q, e) : i \in DOMAIN q \/ i = Len(q) + 1
         /\ Len(q) \in Nat
OBVIOUS

LEMMA DroppedWire ==
  ASSUME SocketInv, WireInv, Dropped
  PROVE  WireInv'
<1>1. Pend' = <<>>
  BY DEF Dropped, Pend
<1>2. rpcId \in Nat /\ \A r \in rpc' : r.id < rpcId /\ r \in rpc /\ r.id \in Nat
  BY DEF Dropped, WireInv, FrameType, Requests
<1>3. \A r \in rpc' : r.id < rpcId'
  <2> SUFFICES ASSUME NEW r \in rpc' PROVE r.id < rpcId'
    OBVIOUS
  <2>1. CASE rpcId' = rpcId
    BY <1>2, <2>1
  <2>2. CASE rpcId' = rpcId + 1
    BY <1>2, <2>2
  <2>3. QED
    BY <2>1, <2>2 DEF Dropped
<1>4. QED
  BY <1>1, <1>3 DEF Dropped, WireInv, FrameType, mintVars

LEMMA QuietWire ==
  ASSUME SocketInv, WireInv, Quiet
  PROVE  WireInv'
BY DEF Quiet, WireInv, FrameType, mintVars

LEMMA AnswerWire ==
  ASSUME SocketInv, WireInv, NEW s \in Sockets, NEW kind \in {"result", "error"}, OnAnswer(s, kind)
  PROVE  /\ WireInv'
         /\ s = ws /\ Linked /\ Pend # <<>>
         /\ Pend' = Tail(Pend)
         /\ queue' = Append(queue, [kind |-> kind, id |-> Pend[1].id, socket |-> s])
         /\ Served' \subseteq Served \cup {u \in Subs : kind = "result" /\ AsksFor(u, 1)}
<1> DEFINE f == [kind |-> kind, id |-> Head(requests[s]).id, socket |-> s]
<1>1. /\ ready[s] = "open" /\ requests[s] # <<>> /\ requests[s] \in Seq(Requests)
      /\ requests' = [requests EXCEPT ![s] = Tail(@)]
      /\ Received(s, f)
      /\ UNCHANGED <<socketVars, rpcId, rpc, sent, heard>>
      /\ serving' = [serving EXCEPT ![s] =
                       IF kind = "error" THEN @
                       ELSE IF Head(requests[s]).method = "subscribe" THEN @ \cup {Head(requests[s]).sub}
                       ELSE @ \ {Head(requests[s]).sub}]
  BY DEF OnAnswer, WireInv, FrameType
<1>2. /\ Head(requests[s]) = requests[s][1] /\ requests[s][1] \in Requests /\ Tail(requests[s]) \in Seq(Requests)
      /\ 1 \in DOMAIN requests[s]
      /\ \A i \in DOMAIN Tail(requests[s]) : i + 1 \in DOMAIN requests[s] /\ Tail(requests[s])[i] = requests[s][i + 1]
  BY <1>1, TailShifts
<1>3. requests[s][1].id \in Nat /\ requests[s][1].sub \in Subs
  BY <1>2 DEF Requests
<1>4. f \in Frames
  BY <1>2, <1>3 DEF Frames
<1>5. s = ws /\ Linked /\ queue' = Append(queue, f) /\ Linked'
  <2> HIDE DEF f
  <2>1. s = ws /\ Linked /\ queue' = Append(queue, f)
    BY <1>1, <1>4, ReceivedHere
  <2>2. QED
    BY <1>1, <2>1 DEF Linked, socketVars
<1>6. Pend = requests[s] /\ Pend' = Tail(requests[s]) /\ Served = serving[s]
  BY <1>1, <1>5 DEF Pend, Served, WireInv, FrameType, socketVars
<1>7. Served' \subseteq Served \cup {u \in Subs : kind = "result" /\ AsksFor(u, 1)}
  <2>1. Served' = serving'[s]
    BY <1>1, <1>5 DEF Served, socketVars
  <2>2. QED
    BY <1>1, <1>2, <1>3, <1>6, <2>1 DEF AsksFor, WireInv, FrameType
<1>8. /\ queue \in Seq(Frames) /\ rpcId \in Nat
      /\ \A i \in DOMAIN queue : queue[i].kind # "note" => queue[i].id < rpcId
      /\ f.id < rpcId
  BY <1>2, <1>6 DEF WireInv, FrameType
<1>9. /\ queue' \in Seq(Frames)
      /\ \A i \in DOMAIN queue' : queue'[i].kind # "note" => queue'[i].id < rpcId
  <2> HIDE DEF f
  <2>1. QED
    BY <1>4, <1>5, <1>8, AppendExtends
<1>10. \A i \in DOMAIN Pend' : Pend'[i].id < rpcId /\ \A r \in rpc : r.id = Pend'[i].id => r = Pend'[i]
  BY <1>2, <1>6 DEF WireInv
<1>11. /\ requests' \in [Sockets -> Seq(Requests)]
       /\ serving' \in [Sockets -> SUBSET Subs]
       /\ \A t \in Sockets : ready[t] \in {"none", "connecting"} => requests'[t] = <<>> /\ serving'[t] = {}
  BY <1>1, <1>2, <1>3 DEF WireInv, FrameType
<1>12. WireInv'
  BY <1>1, <1>5, <1>9, <1>10, <1>11 DEF WireInv, FrameType, socketVars
<1>13. QED
  BY <1>1, <1>2, <1>5, <1>6, <1>7, <1>12

LEMMA NotificationWire ==
  ASSUME SocketInv, WireInv, NEW s \in Sockets, NEW u \in Subs, OnNotification(s, u)
  PROVE  /\ WireInv'
         /\ u \in Served /\ Pend' = Pend /\ Served' = Served
         /\ sent' = [sent EXCEPT ![u] = @ + 1]
         /\ queue' = Append(queue, [kind |-> "note", sub |-> u, number |-> sent[u] + 1, socket |-> s])
<1> DEFINE f == [kind |-> "note", sub |-> u, number |-> sent[u] + 1, socket |-> s]
<1>1. /\ ready[s] = "open" /\ u \in serving[s]
      /\ sent' = [sent EXCEPT ![u] = @ + 1] /\ sent \in [Subs -> Nat]
      /\ Received(s, f)
      /\ UNCHANGED <<socketVars, rpcId, rpc, requests, serving, heard>>
  BY DEF OnNotification, WireInv, FrameType
<1>2. f \in Frames /\ f.kind = "note"
  BY <1>1 DEF Frames
<1> HIDE DEF f
<1>3. s = ws /\ Linked /\ queue' = Append(queue, f) /\ Linked' /\ Pend' = Pend /\ Served' = Served /\ u \in Served
  <2>1. s = ws /\ Linked /\ queue' = Append(queue, f)
    BY <1>1, <1>2, ReceivedHere
  <2>2. QED
    BY <1>1, <2>1 DEF Linked, socketVars, Pend, Served
<1>4. /\ queue' \in Seq(Frames)
      /\ \A i \in DOMAIN queue' : queue'[i].kind # "note" => queue'[i].id < rpcId
  BY <1>2, <1>3, AppendExtends DEF WireInv, FrameType
<1>5. WireInv'
  BY <1>1, <1>3, <1>4 DEF WireInv, FrameType, socketVars
<1>6. QED
  BY <1>1, <1>3, <1>5 DEF f

LEMMA HandleWire ==
  ASSUME SocketInv, WireInv, HandleNextMessage
  PROVE  /\ WireInv'
         /\ queue # <<>> /\ queue' = Tail(queue)
         /\ Pend' = Pend /\ Served' = Served
         /\ UNCHANGED <<sent, stage>>
         /\ HandleFrame(queue[1])
<1>1. /\ queue # <<>> /\ queue' = Tail(queue) /\ queue \in Seq(Frames)
      /\ UNCHANGED <<socketVars, rpcId, mintVars, stage>> /\ HandleFrame(Head(queue))
  BY DEF HandleNextMessage, WireInv, FrameType
<1>2. Linked' = Linked /\ Pend' = Pend /\ Served' = Served
  BY <1>1 DEF Linked, socketVars, mintVars, Pend, Served
<1>3. /\ Tail(queue) \in Seq(Frames) /\ Head(queue) = queue[1] /\ queue[1] \in Frames
      /\ \A i \in DOMAIN Tail(queue) : i + 1 \in DOMAIN queue /\ Tail(queue)[i] = queue[i + 1]
  BY <1>1, TailShifts
<1>4. rpc' \subseteq rpc
  BY <1>1 DEF HandleFrame
<1>5. heard' \in [Subs -> Nat]
  <2>1. CASE queue[1].kind = "note" /\ queue[1].sub \in listeners
    <3>1. heard' = [heard EXCEPT ![queue[1].sub] = queue[1].number] /\ queue[1].number \in Nat
      BY <1>1, <1>3, <2>1 DEF HandleFrame, Frames
    <3>2. QED
      BY <3>1 DEF WireInv, FrameType
  <2>2. CASE ~(queue[1].kind = "note" /\ queue[1].sub \in listeners)
    BY <1>1, <1>3, <2>2 DEF HandleFrame, WireInv, FrameType
  <2>3. QED
    BY <2>1, <2>2
<1>6. WireInv'
  BY <1>1, <1>2, <1>3, <1>4, <1>5 DEF WireInv, FrameType, socketVars, mintVars, Linked
<1>7. QED
  BY <1>1, <1>2, <1>3, <1>6 DEF mintVars

LEMMA EndWire ==
  ASSUME WireInv, NEW throws \in BOOLEAN, EndCallback(throws)
  PROVE  /\ WireInv'
         /\ Pend' = Pend /\ Served' = Served /\ rpc' \subseteq rpc
         /\ UNCHANGED <<queue, listeners, sent, stage, outcomes, heard>>
<1>1. /\ rpc' \subseteq rpc
      /\ UNCHANGED <<socketVars, queue, rpcId, listeners, mintVars, stage, outcomes, heard>>
  BY DEF EndCallback
<1>2. Linked' = Linked /\ Pend' = Pend /\ Served' = Served
  BY <1>1 DEF Linked, Pend, Served, socketVars, mintVars
<1>3. WireInv'
  BY <1>1, <1>2 DEF WireInv, FrameType, socketVars, mintVars
<1>4. QED
  BY <1>1, <1>2, <1>3 DEF mintVars

LEMMA SendWire ==
  ASSUME SocketInv, WireInv, NEW u \in Subs, NEW method \in {"subscribe", "unsubscribe"},
         SendRpc(Request(method, u)), IsOpen
  PROVE  /\ WireInv'
         /\ Pend' = Append(Pend, Request(method, u)) /\ Served' = Served
         /\ rpc' = rpc \cup {Request(method, u)} /\ UNCHANGED <<queue, sent, heard>>
         /\ Pend \in Seq(Requests) /\ Request(method, u) \in Requests
<1> DEFINE r == Request(method, u)
<1>1. /\ rpc' = rpc \cup {r} /\ requests' = [requests EXCEPT ![ws] = Append(@, r)] /\ rpcId' = rpcId + 1
      /\ UNCHANGED <<socketVars, queue, serving, sent, heard>>
  BY DEF SendRpc
<1>2. ws \in Sockets /\ ready[ws] = "open" /\ rpcId \in Nat /\ Linked
  BY DEF IsOpen, Linked, SocketInv, SocketType, WireInv, FrameType
<1>3. r \in Requests /\ r.id = rpcId
  BY <1>2 DEF Request, Requests
<1> HIDE DEF r
<1>4. Linked' /\ Pend = requests[ws] /\ Pend \in Seq(Requests) /\ Pend' = Append(Pend, r) /\ Served' = Served
  BY <1>1, <1>2 DEF Linked, Pend, Served, WireInv, FrameType, socketVars
<1>5. /\ requests' \in [Sockets -> Seq(Requests)]
      /\ \A t \in Sockets : ready[t] \in {"none", "connecting"} => requests'[t] = <<>> /\ serving'[t] = {}
  <2>1. Append(requests[ws], r) \in Seq(Requests)
    BY <1>3, <1>4, AppendExtends
  <2>2. QED
    BY <1>1, <1>2, <2>1 DEF WireInv, FrameType
<1>6. rpc' \subseteq Requests /\ \A a \in rpc' : a.id < rpcId + 1
  <2>1. \A a \in rpc : a.id \in Nat /\ a.id < rpcId
    BY DEF WireInv, FrameType, Requests
  <2>2. QED
    BY <1>1, <1>2, <1>3, <2>1 DEF WireInv, FrameType
<1>7. \A i \in DOMAIN Pend' : Pend'[i].id < rpcId + 1 /\ \A a \in rpc' : a.id = Pend'[i].id => a = Pend'[i]
  <2>1. \A i \in DOMAIN Pend : Pend[i].id \in Nat /\ Pend[i].id < rpcId /\ \A a \in rpc : a.id = Pend[i].id => a = Pend[i]
    <3>1. \A i \in DOMAIN Pend : Pend[i] \in Requests
      BY <1>4
    <3>2. \A i \in DOMAIN Pend : Pend[i].id \in Nat
      BY <3>1 DEF Requests
    <3>3. QED
      BY <3>2 DEF WireInv
  <2>2. \A a \in rpc : a.id \in Nat /\ a.id < rpcId
    BY DEF WireInv, FrameType, Requests
  <2>3. \A i \in DOMAIN Pend' : (i \in DOMAIN Pend /\ Pend'[i] = Pend[i]) \/ Pend'[i] = r
    BY <1>3, <1>4, AppendExtends
  <2>4. QED
    BY <1>1, <1>2, <1>3, <2>1, <2>2, <2>3
<1>8. \A i \in DOMAIN queue : queue[i].kind # "note" => queue[i].id < rpcId + 1
  <2> SUFFICES ASSUME NEW i \in DOMAIN queue, queue[i].kind # "note" PROVE queue[i].id < rpcId + 1
    OBVIOUS
  <2>1. queue[i] \in Frames
    BY DEF WireInv, FrameType
  <2>2. queue[i].id \in Nat /\ queue[i].id < rpcId
    BY <2>1 DEF Frames, WireInv
  <2>3. QED
    BY <1>2, <2>2
<1>9. WireInv'
  BY <1>1, <1>2, <1>4, <1>5, <1>6, <1>7, <1>8 DEF WireInv, FrameType, socketVars
<1>10. QED
  BY <1>1, <1>3, <1>4, <1>9 DEF r

LEMMA WireStep == SocketInv /\ OutcomeInv /\ WireInv /\ [Next]_vars => WireInv'
<1> SUFFICES ASSUME SocketInv, OutcomeInv, WireInv, [Next]_vars PROVE WireInv'
  OBVIOUS
<1>1. ASSUME NEW u \in Subs, CreateSubscription(u) \/ (CancelSubscription(u) /\ IsOpen) PROVE WireInv'
  BY <1>1, SendWire DEF CreateSubscription, CancelSubscription
<1>2. QED
  BY <1>1, WireSteps, QuietWire, DroppedWire, AnswerWire, NotificationWire, HandleWire, EndWire

-----------------------------------------------------------------------------
(* One answer for each id.                                                  *)

\* Answers in the queue and requests the mint has not answered have different ids, and a
\* request that was told its outcome has no answer on the way.
IsAnswer(f) == f.kind # "note"

AnsweredOnce ==
  /\ \A i, j \in DOMAIN Pend : Pend[i].id = Pend[j].id => i = j
  /\ \A i \in DOMAIN queue : IsAnswer(queue[i]) =>
       /\ \A j \in DOMAIN Pend : queue[i].id # Pend[j].id
       /\ \A j \in DOMAIN queue : IsAnswer(queue[j]) /\ queue[j].id = queue[i].id => j = i
  /\ \A r \in rpc : r.method = "subscribe" /\ outcomes[r.sub] # 0 =>
       /\ \A i \in DOMAIN queue : IsAnswer(queue[i]) => queue[i].id # r.id
       /\ \A j \in DOMAIN Pend : Pend[j].id # r.id

LEMMA OnceInit == Init => AnsweredOnce
BY DEF Init, AnsweredOnce, Pend, Linked

\* The mint answers the oldest request.
LEMMA OnceAnswer ==
  ASSUME SocketInv, WireInv, AnsweredOnce, NEW s \in Sockets, NEW kind \in {"result", "error"}, OnAnswer(s, kind)
  PROVE  AnsweredOnce'
<1> DEFINE f == [kind |-> kind, id |-> Pend[1].id, socket |-> s]
<1>1. /\ Pend # <<>> /\ Pend' = Tail(Pend) /\ queue' = Append(queue, f) /\ Linked /\ s = ws
  BY AnswerWire
<1>2. UNCHANGED <<rpc, outcomes>>
  BY DEF OnAnswer
<1>3. Pend \in Seq(Requests) /\ queue \in Seq(Frames)
  BY <1>1 DEF Pend, Linked, WireInv, FrameType
<1>4. /\ 1 \in DOMAIN Pend /\ Pend[1] \in Requests
      /\ \A i \in DOMAIN Pend' : i + 1 \in DOMAIN Pend /\ Pend'[i] = Pend[i + 1] /\ i \in Nat \ {0}
  BY <1>1, <1>3, TailShifts
<1>5. f \in Frames /\ f.id = Pend[1].id
  BY <1>4 DEF Frames, Requests
<1> HIDE DEF f
<1>6. /\ \A i \in DOMAIN queue' : (i \in DOMAIN queue /\ queue'[i] = queue[i]) \/ (i = Len(queue) + 1 /\ queue'[i] = f)
  BY <1>1, <1>3, <1>5, AppendExtends
<1>7. \A i, j \in DOMAIN Pend' : Pend'[i].id = Pend'[j].id => i = j
  <2> SUFFICES ASSUME NEW i \in DOMAIN Pend', NEW j \in DOMAIN Pend', Pend'[i].id = Pend'[j].id PROVE i = j
    OBVIOUS
  <2>1. i + 1 = j + 1 /\ i \in Nat /\ j \in Nat
    BY <1>4 DEF AnsweredOnce
  <2>2. QED
    BY <2>1
<1>8. \A j \in DOMAIN Pend' : Pend'[j].id # f.id
  <2> SUFFICES ASSUME NEW j \in DOMAIN Pend', Pend[j + 1].id = Pend[1].id PROVE FALSE
    BY <1>4, <1>5
  <2>1. j + 1 = 1 /\ j \in Nat \ {0}
    BY <1>4 DEF AnsweredOnce
  <2>2. QED
    BY <2>1
<1>9. ASSUME NEW i \in DOMAIN queue', IsAnswer(queue'[i])
      PROVE  /\ \A j \in DOMAIN Pend' : queue'[i].id # Pend'[j].id
             /\ \A j \in DOMAIN queue' : IsAnswer(queue'[j]) /\ queue'[j].id = queue'[i].id => j = i
  BY <1>4, <1>5, <1>6, <1>8, <1>9 DEF AnsweredOnce
<1>10. ASSUME NEW r \in rpc, r.method = "subscribe", outcomes[r.sub] # 0
       PROVE  /\ \A i \in DOMAIN queue' : IsAnswer(queue'[i]) => queue'[i].id # r.id
              /\ \A j \in DOMAIN Pend' : Pend'[j].id # r.id
  BY <1>4, <1>5, <1>6, <1>10 DEF AnsweredOnce
<1>11. QED
  BY <1>2, <1>7, <1>9, <1>10 DEF AnsweredOnce, IsAnswer

LEMMA OnceNotification ==
  ASSUME SocketInv, WireInv, AnsweredOnce, NEW s \in Sockets, NEW u \in Subs, OnNotification(s, u)
  PROVE  AnsweredOnce'
<1> DEFINE f == [kind |-> "note", sub |-> u, number |-> sent[u] + 1, socket |-> s]
<1>1. Pend' = Pend /\ queue' = Append(queue, f)
  BY NotificationWire
<1>2. UNCHANGED <<rpc, outcomes>> /\ queue \in Seq(Frames) /\ sent \in [Subs -> Nat]
  BY DEF OnNotification, WireInv, FrameType
<1>3. f \in Frames /\ ~IsAnswer(f)
  BY <1>2 DEF Frames, IsAnswer
<1> HIDE DEF f
<1>4. \A i \in DOMAIN queue' : (i \in DOMAIN queue /\ queue'[i] = queue[i]) \/ queue'[i] = f
  BY <1>1, <1>2, <1>3, AppendExtends
<1>5. \A i \in DOMAIN queue' : IsAnswer(queue'[i]) => i \in DOMAIN queue /\ queue'[i] = queue[i]
  BY <1>3, <1>4
<1>6. QED
  BY <1>1, <1>2, <1>5 DEF AnsweredOnce, IsAnswer

\* A frame is handled; if it told a subscription, its id is gone from the wire.
LEMMA OnceHandle ==
  ASSUME SocketInv, OutcomeInv, WireInv, AnsweredOnce, HandleNextMessage
  PROVE  AnsweredOnce'
<1> DEFINE f == queue[1]
           subs == {r.sub : r \in {a \in rpc : IsAnswer(f) /\ a.id = f.id /\ a.method = "subscribe"}}
<1>1. queue # <<>> /\ queue' = Tail(queue) /\ Pend' = Pend /\ HandleFrame(f)
  BY HandleWire
<1>2. queue \in Seq(Frames) /\ outcomes \in [Subs -> Int] /\ rpc \subseteq Requests
  BY DEF WireInv, FrameType, OutcomeInv
<1>3. /\ 1 \in DOMAIN queue
      /\ \A i \in DOMAIN queue' : i + 1 \in DOMAIN queue /\ queue'[i] = queue[i + 1] /\ i \in Nat \ {0}
  BY <1>1, <1>2, TailShifts
<1>4. rpc' \subseteq rpc /\ \A u \in Subs : outcomes'[u] # outcomes[u] => u \in subs
  BY <1>1, <1>2 DEF HandleFrame, IsAnswer
<1>5. \A i \in DOMAIN queue' : IsAnswer(queue'[i]) =>
        /\ \A j \in DOMAIN Pend' : queue'[i].id # Pend'[j].id
        /\ \A j \in DOMAIN queue' : IsAnswer(queue'[j]) /\ queue'[j].id = queue'[i].id => j = i
  <2>1. ASSUME NEW i \in DOMAIN queue', NEW j \in DOMAIN queue', IsAnswer(queue'[i]), IsAnswer(queue'[j]),
               queue'[j].id = queue'[i].id
        PROVE  j = i
    <3>1. j + 1 = i + 1 /\ i \in Nat /\ j \in Nat
      BY <1>3, <2>1 DEF AnsweredOnce
    <3>2. QED
      BY <3>1
  <2>2. ASSUME NEW i \in DOMAIN queue', NEW j \in DOMAIN Pend', IsAnswer(queue'[i]) PROVE queue'[i].id # Pend'[j].id
    BY <1>1, <1>3, <2>2 DEF AnsweredOnce
  <2>3. QED
    BY <2>1, <2>2
<1>6. ASSUME NEW r \in rpc', r.method = "subscribe", outcomes'[r.sub] # 0
      PROVE  /\ \A i \in DOMAIN queue' : IsAnswer(queue'[i]) => queue'[i].id # r.id
             /\ \A j \in DOMAIN Pend' : Pend'[j].id # r.id
  <2>1. r \in rpc /\ r.sub \in Subs
    BY <1>2, <1>4, <1>6 DEF Requests
  <2>2. CASE outcomes[r.sub] # 0
    BY <1>1, <1>3, <1>6, <2>1, <2>2 DEF AnsweredOnce
  <2>3. CASE outcomes[r.sub] = 0
    <3>1. r.sub \in subs
      BY <1>4, <1>6, <2>1, <2>3
    <3>2. PICK a \in rpc : IsAnswer(f) /\ a.id = f.id /\ a.method = "subscribe" /\ a.sub = r.sub
      BY <3>1
    <3>3. a = r
      BY <1>6, <2>1, <3>2 DEF OutcomeInv, Owed, AwaitedBy
    <3>4. \A i \in DOMAIN queue' : IsAnswer(queue'[i]) => queue'[i].id # r.id
      <4> SUFFICES ASSUME NEW i \in DOMAIN queue', IsAnswer(queue'[i]), queue'[i].id = r.id PROVE FALSE
        OBVIOUS
      <4>1. i + 1 = 1 /\ i \in Nat \ {0}
        BY <1>3, <3>2, <3>3 DEF AnsweredOnce
      <4>2. QED
        BY <4>1
    <3>5. QED
      BY <1>1, <1>3, <3>2, <3>3, <3>4 DEF AnsweredOnce
  <2>4. QED
    BY <2>2, <2>3
<1>7. \A i, j \in DOMAIN Pend' : Pend'[i].id = Pend'[j].id => i = j
  BY <1>1 DEF AnsweredOnce
<1> HIDE DEF f
<1>8. QED
  BY <1>5, <1>6, <1>7 DEF AnsweredOnce, IsAnswer

\* A request has an id of its own.
LEMMA OnceSend ==
  ASSUME SocketInv, OutcomeInv, WireInv, AnsweredOnce, IsOpen, NEW u \in Subs,
         NEW method \in {"subscribe", "unsubscribe"}, SendRpc(Request(method, u)),
         method = "subscribe" => stage[u] = "new"
  PROVE  AnsweredOnce'
<1> DEFINE r == Request(method, u)
<1>1. /\ Pend' = Append(Pend, r) /\ rpc' = rpc \cup {r} /\ queue' = queue
      /\ Pend \in Seq(Requests) /\ r \in Requests
  BY SendWire
<1>2. /\ outcomes' = outcomes /\ rpcId \in Nat /\ queue \in Seq(Frames) /\ rpc \subseteq Requests
  BY DEF SendRpc, WireInv, FrameType
<1>3. r.id = rpcId /\ r.method = method /\ r.sub = u
  BY DEF Request
<1>4. r.method = "subscribe" => outcomes[r.sub] = 0
  BY <1>3 DEF OutcomeInv, Owed
<1>5. \A i \in DOMAIN Pend : Pend[i].id # r.id
  <2> SUFFICES ASSUME NEW i \in DOMAIN Pend PROVE Pend[i].id # rpcId
    BY <1>3
  <2>1. Pend[i] \in Requests /\ Pend[i].id < rpcId
    BY <1>1 DEF WireInv
  <2>2. QED
    BY <1>2, <2>1 DEF Requests
<1>6. \A i \in DOMAIN queue : IsAnswer(queue[i]) => queue[i].id # r.id
  <2> SUFFICES ASSUME NEW i \in DOMAIN queue, IsAnswer(queue[i]) PROVE queue[i].id # rpcId
    BY <1>3
  <2>1. queue[i] \in Frames /\ queue[i].kind # "note" /\ queue[i].id < rpcId
    BY <1>2 DEF WireInv, IsAnswer
  <2>2. queue[i].id \in Nat
    BY <2>1 DEF Frames
  <2>3. QED
    BY <1>2, <2>1, <2>2
<1>7. \A a \in rpc : a.id # r.id
  <2> SUFFICES ASSUME NEW a \in rpc PROVE a.id # rpcId
    BY <1>3
  <2>1. a.id \in Nat /\ a.id < rpcId
    BY <1>2 DEF WireInv, Requests
  <2>2. QED
    BY <1>2, <2>1
<1> HIDE DEF r
<1>8. \A i \in DOMAIN Pend' : (i \in DOMAIN Pend /\ Pend'[i] = Pend[i]) \/ (i = Len(Pend) + 1 /\ Pend'[i] = r)
  BY <1>1, AppendExtends
<1>9. \A i, j \in DOMAIN Pend' : Pend'[i].id = Pend'[j].id => i = j
  BY <1>5, <1>8 DEF AnsweredOnce
<1>10. ASSUME NEW i \in DOMAIN queue, IsAnswer(queue[i]), NEW j \in DOMAIN Pend' PROVE queue[i].id # Pend'[j].id
  BY <1>6, <1>8, <1>10 DEF AnsweredOnce
<1>11. ASSUME NEW a \in rpc', a.method = "subscribe", outcomes[a.sub] # 0
       PROVE  /\ \A i \in DOMAIN queue : IsAnswer(queue[i]) => queue[i].id # a.id
              /\ \A j \in DOMAIN Pend' : Pend'[j].id # a.id
  BY <1>1, <1>4, <1>7, <1>8, <1>11 DEF AnsweredOnce
<1>12. QED
  BY <1>1, <1>2, <1>9, <1>10, <1>11 DEF AnsweredOnce, IsAnswer

LEMMA OnceStep == SocketInv /\ OutcomeInv /\ WireInv /\ AnsweredOnce /\ [Next]_vars => AnsweredOnce'
<1> SUFFICES ASSUME SocketInv, OutcomeInv, WireInv, AnsweredOnce, [Next]_vars PROVE AnsweredOnce'
  OBVIOUS
<1>1. CASE Quiet
  BY <1>1 DEF Quiet, AnsweredOnce, IsAnswer
<1>2. CASE Dropped
  <2>1. Pend' = <<>> /\ queue' = <<>>
    BY <1>2 DEF Dropped, Pend
  <2>2. QED
    BY <2>1 DEF AnsweredOnce
<1>3. ASSUME NEW throws \in BOOLEAN, EndCallback(throws) PROVE AnsweredOnce'
  BY <1>3, EndWire DEF AnsweredOnce, IsAnswer
<1>4. ASSUME NEW u \in Subs, CreateSubscription(u) PROVE AnsweredOnce'
  BY <1>4, OnceSend DEF CreateSubscription
<1>5. ASSUME NEW u \in Subs, CancelSubscription(u), IsOpen PROVE AnsweredOnce'
  BY <1>5, OnceSend DEF CancelSubscription
<1>6. QED
  BY <1>1, <1>2, <1>3, <1>4, <1>5, WireSteps, OnceAnswer, OnceNotification, OnceHandle

LEMMA OutcomeStep == WireInv /\ AnsweredOnce /\ OutcomeInv /\ [Next]_vars => OutcomeInv'
<1> SUFFICES ASSUME WireInv, AnsweredOnce, OutcomeInv, [Next]_vars PROVE OutcomeInv'
  OBVIOUS
<1>1. ASSUME NEW s \in Sockets, ConnectThrows(s) \/ Timeout(s) \/ OnError(s) PROVE OutcomeInv'
  BY <1>1, FailPendingStep DEF ConnectThrows, Timeout, OnError, Fail
<1>2. ASSUME NEW s \in Sockets, NEW abnormal \in BOOLEAN, OnClose(s, abnormal) PROVE OutcomeInv'
  <2>1. \/ FailPendingRpc
        \/ rpc' \subseteq rpc /\ UNCHANGED <<outcomes, callVars>>
    BY <1>2 DEF OnClose, Fail
  <2>2. stage' = stage
    BY <1>2 DEF OnClose
  <2>3. QED
    BY <2>1, <2>2, FailPendingStep, Forgotten DEF OutcomeInv
<1>3. CASE HandleNextMessage
  <2>1. queue # <<>> /\ queue \in Seq(Frames) /\ Idle /\ HandleFrame(Head(queue)) /\ UNCHANGED stage
    BY <1>3 DEF HandleNextMessage, WireInv, FrameType
  <2>2. 1 \in DOMAIN queue /\ Head(queue) = queue[1]
    BY <2>1, TailShifts
  <2>3. \A r \in rpc : queue[1].kind # "note" /\ r.id = queue[1].id /\ r.method = "subscribe" /\ r.sub \in Subs
                     => outcomes[r.sub] = 0
    BY <2>2 DEF AnsweredOnce, IsAnswer
  <2>4. QED
    BY <2>1, <2>2, <2>3, FrameStep
<1>4. ASSUME NEW u \in Subs, CreateSubscription(u) PROVE OutcomeInv'
  BY <1>4, SendStep DEF CreateSubscription
<1>5. ASSUME NEW u \in Subs, CreateSubscriptionThrows(u) PROVE OutcomeInv'
  BY <1>5, SendThrowsStep DEF CreateSubscriptionThrows
<1>6. ASSUME NEW u \in Subs, CancelSubscription(u) \/ CancelSubscriptionThrows(u) PROVE OutcomeInv'
  <2>1. PICK how \in {"cancelled", "cancelledEarly"} : stage' = [stage EXCEPT ![u] = how]
    BY <1>6 DEF CancelSubscription, CancelSubscriptionThrows
  <2>2. CASE SendRpc(Request("unsubscribe", u))
    BY <2>1, <2>2, SendStep
  <2>3. CASE SendThrows(Request("unsubscribe", u))
    BY <2>1, <2>3, SendThrowsStep
  <2>4. CASE UNCHANGED <<rpc, outcomes, callVars>>
    BY <2>1, <2>4, Forgotten DEF OutcomeInv
  <2>5. QED
    BY <1>6, <2>2, <2>3, <2>4 DEF CancelSubscription, CancelSubscriptionThrows
<1>7. CASE UNCHANGED <<rpc, outcomes, stage, callVars>>
  BY <1>7, Forgotten DEF OutcomeInv
<1>8. ASSUME NEW s \in Sockets, Connect(s) \/ OnOpen(s) \/ OnClosing(s)
      PROVE  UNCHANGED <<rpc, outcomes, stage, callVars>>
  BY <1>8 DEF Connect, OnOpen, OnClosing
<1>9. ASSUME NEW s \in Sockets, NEW kind \in {"result", "error"}, OnAnswer(s, kind)
      PROVE  UNCHANGED <<rpc, outcomes, stage, callVars>>
  BY <1>9 DEF OnAnswer
<1>10. ASSUME NEW s \in Sockets, NEW u \in Subs, OnNotification(s, u)
       PROVE  UNCHANGED <<rpc, outcomes, stage, callVars>>
  BY <1>10 DEF OnNotification
<1>11. ASSUME StopInterval \/ Close \/ UNCHANGED vars PROVE UNCHANGED <<rpc, outcomes, stage, callVars>>
  BY <1>11 DEF StopInterval, Close, CloseKeeps, vars
<1>12. ASSUME NEW throws \in BOOLEAN, EndCallback(throws) PROVE OutcomeInv'
  BY <1>12, EndStep
<1>13. QED
  BY <1>1, <1>2, <1>3, <1>4, <1>5, <1>6, <1>7, <1>8, <1>9, <1>10, <1>11, <1>12 DEF Next

LEMMA OutcomesHold == Spec => []SocketInv /\ []OutcomeInv /\ []WireInv /\ []AnsweredOnce
<1>1. Init => OutcomeInv /\ WireInv /\ AnsweredOnce
  BY OutcomeInit, WireInit, OnceInit
<1>2. SocketInv /\ (OutcomeInv /\ WireInv /\ AnsweredOnce) /\ [Next]_vars
        => (OutcomeInv /\ WireInv /\ AnsweredOnce)'
  BY OutcomeStep, WireStep, OnceStep
<1>3. QED
  BY <1>1, <1>2, SocketsHold, PTL DEF Spec

\* A subscription hears once how its request ended, and a second time only if its own
\* error callback threw or lost the connection.
THEOREM OneOutcomeHolds == Spec => []OneOutcome
<1>1. OutcomeInv => OneOutcome
  BY DEF OutcomeInv, Owed, OneOutcome
<1>2. QED
  BY <1>1, OutcomesHold, PTL
-----------------------------------------------------------------------------
(* The order of notifications.                                              *)

\* The notifications of u in the queue are those after number n, in order.
InLine(u, n) ==
  /\ n \in 0..sent[u]
  /\ \A i \in DOMAIN queue : NoteAt(u, i) => queue[i].number \in n + 1..sent[u]
  /\ \A k \in n + 1..sent[u] : \E i \in DOMAIN queue : NoteAt(u, i) /\ queue[i].number = k
  /\ \A i, j \in DOMAIN queue : NoteAt(u, i) /\ NoteAt(u, j) /\ i < j => queue[i].number < queue[j].number

\* The life of a subscription.
Fresh(u) ==
  /\ stage[u] = "new" /\ ~Asked(u)
  /\ u \notin Served /\ sent[u] = 0 /\ NoNotes(u) /\ u \notin listeners /\ heard[u] = 0

Asking(u) ==
  /\ stage[u] # "new" /\ Asked(u) /\ ~Acked(u)
  /\ \A i, j \in DOMAIN Pend : AsksFor(u, i) /\ AsksFor(u, j) => i = j
  /\ u \notin Served /\ sent[u] = 0 /\ NoNotes(u) /\ u \notin listeners /\ heard[u] = 0

Answered(u) ==
  /\ stage[u] # "new" /\ ~Asked(u) /\ u \notin listeners /\ heard[u] = 0
  /\ InLine(u, 0)
  /\ \E i \in DOMAIN queue : AckAt(u, i) /\ \A j \in DOMAIN queue : NoteAt(u, j) => i < j

Listening(u) ==
  /\ stage[u] # "new" /\ ~Asked(u) /\ ~Acked(u) /\ u \in listeners
  /\ InLine(u, heard[u])

CutOff(u) ==
  /\ stage[u] # "new" /\ ~Asked(u) /\ ~Acked(u) /\ u \in listeners
  /\ u \notin Served /\ NoNotes(u)

Deaf(u) == stage[u] # "new" /\ ~Asked(u) /\ ~Acked(u) /\ u \notin listeners

Phase(u) == \/ Fresh(u) \/ Asking(u) \/ Answered(u)
            \/ Listening(u) \/ CutOff(u) \/ Deaf(u)

OrderInv == \A u \in Subs : Phase(u)

LEMMA OrderInit == Init => OrderInv
<1> SUFFICES ASSUME Init, NEW u \in Subs PROVE Fresh(u)
  BY DEF OrderInv, Phase
<1>1. Pend = <<>> /\ Served = {} /\ queue = <<>>
  BY DEF Init, Pend, Served, Linked
<1>2. QED
  BY <1>1 DEF Init, Fresh, Asked, NoNotes

\* A step that keeps the queue and what is asked and awaited keeps acknowledgements and notes.
LEMMA SamePhase ==
  ASSUME NEW u \in Subs, Phase(u), Quiet
  PROVE  Phase(u)'
BY DEF Quiet, mintVars, Phase, Fresh, Asking, Answered, Listening, CutOff, Deaf, InLine, Asked, AsksFor,
       Acked, AckAt, AwaitedBy, NoNotes, NoteAt

LEMMA DroppedPhase ==
  ASSUME WireInv, NEW u \in Subs, Phase(u), Dropped
  PROVE  Phase(u)'
<1>1. Pend' = <<>> /\ Served' = {} /\ queue' = <<>>
  BY DEF Dropped, Pend, Served
<1>2. ~Asked(u)' /\ ~Acked(u)' /\ NoNotes(u)' /\ u \notin Served'
  BY <1>1 DEF Asked, Acked, NoNotes
<1>3. CASE stage'[u] = "new"
  <2>1. Fresh(u)
    BY <1>3 DEF Dropped, Phase, Fresh, Asking, Answered, Listening, CutOff, Deaf
  <2>2. Fresh(u)'
    BY <1>2, <1>3, <2>1 DEF Dropped, Fresh, mintVars
  <2>3. QED
    BY <2>2 DEF Phase
<1>4. CASE stage'[u] # "new"
  <2>1. CutOff(u)' \/ Deaf(u)'
    BY <1>2, <1>4 DEF CutOff, Deaf
  <2>2. QED
    BY <2>1 DEF Phase
<1>5. QED
  BY <1>3, <1>4

\* A frame of another subscription, or none, was appended.
LEMMA InLineAppend ==
  ASSUME NEW u \in Subs, NEW n \in Nat, InLine(u, n), queue \in Seq(Frames), NEW f \in Frames,
         queue' = Append(queue, f), sent'[u] = sent[u], ~(f.kind = "note" /\ f.sub = u)
  PROVE  InLine(u, n)'
<1>1. /\ \A i \in DOMAIN queue : i \in DOMAIN queue' /\ queue'[i] = queue[i]
      /\ \A i \in DOMAIN queue' : (i \in DOMAIN queue /\ queue'[i] = queue[i]) \/ queue'[i] = f
  BY AppendExtends
<1>2. /\ \A i \in DOMAIN queue : NoteAt(u, i)' <=> NoteAt(u, i)
      /\ \A i \in DOMAIN queue' : NoteAt(u, i)' => i \in DOMAIN queue
  BY <1>1 DEF NoteAt
<1>3. QED
  BY <1>1, <1>2 DEF InLine

LEMMA AnswerPhase ==
  ASSUME SocketInv, OutcomeInv, WireInv, NEW u \in Subs, Phase(u),
         NEW s \in Sockets, NEW kind \in {"result", "error"}, OnAnswer(s, kind)
  PROVE  Phase(u)'
<1> DEFINE f == [kind |-> kind, id |-> Pend[1].id, socket |-> s]
<1>1. /\ Pend # <<>> /\ Pend' = Tail(Pend) /\ queue' = Append(queue, f)
      /\ Served' \subseteq Served \cup {v \in Subs : kind = "result" /\ AsksFor(v, 1)}
      /\ s = ws /\ Linked
  BY AnswerWire
<1>2. UNCHANGED <<rpc, listeners, sent, stage, heard>>
  BY DEF OnAnswer
<1>3. Pend \in Seq(Requests)
  BY <1>1 DEF Pend, Linked, WireInv, FrameType
<1>4. /\ Pend[1] \in Requests /\ 1 \in DOMAIN Pend
      /\ \A i \in DOMAIN Pend' : i + 1 \in DOMAIN Pend /\ Pend'[i] = Pend[i + 1] /\ i \in Nat \ {0}
      /\ \A i \in DOMAIN Pend : i = 1 \/ (i - 1 \in DOMAIN Pend' /\ i \in Nat /\ i > 1)
  BY <1>1, <1>3, TailShifts
<1>5. f \in Frames /\ f.kind = kind /\ f.kind # "note" /\ f.id = Pend[1].id
  BY <1>4 DEF Frames, Requests
<1>6. queue \in Seq(Frames) /\ Len(queue) \in Nat
  BY DEF WireInv, FrameType
<1> HIDE DEF f
<1>7. /\ \A i \in DOMAIN queue : i \in DOMAIN queue' /\ queue'[i] = queue[i]
      /\ \A i \in DOMAIN queue' : i \in DOMAIN queue \/ i = Len(queue) + 1
      /\ Len(queue) + 1 \in DOMAIN queue' /\ queue'[Len(queue) + 1] = f
      /\ \A i \in DOMAIN queue : i < Len(queue) + 1
  BY <1>1, <1>5, <1>6, AppendExtends
<1>8. /\ \A i \in DOMAIN queue : NoteAt(u, i)' <=> NoteAt(u, i)
      /\ \A i \in DOMAIN queue' : NoteAt(u, i)' => i \in DOMAIN queue
      /\ \A i \in DOMAIN queue : AckAt(u, i)' <=> AckAt(u, i)
  BY <1>2, <1>5, <1>7 DEF NoteAt, AckAt, AwaitedBy
<1>9. ASSUME ~AsksFor(u, 1)
      PROVE  /\ Asked(u)' <=> Asked(u)
             /\ Acked(u)' <=> Acked(u)
             /\ u \notin Served => u \notin Served'
  <2>1. Asked(u)' <=> Asked(u)
    BY <1>4, <1>9 DEF Asked, AsksFor
  <2>2. \A i \in DOMAIN queue' : AckAt(u, i)' => i \in DOMAIN queue
    <3> SUFFICES ASSUME NEW i \in DOMAIN queue', queue'[i] = f, AckAt(u, i)' PROVE FALSE
      BY <1>7
    <3>0. PICK r \in rpc : r.sub = u /\ r.method = "subscribe" /\ r.id = Pend[1].id
      BY <1>2, <1>5 DEF AckAt, AwaitedBy
    <3>1. r = Pend[1]
      BY <1>4, <3>0 DEF WireInv
    <3>2. QED
      BY <1>9, <3>0, <3>1 DEF AsksFor
  <2>3. Acked(u)' <=> Acked(u)
    BY <1>7, <1>8, <2>2 DEF Acked
  <2>4. QED
    BY <1>1, <1>9, <2>1, <2>3
<1>10. CASE AsksFor(u, 1)
  <2>1. Asking(u)
    BY <1>4, <1>10 DEF Phase, Fresh, Asking, Answered, Listening, CutOff, Deaf, Asked
  <2>2. ~Asked(u)'
    <3> SUFFICES ASSUME NEW i \in DOMAIN Pend', AsksFor(u, i)' PROVE FALSE
      BY DEF Asked
    <3>1. i + 1 \in DOMAIN Pend /\ AsksFor(u, i + 1) /\ i \in Nat \ {0}
      BY <1>4 DEF AsksFor
    <3>2. i + 1 = 1
      BY <1>4, <1>10, <2>1, <3>1 DEF Asking
    <3>3. QED
      BY <3>1, <3>2
  <2>3. NoNotes(u)'
    BY <1>8, <2>1 DEF Asking, NoNotes
  <2>4. CASE Acked(u)'
    <3>1. InLine(u, 0)'
      BY <1>2, <2>1, <2>3 DEF Asking, InLine, NoNotes
    <3>2. Answered(u)'
      BY <1>2, <2>1, <2>2, <2>3, <2>4, <3>1 DEF Asking, Answered, Acked, NoNotes
    <3>3. QED
      BY <3>2 DEF Phase
  <2>5. CASE ~Acked(u)'
    <3>1. Deaf(u)'
      BY <1>2, <2>1, <2>2, <2>5 DEF Asking, Deaf
    <3>2. QED
      BY <3>1 DEF Phase
  <2>6. QED
    BY <2>4, <2>5
<1>11. CASE ~AsksFor(u, 1)
  <2>0. NoNotes(u) => NoNotes(u)'
    BY <1>8 DEF NoNotes
  <2>1. CASE Fresh(u)
    <3>1. Fresh(u)'
      BY <1>2, <1>9, <1>11, <2>0, <2>1 DEF Fresh
    <3>2. QED
      BY <3>1 DEF Phase
  <2>2. CASE Asking(u)
    <3>1. \A i, j \in DOMAIN Pend' : AsksFor(u, i)' /\ AsksFor(u, j)' => i = j
      <4> SUFFICES ASSUME NEW i \in DOMAIN Pend', NEW j \in DOMAIN Pend', AsksFor(u, i)', AsksFor(u, j)'
                   PROVE  i = j
        OBVIOUS
      <4>1. /\ i + 1 \in DOMAIN Pend /\ AsksFor(u, i + 1) /\ i \in Nat
            /\ j + 1 \in DOMAIN Pend /\ AsksFor(u, j + 1) /\ j \in Nat
        BY <1>4 DEF AsksFor
      <4>2. i + 1 = j + 1
        BY <2>2, <4>1 DEF Asking
      <4>3. QED
        BY <4>1, <4>2
    <3>2. Asking(u)'
      BY <1>2, <1>9, <1>11, <2>0, <2>2, <3>1 DEF Asking
    <3>3. QED
      BY <3>2 DEF Phase
  <2>3. CASE Answered(u)
    <3>1. InLine(u, 0)'
      BY <1>1, <1>2, <1>5, <1>6, <2>3, InLineAppend DEF Answered
    <3>2. PICK i \in DOMAIN queue : AckAt(u, i) /\ \A j \in DOMAIN queue : NoteAt(u, j) => i < j
      BY <2>3 DEF Answered
    <3>3. i \in DOMAIN queue' /\ AckAt(u, i)' /\ \A j \in DOMAIN queue' : NoteAt(u, j)' => i < j
      BY <1>7, <1>8, <3>2
    <3>4. Answered(u)'
      BY <1>2, <1>9, <1>11, <2>3, <3>1, <3>3 DEF Answered
    <3>5. QED
      BY <3>4 DEF Phase
  <2>4. CASE Listening(u)
    <3>1. InLine(u, heard[u])'
      <4>1. heard[u] \in Nat
        BY DEF WireInv, FrameType
      <4> DEFINE n == heard[u]
      <4>2. n \in Nat /\ InLine(u, n) /\ n' = n
        BY <1>2, <2>4, <4>1 DEF Listening
      <4>3. QED
        BY <1>1, <1>2, <1>5, <1>6, <4>2, InLineAppend DEF InLine
    <3>2. Listening(u)'
      BY <1>2, <1>9, <1>11, <2>4, <3>1 DEF Listening
    <3>3. QED
      BY <3>2 DEF Phase
  <2>5. CASE CutOff(u)
    <3>1. CutOff(u)'
      BY <1>2, <1>9, <1>11, <2>0, <2>5 DEF CutOff
    <3>2. QED
      BY <3>1 DEF Phase
  <2>6. CASE Deaf(u)
    <3>1. Deaf(u)'
      BY <1>2, <1>9, <1>11, <2>6 DEF Deaf
    <3>2. QED
      BY <3>1 DEF Phase
  <2>7. QED
    BY <2>1, <2>2, <2>3, <2>4, <2>5, <2>6 DEF Phase
<1>12. QED
  BY <1>10, <1>11

LEMMA NotificationPhase ==
  ASSUME SocketInv, OutcomeInv, WireInv, NEW u \in Subs, Phase(u),
         NEW s \in Sockets, NEW v \in Subs, OnNotification(s, v)
  PROVE  Phase(u)'
<1> DEFINE f == [kind |-> "note", sub |-> v, number |-> sent[v] + 1, socket |-> s]
<1>1. /\ v \in Served /\ Pend' = Pend /\ Served' = Served
      /\ sent' = [sent EXCEPT ![v] = @ + 1]
      /\ queue' = Append(queue, f)
  BY NotificationWire
<1>2. UNCHANGED <<rpc, listeners, stage, heard>>
  BY DEF OnNotification
<1>3. /\ queue \in Seq(Frames) /\ sent \in [Subs -> Nat] /\ heard \in [Subs -> Nat] /\ Len(queue) \in Nat
  BY DEF WireInv, FrameType
<1>4. f \in Frames /\ f.kind = "note" /\ f.sub = v /\ f.number = sent[v] + 1
  BY <1>3 DEF Frames
<1> HIDE DEF f
<1>5. /\ \A i \in DOMAIN queue : i \in DOMAIN queue' /\ queue'[i] = queue[i] /\ i < Len(queue) + 1
      /\ \A i \in DOMAIN queue' : i \in DOMAIN queue \/ i = Len(queue) + 1
      /\ Len(queue) + 1 \in DOMAIN queue' /\ queue'[Len(queue) + 1] = f
  BY <1>1, <1>3, <1>4, AppendExtends
<1>6. /\ \A i \in DOMAIN queue : NoteAt(u, i)' <=> NoteAt(u, i)
      /\ \A i \in DOMAIN queue' : NoteAt(u, i)' => i \in DOMAIN queue \/ u = v
      /\ \A i \in DOMAIN queue : AckAt(u, i)' <=> AckAt(u, i)
      /\ \A i \in DOMAIN queue' : AckAt(u, i)' => i \in DOMAIN queue
  BY <1>2, <1>4, <1>5 DEF NoteAt, AckAt, AwaitedBy
<1>7. /\ Asked(u)' <=> Asked(u)
      /\ Acked(u)' <=> Acked(u)
      /\ u \in Served' <=> u \in Served
      /\ \A i \in DOMAIN Pend : AsksFor(u, i)' <=> AsksFor(u, i)
  BY <1>1, <1>5, <1>6 DEF Asked, Acked, AsksFor
<1>8. u # v => sent'[u] = sent[u] /\ (NoNotes(u) => NoNotes(u)')
  BY <1>1, <1>3, <1>6 DEF NoNotes
<1>9. ASSUME NEW n \in Nat, InLine(u, n) PROVE InLine(u, n)'
  <2>1. CASE u # v
    BY <1>1, <1>3, <1>4, <1>8, <1>9, <2>1, InLineAppend
  <2>2. CASE u = v
    <3>1. sent'[u] = sent[u] + 1 /\ sent[u] \in Nat /\ n \in 0..sent'[u]
      BY <1>1, <1>3, <1>9, <2>2 DEF InLine
    <3>2. \A i \in DOMAIN queue' : \/ i \in DOMAIN queue /\ queue'[i] = queue[i] /\ NoteAt(u, i)' = NoteAt(u, i)
                                   \/ queue'[i] = f
      BY <1>5, <1>6 DEF NoteAt
    <3>3. \A i \in DOMAIN queue' : NoteAt(u, i)' => queue'[i].number \in n + 1..sent'[u]
      BY <1>4, <1>9, <2>2, <3>1, <3>2 DEF InLine
    <3>4. \A k \in n + 1..sent'[u] : \E i \in DOMAIN queue' : NoteAt(u, i)' /\ queue'[i].number = k
      <4> SUFFICES ASSUME NEW k \in n + 1..sent'[u]
                   PROVE  \E i \in DOMAIN queue' : NoteAt(u, i)' /\ queue'[i].number = k
        OBVIOUS
      <4>1. CASE k = sent[u] + 1
        <5>1. PICK i \in DOMAIN queue' : queue'[i] = f
          BY <1>5
        <5>2. QED
          BY <1>4, <2>2, <4>1, <5>1 DEF NoteAt
      <4>2. CASE k # sent[u] + 1
        <5>1. k \in n + 1..sent[u]
          BY <3>1, <4>2
        <5>2. PICK i \in DOMAIN queue : NoteAt(u, i) /\ queue[i].number = k
          BY <1>9, <5>1 DEF InLine
        <5>3. QED
          BY <1>5, <1>6, <5>2
      <4>3. QED
        BY <4>1, <4>2
    <3>5. \A i, j \in DOMAIN queue' : NoteAt(u, i)' /\ NoteAt(u, j)' /\ i < j => queue'[i].number < queue'[j].number
      <4> SUFFICES ASSUME NEW i \in DOMAIN queue', NEW j \in DOMAIN queue', NoteAt(u, i)', NoteAt(u, j)', i < j
                   PROVE  queue'[i].number < queue'[j].number
        OBVIOUS
      <4>1. i \in DOMAIN queue /\ queue'[i] = queue[i] /\ NoteAt(u, i)
        <5>1. Len(queue') = Len(queue) + 1 /\ i \in Nat /\ j \in Nat /\ j <= Len(queue) + 1
          BY <1>1, <1>3, <1>4
        <5>2. QED
          BY <1>3, <1>5, <1>6, <5>1
      <4>2. queue[i].number \in n + 1..sent[u]
        BY <1>9, <4>1 DEF InLine
      <4>3. CASE j \in DOMAIN queue
        BY <1>5, <1>6, <1>9, <4>1, <4>3 DEF InLine
      <4>4. CASE j = Len(queue) + 1
        BY <1>4, <1>5, <2>2, <3>1, <4>1, <4>2, <4>4
      <4>5. QED
        BY <1>5, <4>3, <4>4
    <3>6. QED
      BY <3>1, <3>3, <3>4, <3>5 DEF InLine
  <2>3. QED
    BY <2>1, <2>2
<1>10. CASE Fresh(u)
  <2>1. Fresh(u)'
    BY <1>1, <1>2, <1>7, <1>8, <1>10 DEF Fresh
  <2>2. QED
    BY <2>1 DEF Phase
<1>11. CASE Asking(u)
  <2>1. Asking(u)'
    BY <1>1, <1>2, <1>7, <1>8, <1>11 DEF Asking
  <2>2. QED
    BY <2>1 DEF Phase
<1>12. CASE Answered(u)
  <2>1. PICK i \in DOMAIN queue : AckAt(u, i) /\ \A j \in DOMAIN queue : NoteAt(u, j) => i < j
    BY <1>12 DEF Answered
  <2>2. i \in DOMAIN queue' /\ AckAt(u, i)' /\ \A j \in DOMAIN queue' : NoteAt(u, j)' => i < j
    BY <1>5, <1>6, <2>1
  <2>3. Answered(u)'
    BY <1>2, <1>7, <1>9, <1>12, <2>2 DEF Answered
  <2>4. QED
    BY <2>3 DEF Phase
<1>13. CASE Listening(u)
  <2>1. InLine(u, heard[u])'
    <3> DEFINE n == heard[u]
    <3>1. n \in Nat /\ InLine(u, n) /\ n' = n
      BY <1>2, <1>3, <1>13 DEF Listening
    <3>2. QED
      BY <1>9, <3>1 DEF InLine
  <2>2. Listening(u)'
    BY <1>2, <1>7, <1>13, <2>1 DEF Listening
  <2>3. QED
    BY <2>2 DEF Phase
<1>14. CASE CutOff(u)
  <2>1. CutOff(u)'
    BY <1>1, <1>2, <1>7, <1>8, <1>14 DEF CutOff
  <2>2. QED
    BY <2>1 DEF Phase
<1>15. CASE Deaf(u)
  <2>1. Deaf(u)'
    BY <1>2, <1>7, <1>15 DEF Deaf
  <2>2. QED
    BY <2>1 DEF Phase
<1>16. QED
  BY <1>10, <1>11, <1>12, <1>13, <1>14, <1>15 DEF Phase

\* A request is sent: only a new subscription starts asking.
LEMMA SendPhase ==
  ASSUME SocketInv, OutcomeInv, WireInv, NEW u \in Subs, Phase(u), IsOpen,
         NEW v \in Subs, CreateSubscription(v) \/ CancelSubscription(v)
  PROVE  Phase(u)'
<1>1. PICK method \in {"subscribe", "unsubscribe"} :
        /\ SendRpc(Request(method, v))
        /\ IF method = "subscribe"
           THEN stage[v] = "new" /\ stage' = [stage EXCEPT ![v] = "asked"] /\ listeners' = listeners
           ELSE /\ stage[v] = "asked" /\ listeners' = listeners \ {v}
                /\ \E how \in {"cancelled", "cancelledEarly"} : stage' = [stage EXCEPT ![v] = how]
  BY DEF CreateSubscription, CancelSubscription
<1> DEFINE r == Request(method, v)
<1>2. /\ Pend' = Append(Pend, r) /\ Served' = Served
      /\ rpc' = rpc \cup {r} /\ UNCHANGED <<queue, sent, heard>>
      /\ Pend \in Seq(Requests) /\ r \in Requests
  BY <1>1, SendWire
<1>3. r.id = rpcId /\ r.method = method /\ r.sub = v
  BY DEF Request
<1> HIDE DEF r
<1>4. /\ \A i \in DOMAIN Pend : i \in DOMAIN Pend' /\ Pend'[i] = Pend[i]
      /\ \A i \in DOMAIN Pend' : (i \in DOMAIN Pend /\ Pend'[i] = Pend[i]) \/ (i = Len(Pend) + 1 /\ Pend'[i] = r)
      /\ Len(Pend) + 1 \in DOMAIN Pend'
  BY <1>2, AppendExtends
<1>5. \A i \in DOMAIN queue : AckAt(u, i)' <=> AckAt(u, i)
  <2>1. \A i \in DOMAIN queue : queue[i].kind = "result" => queue[i].id # r.id
    <3> SUFFICES ASSUME NEW i \in DOMAIN queue, queue[i].kind = "result" PROVE queue[i].id # r.id
      OBVIOUS
    <3>1. queue[i] \in Frames
      BY DEF WireInv, FrameType
    <3>2. queue[i].id \in Nat /\ queue[i].id < rpcId /\ rpcId \in Nat
      BY <3>1 DEF WireInv, FrameType, Frames
    <3>3. QED
      BY <1>3, <3>2
  <2>2. QED
    BY <1>2, <2>1 DEF AckAt, AwaitedBy
<1>6. /\ \A i \in DOMAIN queue : NoteAt(u, i)' <=> NoteAt(u, i)
      /\ Acked(u)' <=> Acked(u)
      /\ NoNotes(u)' <=> NoNotes(u)
  BY <1>2, <1>5 DEF NoteAt, Acked, NoNotes
<1>7. ASSUME NEW n, InLine(u, n) PROVE InLine(u, n)'
  BY <1>2, <1>7 DEF InLine, NoteAt
<1>8. CASE u = v /\ method = "subscribe"
  <2>1. Fresh(u) /\ stage'[u] = "asked" /\ listeners' = listeners
    BY <1>1, <1>8 DEF Phase, Fresh, Asking, Answered, Listening, CutOff, Deaf, OutcomeInv
  <2>2. AwaitedBy(u) = {}
    BY <2>1 DEF OutcomeInv, Owed, Fresh
  <2>3. ~Acked(u)
    BY <2>2 DEF Acked, AckAt
  <2>4. \A i \in DOMAIN Pend' : AsksFor(u, i)' <=> i \notin DOMAIN Pend
    BY <1>3, <1>4, <1>8, <2>1 DEF Fresh, Asked, AsksFor
  <2>5. Asked(u)'
    <3>1. PICK i \in DOMAIN Pend' : Pend'[i] = r
      BY <1>2, AppendExtends
    <3>2. QED
      BY <1>3, <1>8, <3>1 DEF Asked, AsksFor
  <2>6. Asking(u)'
    BY <1>2, <1>4, <1>6, <2>1, <2>3, <2>4, <2>5 DEF Asking, Fresh
  <2>7. QED
    BY <2>6 DEF Phase
<1>9. CASE ~(u = v /\ method = "subscribe")
  <2>1. /\ \A i \in DOMAIN Pend : AsksFor(u, i)' <=> AsksFor(u, i)
        /\ \A i \in DOMAIN Pend' : AsksFor(u, i)' => i \in DOMAIN Pend
    BY <1>3, <1>4, <1>9 DEF AsksFor
  <2>2. Asked(u)' <=> Asked(u)
    BY <1>4, <2>1 DEF Asked
  <2>3. /\ stage'[u] = "new" <=> stage[u] = "new"
        /\ u \in listeners' => u \in listeners
        /\ u \in listeners /\ u \notin listeners' => stage'[u] # "new"
    BY <1>1, <1>9 DEF OutcomeInv
  <2>4. CASE Fresh(u)
    <3>1. Fresh(u)'
      BY <1>2, <1>6, <2>2, <2>3, <2>4 DEF Fresh
    <3>2. QED
      BY <3>1 DEF Phase
  <2>5. CASE Asking(u)
    <3>1. Asking(u)'
      BY <1>2, <1>6, <2>1, <2>2, <2>3, <2>5 DEF Asking
    <3>2. QED
      BY <3>1 DEF Phase
  <2>6. CASE Answered(u)
    <3>1. \E i \in DOMAIN queue' : AckAt(u, i)' /\ \A j \in DOMAIN queue' : NoteAt(u, j)' => i < j
      BY <1>2, <1>5, <1>6, <2>6 DEF Answered
    <3>2. InLine(u, 0)'
      BY <1>7, <2>6 DEF Answered
    <3>3. Answered(u)'
      BY <1>2, <2>2, <2>3, <2>6, <3>1, <3>2 DEF Answered
    <3>4. QED
      BY <3>3 DEF Phase
  <2>7. CASE Listening(u)
    <3>1. InLine(u, heard[u])'
      BY <1>2, <2>7 DEF Listening, InLine, NoteAt
    <3>2. Listening(u)' \/ Deaf(u)'
      BY <1>2, <1>6, <2>2, <2>3, <2>7, <3>1 DEF Listening, Deaf
    <3>3. QED
      BY <3>2 DEF Phase
  <2>8. CASE CutOff(u)
    <3>1. CutOff(u)' \/ Deaf(u)'
      BY <1>2, <1>6, <2>2, <2>3, <2>8 DEF CutOff, Deaf
    <3>2. QED
      BY <3>1 DEF Phase
  <2>9. CASE Deaf(u)
    <3>1. Deaf(u)'
      BY <1>2, <1>6, <2>2, <2>3, <2>9 DEF Deaf
    <3>2. QED
      BY <3>1 DEF Phase
  <2>10. QED
    BY <2>4, <2>5, <2>6, <2>7, <2>8, <2>9 DEF Phase
<1>10. QED
  BY <1>8, <1>9

\* The frame at the head of the queue is handled: a note in line moves heard on by one.
LEMMA HandlePhase ==
  ASSUME SocketInv, OutcomeInv, WireInv, AnsweredOnce, NEW u \in Subs, Phase(u), HandleNextMessage
  PROVE  Phase(u)' /\ heard'[u] \in {heard[u], heard[u] + 1}
<1> DEFINE f == queue[1]
           answered == {r \in rpc : f.kind # "note" /\ r.id = f.id}
           subs == {r.sub : r \in {a \in answered : a.method = "subscribe"}}
<1>1. /\ queue # <<>> /\ queue' = Tail(queue) /\ Pend' = Pend /\ Served' = Served
      /\ UNCHANGED <<sent, stage>> /\ HandleFrame(f)
  BY HandleWire
<1>2. /\ rpc' = IF f.kind = "error" THEN rpc ELSE rpc \ answered
      /\ listeners' = IF f.kind = "result" THEN listeners \cup subs ELSE listeners
      /\ heard' = IF f.kind = "note" /\ f.sub \in listeners
                  THEN [heard EXCEPT ![f.sub] = f.number] ELSE heard
  BY <1>1 DEF HandleFrame
<1>3. /\ queue \in Seq(Frames) /\ heard \in [Subs -> Nat] /\ sent \in [Subs -> Nat]
  BY DEF WireInv, FrameType
<1>4. /\ 1 \in DOMAIN queue /\ f \in Frames
      /\ \A i \in DOMAIN queue' : i + 1 \in DOMAIN queue /\ queue'[i] = queue[i + 1] /\ i \in Nat \ {0}
      /\ \A i \in DOMAIN queue : i = 1 \/ (i - 1 \in DOMAIN queue' /\ i \in Nat /\ i > 1)
  BY <1>1, <1>3, TailShifts
<1>5. AwaitedBy(u)' = IF f.kind = "error" THEN AwaitedBy(u) ELSE AwaitedBy(u) \ answered
  BY <1>2 DEF AwaitedBy
<1>6. u \in subs <=> \E r \in AwaitedBy(u) : f.kind # "note" /\ r.id = f.id
  BY DEF AwaitedBy
<1>7. u \in subs => ~Acked(u)'
  <2> SUFFICES ASSUME u \in subs, NEW i \in DOMAIN queue', AckAt(u, i)' PROVE FALSE
    BY DEF Acked
  <2>1. PICK r \in AwaitedBy(u) : f.kind # "note" /\ r.id = f.id
    BY <1>6
  <2>2. PICK a \in AwaitedBy(u) : queue[i + 1].kind # "note" /\ a.id = queue[i + 1].id
    BY <1>4, <1>5 DEF AckAt
  <2>3. a = r
    BY <2>1, <2>2 DEF OutcomeInv, Owed
  <2>4. i + 1 = 1 /\ i \in Nat \ {0}
    BY <1>4, <2>1, <2>2, <2>3 DEF AnsweredOnce, IsAnswer
  <2>5. QED
    BY <2>4
<1>8. u \notin subs => AwaitedBy(u)' = AwaitedBy(u)
  BY <1>5, <1>6
<1>9. u \in subs /\ f.kind = "result" => AckAt(u, 1) /\ Acked(u)
  BY <1>4, <1>6 DEF AckAt, Acked
<1>10. /\ \A i \in DOMAIN queue' : (NoteAt(u, i)' <=> NoteAt(u, i + 1)) /\ (AckAt(u, i)' => AckAt(u, i + 1))
       /\ u \notin subs => \A i \in DOMAIN queue' : AckAt(u, i)' <=> AckAt(u, i + 1)
  BY <1>4, <1>5, <1>8 DEF NoteAt, AckAt
<1>11. f.kind = "note" => f.sub \in Subs /\ f.number \in Nat
  BY <1>4 DEF Frames
<1>12. NoteAt(u, 1) <=> f.kind = "note" /\ f.sub = u
  BY DEF NoteAt
<1>13. heard'[u] = IF NoteAt(u, 1) /\ u \in listeners THEN f.number ELSE heard[u]
  BY <1>2, <1>3, <1>11, <1>12
<1>14. NoNotes(u) => NoNotes(u)' /\ ~NoteAt(u, 1)
  BY <1>4, <1>10 DEF NoNotes
<1>15. ~Acked(u) => ~Acked(u)' /\ (u \in listeners' <=> u \in listeners)
  BY <1>2, <1>4, <1>9, <1>10 DEF Acked
<1>16. /\ Asked(u)' <=> Asked(u)
       /\ \A i \in DOMAIN Pend : AsksFor(u, i)' <=> AsksFor(u, i)
  BY <1>1 DEF Asked, AsksFor
<1> HIDE DEF answered, subs
<1>17. ASSUME NEW n \in Nat, NEW m \in Nat, InLine(u, n),
              NoteAt(u, 1) => m = n + 1 /\ f.number = n + 1, ~NoteAt(u, 1) => m = n,
              m \in 0..sent[u]
       PROVE  InLine(u, m)'
  <2>0. sent[u] \in Nat
    BY <1>3
  <2>1. \A i \in DOMAIN queue' : NoteAt(u, i)' => queue'[i].number \in m + 1..sent[u]
    <3> SUFFICES ASSUME NEW i \in DOMAIN queue', NoteAt(u, i + 1) PROVE queue'[i].number \in m + 1..sent[u]
      BY <1>10
    <3>1. i + 1 \in DOMAIN queue /\ queue'[i] = queue[i + 1] /\ 1 < i + 1
      BY <1>4
    <3>2. queue[i + 1].number \in n + 1..sent[u]
      BY <1>17, <3>1 DEF InLine
    <3>3. NoteAt(u, 1) => queue[1].number < queue[i + 1].number
      BY <1>4, <1>17, <3>1 DEF InLine
    <3>4. QED
      BY <1>17, <2>0, <3>1, <3>2, <3>3
  <2>2. \A k \in m + 1..sent[u] : \E i \in DOMAIN queue' : NoteAt(u, i)' /\ queue'[i].number = k
    <3> SUFFICES ASSUME NEW k \in m + 1..sent[u] PROVE \E i \in DOMAIN queue' : NoteAt(u, i)' /\ queue'[i].number = k
      OBVIOUS
    <3>1. k \in n + 1..sent[u] /\ (NoteAt(u, 1) => k # f.number)
      BY <1>17, <2>0
    <3>2. PICK i \in DOMAIN queue : NoteAt(u, i) /\ queue[i].number = k
      BY <1>17, <3>1 DEF InLine
    <3>3. i # 1
      BY <3>1, <3>2
    <3>4. i - 1 \in DOMAIN queue' /\ i \in Nat /\ (i - 1) + 1 = i
      BY <1>4, <3>3
    <3>5. NoteAt(u, i - 1)' /\ queue'[i - 1] = queue[i]
      BY <1>4, <1>10, <3>2, <3>4
    <3>6. QED
      BY <3>2, <3>4, <3>5
  <2>3. \A i, j \in DOMAIN queue' : NoteAt(u, i)' /\ NoteAt(u, j)' /\ i < j => queue'[i].number < queue'[j].number
    <3> SUFFICES ASSUME NEW i \in DOMAIN queue', NEW j \in DOMAIN queue', NoteAt(u, i + 1), NoteAt(u, j + 1), i < j
                 PROVE  queue'[i].number < queue'[j].number
      BY <1>10
    <3>1. i + 1 \in DOMAIN queue /\ queue'[i] = queue[i + 1] /\ j + 1 \in DOMAIN queue /\ queue'[j] = queue[j + 1]
          /\ i + 1 < j + 1
      BY <1>4
    <3>2. QED
      BY <1>17, <3>1 DEF InLine
  <2>4. QED
    BY <1>1, <1>17, <2>1, <2>2, <2>3 DEF InLine
<1>18. CASE Fresh(u)
  <2>1. ~Acked(u)
    BY <1>18 DEF Fresh, OutcomeInv, Owed, Acked, AckAt
  <2>2. Fresh(u)' /\ heard'[u] = heard[u]
    BY <1>1, <1>13, <1>14, <1>15, <1>16, <1>18, <2>1 DEF Fresh
  <2>3. QED
    BY <2>2 DEF Phase
<1>19. CASE Asking(u)
  <2>1. Asking(u)' /\ heard'[u] = heard[u]
    BY <1>1, <1>13, <1>14, <1>15, <1>16, <1>19 DEF Asking
  <2>2. QED
    BY <2>1 DEF Phase
<1>20. CASE Answered(u)
  <2>1. PICK i \in DOMAIN queue : AckAt(u, i) /\ \A j \in DOMAIN queue : NoteAt(u, j) => i < j
    BY <1>20 DEF Answered
  <2>2. i \in Nat /\ i >= 1 /\ ~NoteAt(u, 1)
    BY <1>4, <2>1
  <2>3. heard'[u] = heard[u] /\ heard[u] = 0 /\ stage'[u] # "new" /\ ~Asked(u)'
    BY <1>1, <1>13, <1>16, <1>20, <2>2 DEF Answered
  <2>4. InLine(u, 0)'
    <3>1. 0 \in 0..sent[u]
      BY <1>3
    <3>2. QED
      BY <1>17, <1>20, <2>2, <3>1 DEF Answered
  <2>5. CASE u \in subs
    <3>1. ~Acked(u)'
      BY <1>7, <2>5
    <3>2. InLine(u, heard[u])'
      BY <2>3, <2>4 DEF InLine
    <3>3. Listening(u)' \/ Deaf(u)'
      BY <2>3, <3>1, <3>2 DEF Listening, Deaf
    <3>4. QED
      BY <2>3, <3>3 DEF Phase
  <2>6. CASE u \notin subs
    <3>1. i # 1
      BY <1>6, <2>1, <2>6 DEF AckAt, subs, answered
    <3>2. i - 1 \in DOMAIN queue' /\ (i - 1) + 1 = i
      BY <1>4, <3>1
    <3>3. AckAt(u, i - 1)'
      BY <1>10, <2>1, <2>6, <3>2
    <3>4. \A j \in DOMAIN queue' : NoteAt(u, j)' => i - 1 < j
      BY <1>4, <1>10, <2>1, <2>2
    <3>5. u \notin listeners'
      BY <1>2, <1>20, <2>6 DEF Answered
    <3>6. Answered(u)'
      BY <2>3, <2>4, <3>2, <3>3, <3>4, <3>5 DEF Answered
    <3>7. QED
      BY <2>3, <3>6 DEF Phase
  <2>7. QED
    BY <2>5, <2>6
<1>21. CASE Listening(u)
  <2>1. heard[u] \in Nat /\ InLine(u, heard[u]) /\ heard[u] \in 0..sent[u] /\ sent[u] \in Nat
    BY <1>3, <1>21 DEF Listening, InLine
  <2>2. NoteAt(u, 1) => f.number = heard[u] + 1 /\ heard[u] + 1 \in 0..sent[u]
    <3> SUFFICES ASSUME NoteAt(u, 1) PROVE f.number = heard[u] + 1 /\ heard[u] + 1 \in 0..sent[u]
      OBVIOUS
    <3>1. f.number \in heard[u] + 1..sent[u]
      BY <1>4, <2>1 DEF InLine
    <3>2. heard[u] + 1 \in heard[u] + 1..sent[u]
      BY <2>1, <3>1
    <3>3. PICK i \in DOMAIN queue : NoteAt(u, i) /\ queue[i].number = heard[u] + 1
      BY <2>1, <3>2 DEF InLine
    <3>4. i = 1 \/ f.number < queue[i].number
      BY <1>4, <2>1, <3>3 DEF InLine
    <3>5. QED
      BY <2>1, <3>1, <3>2, <3>3, <3>4
  <2>3. heard'[u] = IF NoteAt(u, 1) THEN heard[u] + 1 ELSE heard[u]
    BY <1>13, <1>21, <2>2 DEF Listening
  <2>4. PICK n \in Nat : n = heard[u]
    BY <2>1
  <2>5. InLine(u, heard[u])'
    <3>1. PICK m \in Nat : m = heard'[u]
      BY <2>1, <2>3
    <3>2. InLine(u, m)'
      BY <1>17, <2>1, <2>2, <2>3, <2>4, <3>1
    <3>3. QED
      BY <3>1, <3>2 DEF InLine
  <2>6. Listening(u)'
    BY <1>1, <1>15, <1>16, <1>21, <2>5 DEF Listening
  <2>7. QED
    BY <2>3, <2>6 DEF Phase
<1>22. CASE CutOff(u)
  <2>1. CutOff(u)' /\ heard'[u] = heard[u]
    BY <1>1, <1>13, <1>14, <1>15, <1>16, <1>22 DEF CutOff
  <2>2. QED
    BY <2>1 DEF Phase
<1>23. CASE Deaf(u)
  <2>1. Deaf(u)' /\ heard'[u] = heard[u]
    BY <1>1, <1>13, <1>15, <1>16, <1>23 DEF Deaf
  <2>2. QED
    BY <2>1 DEF Phase
<1>24. QED
  BY <1>18, <1>19, <1>20, <1>21, <1>22, <1>23 DEF Phase

\* A callback that ends takes away only a listener that has no answer on the way.
LEMMA EndPhase ==
  ASSUME OutcomeInv, WireInv, AnsweredOnce, NEW u \in Subs, Phase(u),
         NEW throws \in BOOLEAN, EndCallback(throws)
  PROVE  Phase(u)'
<1>1. /\ Pend' = Pend /\ Served' = Served /\ rpc' \subseteq rpc
      /\ UNCHANGED <<queue, listeners, sent, stage, heard>>
  BY EndWire
<1>2. AwaitedBy(u)' \subseteq AwaitedBy(u) /\ \A r \in AwaitedBy(u) : r \in AwaitedBy(u)' \/ u \in Hearing
  BY DEF EndCallback, AwaitedBy, Hearing
<1>3. u \in Hearing => ~Acked(u)
  BY DEF OutcomeInv, Owed, AnsweredOnce, IsAnswer, Acked, AckAt, AwaitedBy
<1>4. \A i \in DOMAIN queue : AckAt(u, i)' <=> AckAt(u, i)
  BY <1>1, <1>2, <1>3 DEF AckAt, Acked
<1>5. QED
  BY <1>1, <1>4 DEF Phase, Fresh, Asking, Answered, Listening, CutOff, Deaf, InLine, Asked, AsksFor,
                    Acked, NoNotes, NoteAt

LEMMA OrderStep ==
  ASSUME SocketInv, OutcomeInv, WireInv, AnsweredOnce, OrderInv, [Next]_vars
  PROVE  OrderInv' /\ \A u \in Subs : heard'[u] \in {heard[u], heard[u] + 1}
<1>1. WireInv'
  BY WireStep
<1> SUFFICES ASSUME NEW u \in Subs PROVE Phase(u)' /\ heard'[u] \in {heard[u], heard[u] + 1}
  BY <1>1 DEF OrderInv
<1>2. Phase(u)
  BY DEF OrderInv
<1>3. CASE Quiet
  BY <1>2, <1>3, SamePhase DEF Quiet
<1>4. CASE Dropped
  BY <1>1, <1>2, <1>4, DroppedPhase DEF Dropped
<1>5. CASE HandleNextMessage
  BY <1>1, <1>2, <1>5, HandlePhase
<1>6. ASSUME NEW s \in Sockets, NEW kind \in {"result", "error"}, OnAnswer(s, kind)
      PROVE  Phase(u)' /\ heard' = heard
  BY <1>1, <1>2, <1>6, AnswerPhase DEF OnAnswer
<1>7. ASSUME NEW s \in Sockets, NEW v \in Subs, OnNotification(s, v) PROVE Phase(u)' /\ heard' = heard
  BY <1>1, <1>2, <1>7, NotificationPhase DEF OnNotification
<1>8. ASSUME NEW v \in Subs, CreateSubscription(v) \/ (CancelSubscription(v) /\ IsOpen)
      PROVE  Phase(u)' /\ heard' = heard
  <2>1. IsOpen /\ (CreateSubscription(v) \/ CancelSubscription(v))
    BY <1>8 DEF CreateSubscription
  <2>2. Phase(u)'
    BY <1>1, <1>2, <2>1, SendPhase
  <2>3. heard' = heard
    BY <2>1 DEF CreateSubscription, CancelSubscription, SendRpc
  <2>4. QED
    BY <2>2, <2>3
<1>9. ASSUME NEW throws \in BOOLEAN, EndCallback(throws) PROVE Phase(u)' /\ heard' = heard
  BY <1>2, <1>9, EndPhase DEF EndCallback
<1>10. QED
  BY <1>1, <1>3, <1>4, <1>5, <1>6, <1>7, <1>8, <1>9, WireSteps

\* A callback gets the mint's notifications in order, and none is lost on the way.
THEOREM NotificationsInOrderHolds == Spec => NotificationsInOrder
<1>1. SocketInv /\ OutcomeInv /\ WireInv /\ AnsweredOnce /\ OrderInv /\ [Next]_vars => OrderInv'
  BY OrderStep
<1>2. SocketInv /\ OutcomeInv /\ WireInv /\ AnsweredOnce /\ OrderInv /\ [Next]_vars
        => [\A u \in Subs : heard'[u] \in {heard[u], heard[u] + 1}]_vars
  BY OrderStep
<1>3. Spec => []OrderInv
  BY <1>1, OrderInit, OutcomesHold, PTL DEF Spec
<1>4. QED
  BY <1>2, <1>3, OutcomesHold, PTL DEF Spec, NotificationsInOrder
=============================================================================
