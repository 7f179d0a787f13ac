---------------------------- MODULE WSConnection ----------------------------
(***************************************************************************)
(* The websocket connection a wallet subscribes over (NUT-17): connection  *)
(* attempts and their timers, the events of current and of replaced        *)
(* sockets, the queue of received frames that a timer works off one by     *)
(* one, pending acknowledgements and subscription listeners.               *)
(*                                                                         *)
(* The handlers run one at a time; what interleaves is their order.  One   *)
(* of them calls out before it is done: the error callback of a refused    *)
(* request may use the connection, and may throw.  A browser socket is     *)
(* external: its close() announces itself by a later close event, and the  *)
(* mint or the network may end it at any time, with or without a close     *)
(* that is first in progress.                                              *)
(***************************************************************************)
EXTENDS Integers, Sequences, FiniteSets

CONSTANTS Sockets,    \* the sockets the connection may create, one per attempt
          Subs,       \* subscriptions, each created at most once
          MaxNotes,   \* bound on the notifications sent for one subscription
          NoSocket    \* undefined

ASSUME NoSocketAssumption == NoSocket \notin Sockets
ASSUME MaxNotesAssumption == MaxNotes \in Nat

VARIABLES
  ws,          \* this.ws
  connection,  \* this.connectionPromise: the socket of the attempt it is for
  ready,       \* ready[s]: readyState of socket s
  attached,    \* attached[s]: the handlers of s are still set
  attempt,     \* attempt[s]: the promise of connect(); resolved means opened
  queue,       \* messageQueue: frames received and not handled
  handling,    \* handlingInterval is set
  rpcId,       \* the next request id
  rpc,         \* rpcListeners: requests whose answer is awaited
  listeners,   \* subListeners: subscriptions whose callback is registered
  requests,    \* requests[s]: sent over s and not answered (external)
  serving,     \* serving[s]: what the mint notifies over s (external)
  sent,        \* sent[u]: notifications the mint has sent for u (external)
  stage,       \* stage[u]: what the caller did with subscription u
  outcomes,    \* outcomes[u]: acknowledgements and errors u has seen
  heard,       \* heard[u]: the last notification handed to u's callback
  telling,     \* the refused request whose error callback runs, if one does
  lapsed       \* history: subscriptions whose own error callback threw, or
               \* lost the connection, while it ran

socketVars == <<ws, connection, ready, attached, attempt>>
mintVars   == <<requests, serving, sent>>
callVars   == <<telling, lapsed>>
vars == <<socketVars, queue, handling, rpcId, rpc, listeners, mintVars,
          stage, outcomes, heard, callVars>>

Requests == [id : Nat, method : {"subscribe", "unsubscribe"}, sub : Subs, socket : Sockets]

Frames == [kind : {"result", "error"}, id : Nat, socket : Sockets]
            \cup [kind : {"note"}, sub : Subs, number : Nat, socket : Sockets]

Init ==
  /\ ws = NoSocket
  /\ connection = NoSocket
  /\ ready     = [s \in Sockets |-> "none"]
  /\ attached  = [s \in Sockets |-> TRUE]
  /\ attempt   = [s \in Sockets |-> "none"]
  /\ queue     = <<>>
  /\ handling  = FALSE
  /\ rpcId     = 0
  /\ rpc       = {}
  /\ listeners = {}
  /\ requests  = [s \in Sockets |-> <<>>]
  /\ serving   = [s \in Sockets |-> {}]
  /\ sent      = [u \in Subs |-> 0]
  /\ stage     = [u \in Subs |-> "new"]
  /\ outcomes  = [u \in Subs |-> 0]
  /\ heard     = [u \in Subs |-> 0]
  /\ telling   = {}
  /\ lapsed    = {}
-----------------------------------------------------------------------------
StopMessageHandling ==
  /\ handling' = FALSE
  /\ queue' = <<>>

AwaitedBy(u) == {r \in rpc : r.sub = u /\ r.method = "subscribe"}

\* Timers, socket events and frames wait until a running callback returns; the
\* application may act from within it.
Idle == telling = {}

\* The subscriptions that are being told that the mint refused them.
Hearing == {r.sub : r \in {t \in telling : t.method = "subscribe"}}

\* Variant: the listeners are told, and stay.
TellPendingRpc ==
  /\ rpc' = rpc
  /\ outcomes' = [u \in Subs |-> outcomes[u] + Cardinality(AwaitedBy(u))]
  /\ lapsed' = lapsed \cup Hearing
  /\ UNCHANGED telling

\* Every pending subscription gets its error callback, also one that is being told.
FailPendingRpc ==
  /\ rpc' = {}
  /\ outcomes' = [u \in Subs |-> outcomes[u] + Cardinality(AwaitedBy(u))]
  /\ lapsed' = lapsed \cup Hearing
  /\ UNCHANGED telling

\* s.close(): nothing if it is closing or closed already.
Closed(r, s) == IF r[s] \in {"connecting", "open"} THEN [r EXCEPT ![s] = "closing"] ELSE r

\* cleanupSocket, r being the ready states: it acts on this.ws, whichever it is.
CleanupSocket(r) ==
  IF ws = NoSocket
  THEN ready' = r /\ UNCHANGED <<ws, attached, queue, handling>>
  ELSE /\ ready'    = Closed(r, ws)
       /\ attached' = [attached EXCEPT ![ws] = FALSE]
       /\ ws'       = NoSocket
       /\ StopMessageHandling

Settled(s, outcome) == [attempt EXCEPT ![s] = IF @ = "waiting" THEN outcome ELSE @]

\* fail() of the attempt for socket s.
Fail(s, r) ==
  /\ connection' = NoSocket
  /\ CleanupSocket(r)
  /\ FailPendingRpc
  /\ attempt' = Settled(s, "rejected")

\* connect(); nothing changes if there is an attempt or a connection.
Connect(s) ==
  /\ connection = NoSocket
  /\ attempt[s] = "none"
  /\ ws'         = s
  /\ connection' = s
  /\ ready'      = [ready EXCEPT ![s] = "connecting"]
  /\ attempt'    = [attempt EXCEPT ![s] = "waiting"]
  /\ UNCHANGED <<attached, queue, handling, rpcId, rpc, listeners, mintVars,
                 stage, outcomes, heard, callVars>>

\* connect() whose socket constructor throws: fail() clears the promise, but
\* runs before the rejected promise is assigned, which therefore stays.
ConnectThrows(s) ==
  /\ connection = NoSocket
  /\ attempt[s] = "none"
  /\ connection' = s
  /\ CleanupSocket(ready)
  /\ FailPendingRpc
  /\ attempt' = [attempt EXCEPT ![s] = "rejected"]
  /\ UNCHANGED <<rpcId, listeners, mintVars, stage, heard>>

\* Variant: the timer of a replaced socket does nothing.
TimeoutIfCurrent(s) ==
  /\ Idle /\ attempt[s] = "waiting"
  /\ ws = s
  /\ Fail(s, ready)
  /\ UNCHANGED <<rpcId, listeners, mintVars, stage, heard>>

\* The connect timer, which runs until the attempt is settled.
Timeout(s) ==
  /\ Idle /\ attempt[s] = "waiting"
  /\ Fail(s, ready)
  /\ UNCHANGED <<rpcId, listeners, mintVars, stage, heard>>

OnOpen(s) ==
  /\ Idle /\ ready[s] = "connecting"
  /\ ready' = [ready EXCEPT ![s] = "open"]
  /\ attempt' = IF attached[s] /\ ws = s THEN Settled(s, "resolved") ELSE attempt
  /\ UNCHANGED <<ws, connection, attached, queue, handling, rpcId, rpc, listeners,
                 mintVars, stage, outcomes, heard, callVars>>

\* An error before the socket opens; later ones are only logged.
OnError(s) ==
  /\ Idle /\ ready[s] = "connecting"
  /\ attached[s] /\ ws = s
  /\ Fail(s, ready)
  /\ UNCHANGED <<rpcId, listeners, mintVars, stage, heard>>

\* A frame arrives: an answer to the oldest request, or a notification.
Received(s, frame) ==
  IF attached[s] /\ ws = s
  THEN queue' = Append(queue, frame) /\ handling' = TRUE
  ELSE UNCHANGED <<queue, handling>>

OnAnswer(s, kind) ==
  LET r == Head(requests[s])
  IN  /\ Idle /\ ready[s] = "open" /\ requests[s] # <<>>
      /\ requests' = [requests EXCEPT ![s] = Tail(@)]
      /\ serving' = [serving EXCEPT ![s] =
                       IF kind = "error" THEN @
                       ELSE IF r.method = "subscribe" THEN @ \cup {r.sub} ELSE @ \ {r.sub}]
      /\ Received(s, [kind |-> kind, id |-> r.id, socket |-> s])
      /\ UNCHANGED <<socketVars, rpcId, rpc, listeners, sent, stage, outcomes, heard,
                     callVars>>

OnNotification(s, u) ==
  /\ Idle /\ ready[s] = "open" /\ u \in serving[s] /\ sent[u] < MaxNotes
  /\ sent' = [sent EXCEPT ![u] = @ + 1]
  /\ Received(s, [kind |-> "note", sub |-> u, number |-> sent'[u], socket |-> s])
  /\ UNCHANGED <<socketVars, rpcId, rpc, listeners, requests, serving, stage,
                 outcomes, heard, callVars>>

\* The other side begins to close: for a while the socket is neither open nor
\* has it told the connection.
OnClosing(s) ==
  /\ Idle /\ ready[s] = "open"
  /\ ready' = [ready EXCEPT ![s] = "closing"]
  /\ UNCHANGED <<ws, connection, attached, attempt, queue, handling, rpcId, rpc, listeners,
                 mintVars, stage, outcomes, heard, callVars>>

\* Variant: the promise of a connection that was lost is kept.
OnCloseKeepsPromise(s, abnormal) ==
  /\ Idle /\ ready[s] \in {"connecting", "open", "closing"}
  /\ attached[s] /\ ws \in {s, NoSocket} /\ attempt[s] = "resolved"
  /\ ready' = [ready EXCEPT ![s] = "closed"]
  /\ StopMessageHandling
  /\ IF abnormal THEN FailPendingRpc ELSE rpc' = {} /\ UNCHANGED <<outcomes, callVars>>
  /\ UNCHANGED <<ws, connection, attached, attempt, rpcId, listeners, mintVars, stage, heard>>

\* The close event.  It is ignored if another socket has taken the place of s.
OnClose(s, abnormal) ==
  LET closed == [ready EXCEPT ![s] = "closed"]
  IN  /\ Idle /\ ready[s] \in {"connecting", "open", "closing"}
      /\ IF ~attached[s] \/ ws \notin {s, NoSocket}
         THEN /\ ready' = closed
              /\ UNCHANGED <<ws, connection, attached, attempt, queue, handling, rpc,
                             outcomes, callVars>>
         ELSE IF attempt[s] # "resolved"
         THEN Fail(s, closed)
         ELSE /\ connection' = NoSocket
              /\ ready' = closed
              /\ UNCHANGED <<ws, attached, attempt>>
              /\ StopMessageHandling
              /\ IF abnormal THEN FailPendingRpc
                 ELSE rpc' = {} /\ UNCHANGED <<outcomes, callVars>>
      /\ UNCHANGED <<rpcId, listeners, mintVars, stage, heard>>
-----------------------------------------------------------------------------
\* What a frame does.  An acknowledgement registers the callback of its
\* subscription, whatever became of it since.  A refusal calls the error
\* callback, and its listener stays until that has returned.
HandleFrame(f) ==
  LET answered == {r \in rpc : f.kind # "note" /\ r.id = f.id}
      subs == {r.sub : r \in {a \in answered : a.method = "subscribe"}}
  IN  /\ rpc' = IF f.kind = "error" THEN rpc ELSE rpc \ answered
      /\ telling' = IF f.kind = "error" THEN answered ELSE {}
      /\ listeners' = IF f.kind = "result" THEN listeners \cup subs ELSE listeners
      /\ outcomes' = [u \in Subs |-> outcomes[u] + IF u \in subs THEN 1 ELSE 0]
      /\ heard' = IF f.kind = "note" /\ f.sub \in listeners
                  THEN [heard EXCEPT ![f.sub] = f.number] ELSE heard
      /\ UNCHANGED lapsed

\* Variant: frames are taken from the wrong end.
HandleNewest ==
  /\ Idle /\ handling /\ queue # <<>>
  /\ queue' = SubSeq(queue, 1, Len(queue) - 1)
  /\ HandleFrame(queue[Len(queue)])
  /\ UNCHANGED <<socketVars, handling, rpcId, mintVars, stage>>

\* One tick of the interval with a frame in the queue.
HandleNextMessage ==
  /\ Idle /\ handling /\ queue # <<>>
  /\ queue' = Tail(queue)
  /\ HandleFrame(Head(queue))
  /\ UNCHANGED <<socketVars, handling, rpcId, mintVars, stage>>

\* The error callback returns, or throws and its listener stays.
EndCallback(throws) ==
  /\ telling # {}
  /\ telling' = {}
  /\ rpc' = IF throws THEN rpc ELSE rpc \ telling
  /\ lapsed' = IF throws THEN lapsed \cup Hearing ELSE lapsed
  /\ UNCHANGED <<socketVars, queue, handling, rpcId, listeners, mintVars, stage,
                 outcomes, heard>>

\* One tick of the interval with nothing to do.
StopInterval ==
  /\ Idle /\ handling /\ queue = <<>>
  /\ handling' = FALSE
  /\ UNCHANGED <<socketVars, queue, rpcId, rpc, listeners, mintVars, stage, outcomes, heard,
                 callVars>>

IsOpen == ws # NoSocket /\ ready[ws] = "open"

Request(method, u) == [id |-> rpcId, method |-> method, sub |-> u, socket |-> ws]

\* Register the request, send it.
SendRpc(r) ==
  /\ rpc' = rpc \cup {r}
  /\ requests' = [requests EXCEPT ![ws] = Append(@, r)]
  /\ rpcId' = rpcId + 1
  /\ UNCHANGED <<socketVars, queue, handling, serving, sent, outcomes, heard, callVars>>

\* createSubscription; it throws if the socket is not open.
CreateSubscription(u) ==
  /\ stage[u] = "new" /\ IsOpen
  /\ SendRpc(Request("subscribe", u))
  /\ stage' = [stage EXCEPT ![u] = "asked"]
  /\ UNCHANGED listeners

\* cancelSubscription; without an open socket only the listener goes.
CancelSubscription(u) ==
  /\ stage[u] = "asked"
  /\ listeners' = listeners \ {u}
  /\ stage' = [stage EXCEPT ![u] = IF u \in listeners THEN "cancelled" ELSE "cancelledEarly"]
  /\ IF IsOpen THEN SendRpc(Request("unsubscribe", u))
     ELSE UNCHANGED <<socketVars, queue, handling, rpcId, rpc, mintVars, outcomes, heard,
                      callVars>>

\* The socket's send throws: the connection is given up, its handlers stay.
SendThrows(r) ==
  /\ rpcId' = rpcId + 1
  /\ connection' = NoSocket
  /\ ready' = Closed(ready, ws)
  /\ ws' = NoSocket
  /\ StopMessageHandling
  /\ rpc' = {}
  /\ outcomes' = [u \in Subs |-> outcomes[u] + Cardinality(AwaitedBy(u))
                                + IF r.sub = u /\ r.method = "subscribe" THEN 1 ELSE 0]
  /\ lapsed' = lapsed \cup Hearing
  /\ UNCHANGED <<attached, attempt, mintVars, heard, telling>>

CreateSubscriptionThrows(u) ==
  /\ stage[u] = "new" /\ IsOpen
  /\ SendThrows(Request("subscribe", u))
  /\ stage' = [stage EXCEPT ![u] = "thrown"]
  /\ UNCHANGED listeners

CancelSubscriptionThrows(u) ==
  /\ stage[u] = "asked" /\ IsOpen
  /\ SendThrows(Request("unsubscribe", u))
  /\ listeners' = listeners \ {u}
  /\ stage' = [stage EXCEPT ![u] = IF u \in listeners THEN "cancelled" ELSE "cancelledEarly"]

CloseKeeps == <<attached, attempt, rpcId, rpc, listeners, mintVars, stage, outcomes, heard,
                callVars>>

\* Variant: the socket is forgotten and not closed.
CloseForgets ==
  /\ ready' = ready
  /\ ws' = NoSocket /\ connection' = NoSocket
  /\ StopMessageHandling
  /\ UNCHANGED CloseKeeps

\* close(), by the application.
Close ==
  /\ ready' = IF ws = NoSocket THEN ready ELSE Closed(ready, ws)
  /\ ws' = NoSocket /\ connection' = NoSocket
  /\ StopMessageHandling
  /\ UNCHANGED CloseKeeps

Next ==
  \/ \E s \in Sockets :
       \/ Connect(s) \/ ConnectThrows(s) \/ Timeout(s)
       \/ OnOpen(s) \/ OnError(s) \/ OnClosing(s)
       \/ \E kind \in {"result", "error"} : OnAnswer(s, kind)
       \/ \E u \in Subs : OnNotification(s, u)
       \/ \E abnormal \in BOOLEAN : OnClose(s, abnormal)
  \/ HandleNextMessage \/ StopInterval
  \/ \E throws \in BOOLEAN : EndCallback(throws)
  \/ \E u \in Subs : \/ CreateSubscription(u) \/ CreateSubscriptionThrows(u)
                     \/ CancelSubscription(u) \/ CancelSubscriptionThrows(u)
  \/ Close

Spec == Init /\ [][Next]_vars

\* A timer fires unless it is cleared, and a callback, which is synchronous,
\* ends.  Nothing is assumed of the network, the mint or the application.
FairSpec ==
  /\ Spec
  /\ \A s \in Sockets : WF_vars(Timeout(s))
  /\ WF_vars(\E throws \in BOOLEAN : EndCallback(throws))
-----------------------------------------------------------------------------
\* The promise that ensureConnection hands out is that of this.ws, and the
\* connection has not heard that this socket closed: one that was closed, given
\* up or lost can be made again.  Excepted is an attempt whose socket could not
\* be constructed, whose promise stays (see ConnectThrows).
PromiseIsCurrent ==
  connection # NoSocket =>
    \/ connection = ws /\ ready[ws] \in {"connecting", "open", "closing"}
    \/ ready[connection] = "none"

\* Whatever happens to attempts, timers and close events, no socket is left
\* connecting or open that the connection no longer knows and cannot close.
NoSocketLeaked == \A s \in Sockets : ready[s] \in {"connecting", "open"} => s = ws

\* A subscription hears once how its request ended: acknowledged or failed, by
\* the mint, by the loss of the socket or by a failed send.  Only one whose own
\* error callback threw, or lost the connection while it ran, may be told again,
\* because the listener is removed after the callback; and never a third time.
OneOutcome == \A u \in Subs : outcomes[u] <= IF u \in lapsed THEN 2 ELSE 1

\* A callback gets the mint's notifications in order: none twice, none that
\* overtook another, none lost between the acknowledgement and the listener.
NotificationsInOrder == [][\A u \in Subs : heard'[u] \in {heard[u], heard[u] + 1}]_vars

\* The promise of every connect() is settled, also if the socket was closed
\* or replaced before it opened.
EveryAttemptSettles ==
  \A s \in Sockets : attempt[s] = "waiting" ~> attempt[s] \in {"resolved", "rejected"}
-----------------------------------------------------------------------------
\* What the tests, docs and comments say that the code does not do.

\* WSConnection.test.ts: no late event of a superseded socket tears down the
\* replacement.  Here the late event is the superseded socket's timer.
SupersededIsIgnored ==
  [][\A s \in Sockets : Timeout(s) /\ ws \notin {s, NoSocket} => ws' = ws]_vars

\* cancel_abort.md: aborting stops the stream, hence no callback follows.
NoCallbackAfterCancel ==
  [][\A u \in Subs : stage[u] \in {"cancelled", "cancelledEarly"} => heard'[u] = heard[u]]_vars
=============================================================================
