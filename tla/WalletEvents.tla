---------------------------- MODULE WalletEvents ----------------------------
(***************************************************************************)
(* Waiting for quotes to be paid (onceMintPaid, onceMeltPaid and           *)
(* onceAnyMintPaid): each call subscribes to its quotes over the one       *)
(* websocket of the mint client and settles by whichever comes first of a  *)
(* payment, an error, a timeout and the caller's abort.  Subscriptions     *)
(* start asynchronously, so a call can be over before one of its own       *)
(* subscriptions has begun.  A wait for a single quote is a race of one    *)
(* that fails on error.                                                    *)
(*                                                                         *)
(* The websocket is seen through its interface (WSConnection models it):   *)
(* connecting succeeds or fails, creating a subscription may throw, a live *)
(* subscription may be told of an error or a payment, and the socket may   *)
(* be lost, of which nobody is told.                                       *)
(***************************************************************************)
EXTENDS FiniteSets, Outcomes

CONSTANTS Waits,    \* the calls
          Quotes,   \* quote ids
          Calls     \* how a call may be made: its ids, timeout, signal and failOnError

ASSUME AbsentAssumption ==
  Absent \notin Quotes /\ Absent \notin Calls /\ Absent \notin {"aborted", "error", "timeout"}
ASSUME QuotesAssumption == Quotes \cap {"aborted", "error", "timeout"} = {}
ASSUME CallsAssumption  == \A c \in Calls : c.ids \subseteq Quotes

VARIABLES
  call,      \* call[w]: the options of the call, once it is made
  outcome,   \* outcome[w]: how its promise was settled
  cancels,   \* cancels[w]: the quotes whose canceller the call has
  sub,       \* sub[w][q]: the subscription of a quote
  doomed,    \* cancelSafely waits for the canceller of these <<w, q>>
  ws,        \* mint.ws: "none", or what ensureConnection finds
  paid,      \* the quotes paid at the mint
  aborted    \* the calls whose signal is aborted

waitVars == <<call, outcome, cancels, sub, doomed>>
vars == <<waitVars, ws, paid, aborted>>

Made(w) == call[w] # Absent
Done(w) == outcome[w] # Absent

Init ==
  /\ call = [w \in Waits |-> Absent] /\ outcome = [w \in Waits |-> Absent]
  /\ cancels = [w \in Waits |-> {}] /\ sub = [w \in Waits |-> [q \in Quotes |-> "none"]]
  /\ doomed = {} /\ ws = "none" /\ paid = {} /\ aborted = {}

\* A subscription that the mint still has, or had until the socket was lost.
Exists(w, q)   == sub[w][q] \in {"live", "deaf"}
Starting(w)    == {q \in Quotes : sub[w][q] = "starting"}
-----------------------------------------------------------------------------
(* Settling.                                                                *)

\* cancelSafely: what exists is cancelled; what is still starting will be, once its
\* canceller is there.
Cancelled(w, Q) == [q \in Quotes |-> IF q \in Q /\ Exists(w, q) THEN "closed" ELSE sub[w][q]]

\* Variant: a canceller that is not there yet is not waited for.
WaitsForNoCanceller(w, Q) == {}
WaitsForCanceller(w, Q)   == {<<w, q>> : q \in Q \cap Starting(w)}

\* cleanup: the first settlement counts; it lets go of all subscriptions.
Cleanup(w, result) ==
  /\ ~Done(w)
  /\ outcome' = [outcome EXCEPT ![w] = result]
  /\ sub' = [sub EXCEPT ![w] = Cancelled(w, cancels[w])]
  /\ doomed' = doomed \cup WaitsForCanceller(w, cancels[w])
  /\ cancels' = [cancels EXCEPT ![w] = {}]

\* Variant: a race fails with its first subscription.
OverAtOnce(w, Q) == ~Done(w) /\ Q # {}

\* A failure ends a call that fails on error, or that has no subscription left.
Over(w, Q) == ~Done(w) /\ Q # {} /\ (call[w].failOnError \/ cancels[w] \subseteq Q)

\* The subscriptions lost[w] failed to start or reported an error.
Fail(lost, how) ==
  LET over == {w \in Waits : Over(w, lost[w])}
  IN /\ outcome' = [w \in Waits |-> IF w \in over THEN "error" ELSE outcome[w]]
     /\ sub' = [w \in Waits |->
                  [q \in Quotes |-> IF q \in lost[w] THEN how
                                    ELSE IF w \in over THEN Cancelled(w, cancels[w])[q]
                                    ELSE sub[w][q]]]
     /\ doomed' = {d \in doomed : d[2] \notin lost[d[1]]}
                    \cup UNION {WaitsForCanceller(w, cancels[w] \ lost[w]) : w \in over}
     /\ cancels' = [w \in Waits |-> IF w \in over THEN {} ELSE cancels[w] \ lost[w]]

Only(w, q) == [v \in Waits |-> IF v = w THEN {q} ELSE {}]
-----------------------------------------------------------------------------
(* The calls.                                                               *)

\* How a call is made: a wait for one quote, of a mint or a melt, fails on any error.
OnceAnyMintPaid(ids, timeout, signal, failOnError) ==
  [ids |-> ids, timeout |-> timeout, signal |-> signal, failOnError |-> failOnError]
WaitUntilPaid(q, timeout, signal) == OnceAnyMintPaid({q}, timeout, signal, TRUE)
OnceMintPaid(q, timeout, signal) == WaitUntilPaid(q, timeout, signal)
OnceMeltPaid(q, timeout, signal) == WaitUntilPaid(q, timeout, signal)

\* connectWebSocket joins the connection there is, or starts one.
ConnectWebSocket == ws' = IF ws = "open" THEN "open" ELSE "connecting"

\* The call settles at once if its signal is aborted or there is nothing to wait for;
\* otherwise every distinct quote is subscribed to.
Once(w, c) ==
  /\ ~Made(w)
  /\ call' = [call EXCEPT ![w] = c]
  /\ IF c.signal /\ w \in aborted
     THEN outcome' = [outcome EXCEPT ![w] = "aborted"] /\ UNCHANGED <<cancels, sub, ws>>
     ELSE IF c.ids = {}
     THEN outcome' = [outcome EXCEPT ![w] = "error"] /\ UNCHANGED <<cancels, sub, ws>>
     ELSE /\ sub' = [sub EXCEPT ![w] = [q \in Quotes |-> IF q \in c.ids THEN "starting" ELSE "none"]]
          /\ cancels' = [cancels EXCEPT ![w] = c.ids]
          /\ ConnectWebSocket
          /\ UNCHANGED outcome
  /\ UNCHANGED <<doomed, paid, aborted>>

Abort(w) ==
  /\ w \notin aborted /\ aborted' = aborted \cup {w}
  /\ IF Made(w) /\ call[w].signal /\ ~Done(w)
     THEN Cleanup(w, "aborted") ELSE UNCHANGED <<outcome, cancels, sub, doomed>>
  /\ UNCHANGED <<call, ws, paid>>

Timeout(w) ==
  /\ Made(w) /\ call[w].timeout /\ Cleanup(w, "timeout")
  /\ UNCHANGED <<call, ws, paid, aborted>>
-----------------------------------------------------------------------------
(* The websocket.                                                           *)

Opens ==
  /\ ws = "connecting" /\ ws' = "open"
  /\ UNCHANGED <<waitVars, paid, aborted>>

\* The attempt fails: so do all calls that wait for it; the connection is forgotten.
ConnectFails ==
  /\ ws = "connecting" /\ ws' = "none"
  /\ Fail([w \in Waits |-> Starting(w)], "failed")
  /\ UNCHANGED <<call, paid, aborted>>

\* The connection is there: the subscription is created, and cancelled at once if nobody
\* wants it any more.
Subscribe(w, q) ==
  /\ ws = "open" /\ sub[w][q] = "starting"
  /\ sub' = [sub EXCEPT ![w][q] = IF <<w, q>> \in doomed THEN "closed" ELSE "live"]
  /\ doomed' = doomed \ {<<w, q>>}
  /\ UNCHANGED <<call, outcome, cancels, ws, paid, aborted>>

\* Creating it throws, for the socket is closing.
SubscribeThrows(w, q) ==
  /\ ws = "open" /\ sub[w][q] = "starting"
  /\ Fail(Only(w, q), "failed")
  /\ UNCHANGED <<call, ws, paid, aborted>>

\* The mint answers a subscription with an error.
SubscriptionError(w, q) ==
  /\ sub[w][q] = "live"
  /\ Fail(Only(w, q), "refused")
  /\ UNCHANGED <<call, ws, paid, aborted>>

\* The mint tells of a payment: the first one resolves the call.
Notify(w, q) ==
  /\ sub[w][q] = "live" /\ q \in paid
  /\ Cleanup(w, q)
  /\ UNCHANGED <<call, ws, paid, aborted>>

Pay(q) == q \notin paid /\ paid' = paid \cup {q} /\ UNCHANGED <<waitVars, ws, aborted>>

SocketLost ==
  /\ ws = "open" /\ ws' = IF \E w \in Waits : Starting(w) # {} THEN "connecting" ELSE "closed"
  /\ sub' = [w \in Waits |-> [q \in Quotes |-> IF sub[w][q] = "live" THEN "deaf" ELSE sub[w][q]]]
  /\ UNCHANGED <<call, outcome, cancels, doomed, paid, aborted>>
-----------------------------------------------------------------------------
Next ==
  \/ \E w \in Waits, c \in Calls : Once(w, c)
  \/ \E w \in Waits : Abort(w) \/ Timeout(w)
  \/ \E w \in Waits, q \in Quotes : \/ Subscribe(w, q) \/ SubscribeThrows(w, q)
                                    \/ SubscriptionError(w, q) \/ Notify(w, q)
  \/ Opens \/ ConnectFails \/ SocketLost
  \/ \E q \in Quotes : Pay(q)

Spec == Init /\ [][Next]_vars
-----------------------------------------------------------------------------
(* Properties.                                                              *)

\* A call that is over leaves no subscription behind, in whatever order its end, the
\* connection and the creation of its subscriptions come: it has none at the mint, and
\* those still starting will be cancelled as soon as they exist.
NothingLeftBehind ==
  \A w \in Waits : Done(w) => \A q \in Quotes :
    ~Exists(w, q) /\ (sub[w][q] = "starting" => <<w, q>> \in doomed)

\* A race fails when its last subscription has failed and not before, and a call never
\* waits for nothing.
FailsWithTheLast ==
  \A w \in Waits : Made(w) =>
    /\ outcome[w] = "error" /\ ~call[w].failOnError =>
         \A q \in call[w].ids : sub[w][q] \in {"failed", "refused"}
    /\ ~Done(w) => \E q \in call[w].ids : sub[w][q] \in {"starting", "live", "deaf"}
=============================================================================
