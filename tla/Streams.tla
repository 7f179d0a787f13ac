------------------------------- MODULE Streams -------------------------------
(***************************************************************************)
(* Two asynchronous helpers of the wallet.  proofStatesStream turns the    *)
(* updates of a subscription into an async iterator with a bounded buffer: *)
(* a producer of callbacks and a generator that sleeps on a promise.       *)
(* runPool works through the batches of a request with a few workers that  *)
(* share a cursor.                                                         *)
(***************************************************************************)
EXTENDS Integers, Sequences, FiniteSets

CONSTANTS MaxUpdates,   \* bound on the updates of the mint
          Buffers,      \* values of maxBuffer (MaxUpdates or more: unlimited)
          Items,        \* the number of items of a pool
          Limits        \* values of its limit

ASSUME BuffersAssumption == Buffers \subseteq Nat \ {0} /\ MaxUpdates \in Nat
ASSUME LimitsAssumption  == Limits \subseteq Nat \ {0} /\ Items \in Nat

VARIABLES
  opts,      \* maxBuffer and drop
  queue,     \* queue
  control,   \* where the generator is: "new", "paused" at a yield, "asleep", "woken", "over"
  finished,  \* done
  failure,   \* streamErr is set
  source,    \* the subscription: "none", "starting", "live", "doomed" or "closed"
  updates,   \* how many updates the mint has sent
  got,       \* the updates the consumer has got
  shed,      \* the updates given to onDrop
  threw      \* the consumer got the error

streamVars == <<opts, queue, control, finished, failure, source, updates, got, shed, threw>>

StreamInit ==
  /\ opts \in [max : Buffers, drop : {"oldest", "newest"}]
  /\ queue = <<>> /\ control = "new" /\ finished = FALSE /\ failure = FALSE
  /\ source = "none" /\ updates = 0 /\ got = <<>> /\ shed = {} /\ threw = FALSE

\* Variant: whoever sleeps is not woken.
NoWake == UNCHANGED control
Wake   == control' = IF control = "asleep" THEN "woken" ELSE control

\* cancelSafely, or an abort: the subscription is cancelled as soon as it exists.
LetGo == CASE source = "live" -> "closed" [] source = "starting" -> "doomed" [] OTHER -> source

\* The generator after its loop: an error is thrown, and the subscription let go.
Leave ==
  /\ control' = "over" /\ threw' = failure
  /\ source' = LetGo

\* Variant: pop() for shift().
Popped  == SubSeq(queue, 1, Len(queue) - 1)
Shifted == Tail(queue)

\* The loop up to its next yield, await or end.
RunLoop ==
  /\ IF queue # <<>>
     THEN /\ got' = Append(got, Head(queue)) /\ queue' = Shifted /\ control' = "paused"
          /\ UNCHANGED <<source, threw>>
     ELSE /\ UNCHANGED <<got, queue>>
          /\ IF finished THEN Leave ELSE control' = "asleep" /\ UNCHANGED <<source, threw>>
  /\ UNCHANGED <<opts, finished, failure, updates, shed>>

\* The consumer asks for the next update, or the generator wakes up.
Resume == control \in {"paused", "woken"} /\ RunLoop

\* The first call of next() subscribes, unless the signal is aborted already: then the
\* generator ends and the subscription will be cancelled.
StartStream(abortedBefore) ==
  /\ control = "new"
  /\ finished' = abortedBefore
  /\ control' = IF abortedBefore THEN "over" ELSE "asleep"
  /\ source' = IF abortedBefore THEN "doomed" ELSE "starting"
  /\ UNCHANGED <<opts, queue, failure, updates, got, shed, threw>>

\* The consumer leaves its loop at an update.
Break ==
  /\ control = "paused" /\ control' = "over"
  /\ source' = LetGo
  /\ UNCHANGED <<opts, queue, finished, failure, updates, got, shed, threw>>

\* push: a full buffer sheds its oldest update or the new one.
Push ==
  /\ source = "live" /\ updates < MaxUpdates /\ updates' = updates + 1
  /\ IF Len(queue) < opts.max
     THEN queue' = Append(queue, updates + 1) /\ Wake /\ UNCHANGED shed
     ELSE IF opts.drop = "oldest"
     THEN /\ queue' = Append(Shifted, updates + 1) /\ Wake
          /\ shed' = shed \cup {Head(queue)}
     ELSE shed' = shed \cup {updates + 1} /\ UNCHANGED <<queue, control>>
  /\ UNCHANGED <<opts, finished, failure, source, got, threw>>

Subscribed ==
  /\ source \in {"starting", "doomed"}
  /\ source' = IF source = "doomed" THEN "closed" ELSE "live"
  /\ UNCHANGED <<opts, queue, control, finished, failure, updates, got, shed, threw>>

\* The setup fails, or the mint answers with an error.
SourceFails ==
  /\ source \in {"starting", "doomed", "live"}
  /\ source' = IF source = "live" THEN "live" ELSE "closed"
  /\ failure' = TRUE /\ finished' = TRUE /\ Wake
  /\ UNCHANGED <<opts, queue, updates, got, shed, threw>>

AbortStream ==
  /\ control \notin {"new", "over"} /\ finished' = TRUE /\ Wake
  /\ source' = LetGo
  /\ UNCHANGED <<opts, queue, failure, updates, got, shed, threw>>

StreamNext == \/ Resume \/ Break \/ Push \/ Subscribed \/ SourceFails \/ AbortStream
              \/ \E b \in BOOLEAN : StartStream(b)

StreamSpec == StreamInit /\ [][StreamNext]_streamVars

\* Everything the mint sent reaches the consumer once and in its order, or is reported as
\* shed; only what is in the buffer when the consumer leaves is not.
NothingIsSkipped ==
  LET all == got \o queue
  IN /\ \A i, j \in DOMAIN all : i < j => all[i] < all[j]
     /\ {all[i] : i \in DOMAIN all} \cup shed = 1..updates
     /\ Len(all) + Cardinality(shed) = updates

\* No wakeup is lost: a stream that was aborted or has failed ends, with its error, as long
\* as its consumer keeps asking, and its subscription does not outlive it.
StreamsEnd ==
  /\ finished ~> control = "over"
  /\ control = "over" ~> source = "closed"
-----------------------------------------------------------------------------
VARIABLES
  limit,     \* the limit of the pool
  next,      \* the shared cursor
  worker,    \* worker[k]: the item in flight, or New, Returned or Threw
  results,   \* the items whose result is in its slot
  settled    \* the promise of the pool: "no", "resolved" or "rejected"

New      == 0
Returned == -1
Threw    == -2

poolVars == <<limit, next, worker, results, settled>>

PoolInit ==
  /\ limit \in Limits /\ next = 1 /\ results = {} /\ settled = "no"
  /\ worker = [k \in 1..(IF limit < Items THEN limit ELSE Items) |-> New]

\* The loop of a worker up to its next request.
Claim(k) ==
  /\ worker' = [worker EXCEPT ![k] = IF next <= Items THEN next ELSE Returned]
  /\ next' = next + 1

\* Workers start one after the other before any request ends.
StartWorker(k) ==
  /\ worker[k] = New /\ \A j \in 1..(k - 1) : worker[j] # New
  /\ Claim(k) /\ UNCHANGED <<limit, results, settled>>

InFlight(k) == worker[k] \in 1..Items
Started == \A k \in DOMAIN worker : worker[k] # New

Finishes(k) ==
  /\ Started /\ InFlight(k)
  /\ results' = results \cup {worker[k]}
  /\ Claim(k) /\ UNCHANGED <<limit, settled>>

\* Variant: the cursor is left alone.
Unpoisoned == next
Poisoned   == Items + 1

ItemThrows(k) ==
  /\ Started /\ InFlight(k)
  /\ worker' = [worker EXCEPT ![k] = Threw]
  /\ next' = Poisoned
  /\ UNCHANGED <<limit, results, settled>>

PoolSettles ==
  /\ settled = "no" /\ \A k \in DOMAIN worker : worker[k] \in {Returned, Threw}
  /\ settled' = IF \E k \in DOMAIN worker : worker[k] = Threw THEN "rejected" ELSE "resolved"
  /\ UNCHANGED <<limit, next, worker, results>>

PoolNext ==
  \/ \E k \in DOMAIN worker : StartWorker(k) \/ Finishes(k) \/ ItemThrows(k)
  \/ PoolSettles

PoolSpec == PoolInit /\ [][PoolNext]_poolVars

\* After a failure no further item is claimed, and the pool never resolves without the
\* result of every item, whatever order its workers finish in.
PoolStopsOnFailure ==
  [][/\ (\E k \in DOMAIN worker : worker[k] = Threw) =>
          \A k \in DOMAIN worker : worker'[k] > 0 => worker'[k] = worker[k]
     /\ settled' = "resolved" => results' = 1..Items]_poolVars
=============================================================================
