-------------------------- MODULE MC_CounterSource --------------------------
(* TLC instances of CounterSource.  The requests cover each branch of each  *)
(* method: negative arguments, the peek, a range at, above and below the    *)
(* cursor, a bump that moves and one that does not, a lowering setNext.     *)
EXTENDS CounterSource

CONSTANTS k1, k2

RequestsOn(k) ==
       {[op |-> "reserve", keyset |-> k, n |-> n] : n \in {-1, 0, 2}}
  \cup {[op |-> "reserveAt", keyset |-> k, start |-> s, count |-> n] :
          s \in {-1, 1, 3}, n \in {0, 2}}
  \cup {[op |-> "advance", keyset |-> k, minNext |-> n] : n \in {0, 3}}
  \cup {[op |-> "setNext", keyset |-> k, next |-> n] : n \in {-1, 0, 4}}

\* Every kind of request on one keyset, and requests on another beside it.
RequestsOnBoth == RequestsOn(k1) \cup {[op |-> "reserve", keyset |-> k2, n |-> n] : n \in {-1, 2}}
InitialCursors == [k \in {k1, k2} |-> IF k = k1 THEN 1 ELSE 0]
=============================================================================
