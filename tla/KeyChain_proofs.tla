--------------------------- MODULE KeyChain_proofs ---------------------------
(***************************************************************************)
(* Proofs about KeyChain, for any keysets, any number of operations, calls *)
(* and changes of the mint, and answers in any order.                      *)
(*                                                                         *)
(* The invariant follows two debts.  The refresh that pendingRepair names  *)
(* is the only one an operation has started and not finished.  And while   *)
(* the persisted cache differs from the snapshot, somebody at work will    *)
(* persist it: a call of loadMint by the application, or an operation that *)
(* waits for a refresh or has seen a key fetch succeed, unless a refresh   *)
(* has failed.                                                             *)
(***************************************************************************)
EXTENDS KeyChain, TLAPS

Statuses == {"unlisted", "active", "inactive"}

Loads == [stage : {"idle", "running", "resolved", "rejected"},
          info : {"asked", "got", "failed"}, chain : {"asked", "built", "failed"},
          listing : [Ids -> Statuses] \cup {None}, keys : (SUBSET Ids) \cup {None}]

Results == {None, "ok", "unrefreshed", "refreshed", "rateLimited", "keyless", "unrepaired", "repaired"}

Operations == [stage : {"idle", "repairing", "stale", "fetching", "done"},
               want : SUBSET Ids, unknown : SUBSET Ids, fetch : BOOLEAN, on : Loaders \cup {None},
               waits : SUBSET Ids, failed : SUBSET Ids, changed : BOOLEAN, result : Results]

TypeInv ==
  /\ mint \in [Ids -> Statuses] /\ meta \in [Ids -> Statuses] /\ keyed \subseteq Ids
  /\ load \in [Loaders -> Loads] /\ op \in [Ops -> Operations]
  /\ pendingRepair \in Ops \cup {None}
  /\ fetching \in [Ids -> Statuses \cup {None}]

\* Who refreshes: an operation that starts a refresh waits for it.
RepairInv ==
  /\ \A o \in Ops : op[o].stage = "idle" => load[o].stage = "idle"
  /\ \A o \in Ops : load[o].stage = "running" <=> pendingRepair = o
  /\ \A o \in Ops : load[o].stage = "running" => op[o].stage \in {"repairing", "stale"} /\ op[o].on = o
  /\ \A o \in Ops : op[o].stage \in {"repairing", "stale"} => op[o].on \in Ops
  /\ \A l \in Loaders : load[l].stage = "resolved" => load[l].chain = "built"

\* Whom a key fetch was made for.
FetchInv ==
  \A k \in Ids : fetching[k] # None => \E o \in Ops : op[o].stage = "fetching" /\ k \in op[o].waits

\* Who will persist what has changed.
Owes(o) == \/ op[o].stage \in {"repairing", "stale"}
           \/ op[o].stage = "fetching" /\ op[o].changed

SaveInv ==
  \/ saved = <<meta, keyed>>
  \/ \E l \in Loaders : load[l].stage = "rejected"
  \/ \E l \in AppLoads : load[l].stage = "running"
  \/ \E o \in Ops : Owes(o)

Inv == TypeInv /\ RepairInv /\ FetchInv /\ SaveInv

LEMMA RecordTypes ==
  /\ Idle \in Loads /\ Running \in Loads /\ NoOp \in Operations
  /\ Idle.stage = "idle" /\ Running.stage = "running" /\ Running.chain = "asked"
  /\ NoOp.stage = "idle" /\ ~NoOp.changed
<1>1. Idle \in Loads /\ Idle.stage = "idle" /\ Idle.chain = "asked"
  BY DEF Idle, Loads
<1>2. Running = [stage |-> "running", info |-> "asked", chain |-> "asked", listing |-> None, keys |-> None]
  BY DEF Idle, Running
<1>3. Running \in Loads /\ Running.stage = "running" /\ Running.chain = "asked"
  BY <1>2 DEF Loads
<1>4. NoOp.stage = "idle" /\ ~NoOp.changed /\ NoOp \in Operations
  BY DEF NoOp, Operations, Results
<1>5. QED
  BY <1>1, <1>3, <1>4

LEMMA InvInit == Init => Inv
<1> SUFFICES ASSUME Init PROVE Inv
  OBVIOUS
<1>1. PICK s \in FirstLoads : mint = s[1] /\ meta = s[1] /\ keyed = s[2]
  BY DEF Init
<1>2. TypeInv
  BY <1>1, RecordTypes, LoadsAssumption DEF Init, TypeInv, Statuses
<1>3. RepairInv /\ FetchInv /\ SaveInv
  BY RecordTypes, CallsAssumption DEF Init, RepairInv, FetchInv, SaveInv, Loaders
<1>4. QED
  BY <1>2, <1>3 DEF Inv
-----------------------------------------------------------------------------
(* Answers of the mint.                                                     *)

\* What loadMint has after an answer.
LEMMA AnsweredStep ==
  ASSUME Inv, NEW l \in Loaders, NEW r \in Loads, Answered(l, r),
         r.stage = load[l].stage, r.chain = load[l].chain, r.stage # "idle"
  PROVE  Inv'
<1> DEFINE builds == r.chain = "asked" /\ r.listing # None /\ r.keys # None
           m      == IF builds THEN r.listing ELSE meta
           ks     == IF builds THEN KeysAfter(r.listing, r.keys) ELSE keyed
           ends   == r.stage = "running" /\ r.info = "got" /\ (builds \/ r.chain = "built")
           throws == explicitBind /\ m[bound] = "unlisted"
           new    == [stage   |-> IF ends THEN IF throws THEN "rejected" ELSE "resolved" ELSE r.stage,
                      info    |-> r.info,
                      chain   |-> IF builds THEN "built" ELSE r.chain,
                      listing |-> IF builds THEN None ELSE r.listing,
                      keys    |-> IF builds THEN None ELSE r.keys]
<1>1. /\ meta' = m /\ keyed' = ks /\ load' = [load EXCEPT ![l] = new]
      /\ pendingRepair' = IF ends /\ pendingRepair = l THEN None ELSE pendingRepair
      /\ saved' = IF ends /\ ~throws /\ l \in AppLoads THEN <<m, ks>> ELSE saved
      /\ UNCHANGED <<mint, op, fetching>>
  BY DEF Answered
<1>2. TypeInv
  BY DEF Inv
<1>3. m \in [Ids -> Statuses] /\ ks \subseteq Ids /\ new \in Loads
  <2>1. m \in [Ids -> Statuses]
    BY <1>2 DEF TypeInv, Loads
  <2>2. builds => r.keys \subseteq Ids
    BY DEF Loads
  <2>3. ks \subseteq Ids
    BY <1>2, <2>2 DEF TypeInv, KeysAfter
  <2>4. new \in Loads
    <3>1. /\ r.stage \in {"idle", "running", "resolved", "rejected"}
          /\ r.info \in {"asked", "got", "failed"} /\ r.chain \in {"asked", "built", "failed"}
          /\ r.listing \in [Ids -> Statuses] \cup {None} /\ r.keys \in (SUBSET Ids) \cup {None}
      BY DEF Loads
    <3> HIDE DEF builds, ends, throws, m, ks
    <3>2. QED
      BY <3>1 DEF new, Loads
  <2>5. QED
    BY <2>1, <2>3, <2>4
<1>4. /\ \A j \in Loaders : load'[j] = IF j = l THEN new ELSE load[j]
      /\ new.stage = IF ends THEN IF throws THEN "rejected" ELSE "resolved" ELSE load[l].stage
      /\ new.chain = IF builds THEN "built" ELSE load[l].chain
      /\ ends => load[l].stage = "running" /\ (builds \/ load[l].chain = "built")
      /\ builds => load[l].chain = "asked"
      /\ load[l].stage \in {"running", "resolved", "rejected"}
  BY <1>1, <1>2 DEF TypeInv, Loads
<1>5. ~builds => m = meta /\ ks = keyed
  OBVIOUS
<1> HIDE DEF builds, m, ks, ends, throws, new
<1>6. TypeInv'
  BY <1>1, <1>2, <1>3 DEF TypeInv
<1>7. RepairInv'
  BY <1>1, <1>2, <1>4, CallsAssumption DEF Inv, RepairInv, TypeInv, Loaders
<1>8. FetchInv'
  BY <1>1 DEF Inv, FetchInv
<1>9. SaveInv'
  <2>1. CASE l \in AppLoads /\ load[l].stage = "running"
    BY <1>1, <1>4, <2>1 DEF SaveInv
  <2>2. CASE load[l].stage = "rejected"
    BY <1>4, <2>2 DEF SaveInv
  <2>3. CASE load[l].stage = "resolved"
    <3>1. ~builds /\ ~ends
      BY <1>4, <2>3 DEF Inv, RepairInv
    <3>2. meta' = meta /\ keyed' = keyed /\ saved' = saved /\ new.stage = load[l].stage
      BY <1>1, <1>4, <1>5, <3>1
    <3>3. QED
      BY <1>1, <1>4, <3>2 DEF Inv, SaveInv, Owes, Loaders
  <2>4. CASE l \in Ops /\ load[l].stage = "running"
    BY <1>1, <2>4 DEF Inv, RepairInv, SaveInv, Owes
  <2>5. QED
    BY <1>4, <2>1, <2>2, <2>3, <2>4 DEF Loaders
<1>10. QED
  BY <1>6, <1>7, <1>8, <1>9 DEF Inv

LEMMA FailedStep ==
  ASSUME Inv, NEW l \in Loaders, NEW r \in Loads, Failed(l, r), load[l].stage # "idle"
  PROVE  Inv'
<1> DEFINE new == [r EXCEPT !.stage = "rejected"]
<1>1. /\ load' = [load EXCEPT ![l] = new]
      /\ pendingRepair' = IF pendingRepair = l THEN None ELSE pendingRepair
      /\ UNCHANGED <<mint, meta, keyed, op, fetching, saved>>
  BY DEF Failed, chainVars
<1>2. new \in Loads /\ new.stage = "rejected"
  BY DEF Loads
<1> HIDE DEF new
<1>3. TypeInv /\ \A j \in Loaders : load'[j] = IF j = l THEN new ELSE load[j]
  BY <1>1 DEF Inv, TypeInv
<1>4. TypeInv'
  BY <1>1, <1>2, <1>3 DEF TypeInv
<1>5. RepairInv'
  BY <1>1, <1>2, <1>3, CallsAssumption DEF Inv, RepairInv, TypeInv, Loaders
<1>6. FetchInv'
  BY <1>1 DEF Inv, FetchInv
<1>7. SaveInv'
  BY <1>2, <1>3 DEF SaveInv
<1>8. QED
  BY <1>4, <1>5, <1>6, <1>7 DEF Inv

LEMMA MintAnswersStep ==
  ASSUME Inv, NEW l \in Loaders,
         \/ InfoAnswered(l) \/ InfoFailed(l) \/ ListingAnswered(l) \/ ChainFailed(l)
         \/ \E served \in SUBSET Ids : KeysAnswered(l, served)
  PROVE  Inv'
<1>1. load[l] \in Loads /\ mint \in [Ids -> Statuses]
  BY DEF Inv, TypeInv
<1>2. CASE InfoAnswered(l)
  <2> DEFINE r == [load[l] EXCEPT !.info = "got"]
  <2>1. Answered(l, r) /\ load[l].stage # "idle"
    BY <1>2 DEF InfoAnswered, Awaited
  <2>2. r \in Loads /\ r.stage = load[l].stage /\ r.chain = load[l].chain
    BY <1>1 DEF Loads
  <2> HIDE DEF r
  <2>3. QED
    BY <2>1, <2>2, AnsweredStep
<1>3. CASE ListingAnswered(l)
  <2> DEFINE r == [load[l] EXCEPT !.listing = mint]
  <2>1. Answered(l, r) /\ load[l].stage # "idle"
    BY <1>3 DEF ListingAnswered, Awaited
  <2>2. r \in Loads /\ r.stage = load[l].stage /\ r.chain = load[l].chain
    BY <1>1 DEF Loads
  <2> HIDE DEF r
  <2>3. QED
    BY <2>1, <2>2, AnsweredStep
<1>4. ASSUME NEW served \in SUBSET Ids, KeysAnswered(l, served) PROVE Inv'
  <2> DEFINE r == [load[l] EXCEPT !.keys = served]
  <2>1. Answered(l, r) /\ load[l].stage # "idle"
    BY <1>4 DEF KeysAnswered, Awaited
  <2>2. r \in Loads /\ r.stage = load[l].stage /\ r.chain = load[l].chain
    BY <1>1 DEF Loads
  <2> HIDE DEF r
  <2>3. QED
    BY <2>1, <2>2, AnsweredStep
<1>5. CASE InfoFailed(l)
  <2> DEFINE r == [load[l] EXCEPT !.info = "failed"]
  <2>1. Failed(l, r) /\ load[l].stage # "idle"
    BY <1>5 DEF InfoFailed, Awaited
  <2>2. r \in Loads
    BY <1>1 DEF Loads
  <2> HIDE DEF r
  <2>3. QED
    BY <2>1, <2>2, FailedStep
<1>6. CASE ChainFailed(l)
  <2> DEFINE r == [load[l] EXCEPT !.chain = "failed", !.listing = None, !.keys = None, !.info = "failed"]
  <2>1. Failed(l, r) /\ load[l].stage # "idle"
    BY <1>6 DEF ChainFailed, Awaited
  <2>2. ASSUME NEW x \in Loads
        PROVE  [x EXCEPT !.chain = "failed", !.listing = None, !.keys = None, !.info = "failed"] \in Loads
    <3>1. /\ [x EXCEPT !.chain = "failed"] \in Loads
          /\ \A y \in Loads : [y EXCEPT !.listing = None] \in Loads
          /\ \A y \in Loads : [y EXCEPT !.keys = None] \in Loads
          /\ \A y \in Loads : [y EXCEPT !.info = "failed"] \in Loads
      BY DEF Loads
    <3>2. [[[[x EXCEPT !.chain = "failed"] EXCEPT !.listing = None] EXCEPT !.keys = None] EXCEPT !.info = "failed"] \in Loads
      BY <3>1
    <3>3. QED
      BY <3>2
  <2>3. r \in Loads
    BY <1>1, <2>2
  <2> HIDE DEF r
  <2>4. QED
    BY <2>1, <2>3, FailedStep
<1>7. QED
  BY <1>2, <1>3, <1>4, <1>5, <1>6
-----------------------------------------------------------------------------
(* Steps of operations.                                                     *)

\* What an operation is when it is over.
LEMMA OverType ==
  ASSUME NEW result \in Results
  PROVE  Over(result) \in Operations /\ Over(result).stage = "done"
<1>1. NoOp \in Operations
  BY RecordTypes
<1>2. \A x \in Operations : [x EXCEPT !.stage = "done"] \in Operations
  BY DEF Operations
<1>3. \A x \in Operations : [x EXCEPT !.result = result] \in Operations /\ [x EXCEPT !.result = result].stage = x.stage
  BY DEF Operations
<1>4. Over(result) = [[NoOp EXCEPT !.stage = "done"] EXCEPT !.result = result]
  BY DEF Over
<1>5. [NoOp EXCEPT !.stage = "done"].stage = "done"
  BY DEF NoOp
<1>6. QED
  BY <1>1, <1>2, <1>3, <1>4, <1>5

\* An operation may end when it has no refresh under way, no key fetch is
\* left to it, and what it owes is reported or a refresh has failed.
LEMMA EndStep ==
  ASSUME Inv, NEW o \in Ops, NEW r, NEW result \in Results, End(o, r, result),
         UNCHANGED <<mint, meta, keyed, load, pendingRepair, fetching>>,
         op[o].stage \in {"repairing", "stale"} => load[op[o].on].stage # "running",
         op[o].stage = "idle" => load[o].stage = "idle",
         op[o].stage = "fetching" => op[o].waits = {},
         Owes(o) => r.changed \/ \E l \in Loaders : load[l].stage = "rejected"
  PROVE  Inv'
<1>1. /\ \A p \in Ops : op'[p] = IF p = o THEN Over(result) ELSE op[p]
      /\ op' \in [Ops -> Operations] /\ Over(result).stage = "done"
  BY OverType DEF End, Inv, TypeInv
<1>2. load[o].stage # "running"
  BY DEF Inv, RepairInv
<1>3. TypeInv'
  BY <1>1 DEF Inv, TypeInv
<1>4. RepairInv'
  BY <1>1, <1>2 DEF Inv, RepairInv
<1>5. FetchInv'
  BY <1>1 DEF Inv, FetchInv
<1>6. SaveInv'
  <2>1. CASE saved' = <<meta, keyed>>
    BY <2>1 DEF SaveInv
  <2>2. CASE ~ r.changed /\ saved' = saved
    BY <1>1, <2>2 DEF Inv, SaveInv, Owes
  <2>3. QED
    BY <2>1, <2>2 DEF End, Persists
<1>7. QED
  BY <1>3, <1>4, <1>5, <1>6 DEF Inv

\* An operation that has learned nothing new, or reports what it has, goes on
\* to fetch the keys it lacks.
LEMMA FetchKeysStep ==
  ASSUME Inv, NEW o \in Ops, NEW r \in Operations, FetchKeys(o, r),
         UNCHANGED <<mint, meta, keyed, load, pendingRepair>>,
         op[o].stage \in {"idle", "repairing"},
         op[o].stage = "repairing" => load[op[o].on].stage # "running" /\ r.changed
  PROVE  Inv'
<1> DEFINE keyless == IF r.fetch THEN (r.want \cap Unit \cap Known) \ keyed ELSE {}
           fetcher == [r EXCEPT !.stage = "fetching", !.waits = keyless, !.on = None]
<1>1. CASE keyless = {}
  <2>1. End(o, r, "ok") /\ UNCHANGED fetching /\ "ok" \in Results
    BY <1>1 DEF FetchKeys, Results
  <2>2. op[o].stage = "idle" => load[o].stage = "idle"
    BY DEF Inv, RepairInv
  <2>3. Owes(o) => r.changed
    BY DEF Owes
  <2>4. QED
    BY <2>1, <2>2, <2>3, EndStep
<1>2. CASE keyless # {}
  <2>0. PICK ks : ks = keyless
    OBVIOUS
  <2>1. ks \subseteq Ids
    BY <2>0 DEF Known
  <2>2. PICK x : x = [r EXCEPT !.stage = "fetching", !.waits = ks, !.on = None]
    OBVIOUS
  <2>3. x \in Operations /\ x.stage = "fetching" /\ x.waits = ks /\ x.changed = r.changed
    <3>1. \A y \in Operations : LET z == [y EXCEPT !.stage = "fetching"]
                                IN  z \in Operations /\ z.stage = "fetching" /\ z.changed = y.changed
      BY DEF Operations
    <3>2. \A y \in Operations : LET z == [y EXCEPT !.waits = ks]
                                IN  z \in Operations /\ z.stage = y.stage /\ z.changed = y.changed /\ z.waits = ks
      BY <2>1 DEF Operations
    <3>3. \A y \in Operations : LET z == [y EXCEPT !.on = None]
                                IN  /\ z \in Operations /\ z.stage = y.stage
                                    /\ z.changed = y.changed /\ z.waits = y.waits
      BY DEF Operations
    <3>4. PICK y : y = [r EXCEPT !.stage = "fetching"]
      OBVIOUS
    <3>5. PICK z : z = [y EXCEPT !.waits = ks]
      OBVIOUS
    <3>6. x = [z EXCEPT !.on = None]
      BY <2>2, <3>4, <3>5
    <3>7. y \in Operations /\ y.stage = "fetching" /\ y.changed = r.changed
      BY <3>1, <3>4
    <3>8. z \in Operations /\ z.stage = "fetching" /\ z.changed = r.changed /\ z.waits = ks
      BY <3>2, <3>5, <3>7
    <3>9. QED
      BY <3>3, <3>6, <3>8
  <2>4. /\ op' = [op EXCEPT ![o] = x]
        /\ fetching' = [k \in Ids |-> IF k \in ks /\ fetching[k] = None THEN meta[k] ELSE fetching[k]]
        /\ saved' = saved
    BY <1>2, <2>0, <2>2 DEF FetchKeys
  <2> HIDE DEF keyless, fetcher
  <2>5. \A p \in Ops : op'[p] = IF p = o THEN x ELSE op[p]
    BY <2>4 DEF Inv, TypeInv
  <2>6. TypeInv'
    BY <2>3, <2>4 DEF Inv, TypeInv
  <2>7. load[o].stage # "running"
    BY DEF Inv, RepairInv
  <2>8. RepairInv'
    BY <2>3, <2>5, <2>7 DEF Inv, RepairInv
  <2>9. FetchInv'
    <3>1. ASSUME NEW k \in Ids, fetching'[k] # None
          PROVE  \E p \in Ops : op'[p].stage = "fetching" /\ k \in op'[p].waits
      <4>1. CASE k \in ks
        BY <2>3, <2>5, <4>1
      <4>2. CASE k \notin ks
        BY <2>4, <2>5, <3>1, <4>2 DEF Inv, FetchInv
      <4>3. QED
        BY <4>1, <4>2
    <3>2. QED
      BY <3>1 DEF FetchInv
  <2>10. SaveInv'
    BY <2>3, <2>4, <2>5 DEF Inv, SaveInv, Owes
  <2>11. QED
    BY <2>6, <2>8, <2>9, <2>10 DEF Inv
<1>3. QED
  BY <1>1, <1>2

\* startRepair, for an operation that makes its first step.
LEMMA StartRepairStep ==
  ASSUME Inv, NEW o \in Ops, NEW r \in Operations, StartRepair(o, r),
         UNCHANGED <<mint, meta, keyed, fetching>>,
         op[o].stage = "idle", r.stage \in {"repairing", "stale"}
  PROVE  Inv'
<1>1. load[o].stage = "idle" /\ ~ Owes(o) /\ pendingRepair \in Ops \cup {None} /\ None \notin Loaders
  BY CallsAssumption DEF Inv, RepairInv, TypeInv, Owes
<1>2. ASSUME NEW q \in Ops, op' = [op EXCEPT ![o] = [r EXCEPT !.on = q]]
      PROVE  /\ \A p \in Ops : p # o => op'[p] = op[p]
             /\ op' \in [Ops -> Operations] /\ op'[o].stage = r.stage /\ op'[o].on = q
  BY <1>2 DEF Inv, TypeInv, Operations, Loaders
<1>3. CASE pendingRepair # None
  <2>1. op' = [op EXCEPT ![o] = [r EXCEPT !.on = pendingRepair]] /\ UNCHANGED <<load, pendingRepair, saved>>
    BY <1>3 DEF StartRepair
  <2>2. pendingRepair \in Ops
    BY <1>1, <1>3
  <2>3. /\ \A p \in Ops : p # o => op'[p] = op[p]
        /\ op' \in [Ops -> Operations] /\ op'[o].stage = r.stage /\ op'[o].on = pendingRepair
    BY <1>2, <2>1, <2>2
  <2>4. TypeInv'
    BY <2>1, <2>3 DEF Inv, TypeInv
  <2>5. RepairInv'
    BY <1>1, <2>1, <2>2, <2>3 DEF Inv, RepairInv
  <2>6. FetchInv'
    BY <2>3 DEF Inv, FetchInv
  <2>7. SaveInv'
    BY <2>3 DEF SaveInv, Owes
  <2>8. QED
    BY <2>4, <2>5, <2>6, <2>7 DEF Inv
<1>4. CASE pendingRepair = None /\ o \in Implicit /\ cooling
  <2>1. End(o, r, "rateLimited") /\ UNCHANGED <<load, pendingRepair>> /\ "rateLimited" \in Results
    BY <1>4 DEF StartRepair, Results
  <2>2. QED
    BY <1>1, <2>1, EndStep
<1>5. CASE pendingRepair = None /\ ~(o \in Implicit /\ cooling)
  <2>1. /\ load' = [load EXCEPT ![o] = Running] /\ pendingRepair' = o /\ saved' = saved
        /\ op' = [op EXCEPT ![o] = [r EXCEPT !.on = o]]
    BY <1>5 DEF StartRepair
  <2>2. /\ \A p \in Ops : p # o => op'[p] = op[p]
        /\ op' \in [Ops -> Operations] /\ op'[o].stage = r.stage /\ op'[o].on = o
    BY <1>2, <2>1
  <2>3. /\ \A l \in Loaders : load'[l] = IF l = o THEN Running ELSE load[l]
        /\ load' \in [Loaders -> Loads] /\ Running.stage = "running"
    BY <2>1, RecordTypes DEF Inv, TypeInv, Loaders
  <2>4. TypeInv'
    BY <2>1, <2>2, <2>3 DEF Inv, TypeInv
  <2>5. RepairInv'
    <3>1. \A p \in Ops : load[p].stage # "running" /\ p # None
      BY <1>1, <1>5 DEF Inv, RepairInv, Loaders
    <3>2. QED
      BY <1>1, <2>1, <2>2, <2>3, <3>1 DEF Inv, RepairInv, Loaders
  <2>6. FetchInv'
    BY <2>2 DEF Inv, FetchInv
  <2>7. SaveInv'
    BY <2>2 DEF SaveInv, Owes
  <2>8. QED
    BY <2>4, <2>5, <2>6, <2>7 DEF Inv
<1>6. QED
  BY <1>3, <1>4, <1>5

\* _ensureOperableKeysets up to its first await.
LEMMA EnsureOperableStep ==
  ASSUME Inv, NEW o \in Ops, NEW want \in SUBSET Ids, NEW fetch \in BOOLEAN,
         EnsureOperable(o, want, fetch)
  PROVE  Inv'
<1>0. PICK r : r = [NoOp EXCEPT !.want = want, !.unknown = want \ Known, !.fetch = fetch]
  OBVIOUS
<1>1. /\ op[o].stage = "idle" /\ UNCHANGED <<mint, meta, keyed>>
      /\ \/ End(o, r, "ok") /\ UNCHANGED <<load, pendingRepair, fetching>>
         \/ End(o, r, "unrefreshed") /\ UNCHANGED <<load, pendingRepair, fetching>>
         \/ StartRepair(o, [r EXCEPT !.stage = "repairing"]) /\ UNCHANGED fetching
         \/ FetchKeys(o, r) /\ UNCHANGED <<load, pendingRepair>>
  BY <1>0 DEF EnsureOperable, chainVars
<1>2. r \in Operations
  <2>0. want \ Known \in SUBSET Ids
    OBVIOUS
  <2>1. /\ \A x \in Operations : [x EXCEPT !.want = want] \in Operations
        /\ \A x \in Operations : [x EXCEPT !.unknown = want \ Known] \in Operations
        /\ \A x \in Operations : [x EXCEPT !.fetch = fetch] \in Operations
    BY <2>0 DEF Operations
  <2>2. r = [[[NoOp EXCEPT !.want = want] EXCEPT !.unknown = want \ Known] EXCEPT !.fetch = fetch]
    BY <1>0
  <2>3. QED
    BY <2>1, <2>2, RecordTypes
<1>3. load[o].stage = "idle" /\ ~ Owes(o) /\ {"ok", "unrefreshed"} \subseteq Results
  BY <1>1 DEF Inv, RepairInv, Owes, Results
<1>4. CASE \/ End(o, r, "ok") /\ UNCHANGED <<load, pendingRepair, fetching>>
           \/ End(o, r, "unrefreshed") /\ UNCHANGED <<load, pendingRepair, fetching>>
  BY <1>1, <1>3, <1>4, EndStep
<1>5. CASE StartRepair(o, [r EXCEPT !.stage = "repairing"]) /\ UNCHANGED fetching
  <2>0. PICK x : x = [r EXCEPT !.stage = "repairing"]
    OBVIOUS
  <2>1. x \in Operations /\ x.stage = "repairing"
    BY <1>2, <2>0 DEF Operations
  <2>2. QED
    BY <1>1, <1>5, <2>0, <2>1, StartRepairStep
<1>6. CASE FetchKeys(o, r) /\ UNCHANGED <<load, pendingRepair>>
  BY <1>1, <1>2, <1>6, FetchKeysStep
<1>7. QED
  BY <1>1, <1>4, <1>5, <1>6

LEMMA AfterRepairStep ==
  ASSUME Inv, NEW o \in Ops, AfterRepair(o)
  PROVE  Inv'
<1>0. PICK r : r = [op[o] EXCEPT !.changed = TRUE]
  OBVIOUS
<1>1. /\ op[o].stage = "repairing" /\ load[op[o].on].stage \in {"resolved", "rejected"}
      /\ UNCHANGED <<mint, meta, keyed, load, pendingRepair>>
      /\ \/ End(o, op[o], "unrefreshed") /\ UNCHANGED fetching /\ load[op[o].on].stage = "rejected"
         \/ FetchKeys(o, [r EXCEPT !.unknown = {}])
         \/ End(o, r, "refreshed") /\ UNCHANGED fetching
  BY <1>0 DEF AfterRepair, Resumable, chainVars
<1>2. r \in Operations /\ r.changed
  BY <1>0 DEF Inv, TypeInv, Operations
<1>3. op[o].on \in Loaders
  BY <1>1 DEF Inv, RepairInv, Loaders
<1>4. CASE End(o, op[o], "unrefreshed") /\ UNCHANGED fetching /\ load[op[o].on].stage = "rejected"
  <2>1. "unrefreshed" \in Results
    BY DEF Results
  <2>2. QED
    BY <1>1, <1>3, <1>4, <2>1, EndStep
<1>5. CASE FetchKeys(o, [r EXCEPT !.unknown = {}])
  <2>0. PICK x : x = [r EXCEPT !.unknown = {}]
    OBVIOUS
  <2>1. x \in Operations /\ x.changed
    BY <1>2, <2>0 DEF Operations
  <2>2. QED
    BY <1>1, <1>5, <2>0, <2>1, FetchKeysStep
<1>6. CASE End(o, r, "refreshed") /\ UNCHANGED fetching
  <2>1. "refreshed" \in Results
    BY DEF Results
  <2>2. QED
    BY <1>1, <1>2, <1>6, <2>1, EndStep
<1>7. QED
  BY <1>1, <1>4, <1>5, <1>6

LEMMA AfterStaleRepairStep ==
  ASSUME Inv, NEW o \in Ops, AfterStaleRepair(o)
  PROVE  Inv'
<1>0. PICK r : r = [op[o] EXCEPT !.changed = TRUE]
  OBVIOUS
<1>1. /\ op[o].stage = "stale" /\ load[op[o].on].stage \in {"resolved", "rejected"}
      /\ UNCHANGED <<mint, meta, keyed, load, pendingRepair, fetching>>
      /\ \/ End(o, op[o], "unrepaired") /\ load[op[o].on].stage = "rejected"
         \/ End(o, r, "repaired")
  BY <1>0 DEF AfterStaleRepair, Resumable, chainVars
<1>2. r.changed
  BY <1>0 DEF Inv, TypeInv, Operations
<1>3. op[o].on \in Loaders /\ {"unrepaired", "repaired"} \subseteq Results
  BY <1>1 DEF Inv, RepairInv, Loaders, Results
<1>4. CASE End(o, op[o], "unrepaired") /\ load[op[o].on].stage = "rejected"
  BY <1>1, <1>3, <1>4, EndStep
<1>5. CASE End(o, r, "repaired")
  BY <1>1, <1>2, <1>3, <1>5, EndStep
<1>6. QED
  BY <1>1, <1>4, <1>5

LEMMA AfterFetchesStep ==
  ASSUME Inv, NEW o \in Ops, AfterFetches(o)
  PROVE  Inv'
<1>1. /\ op[o].stage = "fetching" /\ op[o].waits = {}
      /\ UNCHANGED <<mint, meta, keyed, load, pendingRepair, fetching>>
      /\ \E result \in Results : End(o, op[o], result)
  BY DEF AfterFetches, Resumable, chainVars, Results
<1>2. Owes(o) => op[o].changed
  BY <1>1 DEF Owes
<1>3. QED
  BY <1>1, <1>2, EndStep

LEMMA MintRejectsStep ==
  ASSUME Inv, NEW o \in Ops, MintRejects(o)
  PROVE  Inv'
<1>1. /\ op[o].stage = "idle" /\ UNCHANGED <<mint, meta, keyed, fetching>>
      /\ \/ End(o, NoOp, "unrepaired") /\ UNCHANGED <<load, pendingRepair>>
         \/ StartRepair(o, [NoOp EXCEPT !.stage = "stale"])
  BY DEF MintRejects, chainVars
<1>2. load[o].stage = "idle" /\ ~ Owes(o) /\ "unrepaired" \in Results
  BY <1>1 DEF Inv, RepairInv, Owes, Results
<1>3. CASE End(o, NoOp, "unrepaired") /\ UNCHANGED <<load, pendingRepair>>
  BY <1>1, <1>2, <1>3, EndStep
<1>4. CASE StartRepair(o, [NoOp EXCEPT !.stage = "stale"])
  <2>0. PICK x : x = [NoOp EXCEPT !.stage = "stale"]
    OBVIOUS
  <2>1. x \in Operations /\ x.stage = "stale"
    BY <2>0, RecordTypes DEF Operations
  <2>2. QED
    BY <1>1, <1>4, <2>0, <2>1, StartRepairStep
<1>5. QED
  BY <1>1, <1>3, <1>4

\* What an operation has after a fetch it waited for.
LEMMA WaiterTypes ==
  ASSUME NEW x \in Operations, NEW k \in Ids
  PROVE  /\ LET y == [x EXCEPT !.waits = @ \ {k}, !.changed = TRUE]
            IN  y \in Operations /\ y.waits = x.waits \ {k} /\ y.stage = x.stage /\ y.on = x.on /\ y.changed
         /\ LET y == [x EXCEPT !.waits = @ \ {k}, !.failed = @ \cup {k}]
            IN  /\ y \in Operations /\ y.waits = x.waits \ {k} /\ y.stage = x.stage /\ y.on = x.on
                /\ y.changed = x.changed
<1>1. PICK w : w = [x EXCEPT !.waits = @ \ {k}]
  OBVIOUS
<1>2. /\ w \in Operations /\ w.waits = x.waits \ {k} /\ w.stage = x.stage
      /\ w.on = x.on /\ w.changed = x.changed /\ w.failed = x.failed /\ w.failed \cup {k} \in SUBSET Ids
  BY <1>1 DEF Operations
<1>3. LET y == [w EXCEPT !.changed = TRUE]
      IN  y \in Operations /\ y.waits = w.waits /\ y.stage = w.stage /\ y.on = w.on /\ y.changed
  BY <1>2 DEF Operations
<1>4. LET y == [w EXCEPT !.failed = @ \cup {k}]
      IN  /\ y \in Operations /\ y.waits = w.waits /\ y.stage = w.stage /\ y.on = w.on
          /\ y.changed = w.changed
  BY <1>2 DEF Operations
<1>5. /\ [w EXCEPT !.changed = TRUE] = [x EXCEPT !.waits = @ \ {k}, !.changed = TRUE]
      /\ [w EXCEPT !.failed = @ \cup {k}] = [x EXCEPT !.waits = @ \ {k}, !.failed = @ \cup {k}]
  BY <1>1, <1>2
<1>6. QED
  BY <1>2, <1>3, <1>4, <1>5

\* A key fetch settles for everybody who waits for it.
LEMMA FetchSettles ==
  ASSUME Inv, NEW k \in Ids, FetchAnswered(k) \/ FetchFailed(k)
  PROVE  Inv'
<1>1. PICK who : who = Waiting(k)
  OBVIOUS
<1>2. /\ UNCHANGED <<mint, load, pendingRepair, saved>>
      /\ fetching' = [fetching EXCEPT ![k] = None] /\ fetching[k] # None
  BY DEF FetchAnswered, FetchFailed
<1>3. \A o \in Ops : o \in who <=> op[o].stage = "fetching" /\ k \in op[o].waits
  BY <1>1 DEF Waiting
<1>4. /\ op' \in [Ops -> Operations]
      /\ \A o \in Ops : o \notin who => op'[o] = op[o]
      /\ \A o \in Ops : op'[o].stage = op[o].stage /\ op'[o].on = op[o].on
      /\ \A o \in who : op'[o].waits = op[o].waits \ {k}
      /\ \A o \in who : IF FetchAnswered(k) THEN op'[o].changed ELSE op'[o].changed = op[o].changed
  <2>0. \A o \in Ops : op[o] \in Operations
    BY DEF Inv, TypeInv
  <2>1. CASE FetchAnswered(k)
    <3>1. op' = [o \in Ops |-> IF o \in who THEN [op[o] EXCEPT !.waits = @ \ {k}, !.changed = TRUE] ELSE op[o]]
      BY <1>1, <2>1 DEF FetchAnswered
    <3>2. who \subseteq Ops
      BY <1>1 DEF Waiting
    <3>3. QED
      BY <2>0, <2>1, <3>1, <3>2, WaiterTypes
  <2>2. CASE ~ FetchAnswered(k)
    <3>1. op' = [o \in Ops |-> IF o \in who THEN [op[o] EXCEPT !.waits = @ \ {k}, !.failed = @ \cup {k}] ELSE op[o]]
      BY <1>1, <2>2 DEF FetchFailed
    <3>2. who \subseteq Ops
      BY <1>1 DEF Waiting
    <3>3. QED
      BY <2>0, <2>2, <3>1, <3>2, WaiterTypes
  <2>3. QED
    BY <2>1, <2>2
<1>5. TypeInv'
  <2>1. meta' \in [Ids -> Statuses] /\ keyed' \subseteq Ids
    BY <1>2 DEF FetchAnswered, FetchFailed, chainVars, Inv, TypeInv
  <2>2. QED
    BY <1>2, <1>4, <2>1 DEF Inv, TypeInv
<1>6. RepairInv'
  BY <1>2, <1>4 DEF Inv, RepairInv
<1>7. FetchInv'
  <2>1. ASSUME NEW j \in Ids, fetching'[j] # None
        PROVE  \E o \in Ops : op'[o].stage = "fetching" /\ j \in op'[o].waits
    <3>1. j # k /\ fetching[j] # None
      BY <1>2, <2>1 DEF Inv, TypeInv
    <3>2. PICK o \in Ops : op[o].stage = "fetching" /\ j \in op[o].waits
      BY <3>1 DEF Inv, FetchInv
    <3>3. op'[o].stage = "fetching" /\ j \in op'[o].waits
      BY <1>4, <3>1, <3>2
    <3>4. QED
      BY <3>3
  <2>2. QED
    BY <2>1 DEF FetchInv
<1>8. SaveInv'
  <2>1. CASE FetchAnswered(k)
    <3>1. PICK o \in Ops : o \in who
      BY <1>2, <1>3 DEF Inv, FetchInv
    <3>2. op'[o].stage = "fetching" /\ op'[o].changed
      BY <1>3, <1>4, <2>1, <3>1
    <3>3. QED
      BY <3>2 DEF SaveInv, Owes
  <2>2. CASE ~ FetchAnswered(k)
    <3>1. UNCHANGED <<meta, keyed>>
      BY <2>2 DEF FetchFailed, chainVars
    <3>2. \A o \in Ops : Owes(o) => Owes(o)'
      BY <1>3, <1>4, <2>2 DEF Owes
    <3>3. QED
      BY <1>2, <3>1, <3>2 DEF Inv, SaveInv
  <2>3. QED
    BY <2>1, <2>2
<1>9. QED
  BY <1>5, <1>6, <1>7, <1>8 DEF Inv
-----------------------------------------------------------------------------
LEMMA LoadMintStep ==
  ASSUME Inv, NEW l \in AppLoads, LoadMint(l)
  PROVE  Inv'
<1>1. l \in Loaders /\ l \notin Ops
  BY CallsAssumption DEF Loaders
<1>2. /\ load' \in [Loaders -> Loads] /\ load'[l].stage = "running"
      /\ \A o \in Ops : load'[o] = load[o]
      /\ \A j \in Loaders : load'[j].stage = "resolved" => load'[j] = load[j]
      /\ UNCHANGED <<mint, meta, keyed, op, pendingRepair, fetching, saved>>
  BY <1>1, RecordTypes DEF LoadMint, Inv, TypeInv, chainVars
<1>3. TypeInv'
  BY <1>2 DEF Inv, TypeInv
<1>4. RepairInv'
  BY <1>2 DEF Inv, RepairInv, Loaders
<1>5. FetchInv' /\ SaveInv'
  BY <1>2 DEF Inv, FetchInv, SaveInv
<1>6. QED
  BY <1>3, <1>4, <1>5 DEF Inv

\* Steps that leave calls, operations and the snapshot alone.
LEMMA OtherStep ==
  ASSUME Inv,
         \/ CooldownEnds \/ UNCHANGED vars
         \/ \E k \in Ids : MintChanges(k) \/ BindKeyset(k)
  PROVE  Inv'
<1>1. UNCHANGED <<meta, keyed, load, op, pendingRepair, fetching, saved>>
  BY DEF CooldownEnds, MintChanges, BindKeyset, vars, chainVars
<1>2. mint' \in [Ids -> Statuses]
  <2>1. CASE mint' = mint
    BY <2>1 DEF Inv, TypeInv
  <2>2. CASE mint' # mint
    <3>1. PICK k \in Ids : MintChanges(k)
      BY <2>2 DEF CooldownEnds, BindKeyset, vars
    <3>2. mint[k] \in Statuses /\ mint \in [Ids -> Statuses]
      BY DEF Inv, TypeInv
    <3>3. QED
      BY <3>1, <3>2 DEF MintChanges, Statuses
  <2>3. QED
    BY <2>1, <2>2
<1>3. TypeInv'
  BY <1>1, <1>2 DEF Inv, TypeInv
<1>4. RepairInv' /\ FetchInv' /\ SaveInv'
  BY <1>1 DEF Inv, RepairInv, FetchInv, SaveInv, Owes
<1>5. QED
  BY <1>3, <1>4 DEF Inv

LEMMA InvNext == Inv /\ [Next]_vars => Inv'
<1> SUFFICES ASSUME Inv, [Next]_vars PROVE Inv'
  OBVIOUS
<1>1. CASE \/ CooldownEnds \/ UNCHANGED vars
           \/ \E k \in Ids : MintChanges(k) \/ BindKeyset(k)
  BY <1>1, OtherStep
<1>2. CASE \E k \in Ids : FetchAnswered(k) \/ FetchFailed(k)
  BY <1>2, FetchSettles
<1>3. CASE \E l \in AppLoads : LoadMint(l)
  BY <1>3, LoadMintStep
<1>4. CASE \E l \in Loaders :
             \/ InfoAnswered(l) \/ InfoFailed(l) \/ ListingAnswered(l) \/ ChainFailed(l)
             \/ \E served \in SUBSET Ids : KeysAnswered(l, served)
  BY <1>4, MintAnswersStep
<1>5. CASE \E o \in Ops, want \in SUBSET Ids, fetch \in BOOLEAN : EnsureOperable(o, want, fetch)
  BY <1>5, EnsureOperableStep
<1>6. CASE \E o \in Ops : MintRejects(o)
  BY <1>6, MintRejectsStep
<1>7. CASE \E o \in Ops : AfterRepair(o)
  BY <1>7, AfterRepairStep
<1>8. CASE \E o \in Ops : AfterStaleRepair(o)
  BY <1>8, AfterStaleRepairStep
<1>9. CASE \E o \in Ops : AfterFetches(o)
  BY <1>9, AfterFetchesStep
<1>10. QED
  BY <1>1, <1>2, <1>3, <1>4, <1>5, <1>6, <1>7, <1>8, <1>9 DEF Next

LEMMA InvHolds == Spec => []Inv
BY InvInit, InvNext, PTL DEF Spec

\* Operations that find the snapshot stale at the same time join one refresh
\* (startRepair), however refreshes of the application, their answers and
\* other operations interleave with it.
THEOREM RepairsAreSharedHolds == Spec => []RepairsAreShared
<1>1. Inv => RepairsAreShared
  BY DEF Inv, RepairInv, RepairsAreShared
<1>2. QED
  BY <1>1, InvHolds, PTL

\* When all calls have come to rest and no refresh has failed, what the
\* application has persisted is the wallet's snapshot: every change of it was
\* reported by keychainUpdated or made by a call of the application's own.
THEOREM SavedIsCurrentHolds == Spec => []SavedIsCurrent
<1>1. Inv => SavedIsCurrent
  <2> SUFFICES ASSUME Inv, AtRest, \A l \in Loaders : load[l].stage # "rejected"
               PROVE  saved = <<meta, keyed>>
    BY DEF SavedIsCurrent
  <2>1. \A l \in AppLoads : load[l].stage # "running"
    BY DEF AtRest, Loaders
  <2>2. \A o \in Ops : ~ Owes(o)
    BY DEF AtRest, Owes
  <2>3. QED
    BY <2>1, <2>2 DEF Inv, SaveInv
<1>2. QED
  BY <1>1, InvHolds, PTL

\* Verified keys survive every refresh and key fetch (buildKeychain,
\* ensureKeysetKeys) for as long as the mint lists their keyset.
THEOREM HeldKeysAreKeptHolds == Spec => HeldKeysAreKept
<1> DEFINE Kept == \A k \in keyed : meta'[k] # "unlisted" => k \in keyed'
<1>1. ASSUME Next PROVE Kept
  <2>1. ASSUME NEW l \in Loaders, NEW r, Answered(l, r) PROVE Kept
    <3>1. CASE keyed' = keyed
      BY <3>1
    <3>2. CASE meta' = r.listing /\ keyed' = KeysAfter(r.listing, r.keys)
      <4>1. ASSUME NEW k \in keyed, meta'[k] # "unlisted" PROVE k \in keyed'
        BY <3>2, <4>1 DEF KeysAfter
      <4>2. QED
        BY <4>1
    <3>3. QED
      BY <2>1, <3>1, <3>2 DEF Answered
  <2>2. ASSUME NEW k \in Ids, FetchAnswered(k) PROVE Kept
    BY <2>2 DEF FetchAnswered
  <2>3. CASE UNCHANGED keyed
    BY <2>3
  <2>4. QED
    <3>1. ASSUME NEW l \in Loaders,
                 \/ InfoAnswered(l) \/ InfoFailed(l) \/ ListingAnswered(l) \/ ChainFailed(l)
                 \/ \E served \in SUBSET Ids : KeysAnswered(l, served)
          PROVE  Kept
      BY <2>1, <2>3, <3>1
         DEF InfoAnswered, ListingAnswered, KeysAnswered, InfoFailed, ChainFailed, Failed, chainVars
    <3>2. ASSUME NEW o \in Ops,
                 \/ \E want \in SUBSET Ids, fetch \in BOOLEAN : EnsureOperable(o, want, fetch)
                 \/ MintRejects(o) \/ AfterRepair(o) \/ AfterStaleRepair(o) \/ AfterFetches(o)
          PROVE  UNCHANGED keyed
      BY <3>2 DEF EnsureOperable, MintRejects, AfterRepair, AfterStaleRepair, AfterFetches, chainVars
    <3>3. ASSUME \/ CooldownEnds \/ \E l \in AppLoads : LoadMint(l)
                 \/ \E k \in Ids : MintChanges(k) \/ BindKeyset(k) \/ FetchFailed(k)
          PROVE  UNCHANGED keyed
      BY <3>3 DEF CooldownEnds, LoadMint, MintChanges, BindKeyset, FetchFailed, chainVars
    <3>4. QED
      BY <1>1, <2>2, <2>3, <3>1, <3>2, <3>3 DEF Next
<1>2. ASSUME UNCHANGED vars PROVE Kept
  BY <1>2 DEF vars, chainVars
<1>3. QED
  BY <1>1, <1>2, PTL DEF Spec, HeldKeysAreKept
=============================================================================
