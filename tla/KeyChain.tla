------------------------------ MODULE KeyChain ------------------------------
(***************************************************************************)
(* A wallet's snapshot of the mint's keysets: refreshes (loadMint(true)),  *)
(* key fetches, the keyset the wallet is bound to, and the repair that an  *)
(* operation makes when its snapshot turns out to be stale.                *)
(*                                                                         *)
(* Answers of the mint arrive one at a time and in any order.  What runs   *)
(* as microtasks after one, up to the continuation of loadMint, belongs to *)
(* its step; operations that waited for it resume before anything else     *)
(* (Quiet).  The wallet has been loaded before, from the mint or a cache.  *)
(*                                                                         *)
(* The application follows the docs: a handler of keychainUpdated persists *)
(* the cache, and so does the application after calls of its own.          *)
(***************************************************************************)
EXTENDS Naturals, FiniteSets

CONSTANTS Ids,         \* keyset ids
          Unit,        \* those of the wallet's unit
          Rank,        \* the order of getCheapestKeyset: version, fee, expiry
          Implicit,    \* operations of the wallet, each run once
          Explicit,    \* calls of ensureOperableKeysets, each made once
          AppLoads,    \* calls of loadMint by the application, each made once
          FirstLoads,  \* listings and verified keys a wallet may start from
          MaxCalls,    \* bound on the calls made of all these
          MaxChanges,  \* bound on the changes the mint makes to its keysets
          None         \* undefined

Ops     == Implicit \cup Explicit
Loaders == Ops \cup AppLoads

ASSUME IdsAssumption  == Unit \subseteq Ids /\ None \notin Ids
ASSUME RankAssumption ==
  Rank \in [Ids -> Nat] /\ \A j, k \in Ids : Rank[j] = Rank[k] => j = k
ASSUME LoadsAssumption ==
  \A s \in FirstLoads : /\ s[1] \in [Ids -> {"unlisted", "active", "inactive"}]
                        /\ s[2] \subseteq {k \in Ids : s[1][k] # "unlisted"}
ASSUME CallsAssumption ==
  /\ Implicit \cap Explicit = {} /\ Ops \cap AppLoads = {}
  /\ None \notin Loaders /\ MaxCalls \in Nat /\ MaxChanges \in Nat

VARIABLES
  mint,           \* the mint's keysets: unlisted, active or inactive
  changes,        \* the number of changes it has made
  strict,         \* strictCachedKeysets
  meta,           \* keysets: what the snapshot says of each
  keyed,          \* keysets with verified keys
  bound,          \* boundKeysetId; None while no keyset is bound
  explicitBind,   \* explicitBind: the caller has chosen it
  load,           \* load[l]: a call of loadMint and what it has been answered
  pendingRepair,  \* pendingRepair: the refresh that operations share
  cooling,        \* the last repair is less than the cooldown ago
  fetching,       \* pendingKeyFetches: the metadata each fetch started from
  op,             \* op[o]: where operation o is
  saved           \* the cache the application has persisted

chainVars == <<meta, keyed>>
walletVars == <<strict, bound, explicitBind>>
vars == <<mint, changes, walletVars, chainVars, load, pendingRepair, cooling, fetching, op, saved>>

\* A call of loadMint asks for the info, the listing and the active keys.
Idle    == [stage |-> "idle", info |-> "asked", chain |-> "asked", listing |-> None, keys |-> None]
Running == [Idle EXCEPT !.stage = "running"]

\* An operation names keysets; it fetches missing keys only if it needs them.
NoOp == [stage |-> "idle", want |-> {}, unknown |-> {}, fetch |-> FALSE, on |-> None, waits |-> {}, failed |-> {}, changed |-> FALSE, result |-> None]

Known == {k \in Ids : meta[k] # "unlisted"}

\* getCheapestKeyset on a snapshot.
Bindable(m, ks) == {k \in Unit \cap ks : m[k] = "active"}
Cheapest(m, ks) ==
  CHOOSE k \in Bindable(m, ks) : \A j \in Bindable(m, ks) : Rank[k] <= Rank[j]

Init ==
  /\ \E s \in FirstLoads : mint = s[1] /\ meta = s[1] /\ keyed = s[2]
  /\ explicitBind \in BOOLEAN /\ strict \in BOOLEAN
  /\ bound \in IF explicitBind THEN Known \cap Unit
               ELSE IF Bindable(meta, keyed) = {} THEN (Unit \cap keyed) \cup {None}
               ELSE {Cheapest(meta, keyed)}
  /\ changes = 0 /\ pendingRepair = None /\ cooling = FALSE
  /\ load = [l \in Loaders |-> Idle]
  /\ fetching = [k \in Ids |-> None]
  /\ op = [o \in Ops |-> NoOp]
  /\ saved = <<meta, keyed>>

\* An operation whose await is over goes on before the next answer or call.
Resumable(o) ==
  \/ op[o].stage \in {"repairing", "stale"} /\ load[op[o].on].stage \in {"resolved", "rejected"}
  \/ op[o].stage = "fetching" /\ op[o].waits = {}

Quiet == \A o \in Ops : ~Resumable(o)

\* The application or the program calls when nothing is about to resume.
MayCall ==
  /\ Quiet
  /\ Cardinality({o \in Ops : op[o].stage # "idle"} \cup {l \in AppLoads : load[l].stage # "idle"})
       < MaxCalls
-----------------------------------------------------------------------------
\* A mint lists a new keyset, retires it, and may stop listing it.
MintChanges(k) ==
  /\ Quiet /\ changes < MaxChanges
  /\ changes' = changes + 1
  /\ mint' = [mint EXCEPT ![k] = CASE @ = "unlisted" -> "active"
                                   [] @ = "active"   -> "inactive"
                                   [] @ = "inactive" -> "unlisted"]
  /\ UNCHANGED <<walletVars, chainVars, load, pendingRepair, cooling, fetching, op, saved>>

\* Variant: keys are known only as far as the mint still serves them.
KeysServed(listing, served) == {k \in served : listing[k] # "unlisted"}

\* buildKeychain: verified keys the wallet holds survive the refresh.
KeysAfter(listing, served) == {k \in served \cup keyed : listing[k] # "unlisted"}

\* finishInit: where an auto-bound wallet is bound after a refresh.
Rebound(m, ks) ==
  IF Bindable(m, ks) # {} THEN Cheapest(m, ks)
  ELSE IF bound # None /\ m[bound] # "unlisted" THEN bound ELSE None

\* loadMint goes on with answer r: once both halves of init() are there the
\* snapshot is replaced, whatever became of the info; once all three are,
\* finishInit runs.  A pinned keyset that is gone makes it throw.
Answered(l, r) ==
  LET builds == r.chain = "asked" /\ r.listing # None /\ r.keys # None
      m      == IF builds THEN r.listing ELSE meta
      ks     == IF builds THEN KeysAfter(r.listing, r.keys) ELSE keyed
      ends   == r.stage = "running" /\ r.info = "got" /\ (builds \/ r.chain = "built")
      throws == explicitBind /\ m[bound] = "unlisted"
  IN  /\ meta' = m /\ keyed' = ks
      /\ bound' = IF ends /\ ~explicitBind THEN Rebound(m, ks) ELSE bound
      /\ load' = [load EXCEPT ![l] =
           [stage   |-> IF ends THEN IF throws THEN "rejected" ELSE "resolved" ELSE r.stage,
            info    |-> r.info,
            chain   |-> IF builds THEN "built" ELSE r.chain,
            listing |-> IF builds THEN None ELSE r.listing,
            keys    |-> IF builds THEN None ELSE r.keys]]
      /\ pendingRepair' = IF ends /\ pendingRepair = l THEN None ELSE pendingRepair
      /\ saved' = IF ends /\ ~throws /\ l \in AppLoads THEN <<m, ks>> ELSE saved
      /\ UNCHANGED <<mint, changes, strict, explicitBind, cooling, fetching, op>>

Awaited(l) == Quiet /\ load[l].stage # "idle"

InfoAnswered(l) ==
  /\ Awaited(l) /\ load[l].info = "asked"
  /\ Answered(l, [load[l] EXCEPT !.info = "got"])

ListingAnswered(l) ==
  /\ Awaited(l) /\ load[l].chain = "asked" /\ load[l].listing = None
  /\ Answered(l, [load[l] EXCEPT !.listing = mint])

\* The mint serves keys of active keysets; some may not verify.
KeysAnswered(l, served) ==
  /\ Awaited(l) /\ load[l].chain = "asked" /\ load[l].keys = None
  /\ served \subseteq {k \in Ids : mint[k] = "active"}
  /\ Answered(l, [load[l] EXCEPT !.keys = served])

\* One of the requests fails.  loadMint rejects at once; a snapshot that is
\* still being loaded is replaced all the same when it arrives.
Failed(l, r) ==
  /\ load' = [load EXCEPT ![l] = [r EXCEPT !.stage = "rejected"]]
  /\ pendingRepair' = IF pendingRepair = l THEN None ELSE pendingRepair
  /\ UNCHANGED <<mint, changes, walletVars, chainVars, cooling, fetching, op, saved>>

InfoFailed(l) ==
  /\ Awaited(l) /\ load[l].info = "asked"
  /\ Failed(l, [load[l] EXCEPT !.info = "failed"])

ChainFailed(l) ==
  /\ Awaited(l) /\ load[l].chain = "asked"
  /\ Failed(l, [load[l] EXCEPT !.chain = "failed", !.listing = None, !.keys = None, !.info = "failed"])
-----------------------------------------------------------------------------
\* loadMint(true), called by the application.
LoadMint(l) ==
  /\ MayCall /\ load[l].stage = "idle"
  /\ load' = [load EXCEPT ![l] = Running]
  /\ UNCHANGED <<mint, changes, walletVars, chainVars, pendingRepair, cooling, fetching, op, saved>>

BindKeyset(k) ==
  /\ Quiet /\ k \in Known \cap Unit \cap keyed
  /\ bound' = k /\ explicitBind' = TRUE
  /\ UNCHANGED <<mint, changes, strict, chainVars, load, pendingRepair, cooling, fetching, op, saved>>

CooldownEnds ==
  /\ Quiet /\ cooling
  /\ cooling' = FALSE
  /\ UNCHANGED <<mint, changes, walletVars, chainVars, load, pendingRepair, fetching, op, saved>>

\* The application persists after its own calls, also if they throw; during
\* an operation it does so when the wallet emits keychainUpdated.
Persists(o, emits) == IF emits \/ o \in Explicit THEN saved' = <<meta, keyed>> ELSE UNCHANGED saved

Over(result) == [NoOp EXCEPT !.stage = "done", !.result = result]

\* Variant: no event before an error.
EndSilently(o, r, result) ==
  /\ op' = [op EXCEPT ![o] = Over(result)]
  /\ Persists(o, r.changed /\ result = "ok")

\* Operation o is over; what it changed is reported.
End(o, r, result) ==
  /\ op' = [op EXCEPT ![o] = Over(result)]
  /\ Persists(o, r.changed)

\* Only the wallet's own repairs start the cooldown.
Cools(o) == IF o \in Implicit THEN cooling' = TRUE ELSE UNCHANGED cooling

\* Variant: a repair in flight is not looked for.
StartRepairAlways(o, r) ==
  /\ load' = [load EXCEPT ![o] = Running] /\ pendingRepair' = o
  /\ op' = [op EXCEPT ![o] = [r EXCEPT !.on = o]]
  /\ Cools(o)
  /\ UNCHANGED saved

\* startRepair: join the repair in flight, or start one unless rate limited.
StartRepair(o, r) ==
  IF pendingRepair # None
  THEN /\ op' = [op EXCEPT ![o] = [r EXCEPT !.on = pendingRepair]]
       /\ UNCHANGED <<load, pendingRepair, cooling, saved>>
  ELSE IF o \in Implicit /\ cooling
  THEN /\ End(o, r, "rateLimited")
       /\ UNCHANGED <<load, pendingRepair, cooling>>
  ELSE /\ load' = [load EXCEPT ![o] = Running] /\ pendingRepair' = o
       /\ op' = [op EXCEPT ![o] = [r EXCEPT !.on = o]]
       /\ Cools(o)
       /\ UNCHANGED saved

\* The second half of _ensureOperableKeysets: fetches of missing keys, shared
\* with other operations.
FetchKeys(o, r) ==
  LET keyless == IF r.fetch THEN (r.want \cap Unit \cap Known) \ keyed ELSE {}
  IN  IF keyless = {}
      THEN End(o, r, "ok") /\ UNCHANGED fetching
      ELSE /\ op' = [op EXCEPT ![o] = [r EXCEPT !.stage = "fetching", !.waits = keyless, !.on = None]]
           /\ fetching' = [k \in Ids |-> IF k \in keyless /\ fetching[k] = None THEN meta[k]
                                         ELSE fetching[k]]
           /\ UNCHANGED saved

Offline(o) == strict /\ o \in Implicit

\* _ensureOperableKeysets up to its first await.
EnsureOperable(o, want, fetch) ==
  LET r == [NoOp EXCEPT !.want = want, !.unknown = want \ Known, !.fetch = fetch]
  IN  /\ MayCall /\ op[o].stage = "idle"
      /\ o \in Explicit => fetch
      /\ IF Offline(o)
         THEN /\ End(o, r, IF r.unknown = {} THEN "ok" ELSE "unrefreshed")
              /\ UNCHANGED <<load, pendingRepair, cooling, fetching>>
         ELSE IF r.unknown # {}
         THEN StartRepair(o, [r EXCEPT !.stage = "repairing"]) /\ UNCHANGED fetching
         ELSE FetchKeys(o, r) /\ UNCHANGED <<load, pendingRepair, cooling>>
      /\ UNCHANGED <<mint, changes, walletVars, chainVars>>

\* The continuation after the repair; only ids that were unknown are looked
\* up again.
AfterRepair(o) ==
  LET r == [op[o] EXCEPT !.changed = TRUE]
  IN  /\ op[o].stage = "repairing" /\ Resumable(o)
      /\ IF load[op[o].on].stage = "rejected"
         THEN End(o, op[o], "unrefreshed") /\ UNCHANGED fetching
         ELSE IF r.unknown \subseteq Known
         THEN FetchKeys(o, [r EXCEPT !.unknown = {}])
         ELSE End(o, r, "refreshed") /\ UNCHANGED fetching
      /\ UNCHANGED <<mint, changes, walletVars, chainVars, load, pendingRepair, cooling>>

Waiting(k) == {o \in Ops : op[o].stage = "fetching" /\ k \in op[o].waits}

\* ensureKeysetKeys: the keyset is rebuilt from the metadata that the fetch
\* started from, and put into the snapshot.
FetchAnswered(k) ==
  /\ Quiet /\ fetching[k] # None /\ mint[k] # "unlisted"
  /\ meta'  = [meta EXCEPT ![k] = fetching[k]]
  /\ keyed' = keyed \cup {k}
  /\ fetching' = [fetching EXCEPT ![k] = None]
  /\ op' = [o \in Ops |-> IF o \in Waiting(k)
                          THEN [op[o] EXCEPT !.waits = @ \ {k}, !.changed = TRUE] ELSE op[o]]
  /\ UNCHANGED <<mint, changes, walletVars, load, pendingRepair, cooling, saved>>

\* No answer, no keys, or keys that do not verify.
FetchFailed(k) ==
  /\ Quiet /\ fetching[k] # None
  /\ fetching' = [fetching EXCEPT ![k] = None]
  /\ op' = [o \in Ops |-> IF o \in Waiting(k)
                          THEN [op[o] EXCEPT !.waits = @ \ {k}, !.failed = @ \cup {k}] ELSE op[o]]
  /\ UNCHANGED <<mint, changes, walletVars, chainVars, load, pendingRepair, cooling, saved>>

\* All fetches of operation o have settled.
AfterFetches(o) ==
  /\ op[o].stage = "fetching" /\ Resumable(o)
  /\ End(o, op[o], IF op[o].failed = {} THEN "ok" ELSE "keyless")
  /\ UNCHANGED <<mint, changes, walletVars, chainVars, load, pendingRepair, cooling, fetching>>

\* withStaleKeysetRepair: the mint refuses a keyset the wallet has used.
MintRejects(o) ==
  /\ MayCall /\ o \in Implicit /\ op[o].stage = "idle"
  /\ IF strict
     THEN End(o, NoOp, "unrepaired") /\ UNCHANGED <<load, pendingRepair, cooling>>
     ELSE StartRepair(o, [NoOp EXCEPT !.stage = "stale"])
  /\ UNCHANGED <<mint, changes, walletVars, chainVars, fetching>>

AfterStaleRepair(o) ==
  /\ op[o].stage = "stale" /\ Resumable(o)
  /\ IF load[op[o].on].stage = "rejected" THEN End(o, op[o], "unrepaired")
     ELSE End(o, [op[o] EXCEPT !.changed = TRUE], "repaired")
  /\ UNCHANGED <<mint, changes, walletVars, chainVars, load, pendingRepair, cooling, fetching>>

Next ==
  \/ \E k \in Ids : MintChanges(k) \/ BindKeyset(k) \/ FetchAnswered(k) \/ FetchFailed(k)
  \/ \E l \in AppLoads : LoadMint(l)
  \/ \E l \in Loaders :
       \/ InfoAnswered(l) \/ InfoFailed(l)
       \/ ListingAnswered(l) \/ ChainFailed(l)
       \/ \E served \in SUBSET Ids : KeysAnswered(l, served)
  \/ CooldownEnds
  \/ \E o \in Ops :
       \/ \E want \in SUBSET Ids \ {{}}, fetch \in BOOLEAN : EnsureOperable(o, want, fetch)
       \/ MintRejects(o)
       \/ AfterRepair(o) \/ AfterStaleRepair(o) \/ AfterFetches(o)

Spec == Init /\ [][Next]_vars
-----------------------------------------------------------------------------
\* Keys are immutable, so once held they are held for as long as the mint
\* lists the keyset, whatever order refreshes and fetches are answered in.
HeldKeysAreKept == [][\A k \in keyed : meta'[k] # "unlisted" => k \in keyed']_vars

\* Operations that find the snapshot stale at the same time share a refresh.
RepairsAreShared ==
  \A o, p \in Ops : load[o].stage = "running" /\ load[p].stage = "running" => o = p

AtRest ==
  /\ \A o \in Ops : op[o].stage \in {"idle", "done"}
  /\ \A l \in Loaders : load[l].stage # "running"

\* Once operations and refreshes have come to rest, the persisted cache is the
\* snapshot, also if operations failed (except after a refresh that failed).
SavedIsCurrent ==
  AtRest /\ (\A l \in Loaders : load[l].stage # "rejected") => saved = <<meta, keyed>>
=============================================================================
