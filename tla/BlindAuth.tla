----------------------------- MODULE BlindAuth ------------------------------
(***************************************************************************)
(* The pool of blind-auth tokens (BATs) of AuthManager: calls of           *)
(* getBlindAuthToken take turns behind a chain of promises, make sure that *)
(* the pool has a token, minting a batch if it has none, and take one off. *)
(* The application may also fill the pool itself (ensure, importPool),     *)
(* which does not go through the lock.                                     *)
(*                                                                         *)
(* A step is what runs between two awaits.  Steps of other calls may come  *)
(* between any two of them, which includes every order that the microtask  *)
(* queue allows.  Obtaining a CAT for the mint request is part of it.      *)
(***************************************************************************)
EXTENDS Integers, Sequences, FiniteSets

CONSTANTS Callers,     \* calls of getBlindAuthToken, numbered in the order they are made
          Ensurers,    \* calls of ensure by the application, each made once
          Sizes,       \* arguments of ensure
          Foreign,     \* BATs the application has persisted in an earlier session
          Target,      \* desiredPoolSize
          MaxPerMint,  \* maxPerMint
          MaxImports,  \* bound on the calls of importPool
          MintMaxes,   \* what the mint may announce as bat_max_mint
          None         \* undefined

ASSUME SizesAssumption == Target \in Nat \ {0} /\ MaxPerMint \in Nat \ {0}
ASSUME ArgumentsAssumption ==
  Sizes \subseteq Nat /\ MintMaxes \subseteq Nat /\ MaxImports \in Nat
ASSUME ForeignAssumption == Foreign \cap Nat = {}
ASSUME NoneAssumption == None \notin Callers \cup MintMaxes
ASSUME CallsAssumption == Callers \subseteq Nat /\ Callers \cap Ensurers = {}

Calls == Callers \cup Ensurers

VARIABLES
  info,       \* info: the mint's bat_max_mint once its info is loaded
  keychain,   \* keychain: none, usable, or loaded without a usable keyset
  pool,       \* pool
  minted,     \* the number of BATs minted so far
  lockChain,  \* lockChain: the call whose promise it is
  behind,     \* behind[c]: the call that c waits for
  released,   \* calls that have released their lock
  stage,      \* stage[c]: where call c is
  least,      \* least[c]: minTokens of call c
  batch,      \* batch[c]: the number of BATs call c is minting
  imports,    \* the number of calls of importPool
  served      \* the BATs handed out, with the call that got each

lockVars == <<lockChain, behind, released>>
vars == <<info, keychain, pool, minted, lockVars, stage, least, batch, imports, served>>

Init ==
  /\ info = None /\ keychain = "none" /\ pool = <<>> /\ minted = 0
  /\ lockChain = None /\ released = {}
  /\ behind = [c \in Callers |-> None]
  /\ stage  = [c \in Calls |-> "idle"]
  /\ least  = [c \in Calls |-> 1]
  /\ batch  = [c \in Calls |-> 0]
  /\ imports = 0 /\ served = <<>>

Lesser(m, n)  == IF m < n THEN m ELSE n
Greater(m, n) == IF m > n THEN m ELSE n
InPool(b) == \E i \in 1..Len(pool) : pool[i] = b
Goes(c, where) == stage' = [stage EXCEPT ![c] = where]
-----------------------------------------------------------------------------
\* withLock: the call queues behind the last one.
GetBlindAuthToken(c) ==
  /\ stage[c] = "idle" /\ \A d \in Callers : d < c => stage[d] # "idle"
  /\ behind' = [behind EXCEPT ![c] = lockChain]
  /\ lockChain' = c
  /\ Goes(c, "queued")
  /\ UNCHANGED <<info, keychain, pool, minted, released, least, batch, imports, served>>

\* It is its turn; the body runs ensure(1).
Turn(c) ==
  /\ stage[c] = "queued"
  /\ behind[c] # None => behind[c] \in released
  /\ Goes(c, "init")
  /\ UNCHANGED <<info, keychain, pool, minted, lockVars, least, batch, imports, served>>

\* ensure, called by the application.
Ensure(c, n) ==
  /\ stage[c] = "idle"
  /\ least' = [least EXCEPT ![c] = n]
  /\ Goes(c, "init")
  /\ UNCHANGED <<info, keychain, pool, minted, lockVars, batch, imports, served>>

\* The finally of withLock.
Unlock(c) ==
  /\ released' = released \cup {c}
  /\ lockChain' = IF lockChain = c THEN None ELSE lockChain
  /\ UNCHANGED behind

\* Variant: a body that throws leaves the lock taken.
FailsLocked(c) ==
  /\ Goes(c, "failed")
  /\ UNCHANGED lockVars

\* A call rejects; a call of getBlindAuthToken releases its lock.
Fails(c) ==
  /\ Goes(c, "failed")
  /\ IF c \in Callers THEN Unlock(c) ELSE UNCHANGED lockVars

\* init(): what is not loaded is requested, the info before the keys.
Load(c) ==
  /\ stage[c] = "init"
  /\ Goes(c, IF info = None THEN "info" ELSE IF keychain = "none" THEN "keys" ELSE "loaded")
  /\ UNCHANGED <<info, keychain, pool, minted, lockVars, least, batch, imports, served>>

InfoLoaded(c) ==
  /\ stage[c] = "info"
  /\ info' \in MintMaxes
  /\ Goes(c, IF keychain = "none" THEN "keys" ELSE "loaded")
  /\ UNCHANGED <<keychain, pool, minted, lockVars, least, batch, imports, served>>

KeysLoaded(c) ==
  /\ stage[c] = "keys"
  /\ keychain' = "usable"
  /\ Goes(c, "loaded")
  /\ UNCHANGED <<info, pool, minted, lockVars, least, batch, imports, served>>

\* The keychain is kept although the smoke test of its keysets throws.
KeysUnusable(c) ==
  /\ stage[c] = "keys"
  /\ keychain' = "unusable"
  /\ Fails(c)
  /\ UNCHANGED <<info, pool, minted, least, batch, imports, served>>

LoadFailed(c) ==
  /\ stage[c] \in {"info", "keys"}
  /\ Fails(c)
  /\ UNCHANGED <<info, keychain, pool, minted, least, batch, imports, served>>

\* Variant: what the mint announces is taken as it is.
BatMaxMintAsAnnounced == Lesser(MaxPerMint, info)

GetBatMaxMint == Greater(1, Lesser(MaxPerMint, info))

Batch(c) == Lesser(Greater(Target, least[c]) - Len(pool), GetBatMaxMint)

\* The rest of ensure up to the request.
TopUp(c) ==
  /\ stage[c] = "loaded"
  /\ IF Len(pool) >= least[c] \/ Batch(c) <= 0
     THEN Goes(c, "ensured") /\ UNCHANGED batch
     ELSE Goes(c, "authorising") /\ batch' = [batch EXCEPT ![c] = Batch(c)]
  /\ UNCHANGED <<info, keychain, pool, minted, lockVars, least, imports, served>>

\* The CAT is there or is not needed, and there is a keyset for the outputs.
AskMint(c) ==
  /\ stage[c] = "authorising" /\ keychain = "usable"
  /\ Goes(c, "minting")
  /\ UNCHANGED <<info, keychain, pool, minted, lockVars, least, batch, imports, served>>

\* The mint has signed the batch: it joins the pool.
Minted(c) ==
  /\ stage[c] = "minting"
  /\ pool' = pool \o [i \in 1..batch[c] |-> minted + i]
  /\ minted' = minted + batch[c]
  /\ Goes(c, "ensured")
  /\ UNCHANGED <<info, keychain, lockVars, least, batch, imports, served>>

\* No CAT, no usable keyset, no answer or one that does not verify.
MintFailed(c) ==
  /\ stage[c] \in {"authorising", "minting"}
  /\ Fails(c)
  /\ UNCHANGED <<info, keychain, pool, minted, least, batch, imports, served>>

\* ensure returns to the application.
Ensured(c) ==
  /\ c \in Ensurers /\ stage[c] = "ensured"
  /\ Goes(c, "done")
  /\ UNCHANGED <<info, keychain, pool, minted, lockVars, least, batch, imports, served>>

\* The body of getBlindAuthToken after ensure.
Pop(c) ==
  /\ c \in Callers /\ stage[c] = "ensured" /\ pool # <<>>
  /\ pool' = SubSeq(pool, 1, Len(pool) - 1)
  /\ served' = Append(served, [call |-> c, bat |-> pool[Len(pool)]])
  /\ Goes(c, "done")
  /\ Unlock(c)
  /\ UNCHANGED <<info, keychain, minted, least, batch, imports>>

PoolEmpty(c) ==
  /\ c \in Callers /\ stage[c] = "ensured" /\ pool = <<>>
  /\ Fails(c)
  /\ UNCHANGED <<info, keychain, pool, minted, least, batch, imports, served>>

Served(b) == \E i \in 1..Len(served) : served[i].bat = b

\* Variant: what is in the pool already is added again.
Merged(bats, base) == base \o bats

\* A token that is in the pool already is not added again (imports hold at most one).
Added(bats, base) ==
  IF \E i \in 1..Len(bats), j \in 1..Len(base) : bats[i] = base[j] THEN base ELSE base \o bats

Imports == {<<>>} \cup {<<b>> : b \in Foreign}

\* importPool of at most one persisted BAT, which the application has not used.
ImportPool(bats, mode) ==
  /\ imports < MaxImports
  /\ imports' = imports + 1
  /\ \A i \in 1..Len(bats) : ~Served(bats[i])
  /\ pool' = Added(bats, IF mode = "replace" THEN <<>> ELSE pool)
  /\ UNCHANGED <<info, keychain, minted, lockVars, stage, least, batch, served>>

Continue(c) == \/ c \in Callers /\ Turn(c)
               \/ Load(c)
               \/ InfoLoaded(c) \/ KeysLoaded(c) \/ KeysUnusable(c) \/ LoadFailed(c)
               \/ TopUp(c) \/ AskMint(c) \/ Minted(c) \/ MintFailed(c)
               \/ Ensured(c) \/ Pop(c) \/ PoolEmpty(c)

Next ==
  \/ \E c \in Callers : GetBlindAuthToken(c)
  \/ \E c \in Ensurers, n \in Sizes : Ensure(c, n)
  \/ \E c \in Calls : Continue(c)
  \/ \E bats \in Imports, mode \in {"replace", "merge"} : ImportPool(bats, mode)

Spec == Init /\ [][Next]_vars

\* While calls can go on, one does: the event loop runs what is ready, and a
\* request to the mint is answered or fails.
FairSpec == Spec /\ WF_vars(\E c \in Calls : Continue(c))
-----------------------------------------------------------------------------
Tokens == Nat \cup Foreign

\* Every variable stays in its domain.
TypeOK ==
  /\ info \in MintMaxes \cup {None} /\ keychain \in {"none", "usable", "unusable"}
  /\ pool \in Seq(Tokens) /\ minted \in Nat
  /\ lockChain \in Callers \cup {None} /\ released \subseteq Callers
  /\ behind \in [Callers -> Callers \cup {None}]
  /\ stage \in [Calls -> {"idle", "queued", "init", "info", "keys", "loaded", "authorising",
                          "minting", "ensured", "done", "failed"}]
  /\ least \in [Calls -> Nat]
  /\ batch \in [Calls -> Nat]
  /\ imports \in Nat
  /\ served \in Seq([call : Callers, bat : Tokens])
  /\ \A c \in Calls : stage[c] \in {"authorising", "minting"} => batch[c] \in 1..MaxPerMint

InBody(c) == stage[c] \in {"init", "info", "keys", "loaded", "authorising", "minting",
                       "ensured"}

\* Calls of getBlindAuthToken check, mint and take one at a time.
OneAtATime == \A c, d \in Callers : InBody(c) /\ InBody(d) => c = d

\* No BAT is handed out twice, and none that was is still in the pool: the
\* mint would refuse the second request.
ServedOnce ==
  /\ \A i, j \in 1..Len(served) : i # j => served[i].bat # served[j].bat
  /\ \A i \in 1..Len(served) : ~InPool(served[i].bat)

\* Calls get their tokens in the order in which they were made.
ServedInOrder ==
  \A i, j \in 1..Len(served) : i < j => served[i].call < served[j].call

\* As long as the application has called neither ensure nor importPool, the
\* pool never holds more than desiredPoolSize, and a call whose ensure succeeded
\* finds a token in it, whatever limit the mint announces.
PoolWithinTarget ==
  imports = 0 /\ (\A c \in Ensurers : stage[c] = "idle")
    => /\ Len(pool) <= Target
       /\ \A c \in Callers : stage[c] = "ensured" => pool # <<>>

\* Every call is answered, also behind calls that fail.
EveryCallAnswered == \A c \in Callers : stage[c] = "queued" ~> stage[c] \in {"done", "failed"}
=============================================================================
