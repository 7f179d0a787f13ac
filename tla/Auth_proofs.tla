---------------------------- MODULE Auth_proofs ----------------------------
(***************************************************************************)
(* Proofs about BlindAuth, for any number of calls, any pool size and any  *)
(* limit that the mint announces, and about ClearAuth, for any number of   *)
(* calls, sessions, rotations and polls, wired to onTokens or not.         *)
(*                                                                         *)
(* Blind-auth tokens.  The chain of promises admits one call at a time     *)
(* because a call enters only when every earlier one has released its lock.*)
(* That no token is handed out twice does not rest on it: a token leaves   *)
(* the pool in the step that hands it out, whatever ensure and importPool  *)
(* do meanwhile.  That the pool stays within its target does: the batch was*)
(* calculated three awaits before it is added.                             *)
(*                                                                         *)
(* Clear-auth tokens.  A refresh token is fresh if it is newer than every  *)
(* one of its session that a delivered answer has replaced.  What the      *)
(* manager holds, and what it has sent, is fresh as long as no microtask   *)
(* waits: an answer that exchanges a token queues the listener with the    *)
(* newer one, and the end of the refresh, in one step.  An exchange whose  *)
(* answer is lost replaces nothing: the old token is all there is to send. *)
(***************************************************************************)
EXTENDS BlindAuth, ClearAuth, SequenceTheorems, TLAPS

-----------------------------------------------------------------------------
(* Blind-auth tokens.                                                       *)

\* The tokens of a batch.
LEMMA NewTokens ==
  ASSUME NEW n \in Nat, NEW m \in Nat
  PROVE  [i \in 1..n |-> m + i] \in Seq(Nat) /\ Len([i \in 1..n |-> m + i]) = n
<1>1. \A i \in 1..n : m + i \in Nat
  OBVIOUS
<1>2. QED
  BY <1>1

LEMMA TypeInit == Init => TypeOK
BY DEF Init, TypeOK, Calls, Tokens

LEMMA UnlockType ==
  ASSUME TypeOK, NEW c \in Callers, Unlock(c)
  PROVE  /\ lockChain' \in Callers \cup {None} /\ released' \subseteq Callers
         /\ behind' \in [Callers -> Callers \cup {None}]
BY DEF Unlock, TypeOK

LEMMA FailsType ==
  ASSUME TypeOK, NEW c \in Calls, Fails(c), UNCHANGED <<info, pool, minted, least, batch, imports, served>>,
         keychain' \in {"none", "usable", "unusable"}
  PROVE  TypeOK'
<1>1. /\ lockChain' \in Callers \cup {None} /\ released' \subseteq Callers
      /\ behind' \in [Callers -> Callers \cup {None}]
  BY UnlockType DEF Fails, lockVars, TypeOK
<1>2. QED
  BY <1>1 DEF Fails, Goes, TypeOK

LEMMA GetBatMaxMintType == info \in Nat => GetBatMaxMint \in 1..MaxPerMint
BY SizesAssumption DEF GetBatMaxMint, Greater, Lesser

LEMMA BatchType ==
  ASSUME TypeOK, NEW c \in Calls, info \in Nat, ~(Batch(c) <= 0)
  PROVE  Batch(c) \in 1..MaxPerMint
<1>1. Len(pool) \in Nat /\ least[c] \in Nat
  BY DEF TypeOK
<1>2. Greater(Target, least[c]) - Len(pool) \in Int
  BY <1>1, SizesAssumption DEF Greater
<1>3. QED
  BY <1>2, GetBatMaxMintType, SizesAssumption DEF Batch, Lesser

\* ensure knows the mint's limit when it calculates a batch.
InfoInv == \A c \in Calls : stage[c] \in {"keys", "loaded", "authorising", "minting"} => info # None

LEMMA TypeStep == TypeOK /\ InfoInv /\ [Next]_vars => TypeOK'
<1> SUFFICES ASSUME TypeOK, InfoInv, [Next]_vars PROVE TypeOK'
  OBVIOUS
<1>1. ASSUME NEW c \in Callers, GetBlindAuthToken(c) PROVE TypeOK'
  BY <1>1 DEF GetBlindAuthToken, Goes, TypeOK, Calls
<1>2. ASSUME NEW c \in Ensurers, NEW n \in Sizes, Ensure(c, n) PROVE TypeOK'
  BY <1>2, ArgumentsAssumption DEF Ensure, Goes, TypeOK, Calls, lockVars
<1>3. ASSUME NEW c \in Calls, Turn(c) \/ Load(c) \/ InfoLoaded(c) \/ KeysLoaded(c) \/ AskMint(c) \/ Ensured(c)
      PROVE  TypeOK'
  BY <1>3 DEF Turn, Load, InfoLoaded, KeysLoaded, AskMint, Ensured, Goes, TypeOK, lockVars
<1>4. ASSUME NEW c \in Calls, KeysUnusable(c) \/ LoadFailed(c) \/ MintFailed(c) \/ PoolEmpty(c)
      PROVE  TypeOK'
  <2>1. Fails(c) /\ UNCHANGED <<info, pool, minted, least, batch, imports, served>>
    BY <1>4 DEF KeysUnusable, LoadFailed, MintFailed, PoolEmpty
  <2>2. keychain' \in {"none", "usable", "unusable"}
    BY <1>4 DEF KeysUnusable, LoadFailed, MintFailed, PoolEmpty, TypeOK
  <2>3. QED
    BY <2>1, <2>2, FailsType
<1>5. ASSUME NEW c \in Calls, TopUp(c) PROVE TypeOK'
  <2>1. info \in Nat
    BY <1>5, ArgumentsAssumption DEF TopUp, TypeOK, InfoInv
  <2>2. CASE Len(pool) >= least[c] \/ Batch(c) <= 0
    BY <1>5, <2>2 DEF TopUp, Goes, TypeOK, lockVars
  <2>3. CASE ~(Len(pool) >= least[c] \/ Batch(c) <= 0)
    <3>1. Batch(c) \in 1..MaxPerMint /\ Batch(c) \in Nat
      BY <2>1, <2>3, BatchType, SizesAssumption
    <3>2. QED
      BY <1>5, <2>3, <3>1 DEF TopUp, Goes, TypeOK, lockVars
  <2>4. QED
    BY <2>2, <2>3
<1>6. ASSUME NEW c \in Calls, Minted(c) PROVE TypeOK'
  <2>1. batch[c] \in Nat /\ minted \in Nat
    BY DEF TypeOK
  <2>2. [i \in 1..batch[c] |-> minted + i] \in Seq(Tokens)
    BY <2>1, NewTokens DEF Tokens
  <2>3. pool' \in Seq(Tokens)
    BY <1>6, <2>2 DEF Minted, TypeOK
  <2>4. QED
    BY <1>6, <2>1, <2>3 DEF Minted, Goes, TypeOK, lockVars
<1>7. ASSUME NEW c \in Callers, Pop(c) PROVE TypeOK'
  <2>1. /\ lockChain' \in Callers \cup {None} /\ released' \subseteq Callers
        /\ behind' \in [Callers -> Callers \cup {None}]
    BY <1>7, UnlockType DEF Pop
  <2>2. pool \in Seq(Tokens) /\ pool # <<>> /\ Len(pool) \in Nat \ {0}
    BY <1>7 DEF Pop, TypeOK
  <2>3. SubSeq(pool, 1, Len(pool) - 1) \in Seq(Tokens) /\ pool[Len(pool)] \in Tokens
    BY <2>2, SubSeqProperties
  <2>4. Append(served, [call |-> c, bat |-> pool[Len(pool)]]) \in Seq([call : Callers, bat : Tokens])
    BY <2>3 DEF TypeOK
  <2>5. QED
    BY <1>7, <2>1, <2>3, <2>4 DEF Pop, Goes, TypeOK
<1>8. ASSUME NEW bats \in Imports, NEW mode \in {"replace", "merge"}, ImportPool(bats, mode) PROVE TypeOK'
  <2>1. bats \in Seq(Tokens)
    <3>1. CASE bats = <<>>
      BY <3>1
    <3>2. ASSUME NEW b \in Foreign, bats = <<b>> PROVE bats \in Seq(Tokens)
      BY <3>2 DEF Tokens
    <3>3. QED
      BY <3>1, <3>2 DEF Imports
  <2>2. pool' \in Seq(Tokens)
    BY <1>8, <2>1 DEF ImportPool, Added, TypeOK
  <2>3. QED
    BY <1>8, <2>2 DEF ImportPool, TypeOK, lockVars
<1>9. CASE UNCHANGED vars
  BY <1>9 DEF vars, lockVars, TypeOK
<1>10. ASSUME NEW c \in Calls, Continue(c) PROVE TypeOK'
  BY <1>3, <1>4, <1>5, <1>6, <1>7, <1>10 DEF Continue, Pop
<1>11. QED
  BY <1>1, <1>2, <1>8, <1>9, <1>10 DEF Next

LEMMA InfoStep == TypeOK /\ InfoInv /\ [Next]_vars => InfoInv'
<1> SUFFICES ASSUME TypeOK, InfoInv, [Next]_vars PROVE InfoInv'
  OBVIOUS
<1>1. ASSUME UNCHANGED info,
             \A c \in Calls : stage'[c] \in {"keys", "loaded", "authorising", "minting"} =>
               stage[c] \in {"keys", "loaded", "authorising", "minting"} \/ info # None
      PROVE  InfoInv'
  BY <1>1 DEF InfoInv
<1>2. ASSUME NEW c \in Calls, InfoLoaded(c) PROVE InfoInv'
  BY <1>2, NoneAssumption DEF InfoLoaded, InfoInv
<1>3. ASSUME NEW c \in Calls, Load(c) PROVE InfoInv'
  BY <1>1, <1>3 DEF Load, Goes, TypeOK
<1>4. ASSUME NEW c \in Calls, NEW s \in {"idle", "queued", "init", "ensured", "done", "failed"},
             UNCHANGED info, Goes(c, s)
      PROVE  InfoInv'
  BY <1>1, <1>4 DEF Goes, TypeOK
<1>5. ASSUME NEW c \in Calls, InfoInv, UNCHANGED info, NEW s \in {"loaded", "authorising", "minting"},
             stage[c] \in {"keys", "loaded", "authorising"}, Goes(c, s)
      PROVE  InfoInv'
  BY <1>1, <1>5 DEF Goes, TypeOK, InfoInv
<1>6. ASSUME NEW c \in Calls, TopUp(c) PROVE InfoInv'
  BY <1>4, <1>5, <1>6 DEF TopUp
<1>7. ASSUME NEW c \in Calls, KeysLoaded(c) \/ AskMint(c) PROVE InfoInv'
  BY <1>5, <1>7 DEF KeysLoaded, AskMint
<1>8. ASSUME NEW c \in Calls, KeysUnusable(c) \/ LoadFailed(c) \/ MintFailed(c) \/ PoolEmpty(c)
                              \/ Ensured(c) \/ Pop(c) \/ Turn(c) \/ Minted(c)
      PROVE  InfoInv'
  BY <1>4, <1>8 DEF KeysUnusable, LoadFailed, MintFailed, PoolEmpty, Fails, Ensured, Pop, Turn, Minted
<1>9. ASSUME NEW c \in Callers, GetBlindAuthToken(c) PROVE InfoInv'
  BY <1>4, <1>9 DEF GetBlindAuthToken, Calls
<1>10. ASSUME NEW c \in Ensurers, NEW n \in Sizes, Ensure(c, n) PROVE InfoInv'
  BY <1>4, <1>10 DEF Ensure, Calls
<1>11. CASE (\E bats \in Imports, mode \in {"replace", "merge"} : ImportPool(bats, mode)) \/ UNCHANGED vars
  BY <1>1, <1>11 DEF ImportPool, vars
<1>12. QED
  BY <1>2, <1>3, <1>6, <1>7, <1>8, <1>9, <1>10, <1>11 DEF Next, Continue, Calls

BaseInv == TypeOK /\ InfoInv

LEMMA BaseHolds == Spec => []BaseInv
<1>1. Init => BaseInv
  BY TypeInit DEF Init, BaseInv, InfoInv
<1>2. BaseInv /\ [Next]_vars => BaseInv'
  BY TypeStep, InfoStep DEF BaseInv
<1>3. QED
  BY <1>1, <1>2, PTL DEF Spec

\* The variables of AuthManager keep their types.
THEOREM TypeCorrect == Spec => []TypeOK
<1>1. BaseInv => TypeOK
  BY DEF BaseInv
<1>2. QED
  BY <1>1, BaseHolds, PTL

-----------------------------------------------------------------------------
\* No token twice: neither in the pool, nor handed out, nor both; what the mint will sign
\* next is new.
TokenInv ==
  /\ \A i, j \in 1..Len(pool) : i # j => pool[i] # pool[j]
  /\ \A i, j \in 1..Len(served) : i # j => served[i].bat # served[j].bat
  /\ \A i \in 1..Len(pool), j \in 1..Len(served) : pool[i] # served[j].bat
  /\ \A i \in 1..Len(pool) : pool[i] \in Nat => pool[i] <= minted
  /\ \A j \in 1..Len(served) : served[j].bat \in Nat => served[j].bat <= minted

LEMMA TokenStep == TypeOK /\ TokenInv /\ [Next]_vars => TokenInv'
<1> SUFFICES ASSUME TypeOK, TokenInv, [Next]_vars PROVE TokenInv'
  OBVIOUS
<1>0. /\ pool \in Seq(Tokens) /\ Len(pool) \in Nat
      /\ served \in Seq([call : Callers, bat : Tokens]) /\ Len(served) \in Nat /\ minted \in Nat
  BY DEF TypeOK
<1>1. ASSUME UNCHANGED <<pool, minted, served>> PROVE TokenInv'
  BY <1>1 DEF TokenInv
<1>2. ASSUME NEW c \in Calls, Minted(c) PROVE TokenInv'
  <2>0. batch[c] \in Nat
    BY DEF TypeOK
  <2> DEFINE new == [i \in 1..batch[c] |-> minted + i]
  <2>1. /\ new \in Seq(Nat) /\ Len(new) = batch[c] /\ pool' = pool \o new
        /\ minted' = minted + batch[c] /\ served' = served
    <3>1. new \in Seq(Nat) /\ Len(new) = batch[c]
      BY <1>0, <2>0, NewTokens
    <3>2. QED
      BY <1>2, <3>1 DEF Minted
  <2>2. Len(pool') = Len(pool) + batch[c]
    BY <1>0, <2>0, <2>1
  <2>3. \A i \in 1..Len(pool') : pool'[i] = IF i <= Len(pool) THEN pool[i] ELSE minted + (i - Len(pool))
    BY <1>0, <2>0, <2>1, <2>2
  <2>4. \A i \in 1..Len(pool) : pool[i] \in Nat => pool[i] < minted + 1
    BY <1>0, <2>0 DEF TokenInv
  <2>5. \A i, j \in 1..Len(pool') : i # j => pool'[i] # pool'[j]
    <3> SUFFICES ASSUME NEW i \in 1..Len(pool'), NEW j \in 1..Len(pool'), i # j
                 PROVE  pool'[i] # pool'[j]
      OBVIOUS
    <3>1. CASE i <= Len(pool) /\ j <= Len(pool)
      BY <1>0, <2>3, <3>1 DEF TokenInv
    <3>2. CASE i > Len(pool) /\ j > Len(pool)
      BY <1>0, <2>0, <2>2, <2>3, <3>2
    <3>3. CASE i <= Len(pool) /\ j > Len(pool)
      <4>1. pool'[i] = pool[i] /\ pool'[j] = minted + (j - Len(pool)) /\ j - Len(pool) \in Nat \ {0}
        BY <1>0, <2>0, <2>2, <2>3, <3>3
      <4>2. QED
        BY <1>0, <2>4, <3>3, <4>1
    <3>4. CASE i > Len(pool) /\ j <= Len(pool)
      <4>1. pool'[j] = pool[j] /\ pool'[i] = minted + (i - Len(pool)) /\ i - Len(pool) \in Nat \ {0}
        BY <1>0, <2>0, <2>2, <2>3, <3>4
      <4>2. QED
        BY <1>0, <2>4, <3>4, <4>1
    <3>5. QED
      BY <1>0, <2>0, <2>2, <3>1, <3>2, <3>3, <3>4
  <2>6. \A i \in 1..Len(pool'), j \in 1..Len(served) : pool'[i] # served[j].bat
    <3> SUFFICES ASSUME NEW i \in 1..Len(pool'), NEW j \in 1..Len(served) PROVE pool'[i] # served[j].bat
      OBVIOUS
    <3>1. CASE i <= Len(pool)
      BY <1>0, <2>3, <3>1 DEF TokenInv
    <3>2. CASE i > Len(pool)
      <4>1. pool'[i] = minted + (i - Len(pool)) /\ i - Len(pool) \in Nat \ {0}
        BY <1>0, <2>0, <2>2, <2>3, <3>2
      <4>2. QED
        BY <1>0, <4>1 DEF TokenInv
    <3>3. QED
      BY <1>0, <2>0, <2>2, <3>1, <3>2
  <2>7. \A i \in 1..Len(pool') : pool'[i] \in Nat => pool'[i] <= minted'
    <3> SUFFICES ASSUME NEW i \in 1..Len(pool'), pool'[i] \in Nat PROVE pool'[i] <= minted'
      OBVIOUS
    <3>1. CASE i <= Len(pool)
      BY <1>0, <2>0, <2>1, <2>3, <3>1 DEF TokenInv
    <3>2. CASE i > Len(pool)
      BY <1>0, <2>0, <2>1, <2>2, <2>3, <3>2
    <3>3. QED
      BY <1>0, <2>0, <2>2, <3>1, <3>2
  <2>8. \A j \in 1..Len(served) : served[j].bat \in Nat => served[j].bat <= minted'
    BY <1>0, <2>0, <2>1 DEF TokenInv
  <2>9. QED
    BY <2>1, <2>5, <2>6, <2>7, <2>8 DEF TokenInv
<1>3. ASSUME NEW c \in Callers, Pop(c) PROVE TokenInv'
  <2>1. Len(pool) >= 1 /\ UNCHANGED minted
    BY <1>0, <1>3 DEF Pop
  <2>2. /\ Len(pool') = Len(pool) - 1
        /\ \A i \in 1..Len(pool') : pool'[i] = pool[i] /\ i \in 1..Len(pool) /\ i # Len(pool)
    <3>1. pool' = SubSeq(pool, 1, Len(pool) - 1)
      BY <1>3 DEF Pop
    <3>2. 1 \in Int /\ Len(pool) - 1 \in Int /\ \A i \in 1..(Len(pool) - 1) : pool[i] \in Tokens
      BY <1>0, <2>1
    <3> DEFINE n == Len(pool) - 1
    <3>3. /\ Len(SubSeq(pool, 1, n)) = IF 1 <= n THEN n - 1 + 1 ELSE 0
          /\ \A i \in 1..(n - 1 + 1) : SubSeq(pool, 1, n)[i] = pool[1 + i - 1]
      BY <3>2, SubSeqProperties
    <3>4. n \in Nat /\ n - 1 + 1 = n /\ \A i \in 1..n : 1 + i - 1 = i
      BY <1>0, <2>1
    <3> HIDE DEF n
    <3>5. Len(pool') = n /\ \A i \in 1..n : pool'[i] = pool[i]
      <4>1. pool' = SubSeq(pool, 1, n)
        BY <3>1 DEF n
      <4>2. Len(pool') = n
        BY <3>3, <3>4, <4>1
      <4>3. \A i \in 1..n : pool'[i] = pool[i]
        BY <3>3, <3>4, <4>1
      <4>4. QED
        BY <4>2, <4>3
    <3>6. QED
      BY <1>0, <2>1, <3>5 DEF n
  <2>3. /\ Len(served') = Len(served) + 1
        /\ \A j \in 1..Len(served') : served'[j].bat = IF j = Len(served) + 1 THEN pool[Len(pool)] ELSE served[j].bat
    <3>1. served' = Append(served, [call |-> c, bat |-> pool[Len(pool)]])
      BY <1>3 DEF Pop
    <3>2. Len(served') = Len(served) + 1
      BY <1>0, <3>1
    <3>3. \A j \in 1..Len(served) : served'[j] = served[j]
      BY <1>0, <3>1
    <3>4. served'[Len(served) + 1] = [call |-> c, bat |-> pool[Len(pool)]]
      BY <1>0, <3>1
    <3>5. ASSUME NEW j \in 1..Len(served')
          PROVE  served'[j].bat = IF j = Len(served) + 1 THEN pool[Len(pool)] ELSE served[j].bat
      <4>1. CASE j = Len(served) + 1
        BY <3>4, <4>1
      <4>2. CASE j # Len(served) + 1
        BY <1>0, <3>2, <3>3, <4>2
      <4>3. QED
        BY <4>1, <4>2
    <3>6. QED
      BY <3>2, <3>5
  <2>4. Len(pool) \in 1..Len(pool) /\ \A j \in 1..Len(served') : j # Len(served) + 1 => j \in 1..Len(served)
    BY <1>0, <2>1, <2>3
  <2>5. \A i, j \in 1..Len(pool') : i # j => pool'[i] # pool'[j]
    BY <2>2 DEF TokenInv
  <2>6. \A i, j \in 1..Len(served') : i # j => served'[i].bat # served'[j].bat
    BY <2>3, <2>4 DEF TokenInv
  <2>7. \A i \in 1..Len(pool'), j \in 1..Len(served') : pool'[i] # served'[j].bat
    BY <2>2, <2>3, <2>4 DEF TokenInv
  <2>8. /\ \A i \in 1..Len(pool') : pool'[i] \in Nat => pool'[i] <= minted'
        /\ \A j \in 1..Len(served') : served'[j].bat \in Nat => served'[j].bat <= minted'
    BY <2>1, <2>2, <2>3, <2>4 DEF TokenInv
  <2>9. QED
    BY <2>5, <2>6, <2>7, <2>8 DEF TokenInv
<1>4. ASSUME NEW bats \in Imports, NEW mode \in {"replace", "merge"}, ImportPool(bats, mode) PROVE TokenInv'
  <2> DEFINE base == IF mode = "replace" THEN <<>> ELSE pool
  <2>0. /\ base \in Seq(Tokens) /\ Len(base) \in Nat /\ Len(base) <= Len(pool)
        /\ \A i \in 1..Len(base) : base[i] = pool[i] /\ i \in 1..Len(pool)
        /\ pool' = Added(bats, base) /\ UNCHANGED <<minted, served>>
    BY <1>0, <1>4 DEF ImportPool
  <2> HIDE DEF base
  <2>1. /\ \A i, j \in 1..Len(base) : i # j => base[i] # base[j]
        /\ \A i \in 1..Len(base), j \in 1..Len(served) : base[i] # served[j].bat
        /\ \A i \in 1..Len(base) : base[i] \in Nat => base[i] <= minted
    BY <2>0 DEF TokenInv
  <2>2. CASE pool' = base
    BY <2>0, <2>1, <2>2 DEF TokenInv
  <2>3. ASSUME NEW b \in Foreign, bats = <<b>>, pool' = base \o <<b>>,
               \A j \in 1..Len(base) : b # base[j]
        PROVE  TokenInv'
    <3>1. Len(pool') = Len(base) + 1 /\ \A i \in 1..Len(pool') : pool'[i] = IF i = Len(base) + 1 THEN b ELSE base[i]
      BY <2>0, <2>3
    <3>2. b \notin Nat /\ \A j \in 1..Len(served) : served[j].bat # b
      BY <1>4, <2>3, ForeignAssumption DEF ImportPool, Served
    <3>3. \A i \in 1..Len(pool') : i # Len(base) + 1 => i \in 1..Len(base)
      BY <2>0, <3>1
    <3>4. \A i, j \in 1..Len(pool') : i # j => pool'[i] # pool'[j]
      BY <2>3, <2>1, <3>1, <3>3
    <3>5. \A i \in 1..Len(pool'), j \in 1..Len(served) : pool'[i] # served[j].bat
      BY <2>1, <3>1, <3>2, <3>3
    <3>6. \A i \in 1..Len(pool') : pool'[i] \in Nat => pool'[i] <= minted
      BY <2>1, <3>1, <3>2, <3>3
    <3>7. QED
      BY <2>0, <3>4, <3>5, <3>6 DEF TokenInv
  <2>4. QED
    <3>1. CASE bats = <<>>
      <4>1. pool' = base \o <<>> \/ pool' = base
        BY <2>0, <3>1 DEF Added
      <4>2. QED
        BY <2>0, <2>2, <4>1
    <3>2. ASSUME NEW b \in Foreign, bats = <<b>> PROVE TokenInv'
      <4>1. Len(bats) = 1 /\ bats[1] = b
        BY <3>2
      <4>2. QED
        BY <2>0, <2>2, <2>3, <3>2, <4>1 DEF Added
    <3>3. QED
      BY <3>1, <3>2 DEF Imports
<1>5. ASSUME NEW c \in Calls, Continue(c) PROVE TokenInv'
  BY <1>1, <1>2, <1>3, <1>5
  DEF Continue, Turn, Load, InfoLoaded, KeysLoaded, KeysUnusable, LoadFailed, TopUp, AskMint, MintFailed,
      Ensured, Pop, PoolEmpty
<1>6. QED
  BY <1>1, <1>4, <1>5 DEF Next, GetBlindAuthToken, Ensure, vars

\* However requests, ensure and importPool interleave, a token leaves the pool with the
\* request that gets it.
THEOREM ServedOnceHolds == Spec => []ServedOnce
<1>1. Init => TokenInv
  BY DEF Init, TokenInv
<1>2. TypeOK /\ TokenInv => ServedOnce
  BY DEF TokenInv, ServedOnce, InPool
<1>3. QED
  BY <1>1, <1>2, TokenStep, TypeCorrect, PTL DEF Spec

-----------------------------------------------------------------------------
\* Every earlier call has released its lock.
Ready(c) == \A d \in Callers : d < c => d \in released

\* The chain: calls in the order they were made, each behind its predecessor; lockChain is
\* the newest, unless all have released.
LockInv ==
  /\ \A c \in Callers : c \in released <=> stage[c] \in {"done", "failed"}
  /\ \A c, d \in Callers : d < c /\ stage[d] = "idle" => stage[c] = "idle"
  /\ \A c \in Callers : InBody(c) \/ c \in released => Ready(c)
  /\ \A c \in Callers : stage[c] = "queued" /\ behind[c] = None => Ready(c)
  /\ \A c \in Callers : stage[c] = "queued" /\ behind[c] # None =>
       behind[c] < c /\ \A d \in Callers : d < c => d <= behind[c]
  /\ lockChain = None => \A c \in Callers : stage[c] = "idle" \/ c \in released
  /\ lockChain # None => \A c \in Callers : c > lockChain => stage[c] = "idle"
  /\ lockChain # None => stage[lockChain] # "idle"

LEMMA LockInit == Init => LockInv
BY NoneAssumption DEF Init, LockInv, InBody, Calls

\* A step inside the body of a call, or of a call that has no lock.
LEMMA BodyStep ==
  ASSUME TypeOK, LockInv, UNCHANGED lockVars, NEW c \in Calls,
         c \in Callers => InBody(c) /\ InBody(c)',
         \A d \in Calls \ {c} : stage'[d] = stage[d]
  PROVE  LockInv'
<1>0. Callers \subseteq Nat /\ Callers \subseteq Calls
  BY CallsAssumption DEF Calls
<1>1. UNCHANGED <<lockChain, behind, released>>
  BY DEF lockVars
<1>2. \A d \in Callers : Ready(d)' <=> Ready(d)
  BY <1>1 DEF Ready
<1>3. ASSUME NEW d \in Callers
      PROVE  /\ InBody(d)' <=> InBody(d)
             /\ stage'[d] = "idle" <=> stage[d] = "idle"
             /\ stage'[d] = "queued" <=> stage[d] = "queued"
             /\ stage'[d] \in {"done", "failed"} <=> stage[d] \in {"done", "failed"}
  <2>1. CASE d = c
    BY <2>1 DEF InBody
  <2>2. CASE d # c
    <3>1. stage'[d] = stage[d]
      BY <1>0, <2>2
    <3>2. QED
      BY <3>1 DEF InBody
  <2>3. QED
    BY <2>1, <2>2
<1>4. lockChain \in Callers \cup {None}
  BY DEF TypeOK
<1>5. \A d \in Callers : d \in released' <=> stage'[d] \in {"done", "failed"}
  BY <1>1, <1>3 DEF LockInv
<1>6. \A d, e \in Callers : d < e /\ stage'[d] = "idle" => stage'[e] = "idle"
  BY <1>3 DEF LockInv
<1>7. \A d \in Callers : InBody(d)' \/ d \in released' => Ready(d)'
  BY <1>1, <1>2, <1>3 DEF LockInv
<1>8. /\ \A d \in Callers : stage'[d] = "queued" /\ behind'[d] = None => Ready(d)'
      /\ \A d \in Callers : stage'[d] = "queued" /\ behind'[d] # None =>
           behind'[d] < d /\ \A e \in Callers : e < d => e <= behind'[d]
  BY <1>1, <1>2, <1>3 DEF LockInv
<1>9. /\ lockChain' = None => \A d \in Callers : stage'[d] = "idle" \/ d \in released'
      /\ lockChain' # None => \A d \in Callers : d > lockChain' => stage'[d] = "idle"
      /\ lockChain' # None => stage'[lockChain'] # "idle"
  BY <1>1, <1>3, <1>4 DEF LockInv
<1>10. QED
  BY <1>5, <1>6, <1>7, <1>8, <1>9 DEF LockInv

\* The body of a call ends.
LEMMA EndStep ==
  ASSUME TypeOK, LockInv, NEW c \in Callers, InBody(c), Unlock(c),
         NEW s \in {"done", "failed"}, Goes(c, s)
  PROVE  LockInv'
<1>0. Callers \subseteq Nat /\ Callers \subseteq Calls
  BY CallsAssumption DEF Calls
<1>1. \A d \in Callers : stage'[d] = IF d = c THEN s ELSE stage[d]
  BY <1>0 DEF Goes, TypeOK
<1>2. released' = released \cup {c} /\ behind' = behind
  BY DEF Unlock
<1>3. \A d \in Callers : Ready(d) => Ready(d)'
  BY <1>2 DEF Ready
<1>4. \A d \in Callers : d \in released' <=> stage'[d] \in {"done", "failed"}
  BY <1>1, <1>2 DEF LockInv
<1>5. stage[c] # "idle" /\ Ready(c)
  BY DEF InBody, LockInv
<1>6. \A d, e \in Callers : d < e /\ stage'[d] = "idle" => stage'[e] = "idle"
  BY <1>1, <1>5 DEF LockInv
<1>7. \A d \in Callers : InBody(d)' \/ d \in released' => Ready(d)'
  BY <1>1, <1>2, <1>3, <1>5 DEF InBody, LockInv
<1>8. \A d \in Callers : stage'[d] = "queued" => stage[d] = "queued"
  BY <1>1
<1>9. \A d \in Callers : stage'[d] = "queued" /\ behind'[d] = None => Ready(d)'
  BY <1>2, <1>3, <1>8 DEF LockInv
<1>10. \A d \in Callers : stage'[d] = "queued" /\ behind'[d] # None =>
         behind'[d] < d /\ \A e \in Callers : e < d => e <= behind'[d]
  BY <1>2, <1>8 DEF LockInv
<1>11. lockChain' = None => \A d \in Callers : stage'[d] = "idle" \/ d \in released'
  <2>1. CASE lockChain = c
    <3>1. \A d \in Callers : d > c => stage[d] = "idle"
      BY <2>1, NoneAssumption DEF LockInv
    <3>2. \A d \in Callers : d < c => d \in released
      BY <1>5 DEF Ready
    <3>3. \A d \in Callers : d < c \/ d > c \/ d = c
      BY <1>0
    <3>4. QED
      BY <1>1, <1>2, <3>1, <3>2, <3>3
  <2>2. CASE lockChain # c
    BY <1>1, <1>2, <2>2 DEF Unlock, LockInv
  <2>3. QED
    BY <2>1, <2>2
<1>12. lockChain' # None => lockChain' = lockChain
  BY DEF Unlock
<1>13. lockChain' # None => \A d \in Callers : d > lockChain' => stage'[d] = "idle"
  BY <1>1, <1>5, <1>12 DEF LockInv
<1>14. lockChain' # None => stage'[lockChain'] # "idle"
  BY <1>1, <1>12 DEF LockInv, TypeOK
<1>15. QED
  BY <1>4, <1>6, <1>7, <1>9, <1>10, <1>11, <1>13, <1>14 DEF LockInv

LEMMA LockStep == TypeOK /\ LockInv /\ [Next]_vars => LockInv'
<1> SUFFICES ASSUME TypeOK, LockInv, [Next]_vars PROVE LockInv'
  OBVIOUS
<1>0. Callers \subseteq Nat /\ Callers \subseteq Calls /\ None \notin Callers
  BY CallsAssumption, NoneAssumption DEF Calls
<1>1. ASSUME NEW c \in Callers, GetBlindAuthToken(c) PROVE LockInv'
  <2>1. /\ stage[c] = "idle" /\ \A d \in Callers : d < c => stage[d] # "idle"
        /\ \A d \in Callers : stage'[d] = IF d = c THEN "queued" ELSE stage[d]
        /\ \A d \in Callers : behind'[d] = IF d = c THEN lockChain ELSE behind[d]
        /\ lockChain' = c /\ released' = released
    BY <1>0, <1>1 DEF GetBlindAuthToken, Goes, TypeOK
  <2>2. \A d \in Callers : Ready(d)' <=> Ready(d)
    BY <2>1 DEF Ready
  <2>3. \A d \in Callers : d > c => stage[d] = "idle"
    BY <1>0, <2>1 DEF LockInv
  <2>4. lockChain = None => Ready(c)
    BY <2>1 DEF Ready, LockInv
  <2>5. lockChain # None => lockChain \in Callers /\ lockChain < c /\ \A d \in Callers : d < c => d <= lockChain
    <3> SUFFICES ASSUME lockChain # None
                 PROVE  lockChain \in Callers /\ lockChain < c /\ \A d \in Callers : d < c => d <= lockChain
      OBVIOUS
    <3>1. lockChain \in Callers /\ stage[lockChain] # "idle"
      BY DEF LockInv, TypeOK
    <3>2. lockChain < c
      BY <1>0, <2>1, <2>3, <3>1
    <3>3. \A d \in Callers : d < c => ~(d > lockChain)
      BY <2>1 DEF LockInv
    <3>4. QED
      BY <1>0, <3>1, <3>2, <3>3
  <2>6. \A d \in Callers : InBody(d)' => InBody(d)
    BY <2>1 DEF InBody
  <2>7. /\ \A d \in Callers : d \in released' <=> stage'[d] \in {"done", "failed"}
        /\ \A d, e \in Callers : d < e /\ stage'[d] = "idle" => stage'[e] = "idle"
        /\ \A d \in Callers : InBody(d)' \/ d \in released' => Ready(d)'
    BY <1>0, <2>1, <2>2, <2>6 DEF LockInv
  <2>8. /\ \A d \in Callers : stage'[d] = "queued" /\ behind'[d] = None => Ready(d)'
        /\ \A d \in Callers : stage'[d] = "queued" /\ behind'[d] # None =>
             behind'[d] < d /\ \A e \in Callers : e < d => e <= behind'[d]
    BY <2>1, <2>2, <2>4, <2>5 DEF LockInv
  <2>9. \A d \in Callers : d > lockChain' => stage'[d] = "idle"
    BY <1>0, <2>1, <2>3
  <2>10. QED
    BY <1>0, <2>1, <2>7, <2>8, <2>9 DEF LockInv
<1>2. ASSUME NEW c \in Callers, Turn(c) PROVE LockInv'
  <2>1. /\ stage[c] = "queued" /\ (behind[c] # None => behind[c] \in released)
        /\ \A d \in Callers : stage'[d] = IF d = c THEN "init" ELSE stage[d]
        /\ UNCHANGED <<lockChain, behind, released>>
    BY <1>0, <1>2 DEF Turn, Goes, TypeOK, lockVars
  <2>2. Ready(c)
    <3>1. CASE behind[c] = None
      BY <2>1, <3>1 DEF LockInv
    <3>2. CASE behind[c] # None
      <4>1. behind[c] \in Callers /\ behind[c] \in released /\ Ready(behind[c])
        BY <2>1, <3>2 DEF LockInv, TypeOK
      <4>2. \A d \in Callers : d < c => d < behind[c] \/ d = behind[c]
        <5>1. \A d \in Callers : d < c => d <= behind[c]
          BY <2>1, <3>2 DEF LockInv
        <5>2. \A d \in Callers : d \in Nat /\ behind[c] \in Nat
          BY <1>0, <4>1
        <5>3. \A d, b \in Nat : d <= b => d < b \/ d = b
          OBVIOUS
        <5>4. QED
          BY <5>1, <5>2, <5>3
      <4>3. QED
        BY <4>1, <4>2 DEF Ready
    <3>3. QED
      BY <3>1, <3>2
  <2>3. \A d \in Callers : Ready(d)' <=> Ready(d)
    BY <2>1 DEF Ready
  <2>4. \A d \in Callers : InBody(d)' => InBody(d) \/ d = c
    BY <2>1 DEF InBody
  <2>5. lockChain \in Callers \cup {None}
    BY DEF TypeOK
  <2>6. QED
    BY <2>1, <2>2, <2>3, <2>4, <2>5 DEF LockInv
<1>3. ASSUME NEW c \in Calls,
             \/ Load(c) \/ InfoLoaded(c) \/ KeysLoaded(c) \/ TopUp(c) \/ AskMint(c) \/ Minted(c) \/ Ensured(c)
      PROVE  LockInv'
  <2>1. UNCHANGED lockVars /\ \A d \in Calls \ {c} : stage'[d] = stage[d]
    BY <1>3 DEF Load, InfoLoaded, KeysLoaded, TopUp, AskMint, Minted, Ensured, Goes, TypeOK
  <2>2. c \in Callers => InBody(c) /\ InBody(c)'
    BY <1>0, <1>3, CallsAssumption DEF Load, InfoLoaded, KeysLoaded, TopUp, AskMint, Minted, Ensured, Goes, TypeOK, InBody
  <2>3. QED
    BY <2>1, <2>2, BodyStep
<1>4. ASSUME NEW c \in Calls, KeysUnusable(c) \/ LoadFailed(c) \/ MintFailed(c) \/ PoolEmpty(c)
      PROVE  LockInv'
  <2>1. Fails(c) /\ InBody(c)
    BY <1>4 DEF KeysUnusable, LoadFailed, MintFailed, PoolEmpty, InBody
  <2>2. CASE c \in Callers
    BY <2>1, <2>2, EndStep DEF Fails
  <2>3. CASE c \notin Callers
    <3>1. UNCHANGED lockVars /\ \A d \in Calls \ {c} : stage'[d] = stage[d]
      BY <2>1, <2>3 DEF Fails, Goes, TypeOK
    <3>2. QED
      BY <2>3, <3>1, BodyStep
  <2>4. QED
    BY <2>2, <2>3
<1>5. ASSUME NEW c \in Callers, Pop(c) PROVE LockInv'
  <2>1. InBody(c) /\ Unlock(c) /\ Goes(c, "done")
    BY <1>5 DEF Pop, InBody
  <2>2. QED
    BY <2>1, EndStep
<1>6. ASSUME NEW c \in Ensurers, NEW n \in Sizes, Ensure(c, n) PROVE LockInv'
  <2>1. c \in Calls /\ c \notin Callers
    BY CallsAssumption DEF Calls
  <2>2. UNCHANGED lockVars /\ \A d \in Calls \ {c} : stage'[d] = stage[d]
    BY <1>6 DEF Ensure, Goes, TypeOK
  <2>3. QED
    BY <2>1, <2>2, BodyStep
<1>7. CASE (\E bats \in Imports, mode \in {"replace", "merge"} : ImportPool(bats, mode)) \/ UNCHANGED vars
  BY <1>7 DEF ImportPool, vars, lockVars, LockInv, InBody, Ready
<1>8. ASSUME NEW c \in Calls, Continue(c) PROVE LockInv'
  BY <1>2, <1>3, <1>4, <1>5, <1>8 DEF Continue, Pop
<1>9. QED
  BY <1>1, <1>6, <1>7, <1>8 DEF Next

LEMMA LockHolds == Spec => []LockInv
BY LockInit, LockStep, TypeCorrect, PTL DEF Spec

LEMMA LockMeansOne == LockInv => OneAtATime
<1> SUFFICES ASSUME LockInv, NEW c \in Callers, NEW d \in Callers, InBody(c), InBody(d), c # d PROVE FALSE
  BY DEF OneAtATime
<1>1. c < d \/ d < c
  BY CallsAssumption
<1>2. ASSUME NEW x \in Callers, NEW y \in Callers, InBody(x), InBody(y), x < y PROVE FALSE
  BY <1>2 DEF LockInv, Ready, InBody
<1>3. QED
  BY <1>1, <1>2

\* The bodies of getBlindAuthToken exclude each other, however many calls queue and fail.
THEOREM OneAtATimeHolds == Spec => []OneAtATime
BY LockHolds, LockMeansOne, PTL

\* Tokens go out in call order: whoever is served after a call was made after it.
LEMMA ServedInOrderStep ==
  ASSUME TypeOK, LockInv, [Next]_vars, ServedInOrder,
         \A i \in 1..Len(served) : served[i].call \in released
  PROVE  ServedInOrder' /\ \A i \in 1..Len(served') : served'[i].call \in released'
<1>0. /\ served \in Seq([call : Callers, bat : Tokens]) /\ Len(served) \in Nat
      /\ \A i \in 1..Len(served) : served[i].call \in Callers
      /\ Callers \subseteq Nat
  <2>1. served \in Seq([call : Callers, bat : Tokens])
    BY DEF TypeOK
  <2>2. \A i \in 1..Len(served) : served[i] \in [call : Callers, bat : Tokens]
    BY <2>1, ElementOfSeq
  <2>3. QED
    BY <2>1, <2>2, CallsAssumption
<1>1. ASSUME UNCHANGED served, released \subseteq released'
      PROVE  ServedInOrder' /\ \A i \in 1..Len(served') : served'[i].call \in released'
  BY <1>1 DEF ServedInOrder
<1>2. ASSUME NEW c \in Calls, Pop(c)
      PROVE  ServedInOrder' /\ \A i \in 1..Len(served') : served'[i].call \in released'
  <2> DEFINE r == [call |-> c, bat |-> pool[Len(pool)]]
  <2>1. served' = Append(served, r) /\ released' = released \cup {c} /\ InBody(c) /\ c \in Callers
    BY <1>2 DEF Pop, Unlock, InBody
  <2>2. /\ Len(served') = Len(served) + 1 /\ served'[Len(served) + 1] = r
        /\ \A i \in 1..Len(served) : served'[i] = served[i]
    BY <1>0, <2>1
  <2>3. r.call = c
    OBVIOUS
  <2> HIDE DEF r
  <2>4. \A i \in 1..Len(served) : served[i].call < c
    <3> SUFFICES ASSUME NEW i \in 1..Len(served) PROVE served[i].call < c
      OBVIOUS
    <3>1. served[i].call \in Callers /\ served[i].call \in released
      BY <1>0
    <3>2. c \notin released
      BY <2>1 DEF LockInv, InBody
    <3>3. ~(c < served[i].call)
      BY <2>1, <3>1, <3>2 DEF LockInv, Ready
    <3>4. served[i].call \in Nat /\ c \in Nat /\ served[i].call # c
      BY <1>0, <2>1, <3>1, <3>2
    <3>5. QED
      BY <3>3, <3>4
  <2>5. \A i \in 1..Len(served') : i = Len(served) + 1 \/ i \in 1..Len(served)
    BY <1>0, <2>2
  <2>6. \A i, j \in 1..Len(served') : i < j => i \in 1..Len(served)
    BY <1>0, <2>2
  <2>7. QED
    BY <2>1, <2>2, <2>3, <2>4, <2>5, <2>6 DEF ServedInOrder
<1>3. ASSUME NEW c \in Calls, Continue(c), ~Pop(c)
      PROVE  UNCHANGED served /\ released \subseteq released'
  <2>1. Fails(c) => released \subseteq released'
    BY DEF Fails, Unlock, lockVars
  <2>2. QED
    BY <1>3, <2>1
    DEF Continue, Turn, Load, InfoLoaded, KeysLoaded, KeysUnusable, LoadFailed, TopUp, AskMint, Minted, MintFailed,
        Ensured, PoolEmpty, lockVars
<1>4. QED
  BY <1>1, <1>2, <1>3 DEF Next, GetBlindAuthToken, Ensure, ImportPool, vars, lockVars

\* Requests are served in the order of their calls, although some of them fail.
THEOREM ServedInOrderHolds == Spec => []ServedInOrder
<1> DEFINE I == ServedInOrder /\ \A i \in 1..Len(served) : served[i].call \in released
<1>1. Init => I
  BY DEF Init, ServedInOrder
<1>2. TypeOK /\ LockInv /\ I /\ [Next]_vars => I'
  BY ServedInOrderStep
<1>3. QED
  BY <1>1, <1>2, LockHolds, TypeCorrect, PTL DEF Spec

-----------------------------------------------------------------------------
\* The application leaves the pool alone.
Alone == imports = 0 /\ \A c \in Ensurers : stage[c] = "idle"

\* What a call is about to mint still fits, since it calculated it when nobody else was in
\* the body, and it will be enough for the call.
FitInv ==
  Alone =>
    /\ Len(pool) <= Target
    /\ \A c \in Callers : least[c] = 1
    /\ \A c \in Callers : stage[c] \in {"authorising", "minting"} =>
         batch[c] >= 1 /\ Len(pool) + batch[c] <= Target
    /\ \A c \in Callers : stage[c] = "ensured" => pool # <<>>

LEMMA FitStep == BaseInv /\ LockInv /\ FitInv /\ [Next]_vars => FitInv'
<1> SUFFICES ASSUME BaseInv, LockInv, FitInv, [Next]_vars, Alone' PROVE FitInv'
  BY DEF FitInv
<1>0. /\ TypeOK /\ InfoInv /\ Callers \subseteq Calls /\ Ensurers \subseteq Calls
      /\ pool \in Seq(Tokens) /\ Len(pool) \in Nat /\ Target \in Nat \ {0}
  BY SizesAssumption DEF BaseInv, TypeOK, Calls
<1>1. ASSUME UNCHANGED <<pool, least, batch>>, Alone,
             \A c \in Callers : stage'[c] \in {"authorising", "minting", "ensured"} =>
               stage'[c] = stage[c] \/ (stage[c] = "authorising" /\ stage'[c] = "minting")
      PROVE  FitInv'
  BY <1>1 DEF FitInv
<1>2. ASSUME NEW c \in Callers, GetBlindAuthToken(c) PROVE FitInv'
  <2>1. Alone
    BY <1>0, <1>2, CallsAssumption DEF Alone, GetBlindAuthToken, Goes, TypeOK
  <2>2. QED
    BY <1>0, <1>1, <1>2, <2>1 DEF GetBlindAuthToken, Goes, TypeOK
<1>3. ASSUME NEW c \in Ensurers, NEW n \in Sizes, Ensure(c, n) PROVE FALSE
  BY <1>0, <1>3 DEF Ensure, Goes, Alone, TypeOK
<1>4. ASSUME NEW bats \in Imports, NEW mode \in {"replace", "merge"}, ImportPool(bats, mode) PROVE FALSE
  BY <1>0, <1>4 DEF ImportPool, Alone, TypeOK
<1>5. ASSUME NEW c \in Calls, Continue(c) PROVE FitInv'
  <2>1. c \in Callers
    <3>1. stage'[c] # "idle"
      BY <1>5, <1>0
      DEF Continue, Turn, Load, InfoLoaded, KeysLoaded, KeysUnusable, LoadFailed, TopUp, AskMint, Minted, MintFailed,
          Ensured, Pop, PoolEmpty, Fails, Goes, TypeOK
    <3>2. QED
      BY <3>1 DEF Alone, Calls
  <2>2. Alone
    <3>1. \A e \in Ensurers : stage'[e] = stage[e]
      BY <1>5, <1>0, <2>1, CallsAssumption
      DEF Continue, Turn, Load, InfoLoaded, KeysLoaded, KeysUnusable, LoadFailed, TopUp, AskMint, Minted, MintFailed,
          Ensured, Pop, PoolEmpty, Fails, Goes, TypeOK
    <3>2. imports' = imports
      BY <1>5
      DEF Continue, Turn, Load, InfoLoaded, KeysLoaded, KeysUnusable, LoadFailed, TopUp, AskMint, Minted, MintFailed,
          Ensured, Pop, PoolEmpty
    <3>3. QED
      BY <3>1, <3>2 DEF Alone
  <2>3. /\ Len(pool) <= Target /\ least[c] = 1
        /\ stage[c] \in {"authorising", "minting"} => batch[c] >= 1 /\ Len(pool) + batch[c] <= Target
        /\ stage[c] = "ensured" => pool # <<>>
    BY <2>1, <2>2 DEF FitInv
  <2>4. \A d \in Callers \ {c} : stage'[d] = stage[d]
    BY <1>5, <1>0
    DEF Continue, Turn, Load, InfoLoaded, KeysLoaded, KeysUnusable, LoadFailed, TopUp, AskMint, Minted, MintFailed,
        Ensured, Pop, PoolEmpty, Fails, Goes, TypeOK
  <2>5. InBody(c) => \A d \in Callers \ {c} : stage'[d] \notin {"authorising", "minting", "ensured"}
    BY <2>1, <2>4, LockMeansOne DEF OneAtATime, InBody
  <2>6. CASE Turn(c) \/ Load(c) \/ InfoLoaded(c) \/ KeysLoaded(c) \/ AskMint(c) \/ Ensured(c)
    <3>1. UNCHANGED <<pool, least, batch>>
      BY <2>6 DEF Turn, Load, InfoLoaded, KeysLoaded, AskMint, Ensured
    <3>2. stage'[c] \in {"authorising", "minting", "ensured"} => stage[c] = "authorising" /\ stage'[c] = "minting"
      BY <1>0, <2>6 DEF Turn, Load, InfoLoaded, KeysLoaded, AskMint, Ensured, Goes, TypeOK
    <3>3. QED
      BY <1>1, <2>2, <2>4, <3>1, <3>2
  <2>7. CASE KeysUnusable(c) \/ LoadFailed(c) \/ MintFailed(c) \/ PoolEmpty(c)
    <3>1. UNCHANGED <<pool, least, batch>> /\ stage'[c] = "failed"
      BY <1>0, <2>7 DEF KeysUnusable, LoadFailed, MintFailed, PoolEmpty, Fails, Goes, TypeOK
    <3>2. QED
      BY <1>1, <2>2, <2>4, <3>1
  <2>8. CASE TopUp(c)
    <3>0. /\ InBody(c) /\ info \in Nat /\ UNCHANGED <<pool, least>>
      BY <1>0, <2>8, ArgumentsAssumption DEF TopUp, InBody, InfoInv, TypeOK
    <3>1. Greater(Target, least[c]) = Target
      BY <1>0, <2>3 DEF Greater
    <3>2. /\ Batch(c) = Lesser(Target - Len(pool), GetBatMaxMint)
          /\ GetBatMaxMint \in 1..MaxPerMint /\ MaxPerMint \in Nat
      BY <3>0, <3>1, GetBatMaxMintType, SizesAssumption DEF Batch
    <3>3. CASE Len(pool) >= least[c] \/ Batch(c) <= 0
      <4>1. Len(pool) >= 1
        BY <1>0, <2>3, <3>2, <3>3 DEF Lesser
      <4>2. stage'[c] = "ensured" /\ UNCHANGED batch /\ pool # <<>>
        BY <1>0, <2>8, <3>3, <4>1 DEF TopUp, Goes, TypeOK
      <4>3. QED
        BY <2>2, <2>4, <2>5, <3>0, <4>2 DEF FitInv
    <3>4. CASE ~(Len(pool) >= least[c] \/ Batch(c) <= 0)
      <4>1. Batch(c) >= 1 /\ Len(pool) + Batch(c) <= Target
        BY <1>0, <2>3, <3>2, <3>4 DEF Lesser
      <4>2. stage'[c] = "authorising" /\ batch'[c] = Batch(c)
        BY <1>0, <2>8, <3>4 DEF TopUp, Goes, TypeOK
      <4>3. QED
        BY <2>2, <2>4, <2>5, <3>0, <4>1, <4>2 DEF FitInv
    <3>5. QED
      BY <3>3, <3>4
  <2>9. CASE Minted(c)
    <3>0. /\ InBody(c) /\ batch[c] \in Nat /\ stage'[c] = "ensured" /\ UNCHANGED least
          /\ batch[c] >= 1 /\ Len(pool) + batch[c] <= Target
      BY <1>0, <2>3, <2>9 DEF Minted, InBody, Goes, TypeOK
    <3>1. Len(pool') = Len(pool) + batch[c]
      <4>1. pool' = pool \o [i \in 1..batch[c] |-> minted + i] /\ minted \in Nat
        BY <1>0, <2>9 DEF Minted, TypeOK
      <4> DEFINE new == [i \in 1..batch[c] |-> minted + i]
      <4>2. new \in Seq(Nat) /\ Len(new) = batch[c]
        BY <3>0, <4>1, NewTokens
      <4>3. pool' = pool \o new
        BY <4>1
      <4> HIDE DEF new
      <4>4. QED
        BY <1>0, <4>2, <4>3
    <3>2. Len(pool') <= Target /\ pool' # <<>>
      BY <1>0, <3>0, <3>1
    <3>3. QED
      BY <2>2, <2>4, <2>5, <3>0, <3>2 DEF FitInv
  <2>10. CASE Pop(c)
    <3>1. InBody(c) /\ stage'[c] = "done" /\ UNCHANGED <<least, batch>>
      BY <1>0, <2>10 DEF Pop, InBody, Goes, TypeOK
    <3>2. Len(pool') <= Target
      <4>1. pool' = SubSeq(pool, 1, Len(pool) - 1) /\ Len(pool) >= 1
        BY <1>0, <2>10 DEF Pop
      <4>2. 1 \in Int /\ Len(pool) - 1 \in Int /\ \A i \in 1..(Len(pool) - 1) : pool[i] \in Tokens
        BY <1>0, <4>1
      <4>3. Len(pool') = IF 1 <= Len(pool) - 1 THEN (Len(pool) - 1) - 1 + 1 ELSE 0
        BY <4>1, <4>2, SubSeqProperties
      <4>4. QED
        BY <1>0, <2>3, <4>1, <4>3
    <3>3. QED
      BY <2>2, <2>4, <2>5, <3>1, <3>2 DEF FitInv
  <2>11. QED
    BY <1>5, <2>6, <2>7, <2>8, <2>9, <2>10 DEF Continue
<1>6. CASE UNCHANGED vars
  BY <1>1, <1>6 DEF vars, Alone
<1>7. QED
  BY <1>2, <1>3, <1>4, <1>5, <1>6 DEF Next

\* As long as the application leaves the pool alone it stays within desiredPoolSize, and a
\* request whose top-up succeeded gets a token, whatever limit the mint announces.
THEOREM PoolWithinTargetHolds == Spec => []PoolWithinTarget
<1>1. Init => FitInv
  BY SizesAssumption DEF Init, FitInv, Calls
<1>2. FitInv => PoolWithinTarget
  BY DEF FitInv, PoolWithinTarget, Alone
<1>3. QED
  BY <1>1, <1>2, FitStep, BaseHolds, LockHolds, PTL DEF Spec

-----------------------------------------------------------------------------
(* Clear-auth tokens.                                                       *)

Fresh(tok) ==
  /\ tok \in RefreshTokens /\ tok.session <= session
  /\ \A s \in Replaced : s.session = tok.session => s.serial < tok.serial

Tasks == [task : {"onTokens", "listener"}, response : Responses]
           \cup [task : {"resume"}, response : Responses \cup {Undefined}]

Queued(task) == {i \in 1..Len(micro) : micro[i].task = task}

TypeInv ==
  /\ session \in Nat /\ oidc \in Providers \cup {Undefined}
  /\ Replaced \subseteq RefreshTokens /\ \A s \in Replaced : s.session <= session
  /\ refresh \in RefreshTokens \cup {Undefined}
  /\ inflight # Undefined => inflight.token \in RefreshTokens /\ inflight.by = oidc /\ oidc # Undefined
  /\ micro \in Seq(Tasks)

\* What microtasks will install is fresh.
QueueInv ==
  \A i \in 1..Len(micro) :
    LET t == micro[i].response IN t # Undefined => t.refresh = Undefined \/ Fresh(t.refresh)

\* A token that is not fresh is about to be replaced.
HeldInv ==
  refresh # Undefined => Fresh(refresh)
                    \/ \E i \in Queued("listener") : micro[i].response.refresh # Undefined

SentInv == inflight # Undefined => Fresh(inflight.token) \/ Queued("resume") # {}

RefreshInv == TypeInv /\ QueueInv /\ HeldInv /\ SentInv

LEMMA RefreshInit == ClearInit => RefreshInv
<1> SUFFICES ASSUME ClearInit PROVE RefreshInv
  OBVIOUS
<1>1. micro = <<>> /\ Len(micro) = 0 /\ micro \in Seq(Tasks)
  BY DEF ClearInit
<1>2. QED
  BY <1>1 DEF ClearInit, RefreshInv, TypeInv, QueueInv, HeldInv, SentInv, Replaced

\* Without microtasks everything held is fresh.
LEMMA AtRest ==
  ASSUME RefreshInv, micro = <<>>
  PROVE  (refresh # Undefined => Fresh(refresh)) /\ (inflight # Undefined => Fresh(inflight.token))
<1>1. \A task : Queued(task) = {}
  BY DEF Queued
<1>2. QED
  BY <1>1 DEF RefreshInv, HeldInv, SentInv

\* Sessions come and go; a fresh token stays fresh while none is exchanged.
LEMMA FreshStays ==
  ASSUME RefreshInv, session' \in Nat, session <= session', Replaced' \subseteq Replaced
  PROVE  \A tok : Fresh(tok) => Fresh(tok)'
BY DEF RefreshInv, TypeInv, Fresh, RefreshTokens

\* A step of the application, or of time, that starts no microtask.
LEMMA QuietStep ==
  ASSUME RefreshInv, micro = <<>>, micro' = <<>>, Replaced' \subseteq Replaced,
         session' \in Nat, session <= session', oidc' \in Providers \cup {Undefined},
         refresh' \in {refresh, Undefined},
         \/ inflight' = inflight /\ (oidc' = oidc \/ inflight = Undefined)
         \/ /\ refresh # Undefined /\ oidc # Undefined /\ oidc' = oidc
            /\ inflight' = [gen |-> generation, by |-> oidc, token |-> refresh]
  PROVE  RefreshInv'
<1>1. /\ \A tok : Fresh(tok) => Fresh(tok)'
      /\ refresh # Undefined => Fresh(refresh)
      /\ inflight # Undefined => Fresh(inflight.token)
  BY FreshStays, AtRest
<1>2. Len(micro') = 0 /\ micro' \in Seq(Tasks)
  OBVIOUS
<1>3. TypeInv'
  BY <1>2 DEF RefreshInv, TypeInv, RefreshTokens
<1>4. QueueInv'
  BY <1>2 DEF QueueInv
<1>5. HeldInv'
  BY <1>1 DEF HeldInv
<1>6. SentInv'
  BY <1>1 DEF SentInv
<1>7. QED
  BY <1>3, <1>4, <1>5, <1>6 DEF RefreshInv

LEMMA FannedTasks ==
  ASSUME NEW p, NEW t \in Responses
  PROVE  /\ Fanned(p, t) \in Seq(Tasks)
         /\ \A i \in 1..Len(Fanned(p, t)) : Fanned(p, t)[i].response = t
         /\ p = oidc => \E i \in 1..Len(Fanned(p, t)) : Fanned(p, t)[i].task = "listener"
<1> DEFINE a == [task |-> "onTokens", response |-> t]
           b == [task |-> "listener", response |-> t]
<1>1. a \in Tasks /\ b \in Tasks /\ a.response = t /\ b.response = t /\ b.task = "listener"
  BY DEF Tasks
<1> HIDE DEF a, b
<1>2. CASE Wired /\ p = oidc
  BY <1>1, <1>2 DEF Fanned, a, b
<1>3. CASE Wired /\ p # oidc
  BY <1>1, <1>3 DEF Fanned, a, b
<1>4. CASE ~Wired /\ p = oidc
  BY <1>1, <1>4 DEF Fanned, a, b
<1>5. CASE ~Wired /\ p # oidc
  BY <1>1, <1>5 DEF Fanned, a, b
<1>6. QED
  BY <1>2, <1>3, <1>4, <1>5

\* A login: its token is the first of its session.
LEMMA GrantedStep ==
  ASSUME RefreshInv, NEW p \in Providers, NEW refreshable \in BOOLEAN,
         NEW exp \in {"unknown", "valid"}, Granted(p, refreshable, exp),
         UNCHANGED <<refresh, oidc, inflight, Replaced>>
  PROVE  RefreshInv'
<1>0. PICK n : n = session + 1
  OBVIOUS
<1> DEFINE t == [access  |-> [session |-> n, by |-> p],
                 refresh |-> IF refreshable THEN [session |-> n, by |-> p, serial |-> 0]
                             ELSE Undefined,
                 expiry  |-> exp]
<1>1. micro = <<>> /\ session \in Nat /\ session' = n /\ n = session + 1 /\ micro' = Fanned(p, t)
  BY <1>0 DEF Granted, Idle, RefreshInv, TypeInv
<1>2. /\ \A tok : Fresh(tok) => Fresh(tok)'
      /\ refresh # Undefined => Fresh(refresh)
      /\ inflight # Undefined => Fresh(inflight.token)
  BY <1>1, FreshStays, AtRest
<1>3. t \in Responses /\ (t.refresh = Undefined \/ Fresh(t.refresh)')
  <2> DEFINE first == [session |-> n, by |-> p, serial |-> 0]
  <2>1. first \in RefreshTokens
    BY <1>1 DEF RefreshTokens
  <2>2. Fresh(first)'
    <3>1. \A s \in Replaced' : s.session # n
      BY <1>1 DEF RefreshInv, TypeInv, RefreshTokens
    <3>2. QED
      BY <1>1, <2>1, <3>1 DEF Fresh
  <2>3. t.refresh \in {Undefined, first} /\ t \in Responses
    BY <1>1, <2>1 DEF Responses, AccessTokens
  <2>4. QED
    BY <2>2, <2>3
<1> HIDE DEF t
<1>4. micro' \in Seq(Tasks) /\ \A i \in 1..Len(micro') : micro'[i].response = t
  BY <1>1, <1>3, FannedTasks
<1>5. TypeInv'
  <2>1. \A s \in Replaced : s.session <= n
    BY <1>1 DEF RefreshInv, TypeInv, RefreshTokens
  <2>2. QED
    BY <1>1, <1>4, <2>1 DEF RefreshInv, TypeInv
<1>6. QueueInv'
  BY <1>3, <1>4 DEF QueueInv
<1>7. HeldInv' /\ SentInv'
  BY <1>2 DEF HeldInv, SentInv
<1>8. QED
  BY <1>5, <1>6, <1>7 DEF RefreshInv

\* The answer of a refresh: its microtasks are queued behind one another.
LEMMA AnsweredStep ==
  ASSUME RefreshInv, NEW rotated \in BOOLEAN, NEW exp \in {"unknown", "valid"},
         RefreshAnswered(rotated, exp)
  PROVE  RefreshInv'
<1>0. PICK tok, by : tok = inflight.token /\ by = inflight.by
  OBVIOUS
<1> DEFINE new == [session |-> tok.session, by |-> by, serial |-> tok.serial + 1]
           t == [access  |-> [session |-> tok.session, by |-> by],
                 refresh |-> IF rotated THEN new ELSE Undefined,
                 expiry  |-> exp]
           last == [task |-> "resume", response |-> t]
           fan == Fanned(by, t)
<1>1. /\ micro = <<>> /\ inflight # Undefined /\ micro' = fan \o <<last>>
      /\ Replaced' = IF rotated THEN Replaced \cup {tok} ELSE Replaced
      /\ UNCHANGED <<refresh, oidc, inflight, session>>
  BY <1>0 DEF RefreshAnswered, Idle, tokenVars, callVars, Replaced
<1>2. /\ Fresh(tok) /\ (refresh # Undefined => Fresh(refresh))
      /\ tok \in RefreshTokens /\ by = oidc /\ oidc \in Providers /\ session \in Nat
  BY <1>0, <1>1, AtRest DEF RefreshInv, TypeInv
<1>3. tok.session \in Nat /\ tok.serial \in Nat
  BY <1>2 DEF RefreshTokens
<1>4. rotated => Fresh(new)'
  <2>1. new \in RefreshTokens /\ new.session = tok.session /\ new.serial = tok.serial + 1
    BY <1>2, <1>3 DEF RefreshTokens
  <2>2. \A s \in Replaced : s.session = tok.session => s.serial < tok.serial /\ s.serial \in Nat
    BY <1>2 DEF Fresh, RefreshInv, TypeInv, RefreshTokens
  <2>3. ASSUME rotated, NEW s \in Replaced', s.session = new.session PROVE s.serial < new.serial
    BY <1>1, <1>3, <2>1, <2>2, <2>3
  <2>4. tok.session <= session'
    BY <1>1, <1>2 DEF Fresh
  <2> HIDE DEF new
  <2>5. QED
    BY <2>1, <2>3, <2>4 DEF Fresh
<1>5. t \in Responses /\ last \in Tasks /\ (t.refresh = Undefined \/ Fresh(t.refresh)')
  <2>1. new \in RefreshTokens
    BY <1>2, <1>3 DEF RefreshTokens
  <2>2. t \in Responses
    BY <1>2, <1>3, <2>1 DEF Responses, AccessTokens
  <2>3. QED
    BY <1>4, <2>2 DEF Tasks
<1>6. rotated => t.refresh # Undefined
  BY <1>2, <1>3, TokenNoneAssumption DEF RefreshTokens
<1>7. last.response = t /\ last.task = "resume"
  OBVIOUS
<1>8. TypeInv /\ (~rotated => \A x : Fresh(x) => Fresh(x)')
  BY <1>1, FreshStays DEF RefreshInv, TypeInv, Fresh
<1> HIDE DEF t, last, new
<1>9. /\ fan \in Seq(Tasks) /\ \A i \in 1..Len(fan) : fan[i].response = t
      /\ \E i \in 1..Len(fan) : fan[i].task = "listener"
  BY <1>2, <1>5, FannedTasks
<1> HIDE DEF fan
<1>10. /\ micro' \in Seq(Tasks) /\ Len(micro') = Len(fan) + 1 /\ micro'[Len(fan) + 1] = last
       /\ \A i \in 1..Len(fan) : micro'[i] = fan[i]
  BY <1>1, <1>5, <1>9
<1>11. \A i \in 1..Len(micro') : micro'[i].response = t
  BY <1>7, <1>9, <1>10
<1>12. TypeInv'
  <2>1. Replaced' \subseteq RefreshTokens /\ \A s \in Replaced' : s.session <= session
    BY <1>1, <1>2, <1>8 DEF TypeInv, Fresh
  <2>2. QED
    BY <1>1, <1>8, <1>10, <2>1 DEF TypeInv
<1>13. QueueInv'
  BY <1>5, <1>11 DEF QueueInv
<1>14. Queued("listener")' # {} /\ Queued("resume")' # {}
  BY <1>7, <1>9, <1>10 DEF Queued
<1>15. HeldInv'
  <2>1. CASE rotated
    BY <1>6, <1>11, <1>14, <2>1 DEF HeldInv, Queued
  <2>2. CASE ~rotated
    BY <1>1, <1>2, <1>8, <2>2 DEF HeldInv
  <2>3. QED
    BY <2>1, <2>2
<1>16. QED
  BY <1>12, <1>13, <1>14, <1>15 DEF RefreshInv, SentInv

\* A microtask leaves the others in the queue.
LEMMA TailStep ==
  ASSUME RefreshInv, micro # <<>>, micro' = Tail(micro)
  PROVE  /\ micro' \in Seq(Tasks) /\ Len(micro') = Len(micro) - 1
         /\ \A i \in 1..Len(micro') : micro'[i] = micro[i + 1]
         /\ Head(micro) = micro[1] /\ Head(micro) \in Tasks /\ Len(micro) \in Nat \ {0}
         /\ \A task : \A i \in Queued(task) : i # 1 => i - 1 \in Queued(task)'
BY DEF RefreshInv, TypeInv, Queued

\* OnTokens, Listener and Resume: the first microtask leaves the queue, and the refresh
\* token either stays or is the one it brings.
LEMMA MicroStep ==
  ASSUME RefreshInv, micro # <<>>, micro' = Tail(micro), UNCHANGED <<oidc, session, Replaced>>,
         LET t == Head(micro).response
         IN  /\ \/ refresh' = refresh
                \/ t # Undefined /\ t.refresh # Undefined /\ refresh' = t.refresh
             /\ Head(micro).task = "listener" /\ t.refresh # Undefined => refresh' = t.refresh,
         IF Head(micro).task = "resume" THEN inflight' = Undefined ELSE inflight' = inflight
  PROVE  RefreshInv'
<1> DEFINE t == Head(micro).response
<1>1. /\ micro' \in Seq(Tasks) /\ Len(micro') = Len(micro) - 1
      /\ \A i \in 1..Len(micro') : micro'[i] = micro[i + 1]
      /\ Head(micro) = micro[1] /\ Head(micro) \in Tasks /\ Len(micro) \in Nat \ {0}
      /\ \A task : \A i \in Queued(task) : i # 1 => i - 1 \in Queued(task)'
  BY TailStep
<1>2. \A tok : Fresh(tok) => Fresh(tok)'
  BY FreshStays DEF RefreshInv, TypeInv
<1>3. t # Undefined /\ t.refresh # Undefined => Fresh(t.refresh) /\ t.refresh \in RefreshTokens
  BY <1>1 DEF RefreshInv, QueueInv, Fresh
<1>4. TypeInv'
  BY <1>1, <1>3 DEF RefreshInv, TypeInv
<1>5. QueueInv'
  BY <1>1, <1>2 DEF RefreshInv, QueueInv
<1>6. HeldInv'
  <2>1. CASE refresh' # refresh
    BY <1>2, <1>3, <2>1 DEF HeldInv
  <2>2. CASE refresh' = refresh /\ refresh # Undefined /\ ~Fresh(refresh)
    <3>1. PICK i \in Queued("listener") : micro[i].response.refresh # Undefined
      BY <2>2 DEF RefreshInv, HeldInv
    <3>2. CASE i = 1
      <4>1. Head(micro).task = "listener" /\ t.refresh # Undefined
        BY <1>1, <3>1, <3>2 DEF Queued
      <4>2. t # Undefined
        BY <1>1, <4>1, TokenNoneAssumption DEF Tasks, Responses
      <4>3. QED
        BY <1>2, <1>3, <4>1, <4>2 DEF HeldInv
    <3>3. CASE i # 1
      <4>1. i - 1 \in Queued("listener")' /\ micro'[i - 1] = micro[i]
        BY <1>1, <3>1, <3>3 DEF Queued
      <4>2. QED
        BY <3>1, <4>1 DEF HeldInv
    <3>4. QED
      BY <3>2, <3>3
  <2>3. QED
    BY <1>2, <2>1, <2>2 DEF HeldInv
<1>7. SentInv'
  <2>1. CASE Head(micro).task # "resume" /\ inflight # Undefined /\ ~Fresh(inflight.token)
    <3>1. PICK i \in Queued("resume") : TRUE
      BY <2>1 DEF RefreshInv, SentInv
    <3>2. i # 1
      BY <1>1, <2>1, <3>1 DEF Queued
    <3>3. QED
      BY <1>1, <3>1, <3>2 DEF SentInv
  <2>2. QED
    BY <1>2, <2>1 DEF SentInv
<1>8. QED
  BY <1>4, <1>5, <1>6, <1>7 DEF RefreshInv

\* A refresh fails, also one whose token the provider exchanged: nothing newer is known.
LEMMA FailedStep ==
  ASSUME RefreshInv, NEW exchanged \in BOOLEAN, RefreshFailed(exchanged)
  PROVE  RefreshInv'
<1> DEFINE last == [task |-> "resume", response |-> Undefined]
<1>1. /\ micro = <<>> /\ micro' = <<last>>
      /\ Replaced' \subseteq Replaced /\ UNCHANGED <<refresh, oidc, inflight, session>>
  BY DEF RefreshFailed, Idle, tokenVars, callVars, Replaced
<1>2. last \in Tasks /\ last.response = Undefined
  BY DEF Tasks
<1> HIDE DEF last
<1>3. micro' \in Seq(Tasks) /\ Len(micro') = 1 /\ micro'[1] = last
  BY <1>1, <1>2
<1>4. /\ \A tok : Fresh(tok) => Fresh(tok)'
      /\ refresh # Undefined => Fresh(refresh)
      /\ inflight # Undefined => Fresh(inflight.token)
  BY <1>1, FreshStays, AtRest DEF RefreshInv, TypeInv
<1>5. TypeInv'
  BY <1>1, <1>3 DEF RefreshInv, TypeInv
<1>6. QueueInv'
  BY <1>2, <1>3 DEF QueueInv
<1>7. HeldInv' /\ SentInv'
  BY <1>1, <1>4 DEF HeldInv, SentInv
<1>8. QED
  BY <1>5, <1>6, <1>7 DEF RefreshInv

\* With two providers the last step of AttachOIDC would fail: the answer of the provider
\* that was replaced reaches no listener.
LEMMA MacroStep ==
  ASSUME \A p, q \in Providers : p = q, RefreshInv, Macro
  PROVE  RefreshInv'
<1>1. session \in Nat /\ oidc \in Providers \cup {Undefined} /\ refresh \in RefreshTokens \cup {Undefined}
  BY DEF RefreshInv, TypeInv
<1>2. ASSUME NEW tok, SetCAT(tok) PROVE RefreshInv'
  <2>1. /\ micro = <<>> /\ micro' = <<>> /\ Replaced' = Replaced /\ session' = session + 1
        /\ oidc' = oidc /\ inflight' = inflight /\ refresh' \in {refresh, Undefined}
    BY <1>2 DEF SetCAT, Idle, SetToken, callVars, exchangeVars, Replaced
  <2>2. QED
    BY <1>1, <2>1, QuietStep
<1>3. ASSUME NEW p \in Providers, AttachOIDC(p) PROVE RefreshInv'
  <2>1. /\ micro = <<>> /\ micro' = <<>> /\ Replaced' = Replaced /\ session' = session
        /\ oidc' = p /\ p # oidc /\ inflight' = inflight /\ refresh' = refresh
    BY <1>3 DEF AttachOIDC, Idle, tokenVars, callVars, exchangeVars, Replaced
  <2>2. inflight = Undefined
    BY <1>1, <2>1 DEF RefreshInv, TypeInv
  <2>3. QED
    BY <1>1, <2>1, <2>2, QuietStep
<1>4. ASSUME NEW c \in CatCallers, EnsureCAT(c) PROVE RefreshInv'
  <2>1. /\ micro = <<>> /\ micro' = <<>> /\ Replaced' = Replaced /\ session' = session
        /\ oidc' = oidc /\ refresh' = refresh
        /\ \/ inflight' = inflight
           \/ /\ refresh # Undefined /\ oidc # Undefined
              /\ inflight' = [gen |-> generation, by |-> oidc, token |-> refresh]
    BY <1>4 DEF EnsureCAT, StartsRefresh, Idle, tokenVars, exchangeVars, Replaced
  <2>2. QED
    BY <1>1, <2>1, QuietStep
<1>5. ASSUME NEW p \in Providers, NEW refreshable \in BOOLEAN, NEW exp \in {"unknown", "valid"},
             Login(p, refreshable, exp) \/ DeviceGranted(p, refreshable, exp)
      PROVE  RefreshInv'
  <2>1. /\ Granted(p, refreshable, exp)
        /\ UNCHANGED <<refresh, oidc, inflight, Replaced>>
    BY <1>5 DEF Login, DeviceGranted, tokenVars, callVars, exchangeVars, Replaced
  <2>2. QED
    BY <2>1, GrantedStep
<1>6. CASE Expire \/ DeviceStart \/ DeviceAsk \/ DevicePending \/ DeviceFailed \/ DeviceCancel
  <2>1. /\ micro = <<>> /\ micro' = <<>>
        /\ UNCHANGED <<refresh, oidc, inflight, session, Replaced>>
    BY <1>6 DEF Expire, DeviceStart, DeviceAsk, DevicePending, DeviceFailed, DeviceCancel, Idle,
                tokenVars, callVars, exchangeVars, Replaced
  <2>2. QED
    BY <1>1, <2>1, QuietStep
<1>7. QED
  BY <1>2, <1>3, <1>4, <1>5, <1>6, AnsweredStep, FailedStep DEF Macro

LEMMA MicrotaskStep == RefreshInv /\ Micro => RefreshInv'
<1> SUFFICES ASSUME RefreshInv, Micro PROVE RefreshInv'
  OBVIOUS
<1>1. CASE OnTokens
  <2>1. /\ micro # <<>> /\ micro' = Tail(micro) /\ Head(micro).task = "onTokens"
        /\ UNCHANGED <<oidc, session, Replaced, inflight>>
    BY <1>1 DEF OnTokens, IsNext, callVars, exchangeVars, Replaced
  <2>2. Head(micro).response.access # Undefined
    <3>1. Head(micro) \in Tasks
      BY <2>1 DEF RefreshInv, TypeInv
    <3>2. Head(micro).response.access \in AccessTokens
      BY <2>1, <3>1 DEF Tasks, Responses
    <3>3. QED
      BY <3>2, TokenNoneAssumption
  <2>3. refresh' = refresh
    BY <1>1, <2>2 DEF OnTokens, SetToken
  <2>4. QED
    BY <2>1, <2>3, MicroStep
<1>2. CASE Listener
  <2>1. /\ micro # <<>> /\ micro' = Tail(micro) /\ Head(micro).task = "listener"
        /\ UNCHANGED <<oidc, session, Replaced, inflight>>
        /\ refresh' = IF Head(micro).response.refresh = Undefined THEN refresh
                      ELSE Head(micro).response.refresh
    BY <1>2 DEF Listener, IsNext, UpdateFromOIDC, callVars, exchangeVars, Replaced
  <2>2. Head(micro).response # Undefined
    <3>1. Head(micro) \in Tasks
      BY <2>1 DEF RefreshInv, TypeInv
    <3>2. QED
      BY <2>1, <3>1, TokenNoneAssumption DEF Tasks
  <2>3. QED
    BY <2>1, <2>2, MicroStep
<1>3. CASE Resume
  <2>1. /\ micro # <<>> /\ micro' = Tail(micro) /\ Head(micro).task = "resume"
        /\ UNCHANGED <<oidc, session, Replaced>> /\ inflight' = Undefined
        /\ LET t == Head(micro).response
           IN  refresh' = refresh \/ (t # Undefined /\ t.refresh # Undefined /\ refresh' = t.refresh)
    BY <1>3 DEF Resume, IsNext, UpdateFromOIDC, tokenVars, exchangeVars, Replaced
  <2>2. QED
    BY <2>1, MicroStep
<1>4. ASSUME NEW c \in CatCallers, Return(c) PROVE RefreshInv'
  <2>1. micro = <<>> /\ micro' = <<>> /\ UNCHANGED <<refresh, oidc, inflight, session, Replaced>>
    BY <1>4 DEF Return, tokenVars, exchangeVars, Replaced
  <2>2. QED
    BY <2>1, QuietStep DEF RefreshInv, TypeInv
<1>5. QED
  BY <1>1, <1>2, <1>3, <1>4 DEF Micro

\* With one provider, a refresh token is not sent again by ensureCAT once the provider has
\* delivered a newer one, for any number of calls and in any order of logins, logouts,
\* answers and lost answers.
THEOREM RefreshTokenSpentOnceHolds ==
  ASSUME \A p, q \in Providers : p = q
  PROVE  ClearSpec => []RefreshTokenSpentOnce
<1>1. RefreshInv /\ [ClearNext]_clearVars => RefreshInv'
  <2>1. RefreshInv /\ ClearNext => RefreshInv'
    BY MacroStep, MicrotaskStep DEF ClearNext
  <2>2. RefreshInv /\ UNCHANGED clearVars => RefreshInv'
    BY DEF clearVars, tokenVars, callVars, exchangeVars, RefreshInv, TypeInv, QueueInv, HeldInv,
           SentInv, Fresh, Queued, Replaced
  <2>3. QED
    BY <2>1, <2>2
<1>2. RefreshInv => RefreshTokenSpentOnce
  <2> SUFFICES ASSUME RefreshInv, inflight # Undefined, micro = <<>> PROVE inflight.token \notin Replaced
    BY DEF RefreshTokenSpentOnce
  <2>1. Fresh(inflight.token)
    BY AtRest
  <2>2. QED
    BY <2>1 DEF Fresh, RefreshTokens
<1>3. QED
  BY <1>1, <1>2, RefreshInit, PTL DEF ClearSpec
-----------------------------------------------------------------------------
\* Between two requests the poll looks at the flag: none was made after it was set.
PollInv ==
  /\ pollsAfter \in {0, 1}
  /\ pollsAfter = 1 => aborted /\ device \in {"asking", "over"}

\* A device authorization that was cancelled asks the provider at most once more, however
\* often it asked before and wherever in its loop it was.
THEOREM CancelStopsPollingHolds == ClearSpec => []CancelStopsPolling
<1>1. ClearInit => PollInv
  BY DEF ClearInit, PollInv
<1>2. PollInv /\ [ClearNext]_clearVars => PollInv'
  <2> SUFFICES ASSUME PollInv, [ClearNext]_clearVars PROVE PollInv'
    OBVIOUS
  <2>1. CASE UNCHANGED deviceVars
    BY <2>1 DEF deviceVars, PollInv
  <2>2. CASE DeviceStart \/ DeviceAsk \/ DevicePending \/ DeviceFailed \/ DeviceCancel
    BY <2>2 DEF DeviceStart, DeviceAsk, DevicePending, DeviceFailed, DeviceCancel, PollInv
  <2>3. ASSUME NEW p \in Providers, NEW refreshable \in BOOLEAN, NEW exp \in {"unknown", "valid"},
               DeviceGranted(p, refreshable, exp)
        PROVE  PollInv'
    BY <2>3 DEF DeviceGranted, PollInv
  <2>4. CASE Micro
    BY <2>1, <2>4 DEF Micro, OnTokens, Listener, Resume, Return
  <2>5. CASE Macro
    BY <2>1, <2>2, <2>3, <2>5 DEF Macro, SetCAT, AttachOIDC, Expire, EnsureCAT, RefreshAnswered,
                                  RefreshFailed, Login
  <2>6. QED
    BY <2>1, <2>4, <2>5 DEF ClearNext, clearVars
<1>3. PollInv => CancelStopsPolling
  BY DEF PollInv, CancelStopsPolling
<1>4. QED
  BY <1>1, <1>2, <1>3, PTL DEF ClearSpec
=============================================================================
