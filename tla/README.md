# Specifications of cashu-ts

TLA+ models of the cashu-ts library. One half is about the order of events:
awaits that interleave, sockets and timers that outlive each other, answers that
arrive late or never, a process that stops between two steps. The other half is
about what the wallet calculates: selections, splits, fees, locks, quotes and
encodings, against what they promise. All of it is checked with TLC on small
instances; what matters most about counters, transactions, waiting, requests,
keysets, quotes, selections, locks, tokens of both kinds and the websocket is proved
with TLAPS for all instances.

Paths below are relative to the library's `src/` directory, except where they
start with `test/` or `docs-src/`.

## 1. The system

A wallet talks to a mint over HTTP and a websocket. It runs in one JavaScript
thread: nothing is preempted, but at every `await` other calls, timers and
socket events run. No part of the library has a scheduler of its own; the
interleavings are those of the event loop. Persistence is the application's:
the library tells it what to save by events.

| part | state it keeps | operations | modelled in |
|---|---|---|---|
| counter source (`wallet/CounterSource.ts`) | next counter and promise chain per keyset | reserve, reserveAt, advanceToAtLeast, setNext, snapshot | `CounterAllocator`, `CounterSource` |
| counters of operations (`wallet/Wallet.ts` addCountersToOutputTypes, `WalletCounters.ts`) | none; calls the source, emits `countersReserved` | every swap, mint, melt and send with deterministic outputs | `WalletCounters` |
| wallet transactions (`wallet/Wallet.ts`) | previews between prepare and complete | receive, send, mint, melt, melt change | `WalletTransactions` |
| batches, restore (`transport/pool.ts`, `wallet/Wallet.ts`) | next item, running workers | runPool, batchRestore | `Streams`, `Restore` |
| websocket (`transport/WSConnection.ts`) | socket, its promise, frame queue, pending acknowledgements, listeners | connect, createSubscription, cancelSubscription, close, five socket events | `WSConnection` |
| wallet events (`wallet/WalletEvents.ts`) | subscriptions of a wait, stream buffers | onceMintPaid, onceMeltPaid, onceAnyMintPaid, proofStatesStream, abort | `WalletEvents`, `Streams` |
| HTTP requests (`transport/request.ts`) | none between calls | one request: options, attempts, retries, deadlines, abort | `Requests` |
| mint client (`mint/Mint.ts`) | shared websocket | quote answers, batch lookups, connectWebSocket | `Quotes`, `WalletEvents` |
| quotes (`mint/Mint.ts`, `wallet/Wallet.ts`) | none; the caller keeps quote objects | create, check, mint, batch mint, melt quotes | `Quotes` |
| clear auth (`auth/AuthManager.ts`, `OIDCAuth.ts`, `createAuthWallet.ts`) | access and refresh token, expiry, generation, refresh in flight | setCAT, ensureCAT, attachOIDC, logins, device polling | `ClearAuth` |
| blind auth (`auth/AuthManager.ts`) | pool of tokens, lock chain, mint info, keychain | getBlindAuthToken, ensure, importPool | `BlindAuth` |
| keychain (`wallet/KeyChain.ts`, `wallet/Wallet.ts`) | snapshot of keysets and keys, binding, repair in flight and its cooldown, key fetches in flight | loadMint, ensureOperableKeysets, bindKeyset, repair after a rejection | `KeyChain` |
| proof selection (`wallet/SelectProofs.ts`) | none | selectProofsRGLI, selectProofsRotating | `Selection` |
| amounts, splits, fees (`model/Amount.ts`, `utils/core.ts`, `wallet/`) | none | arithmetic, splitAmount, getKeepAmounts, fees, blanks | `Amounts` |
| mint info (`model/MintInfo.ts`) | index of protected endpoints | normalisation, limits, capabilities, lookups | `MintInfo` |
| spending conditions (`crypto/NUT10.ts`, `NUT11.ts`, `NUT14.ts`, `NUT28.ts`, `SigAll.ts`, `wallet/P2PKBuilder.ts`) | none | build a lock, make secrets, sign, verify | `Conditions` |
| payment requests (`model/PaymentRequest.ts`, `utils/tlv.ts`) | none | build, encode twice, decode, price | `PaymentRequests` |
| encodings (`utils/cbor.ts`, `utils/core.ts`) | none | CBOR, tokens | `Cbor`, `Tokens` |
| curves, derivation, base encodings, logging | none | computation | not modelled |

How they interact. A wallet operation first makes sure that its snapshot knows
the keysets it needs (keychain), selects proofs, splits amounts, then takes
counters (counter source, event), builds outputs, asks the mint (mint client,
request, auth manager for headers), and turns signatures into proofs. Keyset
errors from the mint come back to the keychain as evidence that the snapshot is
stale. Wallet events subscribe over the mint client's websocket. The auth
manager mints its tokens with a keychain of its own and gets its access token
from the OIDC provider, whose answers it receives by two paths (a listener and a
promise).

What makes each part correct, and why that is hard to test:

- *Counter source.* Two calls must never get the same counter, in particular
  not when they overlap at an await, when one throws, or when an entry of the
  lock map is deleted while others wait.
- *Counters of operations.* A counter used twice recreates a secret, which
  the mint refuses or which loses money. It takes several operations with
  manual and automatic counters, or a crash between reservation and use.
- *Transactions.* Whatever gets lost, repeated or damaged between wallet and
  mint, and whenever the process dies, every sat is in the store, in what was
  given away, in a preview somebody keeps, or to be found from the seed; what
  the wallet calls a proof is one; change of a melt is complete.
- *Restore.* The gap rule must neither stop early nor count a wave twice.
- *Websocket.* Events and timers of a socket that has been replaced must not
  touch its replacement; a connection that was lost can be made again; no caller
  may wait for ever; a subscription hears its outcome once, also if its callback
  fails or comes back to the connection, and notifications in order.
- *Wallet events.* Payment, error, timeout and abort race with subscriptions
  that have not begun; a call that is over must leave none of them behind. A
  stream must not sleep through an update.
- *HTTP requests.* A request that may have been executed must not be sent
  again unless the mint still has its answer; abort and deadline must win
  wherever the request happens to be.
- *Clear auth.* With rotation a refresh token may be sent once, but an answer
  may be lost after the provider has rotated. Logout, login and refresh answers
  race, and one answer is applied twice.
- *Blind auth.* A token may be sent once; check, mint and pop are three awaits
  apart; failures must release the lock.
- *Keychain.* Refreshes and fetches answer in any order while the mint rotates
  keysets; keys that were held must not get lost, repairs must not storm the
  mint, and what the application persists must be what the wallet knows.
- *Quotes.* Two generations of mints describe the same quote differently, and
  the object a caller mints with may be older than the payment.
- *Selection, amounts.* What is selected must pay for itself and its fees in
  every order of the shuffles; outputs must add up.
- *Spending conditions.* Whoever is entitled to a proof must be able to spend
  it with the library's own signing, and nobody else.
- *Mint info.* A protected endpoint that is not recognised is called without
  its token.
- *Encodings, payment requests.* What is written must be read back, at every
  width and depth, and payer and payee must compute one price.

`PROJECT.json` lists the hazards with their lines, and the properties that
would show each of them going wrong.

## 2. Modules

Each module is one component: its state as variables, one action per stretch of
code between two awaits, or per event handler. What runs as microtasks without
anything else being able to come between belongs to one step; where other
microtasks may come between, it is a step of its own. Pure code is written as
operators named after the functions. Definitions named `Variant` in their
comments are plausible wrong versions of the definition that follows them;
nothing uses them, except that each property has been seen to fail with one of
them in the definition's place.

**CounterAllocator** is the contract that the interface `CounterSource`
documents: a call is asked, takes effect at one point, and is answered.

**CounterSource** is `EphemeralCounterSource`. `Call` is the synchronous part
of withLock, which puts the call into its keyset's promise chain; `Reserve`,
`ReserveAt`, `AdvanceToAtLeast`, `SetNext` are the bodies, each with the
refusals of its guards; `Settle` is the finally block. `locks` is the map
lockByKeyset and `prev` the promise a call awaits. `Alloc` is the refinement
mapping to CounterAllocator, and `AtomicCounters` says that it is one.

**WalletCounters** is addCountersToOutputTypes on one keyset. `Begin` splits
manual from automatic output types and rejects overlaps, `Claim` is the
reserveAt of a manual range, `Reserve` the reservation of the automatic
counters, `Emit` the event, `Send` the mint request that puts counters to use.
`Restart` ends the process; the next one starts from what the handler saved, as
`docs-src/deterministic_counters.md` tells applications to. Calls of the source
are atomic here, which is what `AtomicCountersHold` proves of CounterSource.

**WalletTransactions** has one action for each prepare operation, `Complete` for the
request and `Answered`, `FallBack` (the second signature form of a locked
quote), `Throw` for what comes back. A transaction is a record of its inputs,
its keep and send outputs and whether the caller keeps the preview; `held` says
whose preview somebody still has, and `Dropped` which inputs the application
forgets: not those of a melt that was answered without change, which may be
pending and fail later. The mint executes a request atomically
(`Executes`, or `Starts` and `Settles` or `Fails` for a melt), repeats an answer
from its cache, refuses; the network loses and damages. `Crash` stops the
process with calls under way, `RestoreFromSeed` is the restore afterwards, and
`LateChange` is createMeltChangeProofs with what a quote lookup brings.

**Restore** is batchRestore as a recursion over its waves, on the set of counters
the mint has signed. **Amounts** holds what both of these and the next ones
compute with: an amount that leaves the library's range is `Throws`.

**WSConnection** has a ready state, an attempt and an attachment of handlers
for every socket ever made, so that late events of old sockets exist. Frames
pass through the queue and the interval that empties it (`HandleNextMessage`).
The browser's socket and the mint are external: `OnOpen`, `OnError`, `OnClosing`
(closing, and not told yet), `OnClose`, `OnAnswer`, `OnNotification` may come
whenever a socket allows them. A handler is one step, with one exception: the
error callback of a refused request runs before its listener is removed
(`transport/WSConnection.ts:326`). `HandleNextMessage` leaves the request in
`telling`, `EndCallback` removes it or, if the callback throws, does not; in
between only the application acts, from within the callback. `lapsed` remembers
whose callback threw, or lost the connection, while it ran.

**WalletEvents** sees that socket through its interface. A wait is a record of
its quotes, its timer and signal and whether one error ends it; `subs` follows
each of its subscriptions from `starting` over `live` to `ended` or
`closed`. `doomed` subscriptions are those whose call was over before they
had begun, which cancelSafely ends as soon as they exist. `ConnectFails`, `SubscribeThrows`, `SubscriptionError`
and `SocketLost` are the ways to fail; after the last one a subscription is
deaf and nobody is told.

**Streams** is proofStatesStream (producer callbacks, bounded queue, the
generator's sleep on `notify`) and runPool (workers that share `next`).

**Requests** is one request: `Merge` combines the call's options with the
global ones, `Attempt` is the call of fetch with its timeout and signal armed,
`Respond` and `BodyEnds` classify what comes, `RetryLater` is the backoff within
the announced time to live, and the single immediate retry of idempotent
requests goes the same way. A clock counts backoffs and what the mint still
caches; an attempt may reach the mint whether or not its answer gets back.

**Quotes** normalises the mint's answers, of a mint with accounting or one that
tells only a state, and follows a caller that creates, looks up, mints and melts
with objects that get old. `MayAnswer` lets one field of an answer be wrong.

**ClearAuth** keeps the microtask queue explicit (`micro`): an answer of the
provider enqueues, in the code's order, the onTokens callback, the listener and
the continuation of ensureCAT; tasks run before the next external event. The
constant `Wired` says whether onTokens is wired to setCAT, as createAuthWallet
does. `RefreshFailed` has both ways to fail: the provider never exchanged the
token, or it did and the answer was lost or cannot be read, in which case the
wallet keeps the spent token; `unanswered` remembers which ones.

**BlindAuth** has the lock chain (`lockChain`, `behind`, `released`), init()
with its two requests, the limits of a batch, and pops. `Ensure` and
`ImportPool` are the application's calls, which bypass the lock.

**KeyChain** covers KeyChain.ts and the part of Wallet.ts that keeps the
snapshot usable. A call of loadMint(true) is a record with the three answers it
waits for; `Answered` builds the snapshot as soon as both halves of
KeyChain.init are there and finishes (finishInit, rebinding) when all three
are. An operation goes through `EnsureOperable`, `AfterRepair`, `AfterFetches`,
or `MintRejects` and `AfterStaleRepair`. `fetching` is pendingKeyFetches with
the metadata each fetch started from. `saved` is what an application persists
that follows the docs. Operations whose await is over go on before the next
answer or call (`Quiet`).

**Selection** is the search of selectProofsRGLI step by step (`StartAttempt`,
`Greedy`, `Improve`, `Compare`, `Trim`, `Judge`). Every shuffle is a choice, so
all orders are explored, and a trial may be the last at any time, as the time
limit makes it. A rotating selection is a list of such attempts, one per
set of forced keysets.

**Conditions** takes a lock from the builder (`ToOptions`,
`NormalizeP2PKOptions`) to the secrets of several outputs (`CreateP2PKData`,
with keys blinded by slot), to signatures by input, for the whole transaction
or by a package that co-signers pass on, and to `Verdict`, the library's own
verifier, at any time. Keys and signatures are symbolic.

**MintInfo**, **Cbor**, **Tokens** and **PaymentRequests** are pure. Letters and
octets are members of small sets, and the radix of multi-octet numbers is a
parameter, so that every width of CBOR and TLV has small examples. **Outcomes**
declares what may stand for a value: null, undefined, an exception.

`MC_*` give the constants values that a configuration cannot express.
`MC_Wallet`, `MC_Transport` and `MC_Algorithms` each run several components that
share no state; the bound `using` makes a behaviour one about a single component,
since their interleaving would only multiply states.

## 3. Runs

All passing runs are exhaustive on their instance.

| run | instance | what it shows |
|---|---|---|
| `CounterSource` | 3 calls out of every kind of argument on one keyset and reserves on another | mutual exclusion, ranges in call order and disjoint, every call atomic, every call settles |
| `Wallet` | counters: 3 operations from ten pairs of output types, bumps, 2 restarts; transactions: 2 of every kind on two stored proofs and a token, denominations 1, 2, 4, 8, 500 ppk, any loss, damage, repetition and crash, gap limit 3 in batches of 2; operations and transactions are interchangeable (symmetry) | no counter reuse, and what the mint may have seen of automatic counters is saved; nothing is lost that the seed or a kept preview could find, proofs are real, change is complete |
| `WSConnection` | 3 sockets, 1 subscription, 2 notifications | the promise is always that of the current socket and is gone once that closed, no leak, outcomes once unless the error callback threw or lost the connection, notifications in order, every connect() settles |
| `Transport` | one request with 192 combinations of options under 2 global ones, 3 retries; 2 waits out of 5 kinds on 2 quotes; one stream with 4 updates and buffers of 1, 2 and 5; 5 items with 1 or 3 workers | no repeated execution, no read left running, abort is final, requests with a timeout settle; waits leave nothing behind and fail with their last subscription; streams skip nothing they must deliver and end; a failed pool stops |
| `ClearAuth` | 1 provider, 2 calls of ensureCAT, 2 logins, 2 rotations, 2 polls, wired | refresh tokens whose exchange was answered are not sent again, cancelled polling stops, every ensureCAT returns |
| `BlindAuth` | 3 requests, 1 ensure(3), 2 imports of at most one token, target 2, mint limit 0 or 5 | no token twice, pool within its target, every request answered |
| `KeyChain` | 2 keysets, any 2 of two operations, an explicit call and an application's refresh, 1 change of the mint | held keys stay, repairs shared, persisted cache current |
| `Algorithms` | every selection out of 7 proofs of 4 keysets (at most 4 offered), 2 trials; 2 quotes with a mint that may err; small locks with every set of signers, without a locktime and with one of 0 and 1; splits to 11; endpoints of up to 3 parts; values around each width; payment requests around both limits on length | selections cover their target and exact ones do not give up a solution they hold, splits and arithmetic are exact, endpoints are protected, quotes are true and refusals right, locks open for the entitled only, encodings round-trip, and are refused exactly beyond their limits |

Why these bounds. Three calls are needed and enough for a chain in which one
waits, one holds and one arrives while the entry is deleted. Counters are
integers with requests chosen on, above and below the cursor, so each branch of
each method is taken. Two restarts let a counter be saved, reused, and saved
again. Two transactions let one spend what the other waits for, and let a
second one take counters between the claim and the loss of the first. Three
sockets allow an attempt to be superseded by one that is itself superseded. One
subscription suffices because subscriptions share only the request counter and
the queue; the order among notifications of one of them is what is at stake. Two
waits share a connection that fails for both, and two quotes make a race. A
backoff of 1 and 2 units against times to live of 2 and without limit puts a
retry on both sides of the deadline. Buffers of 1, 2 and 5 are full with the
first update, with some and never. Two calls of ensureCAT are one that starts a
refresh and one that joins it. `MaxCalls = 2` in KeyChain gives every pair of
calls with every order of their six answers and a key fetch; the mint's change
falls anywhere. Fees of 100, 600 and 1900 ppk are below, about and above the
smallest coin. A radix of 12 and 4 short lengths stand for 256
and 24. Limits of 100 octets for an nprofile and 130 for a request stand for 630
and 631: requests of the instance lie below, at and above each of them.

Deadlock is not an error in these models (`CHECK_DEADLOCK FALSE`): each call is
made once and the system then rightly rests. That nobody waits for ever is what
the liveness properties say.

Fairness:

- `CounterSource`: each call's next step is weakly fair. Its awaits are of
  promises that the same program resolves, and microtasks run.
- `WSConnection`: the connect timers, and that an error callback, which is
  synchronous, ends. Nothing is assumed of the network or the mint, so
  `EveryAttemptSettles` is what the timeout alone guarantees.
- `Transport`: for the request, the library's own steps run, timers fire and a
  fetch or a read that was aborted rejects; nothing is assumed of the mint, the
  network or the caller. For the stream, the consumer asks for the next update,
  and a subscription that was asked for gets its answer.
- `ClearAuth`: microtasks run, and a request to the provider ends. The latter
  is an assumption: OIDCAuth sets no timeout on it.
- `BlindAuth`: while calls can go on, one does. This includes that mint
  requests end, which the code ensures only if a request timeout is set
  (`TimedRequestsSettle` is that).

### Disagreements between code and documentation

Four runs are expected to fail. Each checks one sentence of the repository.

| run | what happens |
|---|---|
| `WSConnection_superseded` | the connect timer is the only handler of an attempt without the check that its socket is still current; it closes the replacement |
| `WSConnection_cancel` | the acknowledgement registers the listener, also for a subscription that was cancelled before it came; callbacks follow a cancellation |
| `ClearAuth_logout` | a refresh that lands after a logout installs its tokens through the listener, which does not compare generations |
| `Conditions_refund` | enough refund keys of an expired HTLC have signed, but so have enough lock keys; the verifier then wants the preimage |

Met while modelling, without a run of their own. Where a passing property would
contradict one of these, its definition excepts it by name.

- Manual counters are claimed with reserveAt, but an operation without automatic
  counters returns before the event (`wallet/Wallet.ts:839`): nothing tells the
  application to save them, and a restart hands them out again.
- An operation that joins a repair whose listing is older than its question
  reports, as final, that the mint does not have the keyset; and
  ensureOperableKeysets looks up only the ids that were unknown before its
  refresh, and returns although the refresh dropped another
  (`wallet/Wallet.ts:661`). A key fetch that overlaps a refresh puts back the
  metadata it started from.
- Acknowledgements of a closed socket stay pending if a new connect() precedes
  the close event; the subscriber of an acknowledged subscription is not told
  when the socket is lost.
- A listener is removed after its error callback (`transport/WSConnection.ts:326`).
  If the callback throws, or comes back with a send that fails, it is called
  again when the connection fails (`lapsed` in `OneOutcome`).
- A refresh whose answer is lost, or is no JSON and so read as `{}`
  (`auth/OIDCAuth.ts:358`), is swallowed (`auth/AuthManager.ts:201`): the wallet keeps
  a token that a rotating provider has exchanged, and sends it again
  (`unanswered` in `RefreshTokenSpentOnce`).
- A creqB request may carry a transport with more relays than an nprofile may
  hold. It is written, but reading it throws, because the nprofile is built anew
  (`utils/tlv.ts:791`, `Overfull` in `RequestRoundTrips`).
- Replacing the OIDC provider during a refresh lets the old provider's token in,
  because attachOIDC does not change the generation; ensureCAT returns an expired
  token if it has nothing to refresh it with.
- A locktime of 0 is accepted when a lock is made and means none when it is
  verified (`crypto/NUT11.ts:348`, `:961`). With refund keys the verifier then calls the
  secret malformed and nobody can spend it, which is what the comment at
  `crypto/NUT11.ts:343` says the builder prevents (`Unspendable`).
- getEncodedToken stringifies a witness once more when it is JSON already
  (`utils/core.ts:304`).
- Endpoints beyond the library's cap on lists lose their protection.
- getKeepAmounts throws near the ceiling of 64 bits, since it adds before it
  compares, and a close match may return nothing where a subset exists, although
  `wallet/WalletOps.ts:348` promises the best one.

## 4. Proofs

The `*_proofs` modules hold for any number of calls, keysets, operations,
transactions, quotes, waits, sockets, tokens and requests, any integers as
arguments, and any number of restarts. The assumptions are those named in the
modules; they type the constants, and TLC evaluates them on each run.

**CounterSource_proofs.** `TypeInv` types the state and says that a call at work
asked for something its body accepts. `ChainInv` is the heart: calls in the
chain of a keyset are ordered by arrival, each waits for its immediate
predecessor, and the lock entry is the last of them. Mutual exclusion alone is
not inductive, since a call enters when its predecessor has released and
nothing else would say that the predecessor was the only one left. `RangeInv`
adds that ranges handed out end at or below the cursor unless setNext lowered
it. From these follow

- `TypeCorrect`, `MutualExclusionHolds`, `LockIsTailHolds`,
  `RangesInCallOrderHolds`, `OnlySetNextLowersHolds`;
- `AtomicCountersHold`: the implementation refines CounterAllocator, each step
  being a step of it or a stutter.

**WalletCounters_proofs.** `BaseInv` types the state and orders pending events by
the counters they report (that is what keeps saves from moving back). `Inv` is a
ledger: every counter sent or held by an operation lies below the cursor, those
of different operations are disjoint, and, with automatic counters, those in use
lie below what is saved. The ledger holds only if there are no manual counters
or no restarts (`Covered`), because manual counters are not saved. Then

- `TypeCorrect`, `SavedNeverDecreasesHolds`, `SavedBelowCursorHolds` for any
  output types and restarts;
- `NoCounterReuseHolds`, `AutomaticIsSavedHolds` under the antecedents that the
  properties state.

**WalletTransactions_proofs.** `TransactionInv` is one statement about wallet,
network and mint together, and none of its parts is inductive alone:

- `Preparations`: every transaction has outputs with ids of its own, drawn from
  counters below the next one or from random ids already made, and only a melt's
  blanks have no amount;
- `Signing`: whatever is signed was there from the start or is an output of a
  transaction the mint has answered, and its answer fits the request output by
  output;
- `Paying`: nothing is signed yet for a payment under way, its inputs are locked
  and in no other payment, and inputs of what was answered are spent for good;
- `Wires`: whichever answer on its way the caller would accept, it is the mint's own,
  or says that a melt has no change so far; a damaged one is not acceptable;
- `Storing`: what is in the store or was given away is signed for its amount, and
  what a send gave away is its send outputs;
- `Keeping`: a preview that could be kept and is held no longer was answered, and
  what is signed for it is in the store, was given away or is spent for good.

`ProofsAreRealHolds` and `NothingIsLostHolds` follow from it. They rest on
lemmas about the operators the model is built from: the order of a request is a
permutation, which completeSwap undoes; a split consists of denominations of the
keyset; ids of new outputs are consecutive. `RestoreFindsWithinGap` says that
batchRestore returns nothing the mint has not signed, and everything signed that
no run of `gapLimit` unsigned counters precedes, for any batch size and wave
width. It is proved about the recursive function over waves: the function
exists by induction (a smallest number without one leads to a contradiction),
a wave that covers a signed counter finds it, and the empty batches that end a
scan cover at least the gap.

`DefaultSplitsAreExact` is `SplitIsExact` of Amounts for outputs without given
denominations and held proofs, for any finite keyset, fee rate and amount up to
the ceiling. The loop of splitAmount keeps what is left plus what it has chosen
constant, and chooses no more coins than they are worth, which is why it cannot
run into the cap on outputs before it reaches the coin of 1. The receiver's fee
is the smallest because a fee below the first one tried does not even pay for
the outputs it is added to. It uses that an error is not an amount or a sequence
of them (`ThrowsAssumption`).

`ChangeIsWholeHolds` has the hypothesis `BinaryKeys`: the keyset has exactly the
powers of two up to the ceiling, as the mints' keysets do. Without it the
property is false, because the number of blanks is a logarithm to base 2: a
keyset that lacks a power needs more coins than there are blanks. The run checks
that its instance satisfies the hypothesis. The argument: what comes back is at most
the reserve; there are as many blanks as `reserve - 1` has binary digits, that is,
as there are powers of two below the reserve, and one if there are none; and what
comes back is one coin if it is a power of two, or else at most one of each power
below it. `Sparse` says that of the loop of splitAmount, coin by coin.

**KeyChain_proofs.** The invariant `Inv` follows two debts. `RepairInv`: what
pendingRepair names is running, and is the only refresh that an operation has
started and not finished; whoever repairs waits for it. `SaveInv`: while the
persisted cache differs from the snapshot, somebody at work will persist it,
namely a call by the application or an operation that `Owes` it, unless a
refresh was rejected. That is what is missing in `SavedIsCurrent`, which speaks
of the moment when nobody is at work. `RepairsAreSharedHolds`,
`SavedIsCurrentHolds` and `HeldKeysAreKeptHolds` hold for any keysets, any
operations and changes of the mint.

**Auth_proofs.** Of BlindAuth: `LockInv` orders the lock chain, each call behind
its predecessor and none in its body before all earlier ones have released.
From it come `OneAtATimeHolds` and `ServedInOrderHolds`. `TokenInv` says that
tokens in the pool and handed out differ, and that those the mint will sign next
are new; it does not need the lock (`ServedOnceHolds`). `FitInv` does: a batch
still fits into the pool three awaits after it was calculated, as long as the
application neither tops up nor imports (`Alone`), whence `PoolWithinTargetHolds`.

Of ClearAuth: `RefreshInv` calls a refresh token fresh if it is newer than
every exchanged one of its session. While no microtask waits, what is held and
what was sent is fresh; an answer that exchanges a token queues the listener,
which brings the newer one, and the end of the refresh in the same step, so that
a stale token lives only between microtasks. An exchange whose answer never
arrived is the exception that the code has: such a token is kept, and `Replaced`
are the exchanged ones without these. `RefreshTokenSpentOnceHolds` speaks of those. It assumes
a single provider, for which the listener is always that of the refresh.
`CancelStopsPollingHolds` rests on `PollInv`.

**WSConnection_proofs.** `SocketInv` ties the current socket and the promise to
the states of all sockets ever made: one that was never asked for does not exist,
and the current one is that of the promise unless it has closed. It has its handlers,
which is why its close event is heard and takes the promise with it.
`PromiseIsCurrentHolds` and `NoSocketLeakedHolds` follow.

`OutcomeInv` says that at most one request is awaited for a subscription. One that
was told its outcome awaits none, except while its error callback runs and, once
that has thrown or lost the connection (`lapsed`), until it is told again. A
request that stays behind could be told by another answer; `AnsweredOnce` excludes
that: every id is asked once and answered once, on the wire and in the queue. `OneOutcomeHolds`
follows for any sockets, subscriptions and callbacks.

`NotificationsInOrderHolds` is about the contents of the queue. `OrderInv` gives
every subscription one of six phases: `Fresh`, `Asking` (its request is with the
mint), `Answered` (the acknowledgement is in the queue, notifications only behind
it), `Listening` (the queue holds exactly the notifications it has not heard, in
order), `CutOff` (its socket delivers nothing more) and `Deaf`. Frames that are
thrown away when a queue is emptied belong to a socket that is no longer heard,
and `WireInv` says that an id names one request, so that no acknowledgement is
taken for another's.

**Transport_proofs.** Requests: `RequestInv` separates two cases. A request that
must not be repeated and is not cached makes one attempt (`SentOnce`). With a
cached endpoint, the mint's first answer expires no earlier than the announced
time after the start of the request, and no backoff ends later
(`AnsweredFromCache`); this is the arithmetic behind `ExecutedOnceHolds`. It
idealises time: a backoff timer fires exactly when it is due, and the request
travels in no time. `NoReadLeftBehindHolds` and `AbortIsFinalHolds` come from
`ReadInv` and from the guards along each path.

Waits: `Inv` describes each wait before the call (`Before`), while it waits
(`Waiting`: it has a canceller for exactly the quotes whose subscription starts or
exists, and the others have failed) and after its outcome (`Ended`: it has none,
and whatever still starts is doomed). `NothingLeftBehindHolds` and
`FailsWithTheLastHolds` follow.

Streams: `OrderInv` says that what was yielded, followed by what is queued, grows;
`AccountInv` that these and the updates shed from a full buffer are all updates so
far, each once. `NothingIsSkippedHolds` follows for any number of updates and any
buffer. `PoolInv` accounts for every claimed item of runPool: it is in flight or
has its result, unless a worker has thrown; and once a worker has stopped, the
cursor is past the last item (`PoolStopsOnFailureHolds`).

**Algorithms_proofs.** Quotes: `LedgerInv` says that a single-use quote is unpaid,
paid or issued in full, which is why the three states of a mint without accounting
are enough to derive it; `HeldInv` that what the wallet holds is what it asked for
and an earlier state of the ledger, the present one while the quote is fresh;
`Telling`, what an answer that passes the normalisation must look like.
`QuotesAreTrueHolds` and `RefusalsAreRightHolds` follow for any quotes, amounts and
payments. They assume that there are finitely many quotes (`QuotesAreFinite`).

Selection: `SelectionInv` says that the search chooses among the coins of its
attempt, that an exact trial never passes its target, and that the best so far pays
the target and its fees. `SelectionCoversHolds` follows for any coins, fees and orders of the
shuffles. `ExactKeepsSolutionsHolds` says that the filter on large coins loses no exact
solution: each further coin that the filter admits is worth something after its
fee, so a set that pays exactly contains no coin worth more than the target. Sums
over sets of coins are recursive functions; that they do not depend on the order
of summation is proved by their smallest counterexample. `UniverseAssumption` says
that coins are finitely many.

Spending conditions: `SpendableByTheEntitledHolds` says, for any people, keys,
thresholds, hash, locktimes and any order of signatures, packages, preimage and
clock, that the library's verifier and what the builder was told agree, both
ways, but for the two cases that the property names. It has no hypothesis but the typing of the constants (`KeysAreClear`,
`ConditionSizes`, `NullAssumption`). Four facts about the operators carry it:

- dedupeP2PKPubkeys keeps each holder once, so that thresholds count people
  (`LocksAs` says that the lock lists the builder's holders, each in a slot of
  its own);
- normalisation, tags, the storage of options in between and the split of data
  and pubkeys lose nothing of what the builder was told (`MadeForAny`);
- maybeDeriveP2BKPrivateKeys finds for a person the secret keys of every key they
  hold, blinded or not, and of no other (`TheirSecretKeys`);
- getValidSigners counts as many keys as there are holders among those who signed
  (`SignersCounted`).

The invariant `ConditionsInv` is `LockedInv`, both proofs are locked as the builder
was told, with the same preimage or none, and with the same secret if they are
judged together; and `SignedInv`: every signature that counts is of somebody who
signed (`Sound`), whoever signed has signed for every key that the state of the
lock asked of them then (`Complete`), and a signature given after the locktime is still
after it. `Complete` is the half that is easy to miss: a person who signed before
the locktime has not signed the refund, which is why the property speaks of
`SignedExpired`.

Model-checked only:

- liveness, which is out of the provers' reach;
- `SplitsAreExact`, `EndpointsAreProtected` and `RoundTrips` of the pure modules,
  which recurse over data with RECURSIVE operators or over the characters of what
  they write; they are checked over the inputs listed above;
- the refutations of section 3.

Three slips of the models came to light in proving and were repaired: the batch
lookup of quotes accepted, for single-use quotes, an answer that had failed its normalisation;
the application of WalletTransactions dropped the inputs of a melt that was
answered as pending, which may still fail and give them back
(`docs-src/usage/restore_proofs.md:42`); and Amounts did not throw when the
amount together with the receiver's fee passes the ceiling (`wallet/Wallet.ts:1023`).
A fourth is the code's: `SpendableByTheEntitled` is false for a lock with refund keys
and a locktime of 0, which was not among the inputs until the proof asked for it
(section 3).

## 5. Abstractions and what is left out

- Counters are integers without bound; JavaScript's become inexact at 2^53,
  which no wallet reaches by counting. Amounts keep their ceiling, as the
  constants `MaxAmount` and `MaxSafe`.
- WalletCounters: the handler saves synchronously. A database that saves later,
  or fails, is the application's.
- WalletTransactions: one keyset; counters are claimed in one step, as
  WalletCounters shows they may; the proofs of a send are any set none of whose
  members is superfluous; whose signature a damaged answer carries is a flag. The
  application stores what it is given at once and drops inputs it knows to be spent. Stale
  keysets are KeyChain's, offline sends are Selection's.
- WSConnection: a subscription is cancelled once, onClose observers are left
  out. Callbacks other than the error callback of a refused request observe and
  no more: handleNextMessage logs what they throw, and failPendingRpc has let
  everything go before it calls, so that a call from there is a call after it.
  Left out is only an error callback that calls connect() while another connect()
  fails in the constructor of the socket.
- WalletEvents: a newer connection attempt of another caller between a failure
  and Mint's reaction to it is left out.
- Requests: headers, log lines and the parsing of Retry-After are left out; a
  server's delay is any delay.
- ClearAuth: discovery, PKCE and form encoding are one request that succeeds or
  fails, before or after the provider exchanged its token. `RefreshTokenSpentOnce`
  holds with one provider, and for exchanges whose answer arrived; replacing a
  provider during a refresh loses the rotated token.
- BlindAuth: obtaining the access token is one step; blinding and verification
  succeed or fail. The application imports only tokens it has not used.
- KeyChain: the wallet has been loaded before. The order of getCheapestKeyset is
  a ranking without ties. Info and fees play no part.
- Selection: the time limit may strike after any trial. MAX_P2SWAP only bounds the
  swaps tried and is not reached by the instance.
- Conditions: signatures verify exactly if they were made by the key over the
  message; NUT20's quote signature is one step of WalletTransactions.
- Tokens, PaymentRequests: base64, bech32m and its checksum, and the string
  forms of nostr keys are the identity on letters. Their limits are not: 1023
  letters of bech32m for a request and 1024 for an nprofile are limits on the
  octets inside (`CreqLimit`, `ProfileLimit`), both ways.

Not modelled: curves, blinding, DLEQ proofs, key derivation, base64, bech32 and
JSON number formatting (computation without state or choice, which unit tests
with vectors serve better); logging and error classes (nothing reads them back);
group() and meltBlanksCreated (lists of cancellers and one emit); restoreAll
(batchRestore for each keyset); the first load of a wallet,
loadMintFromCache and withKeyset; the endpoints of the mint client that only
pass a request on; the fluent builders beyond the options they pass.

## 6. Plan

1. Proofs: the pure parts that have no theorem yet (`SplitsAreExact` for given
   denominations and held proofs).
2. *KeyChain*: the first load, loadMintFromCache and wallets derived with
   withKeyset, which share a keychain but not a binding.
3. *WalletTransactions* on two keysets, composed with KeyChain, so that a
   rejected preview is rebuilt on the new keyset; batch minting with its outputs.
4. *MintClient*: the lazy info and the choice between clear and blind tokens,
   which joins MintInfo, ClearAuth, BlindAuth and the retries of Requests.
