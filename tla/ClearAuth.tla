----------------------------- MODULE ClearAuth ------------------------------
(***************************************************************************)
(* The clear-auth token (CAT) of a wallet session: AuthManager's token     *)
(* state, its one refresh at a time, and the OIDC provider's fan-out of    *)
(* new tokens.                                                             *)
(*                                                                         *)
(* The provider answers over the network (a macro step); what follows from *)
(* an answer runs as microtasks, in the order in which they were queued,   *)
(* before any other macro step: the onTokens callback, the listener that   *)
(* attachOIDC registered, the continuation of the await in ensureCAT, and  *)
(* last the callers that waited for the refresh.                           *)
(***************************************************************************)
EXTENDS Integers, Sequences, FiniteSets

CONSTANTS Providers,    \* OIDCAuth instances the application may attach
          CatCallers,   \* calls of ensureCAT, each made once
          Wired,        \* onTokens calls setCAT, as createAuthWallet sets it up
          MaxSessions,  \* bound on logins, logouts and tokens set by the caller
          MaxRotations, \* bound on the refresh tokens of a session
          MaxPolls,     \* bound on the requests of a device authorization
          Undefined     \* undefined

\* An access token is a record of its session and of who issued it ("app": the
\* application); a refresh token has a serial number in its session as well.
\* The provider answers with both, or without a refresh token, and an expiry.
AccessTokens  == [session : Nat, by : Providers]
RefreshTokens == [session : Nat, by : Providers, serial : Nat]
Responses     == [access : AccessTokens, refresh : RefreshTokens \cup {Undefined},
                  expiry : {"unknown", "valid"}]

ASSUME WiredAssumption == Wired \in BOOLEAN
ASSUME BoundsAssumption == MaxSessions \in Nat /\ MaxRotations \in Nat /\ MaxPolls \in Nat
ASSUME TokenNoneAssumption ==
  Undefined \notin Providers \cup {"app"} \cup AccessTokens \cup RefreshTokens \cup Responses

VARIABLES
  access,      \* tokens.accessToken: whose session it is and who issued it
  refresh,     \* tokens.refreshToken
  expiry,      \* tokens.expiresAt, against the clock
  generation,  \* tokenGeneration
  oidc,        \* the attached provider
  inflight,    \* inflightRefresh: what was sent, to whom, and the generation
  micro,       \* the microtask queue
  caller,      \* caller[c]: where call c of ensureCAT is
  returned,    \* returned[c]: what call c gave back
  session,     \* the sessions the application has started or ended so far
  out,         \* the last of them was ended by a logout
  spent,       \* refresh tokens that a provider has exchanged for new ones
  unanswered,  \* history: those of them whose new tokens never came
  device,      \* the device authorization: idle, sleeping, asking or over
  aborted,     \* it was cancelled
  polls,       \* its requests
  pollsAfter   \* its requests after it was cancelled

tokenVars  == <<access, refresh, expiry, generation>>
callVars   == <<inflight, caller, returned>>
deviceVars == <<device, aborted, polls, pollsAfter>>
exchangeVars == <<spent, unanswered>>
clearVars == <<tokenVars, oidc, callVars, micro, session, out, exchangeVars, deviceVars>>

ClearInit ==
  /\ access = Undefined /\ refresh = Undefined /\ expiry = "unknown" /\ generation = 0
  /\ oidc = Undefined /\ inflight = Undefined /\ micro = <<>>
  /\ caller   = [c \in CatCallers |-> "idle"]
  /\ returned = [c \in CatCallers |-> Undefined]
  /\ session = 0 /\ out = FALSE /\ spent = {} /\ unanswered = {}
  /\ device = "idle" /\ aborted = FALSE /\ polls = 0 /\ pollsAfter = 0

\* No microtask is left: the next macro step may run.
Idle == micro = <<>> /\ \A c \in CatCallers : caller[c] # "resolved"

ValidForNow == access # Undefined /\ expiry # "expired"
ValidFor30s == access # Undefined /\ expiry \in {"unknown", "valid"}

\* setCAT.
SetToken(tok) ==
  /\ generation' = generation + 1
  /\ access' = tok
  /\ IF tok = Undefined THEN refresh' = Undefined /\ expiry' = "unknown"
     ELSE UNCHANGED <<refresh, expiry>>

\* Variant: a refresh token that is held is not replaced by a newer one.
UpdateKeepsRefresh(t) ==
  /\ access'  = t.access
  /\ refresh' = IF refresh = Undefined THEN t.refresh ELSE refresh
  /\ expiry'  = t.expiry
  /\ UNCHANGED generation

UpdateFromOIDC(t) ==
  /\ access'  = t.access
  /\ refresh' = IF t.refresh = Undefined THEN refresh ELSE t.refresh
  /\ expiry'  = t.expiry
  /\ UNCHANGED generation
-----------------------------------------------------------------------------
\* The application sets a token of its own, or clears it (logout).
SetCAT(tok) ==
  /\ Idle /\ session < MaxSessions
  /\ session' = session + 1
  /\ out' = (tok = Undefined)
  /\ SetToken(tok)
  /\ UNCHANGED <<oidc, callVars, micro, exchangeVars, deviceVars>>

AttachOIDC(p) ==
  /\ Idle /\ p # oidc
  /\ oidc' = p
  /\ UNCHANGED <<tokenVars, callVars, micro, session, out, exchangeVars, deviceVars>>

\* Time passes: a token comes close to its expiry, then passes it.
Expire ==
  /\ Idle /\ expiry \in {"valid", "expiring"}
  /\ expiry' = IF expiry = "valid" THEN "expiring" ELSE "expired"
  /\ UNCHANGED <<access, refresh, generation, oidc, callVars, micro, session, out, exchangeVars, deviceVars>>

StartsRefresh == IF inflight = Undefined
                 THEN inflight' = [gen |-> generation, by |-> oidc, token |-> refresh]
                 ELSE UNCHANGED inflight

\* ensureCAT up to its await.
EnsureCAT(c) ==
  /\ Idle /\ caller[c] = "idle"
  /\ IF ValidFor30s \/ oidc = Undefined \/ refresh = Undefined
     THEN /\ caller'   = [caller EXCEPT ![c] = "returned"]
          /\ returned' = [returned EXCEPT ![c] = [token |-> access, expiry |-> expiry]]
          /\ UNCHANGED inflight
     ELSE /\ StartsRefresh
          /\ caller' = [caller EXCEPT ![c] = "waiting"]
          /\ UNCHANGED returned
  /\ UNCHANGED <<tokenVars, oidc, micro, session, out, exchangeVars, deviceVars>>

\* handleTokens of provider p: the microtasks of a token response.
Fanned(p, t) ==
  (IF Wired THEN <<[task |-> "onTokens", response |-> t]>> ELSE <<>>)
  \o (IF p = oidc THEN <<[task |-> "listener", response |-> t]>> ELSE <<>>)

\* The provider answers the refresh with tokens.  The continuation of the
\* await is queued behind the microtasks of handleTokens.
RefreshAnswered(rotated, exp) ==
  LET sent == inflight
      t == [access  |-> [session |-> sent.token.session, by |-> sent.by],
            refresh |-> IF rotated THEN [session |-> sent.token.session, by |-> sent.by,
                                         serial |-> sent.token.serial + 1]
                        ELSE Undefined,
            expiry  |-> exp]
  IN  /\ Idle /\ inflight # Undefined
      /\ rotated => sent.token.serial < MaxRotations
      /\ micro' = Fanned(sent.by, t) \o <<[task |-> "resume", response |-> t]>>
      /\ spent' = IF rotated THEN spent \cup {sent.token} ELSE spent
      /\ unanswered' = IF rotated THEN unanswered \ {sent.token} ELSE unanswered
      /\ UNCHANGED <<tokenVars, oidc, callVars, session, out, deviceVars>>

\* The provider refuses, the request fails, or the answer is lost, cannot be
\* parsed or has no access token, although the provider exchanged the token.
\* ensureCAT logs and goes on with the token it has.
RefreshFailed(exchanged) ==
  /\ Idle /\ inflight # Undefined
  /\ micro' = <<[task |-> "resume", response |-> Undefined]>>
  /\ spent' = IF exchanged THEN spent \cup {inflight.token} ELSE spent
  /\ unanswered' = IF exchanged THEN unanswered \cup {inflight.token} ELSE unanswered
  /\ UNCHANGED <<tokenVars, oidc, callVars, session, out, deviceVars>>

\* A token response of provider p, which may lack a refresh token, starts a
\* session.
Granted(p, refreshable, exp) ==
  /\ Idle /\ session < MaxSessions
  /\ session' = session + 1
  /\ out' = FALSE
  /\ micro' = Fanned(p, [access  |-> [session |-> session', by |-> p],
                         refresh |-> IF refreshable THEN [session |-> session', by |-> p, serial |-> 0]
                                    ELSE Undefined,
                         expiry  |-> exp])

\* The application logs in with provider p (password or authorization code).
Login(p, refreshable, exp) ==
  /\ Granted(p, refreshable, exp)
  /\ UNCHANGED <<tokenVars, oidc, callVars, exchangeVars, deviceVars>>
-----------------------------------------------------------------------------
IsNext(task) == micro # <<>> /\ Head(micro).task = task

OnTokens ==
  /\ IsNext("onTokens")
  /\ micro' = Tail(micro)
  /\ SetToken(Head(micro).response.access)
  /\ UNCHANGED <<oidc, callVars, session, out, exchangeVars, deviceVars>>

Listener ==
  /\ IsNext("listener")
  /\ micro' = Tail(micro)
  /\ UpdateFromOIDC(Head(micro).response)
  /\ UNCHANGED <<oidc, callVars, session, out, exchangeVars, deviceVars>>

Waiters == {c \in CatCallers : caller[c] = "waiting"}

\* Variant: the reference to the refresh is dropped only if it succeeded.
ResumeIfAnswered ==
  LET t == Head(micro).response
  IN  /\ IsNext("resume")
      /\ IF t # Undefined /\ generation = inflight.gen THEN UpdateFromOIDC(t) ELSE UNCHANGED tokenVars
      /\ inflight' = IF t = Undefined THEN inflight ELSE Undefined
      /\ caller' = [c \in CatCallers |-> IF c \in Waiters /\ t # Undefined THEN "resolved" ELSE caller[c]]
      /\ micro' = Tail(micro)
      /\ UNCHANGED <<oidc, returned, session, out, exchangeVars, deviceVars>>

\* The continuation of the refresh: its result counts if the caller has not
\* set or cleared the token since.  The waiting calls can go on.
Resume ==
  LET t == Head(micro).response
  IN  /\ IsNext("resume")
      /\ IF t # Undefined /\ generation = inflight.gen THEN UpdateFromOIDC(t) ELSE UNCHANGED tokenVars
      /\ inflight' = Undefined
      /\ caller' = [c \in CatCallers |-> IF c \in Waiters THEN "resolved" ELSE caller[c]]
      /\ micro' = Tail(micro)
      /\ UNCHANGED <<oidc, returned, session, out, exchangeVars, deviceVars>>

\* A waiting call returns what the manager now holds, if it is valid.
Return(c) ==
  /\ micro = <<>> /\ caller[c] = "resolved"
  /\ caller'   = [caller EXCEPT ![c] = "refreshed"]
  /\ returned' = [returned EXCEPT ![c] =
                    [token |-> IF ValidForNow THEN access ELSE Undefined, expiry |-> expiry]]
  /\ UNCHANGED <<tokenVars, oidc, inflight, micro, session, out, exchangeVars, deviceVars>>
-----------------------------------------------------------------------------
\* startDeviceAuth(...).poll(): it sleeps, asks, and unless it has an answer
\* starts over, which is where it notices that it was cancelled.
DeviceStart ==
  /\ Idle /\ device = "idle"
  /\ device' = IF aborted THEN "over" ELSE "sleeping"
  /\ UNCHANGED <<tokenVars, oidc, callVars, micro, session, out, exchangeVars, aborted, polls, pollsAfter>>

DeviceAsk ==
  /\ Idle /\ device = "sleeping" /\ polls < MaxPolls
  /\ device' = "asking"
  /\ polls' = polls + 1
  /\ pollsAfter' = IF aborted THEN pollsAfter + 1 ELSE pollsAfter
  /\ UNCHANGED <<tokenVars, oidc, callVars, micro, session, out, exchangeVars, aborted>>

\* Variant: the flag is not looked at between two requests.
DevicePendingUnchecked ==
  /\ Idle /\ device = "asking"
  /\ device' = "sleeping"
  /\ UNCHANGED <<tokenVars, oidc, callVars, micro, session, out, exchangeVars, aborted, polls, pollsAfter>>

\* authorization_pending or slow_down.
DevicePending ==
  /\ Idle /\ device = "asking"
  /\ device' = IF aborted THEN "over" ELSE "sleeping"
  /\ UNCHANGED <<tokenVars, oidc, callVars, micro, session, out, exchangeVars, aborted, polls, pollsAfter>>

DeviceFailed ==
  /\ Idle /\ device = "asking"
  /\ device' = "over"
  /\ UNCHANGED <<tokenVars, oidc, callVars, micro, session, out, exchangeVars, aborted, polls, pollsAfter>>

DeviceGranted(p, refreshable, exp) ==
  /\ device = "asking"
  /\ Granted(p, refreshable, exp)
  /\ device' = "over"
  /\ UNCHANGED <<tokenVars, oidc, callVars, exchangeVars, aborted, polls, pollsAfter>>

DeviceCancel ==
  /\ Idle /\ ~aborted
  /\ aborted' = TRUE
  /\ UNCHANGED <<tokenVars, oidc, callVars, micro, session, out, exchangeVars, device, polls, pollsAfter>>

Macro ==
  \/ SetCAT(Undefined) \/ SetCAT([session |-> session + 1, by |-> "app"])
  \/ \E p \in Providers : AttachOIDC(p)
  \/ Expire
  \/ \E c \in CatCallers : EnsureCAT(c)
  \/ \E rotated \in BOOLEAN, exp \in {"unknown", "valid"} : RefreshAnswered(rotated, exp)
  \/ \E exchanged \in BOOLEAN : RefreshFailed(exchanged)
  \/ \E p \in Providers, refreshable \in BOOLEAN, exp \in {"unknown", "valid"} :
       Login(p, refreshable, exp) \/ DeviceGranted(p, refreshable, exp)
  \/ DeviceStart \/ DeviceAsk \/ DevicePending \/ DeviceFailed \/ DeviceCancel

Micro == OnTokens \/ Listener \/ Resume \/ \E c \in CatCallers : Return(c)

ClearNext == Macro \/ Micro

ClearSpec == ClearInit /\ [][ClearNext]_clearVars

Answered == \/ \E exchanged \in BOOLEAN : RefreshFailed(exchanged)
            \/ \E rotated \in BOOLEAN, exp \in {"unknown", "valid"} : RefreshAnswered(rotated, exp)

\* Microtasks always run, and a request to the provider ends one way or the
\* other.  Nothing is assumed of the application.
FairClearSpec == ClearSpec /\ WF_clearVars(Micro) /\ WF_clearVars(Answered)
-----------------------------------------------------------------------------
\* A refresh token whose newer one the provider has delivered is never sent
\* again, though many calls want a refresh and the answer is applied on two
\* paths.  An exchanged token is sent again only if the answer to its exchange
\* never came, when there is no other to send (with one provider: replacing it
\* during a refresh loses the new token).
Replaced == spent \ unanswered

RefreshTokenSpentOnce == inflight # Undefined /\ micro = <<>> => inflight.token \notin Replaced

\* A cancelled device authorization asks at most once more.
CancelStopsPolling == pollsAfter <= 1

\* Every call of ensureCAT returns, whatever becomes of the refresh it joins.
EveryEnsureReturns ==
  \A c \in CatCallers : caller[c] = "waiting" ~> caller[c] = "refreshed"
-----------------------------------------------------------------------------
\* What comments and tests say that the code does not do.

\* AuthManager.node.test.ts: a logout is not undone by an in-flight refresh.
LoggedOutStaysOut == out => access = Undefined
=============================================================================
