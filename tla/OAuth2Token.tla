---------------------------- MODULE OAuth2Token -----------------------------
(***************************************************************************)
(* The access tokens of one OAuth2 connector: the cache, the mutex and the *)
(* refresh of connectors/engines/oauth2-token.service.ts, the 401 retry of *)
(* the engines, the two writers of the stored authConfig                   *)
(* (connectors.service.ts and mcp-oauth-callback.controller.ts), and an    *)
(* authorization server that may rotate its refresh tokens.                *)
(*                                                                         *)
(* Nothing is shared between two connectors: every map of the service is   *)
(* keyed by the connector.  The grant is refresh_token (client_credentials *)
(* has no refresh token to lose).  Tokens are numbered in the order of     *)
(* issue; an answer without a refresh token carries NoToken in its place.  *)
(***************************************************************************)
EXTENDS Naturals

CONSTANTS
  Calls,       \* slots for tool calls in flight
  NoCall,
  MaxTokens    \* bound: number of token answers the server gives

ASSUME OAuthAssumption == NoCall \notin Calls /\ MaxTokens \in Nat \ {0}

VARIABLES
  rotates,       \* authorization server: a refresh token is good for one use
  issued,        \* authorization server: number of the last token
  valid,         \* authorization server: the refresh tokens it accepts
  age,           \* of an access token: "fresh", "near" (5 minutes) or "expired"
  stored,        \* authConfig of the connector row
  snapshot,      \* authConfig held by the registered tools
  cache,         \* tokenCache
  flight,        \* refreshInFlight: the call that runs the shared refresh
  calls,         \* the tool calls in flight
  edit,          \* PUT /connectors/:id with an authConfig: what it has read
  callback,      \* GET /connectors/oauth/callback
  excused        \* history: the newest refresh token was lost in a way the
                 \* code does not guard against

provider == <<rotates, issued, valid, age>>
memory   == <<snapshot, cache, flight, calls>>
oauthVars == <<rotates, issued, valid, age, stored, snapshot, cache, flight, calls,
               edit, callback, excused>>

NoToken == 0
Tokens  == 1 .. MaxTokens
Pairs   == [access : Tokens, refresh : Tokens \union {NoToken}]
First   == [access |-> 1, refresh |-> 1]

\* A first attempt of a call at a place in getAccessToken or after it.
CallAt(pc, token) ==
  [pc |-> pc, retried |-> FALSE, auth |-> First, answer |-> First, token |-> token]
IdleCall    == CallAt("idle", NoToken)
NoEdit  == [pc |-> "idle", read |-> First]
NoFlow  == [pc |-> "idle", answer |-> First]

Refreshing == {c \in Calls : calls[c].pc \in {"rehydrate", "posted", "answered", "persist"}}
Exchanged  == {c \in Calls : calls[c].pc \in {"answered", "persist"}}
Authorizing == callback.pc \in {"exchanged", "read"}
Joined     == {c \in Calls : calls[c].pc = "joined"}

\* Call c once it was given a token.  The retry after a 401 is the last thing
\* an engine does, whatever its answer: nothing of that call is left to model.
Given(c, token) ==
  IF calls[c].retried THEN IdleCall ELSE CallAt("using", token)

-----------------------------------------------------------------------------
(* Faulty variants of definitions below: bugs the properties must catch.   *)

\* A token without a known expiry is taken to be valid.
NearOnlyIfCached(auth) == cache # NoToken /\ age[cache] # "fresh"

\* The stored token is forgotten once a refresh has failed.
CachedOnly(c) == cache

\* The refresh token that was used is stored again.
KeptRefresh(used, answer) == [answer EXCEPT !.refresh = used]

\* The mutex is released after a success only (then instead of finally).
NeverReleased(c) == flight

\* The calls that joined a refresh are not told when it fails.
OnlyOwner(c) == {c}

-----------------------------------------------------------------------------
(* isTokenNearExpiry: the cached token decides, the stored one otherwise.  *)
NearExpiry(auth) ==
  IF cache # NoToken THEN age[cache] # "fresh" ELSE age[auth.access] # "fresh"

\* The best available token of a call: cached if not expired, else stored.
BestToken(c) ==
  IF cache # NoToken /\ age[cache] # "expired" THEN cache ELSE calls[c].auth.access

\* The tokens to store after an answer: the rotated refresh token if there is
\* one, the one that was used otherwise.
Merged(used, answer) ==
  IF answer.refresh = NoToken THEN [answer EXCEPT !.refresh = used] ELSE answer

\* Who gets the result of the refresh run by c.
Waiting(c) == {c} \union (IF flight = c THEN Joined ELSE {})

\* The mutex after the refresh run by c has settled (finally).
Released(c) == IF flight = c THEN NoCall ELSE flight

\* The pair the authorization server issues next, with a refresh token or not.
NextPair(rotate) == [access |-> issued + 1,
                     refresh |-> IF rotate THEN issued + 1 ELSE NoToken]

-----------------------------------------------------------------------------
OAuthInit ==
  /\ rotates \in BOOLEAN
  /\ issued = 1
  /\ valid = {1}
  /\ age = [g \in Tokens |-> "fresh"]
  /\ stored = First
  /\ snapshot = First
  /\ cache = NoToken
  /\ flight = NoCall
  /\ calls = [c \in Calls |-> IdleCall]
  /\ edit = NoEdit
  /\ callback = NoFlow
  /\ excused = FALSE

\* Time passes.  The server gives every token the same lifetime, longer than a
\* request: tokens age in the order of issue, and not before they are received.
Age(g) ==
  /\ g <= issued
  /\ \A c \in Exchanged : calls[c].answer.access # g
  /\ Authorizing => callback.answer.access # g
  /\ age[g] # "expired"
  /\ \A h \in 1 .. g - 1 : age[h] = "expired" \/ (age[h] = "near" /\ age[g] = "fresh")
  /\ age' = [age EXCEPT ![g] = IF @ = "fresh" THEN "near" ELSE "expired"]
  /\ UNCHANGED <<rotates, issued, valid, stored, memory, edit, callback, excused>>

(* getAccessToken. *)

\* A tool call asks for a token: a cached one that is well within its validity
\* is returned at once, otherwise the stored tokens are read.
Begin(c) ==
  /\ calls[c].pc = "idle"
  /\ calls' = [calls EXCEPT ![c] =
       IF cache # NoToken /\ age[cache] = "fresh"
       THEN CallAt("using", cache) ELSE CallAt("hydrate", NoToken)]
  /\ UNCHANGED <<provider, stored, snapshot, cache, flight, edit, callback, excused>>

\* hydrateAuthConfigFromDb: the tokens of the row or, when the query fails,
\* those of the authConfig the call took from its tool.  That copy is taken to
\* be current: with an older one the refresh fails, as it may anyway.
Hydrated == {stored, snapshot}

\* The row is read: a token near its expiry is refreshed, by this call or by
\* the one that is already refreshing it.
Hydrate(c) ==
  /\ calls[c].pc = "hydrate"
  /\ \E auth \in Hydrated :
       IF NearExpiry(auth)
       THEN /\ flight' = IF flight = NoCall THEN c ELSE flight
            /\ calls' = [calls EXCEPT ![c].auth = auth,
                           ![c].pc = IF flight = NoCall THEN "rehydrate" ELSE "joined"]
       ELSE /\ calls' = [calls EXCEPT ![c] =
                  Given(c, IF cache # NoToken THEN cache ELSE auth.access)]
            /\ UNCHANGED flight
  /\ UNCHANGED <<provider, stored, snapshot, cache, edit, callback, excused>>

(* refreshToken, from the mutex or from the 401 retry of an engine. *)

\* The row is read again and the request is sent with its refresh token.
Rehydrate(c) ==
  /\ calls[c].pc = "rehydrate"
  /\ \E auth \in Hydrated :
       calls' = [calls EXCEPT ![c].auth.refresh = auth.refresh, ![c].pc = "posted"]
  /\ UNCHANGED <<provider, stored, snapshot, cache, flight, edit, callback, excused>>

\* The authorization server accepts the refresh token and, if it rotates,
\* replaces it.
Grant(c) ==
  LET used == calls[c].auth.refresh IN
  /\ calls[c].pc = "posted" /\ issued < MaxTokens
  /\ used \in valid
  /\ issued' = issued + 1
  /\ valid' = IF rotates THEN (valid \ {used}) \union {issued + 1} ELSE valid
  /\ calls' = [calls EXCEPT ![c].pc = "answered",
                 ![c].answer = Merged(used, NextPair(rotates))]
  /\ UNCHANGED <<rotates, age, stored, snapshot, cache, flight, edit, callback, excused>>

\* The answer arrives and is cached.
Receive(c) ==
  /\ calls[c].pc = "answered"
  /\ cache' = calls[c].answer.access
  /\ calls' = [calls EXCEPT ![c].pc = "persist"]
  /\ UNCHANGED <<provider, stored, snapshot, flight, edit, callback, excused>>

\* The token goes to the caller and to the calls that joined it.
Succeed(c) ==
  /\ calls' = [d \in Calls |-> IF d \in Waiting(c)
                 THEN Given(d, calls[c].answer.access) ELSE calls[d]]
  /\ flight' = Released(c)

\* persistRefreshedToken stores the pair and updates the registered tools.
Persist(c) ==
  /\ calls[c].pc = "persist"
  /\ stored' = calls[c].answer
  /\ snapshot' = calls[c].answer
  /\ Succeed(c)
  /\ UNCHANGED <<provider, cache, edit, callback, excused>>

\* A query of persistRefreshedToken rejects: the error is swallowed.
PersistFail(c) ==
  /\ calls[c].pc = "persist"
  /\ Succeed(c)
  /\ excused' = (excused \/ rotates)
  /\ UNCHANGED <<provider, stored, snapshot, cache, edit, callback>>

\* The refresh returns null: the token was refused, or the request failed,
\* perhaps after the server had replaced the token.  A call that came from a
\* 401 ends with it; the others go on with the best token they know.
RefreshFail(c) ==
  /\ calls[c].pc \in {"posted", "answered"}
  /\ calls' = [d \in Calls |->
       IF d \in Waiting(c) THEN Given(d, BestToken(d)) ELSE calls[d]]
  /\ flight' = Released(c)
  /\ excused' = (excused \/ (calls[c].pc = "answered" /\ rotates))
  /\ UNCHANGED <<provider, stored, snapshot, cache, edit, callback>>

(* The engines. *)

\* The upstream API answers, with anything but a 401.
Answered(c) ==
  /\ calls[c].pc = "using"
  /\ calls' = [calls EXCEPT ![c] = IdleCall]
  /\ UNCHANGED <<provider, stored, snapshot, cache, flight, edit, callback, excused>>

\* The API answers 401: the engine refreshes once, past the mutex.
Unauthorized(c) ==
  /\ calls[c].pc = "using"
  /\ calls' = [calls EXCEPT ![c] = [CallAt("rehydrate", NoToken) EXCEPT !.retried = TRUE]]
  /\ UNCHANGED <<provider, stored, snapshot, cache, flight, edit, callback, excused>>

(* The other writers of authConfig. *)

\* connectors.service update reads the row, and then writes it back merged
\* with fields that hold no token.
EditRead ==
  /\ edit.pc = "idle"
  /\ edit' = [pc |-> "read", read |-> stored]
  /\ UNCHANGED <<provider, stored, memory, callback, excused>>

EditWrite ==
  /\ edit.pc = "read"
  /\ stored' = edit.read
  /\ excused' = (excused \/ edit.read.refresh # stored.refresh)
  /\ edit' = NoEdit
  /\ UNCHANGED <<provider, memory, callback>>

\* The user authorizes the connector again.  The server may withdraw its
\* earlier refresh tokens, and may issue no new one.
Authorize(refreshes, withdraws) ==
  /\ callback.pc = "idle" /\ issued < MaxTokens
  /\ issued' = issued + 1
  /\ valid' = (IF refreshes /\ withdraws THEN {} ELSE valid)
              \union (IF refreshes THEN {issued + 1} ELSE {})
  /\ callback' = [pc |-> "exchanged", answer |-> NextPair(refreshes)]
  /\ UNCHANGED <<rotates, age, stored, memory, edit, excused>>

\* The callback reads the row: an answer without a refresh token keeps the
\* stored one.
AuthorizeRead ==
  /\ callback.pc = "exchanged"
  /\ callback' = [pc |-> "read", answer |-> Merged(stored.refresh, callback.answer)]
  /\ UNCHANGED <<provider, stored, memory, edit, excused>>

\* The callback stores the pair.  Refreshes that are in flight will store an
\* earlier one over it, and one that ended since the row was read has made a
\* refresh token that was kept obsolete.
AuthorizeStore ==
  LET kept == callback.answer.refresh # callback.answer.access IN
  /\ callback.pc = "read"
  /\ stored' = callback.answer
  /\ callback' = [callback EXCEPT !.pc = "stored"]
  /\ excused' = \/ Exchanged # {}
                \/ kept /\ (excused \/ callback.answer.refresh # stored.refresh)
  /\ UNCHANGED <<provider, memory, edit>>

\* The exchange or the update throws.
AuthorizeFail ==
  /\ Authorizing
  /\ callback' = NoFlow
  /\ excused' = TRUE
  /\ UNCHANGED <<provider, stored, memory, edit>>

\* reloadConnectorTools: the registered tools get the stored authConfig.
AuthorizeReload ==
  /\ callback.pc = "stored"
  /\ snapshot' = stored
  /\ callback' = NoFlow
  /\ UNCHANGED <<provider, stored, cache, flight, calls, edit, excused>>

\* The process stops and starts again.
RestartTokens ==
  /\ snapshot' = stored
  /\ cache' = NoToken
  /\ flight' = NoCall
  /\ calls' = [c \in Calls |-> IdleCall]
  /\ edit' = NoEdit
  /\ callback' = NoFlow
  /\ excused' = (excused \/ (Exchanged # {} /\ rotates) \/ Authorizing)
  /\ UNCHANGED <<provider, stored>>

RefreshStep(c) ==
  \/ Hydrate(c) \/ Rehydrate(c) \/ Receive(c)
  \/ Persist(c) \/ PersistFail(c) \/ RefreshFail(c) \/ Answered(c)

OAuthNext ==
  \/ \E g \in Tokens : Age(g)
  \/ \E c \in Calls : Begin(c)
  \/ \E c \in Calls : Hydrate(c)
  \/ \E c \in Calls : Rehydrate(c)
  \/ \E c \in Calls : Grant(c)
  \/ \E c \in Calls : Receive(c)
  \/ \E c \in Calls : Persist(c)
  \/ \E c \in Calls : PersistFail(c)
  \/ \E c \in Calls : RefreshFail(c)
  \/ \E c \in Calls : Answered(c)
  \/ \E c \in Calls : Unauthorized(c)
  \/ EditRead
  \/ EditWrite
  \/ \E refreshes, withdraws \in BOOLEAN : Authorize(refreshes, withdraws)
  \/ AuthorizeRead
  \/ AuthorizeStore
  \/ AuthorizeFail
  \/ AuthorizeReload
  \/ RestartTokens

\* Queries answer or reject, requests answer or time out (10 s), and the event
\* loop runs what follows; nothing makes a caller, an admin or a clock act.
OAuthFairness == \A c \in Calls : WF_oauthVars(RefreshStep(c))

OAuthSpec == OAuthInit /\ [][OAuthNext]_oauthVars /\ OAuthFairness

-----------------------------------------------------------------------------
(* Properties.                                                             *)

\* Types, and: what a call uses is always a token that was issued.
OAuthTypeOK ==
  /\ issued \in Tokens
  /\ valid \subseteq 1 .. issued
  /\ age \in [Tokens -> {"fresh", "near", "expired"}]
  /\ stored \in Pairs /\ stored.refresh # NoToken
  /\ snapshot \in Pairs
  /\ cache \in Tokens \union {NoToken}
  /\ flight \in Calls \union {NoCall}
  /\ calls \in [Calls -> [pc : {"idle", "hydrate", "joined", "rehydrate", "posted",
                                "answered", "persist", "using"},
                          retried : BOOLEAN, auth : Pairs, answer : Pairs,
                          token : Tokens \union {NoToken}]]
  /\ \A c \in Calls : calls[c].pc = "using" => calls[c].token \in 1 .. issued
  /\ edit \in [pc : {"idle", "read"}, read : Pairs]
  /\ callback \in [pc : {"idle", "exchanged", "read", "stored"}, answer : Pairs]
  /\ excused \in BOOLEAN

\* The mutex stands for a refresh that is running, the only one of its kind:
\* the proactive refreshes are one at a time, and a call that joined one has
\* something to wait for, however refreshes and 401 retries interleave.
MutexIsRefresh ==
  /\ \A c \in Calls :
       c \in Refreshing /\ ~ calls[c].retried <=> flight = c
  /\ Joined # {} => flight # NoCall

\* The connector stays connected: with no refresh or authorization under way,
\* the stored refresh token is one the server accepts, although every refresh
\* may replace it and several may run at once (the reason for reading the row
\* before each refresh).  Lost answers, failed writes, crashes between the
\* answer and the write, and an edit or a callback that overlaps a refresh are
\* not guarded against by the code, and are excused.
StoredRefreshAccepted ==
  Exchanged = {} /\ ~ Authorizing /\ ~ excused
    => stored.refresh \in valid

\* A call is given an expired token only if a refresh failed in it: expiry is
\* never overlooked because the token sits in the other of cache and row.
ExpiredOnlyAfterFailure ==
  [][\A c \in Calls :
       /\ calls[c].pc # "using" /\ calls'[c].pc = "using"
       /\ age[calls'[c].token] = "expired"
       => \E d \in Calls : RefreshFail(d)]_oauthVars

\* Every call that asked for a token comes to its end, the ones that joined
\* another call's refresh included, whether that succeeds or not.
CallsEnd == \A c \in Calls : calls[c].pc # "idle" ~> calls[c].pc = "idle"

\* What the callback says of its reload ("pick up the new accessToken
\* immediately"): the token a new call is given at once is no older than the
\* one the registered tools hold.
ReauthorizationIsUsed ==
  [][\A c \in Calls :
       calls[c].pc = "idle" /\ calls'[c].pc = "using"
         => calls'[c].token >= snapshot.access]_oauthVars
=============================================================================
