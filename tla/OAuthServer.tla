----------------------------- MODULE OAuthServer -----------------------------
(***************************************************************************)
(* How an MCP client gets a token: the store behind the authorization code *)
(* flow (auth/prisma-oauth.store.ts), the strategy and the login page in a *)
(* browser (local-oauth.strategy.ts, login.controller.ts), and the client  *)
(* credentials (client-credentials.middleware.ts).  The endpoints that     *)
(* call the store are those of @rekog/mcp-nest, external.                  *)
(* One browser, with a tab for every flow: its cookies are shared.         *)
(***************************************************************************)
EXTENDS FiniteSets, Naturals

CONSTANTS
  OAuthClients,    \* ids of clients
  Persons,         \* with an account
  Flows, Codes,    \* random ids: of a row of oauth_sessions, of a code
  Trades,          \* token requests under way at once
  Nobody, NoRow

VARIABLES
  grants,     \* oauth_clients: the grant types of a client, none if unknown
  flowRows,   \* oauth_sessions
  codeRows,   \* oauth_authorization_codes
  jar,        \* cookies of the browser: its last flow, and who has logged in
  trade,      \* token requests
  used,       \* ids that have been drawn: none comes twice
  tokens      \* history: token answers

oauthServerVars == <<grants, flowRows, codeRows, jar, trade, used, tokens>>

GrantTypes == {"authorization_code", "client_credentials"}
NoTrade    == [pc |-> "idle", code |-> NoRow, client |-> NoRow, row |-> NoRow]

FlowRow == [client : OAuthClients, fresh : BOOLEAN]
CodeRow == [client : OAuthClients, person : Persons, fresh : BOOLEAN]
Token   == [client : OAuthClients, person : Persons \union {Nobody},
            code : Codes \union {NoRow}, by : Trades \union {NoRow}]

ASSUME OAuthServerAssumption ==
  /\ NoRow \notin FlowRow \union CodeRow \union Flows \union Codes
  /\ Flows \intersect Codes = {}

-----------------------------------------------------------------------------
(* Faulty variants of definitions below: bugs the properties must catch.   *)

\* A code that is gone by the time it is deleted is good all the same.
DeletedQuietly(k) == TRUE

-----------------------------------------------------------------------------
\* POST /register: a JSON object with redirect_uris passes the guard, and
\* storeClient adds a row.
register(c, types) ==
  /\ grants[c] = {} /\ types # {}
  /\ grants' = [grants EXCEPT ![c] = types]
  /\ UNCHANGED <<flowRows, codeRows, jar, trade, used, tokens>>

(* The browser. *)

\* GET /authorize of a known client: storeOAuthSession and its cookie.  The strategy
\* sends it to the login page, whatever cookie of a login there is.
authorize(c, f) ==
  /\ "authorization_code" \in grants[c] /\ f \notin used
  /\ used' = used \union {f}
  /\ flowRows' = [flowRows EXCEPT ![f] = [client |-> c, fresh |-> TRUE]]
  /\ jar' = [jar EXCEPT !.flow = f]
  /\ UNCHANGED <<grants, codeRows, trade, tokens>>

\* POST /auth/login: with the wrong password it changes nothing.
handleLogin(p) ==
  /\ jar' = [jar EXCEPT !.person = p]
  /\ UNCHANGED <<grants, flowRows, codeRows, trade, used, tokens>>

\* The cookie lasts a minute, a flow and a code a few.
LoginEnds ==
  /\ jar.person # Nobody /\ jar' = [jar EXCEPT !.person = Nobody]
  /\ UNCHANGED <<grants, flowRows, codeRows, trade, used, tokens>>

FlowEnds(f) ==
  /\ flowRows[f] # NoRow /\ flowRows[f].fresh
  /\ flowRows' = [flowRows EXCEPT ![f].fresh = FALSE]
  /\ UNCHANGED <<grants, codeRows, jar, trade, used, tokens>>

CodeEnds(k) ==
  /\ codeRows[k] # NoRow /\ codeRows[k].fresh
  /\ codeRows' = [codeRows EXCEPT ![k].fresh = FALSE]
  /\ UNCHANGED <<grants, flowRows, jar, trade, used, tokens>>

\* GET /callback of a browser that has logged in (without, back to the login page):
\* getOAuthSession, storeAuthCode, removeOAuthSession.
callback(k) ==
  /\ jar.person # Nobody /\ jar.flow # NoRow /\ k \notin used
  /\ flowRows[jar.flow] # NoRow /\ flowRows[jar.flow].fresh
  /\ LET c == flowRows[jar.flow].client
     IN codeRows' = [codeRows EXCEPT ![k] =
          [client |-> c, person |-> jar.person, fresh |-> TRUE]]
  /\ used' = used \union {k}
  /\ flowRows' = [flowRows EXCEPT ![jar.flow] = NoRow]
  /\ jar' = [jar EXCEPT !.flow = NoRow]
  /\ UNCHANGED <<grants, trade, tokens>>

\* getOAuthSession of a flow whose time is over: the row goes.
callbackTooLate ==
  /\ jar.person # Nobody /\ jar.flow # NoRow
  /\ flowRows[jar.flow] # NoRow /\ ~flowRows[jar.flow].fresh
  /\ flowRows' = [flowRows EXCEPT ![jar.flow] = NoRow]
  /\ UNCHANGED <<grants, codeRows, jar, trade, used, tokens>>

(* POST /token with a code: the client's, and its repetition when no answer came. *)

\* getAuthCode: the row is found ...
findAuthCode(t, k, c) ==
  /\ trade[t].pc = "idle" /\ grants[c] # {} /\ codeRows[k] # NoRow
  /\ trade' = [trade EXCEPT ![t] =
       [pc |-> "delete", code |-> k, client |-> c, row |-> codeRows[k]]]
  /\ UNCHANGED <<grants, flowRows, codeRows, jar, used, tokens>>

\* ... and deleted: who finds none to delete has an error and no code.
Deleted(k) == codeRows[k] # NoRow

deleteAuthCode(t) ==
  /\ trade[t].pc = "delete"
  /\ trade' = IF Deleted(trade[t].code) THEN [trade EXCEPT ![t].pc = "grant"]
              ELSE [trade EXCEPT ![t] = NoTrade]
  /\ codeRows' = [codeRows EXCEPT ![trade[t].code] = NoRow]
  /\ UNCHANGED <<grants, flowRows, jar, used, tokens>>

\* The endpoint checks time and client of the row it was given.
grantTokens(t) ==
  /\ trade[t].pc = "grant"
  /\ trade[t].row.fresh /\ trade[t].row.client = trade[t].client
  /\ tokens' = tokens \union {[client |-> trade[t].client, person |-> trade[t].row.person,
                               code |-> trade[t].code, by |-> t]}
  /\ trade' = [trade EXCEPT ![t] = NoTrade]
  /\ UNCHANGED <<grants, flowRows, codeRows, jar, used>>

\* Too late, of another client, or the process stops: a code found is spent, unless
\* the process stops before its row is deleted.
refuseTokens(t) ==
  /\ trade[t].pc \in {"delete", "grant"}
  /\ trade' = [trade EXCEPT ![t] = NoTrade]
  /\ UNCHANGED <<grants, flowRows, codeRows, jar, used, tokens>>

\* POST /token with client_credentials and the right secret: the middleware answers
\* by itself, with a token of nobody.
clientCredentials(c) ==
  /\ "client_credentials" \in grants[c]
  /\ tokens' = tokens \union {[client |-> c, person |-> Nobody, code |-> NoRow, by |-> NoRow]}
  /\ UNCHANGED <<grants, flowRows, codeRows, jar, trade, used>>

-----------------------------------------------------------------------------
\* A server that starts on the database of an earlier one, whose clients had all grants.
OAuthServerInit ==
  /\ grants \in [OAuthClients -> {{}, GrantTypes}]
  /\ flowRows = [f \in Flows |-> NoRow]
  /\ codeRows \in [Codes -> {NoRow} \union
       {r \in CodeRow : r.fresh /\ "authorization_code" \in grants[r.client]}]
  /\ jar = [flow |-> NoRow, person |-> Nobody]
  /\ trade = [t \in Trades |-> NoTrade]
  /\ used = {k \in Codes : codeRows[k] # NoRow} /\ tokens = {}

OAuthServerNext ==
  \/ \E c \in OAuthClients :
       \/ \E types \in SUBSET GrantTypes : register(c, types)
       \/ \E f \in Flows : authorize(c, f)
       \/ clientCredentials(c)
       \/ \E t \in Trades, k \in Codes : findAuthCode(t, k, c)
  \/ \E p \in Persons : handleLogin(p)
  \/ LoginEnds \/ callbackTooLate
  \/ \E f \in Flows : FlowEnds(f)
  \/ \E k \in Codes : CodeEnds(k) \/ callback(k)
  \/ \E t \in Trades : deleteAuthCode(t) \/ grantTokens(t) \/ refuseTokens(t)

OAuthServerSpec == OAuthServerInit /\ [][OAuthServerNext]_oauthServerVars

-----------------------------------------------------------------------------
(* Properties.                                                             *)

\* Every variable has its type.
OAuthServerTypeOK ==
  /\ grants \in [OAuthClients -> SUBSET GrantTypes]
  /\ flowRows \in [Flows -> FlowRow \union {NoRow}]
  /\ codeRows \in [Codes -> CodeRow \union {NoRow}]
  /\ jar \in [flow : Flows \union {NoRow}, person : Persons \union {Nobody}]
  /\ used \subseteq Flows \union Codes
  /\ tokens \subseteq Token

\* "Single-use" (prisma-oauth.store.ts): the row of a code is read and deleted in two
\* steps, yet however its requests overlap and repeat, one of them gets a token.
CodesTradedOnce ==
  \A a, b \in tokens : a.code # NoRow /\ a.code = b.code => a = b
=============================================================================
