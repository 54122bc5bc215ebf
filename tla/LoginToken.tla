----------------------------- MODULE LoginToken -----------------------------
(***************************************************************************)
(* Tokens of a connector with authType LOGIN_TOKEN                         *)
(* (connectors/engines/login-token.service.ts) and the calls that use them *)
(* (connectors/engines/rest.engine.ts, graphql.engine.ts): a cache in      *)
(* memory, a row in connector_auth_cache, one login in flight at a time,   *)
(* and a forced login after a 401.                                         *)
(***************************************************************************)
EXTENDS Naturals, FiniteSets

CONSTANTS
  LoginCalls,      \* calls of tools of the connector
  MaxLogins,       \* bound: tokens the service issues
  MaxLoginFaults,  \* bound: restarts and failed logins, reads and writes
  NoLoginToken     \* no token

ASSUME LoginAssumption ==
  /\ MaxLogins \in Nat \ {0} /\ MaxLoginFaults \in Nat
  /\ NoLoginToken \notin 1..MaxLogins

LoginTokens == 1..MaxLogins

VARIABLES
  bundle,       \* cache: the token in memory
  row,          \* connector_auth_cache: the token in the database
  inFlight,     \* inFlight: the running login, its stage and its token
  user,         \* the calls: their stage and the token they hold
  logins,       \* external: tokens issued so far; the last is the newest
  dead,         \* external: tokens the service no longer accepts
  near,         \* tokens within proactiveRefreshSeconds of their expiry
  loginFaults   \* faults so far, bounded by MaxLoginFaults

loginVars == <<bundle, row, inFlight, user, logins, dead, near, loginFaults>>

LoginTokenOrNone == LoginTokens \union {NoLoginToken}
NoLogin  == [at |-> "none", token |-> NoLoginToken]
IdleUser == [pc |-> "idle", token |-> NoLoginToken, rejected |-> NoLoginToken,
             joined |-> FALSE]

Usable(t) == t # NoLoginToken /\ t \notin near
LoginFault  == loginFaults < MaxLoginFaults /\ loginFaults' = loginFaults + 1
AwaitsLogin(u) == user[u].pc \in {"waits", "rewaits"}

-----------------------------------------------------------------------------
(* Faulty variants of definitions below: bugs the properties must catch.   *)

\* A failed login lets its waiters go on.
ResumedAnyway(t) ==
  [u \in LoginCalls |->
     IF ~AwaitsLogin(u) THEN user[u]
     ELSE [user[u] EXCEPT !.pc = IF @ = "waits" THEN "request" ELSE "retry", !.token = t]]

\* A call that finds a login in flight when it is refused is not told its end.
NeverResumed(t) ==
  [u \in LoginCalls |->
     IF user[u].pc = "waits" /\ ~user[u].joined /\ t # NoLoginToken
     THEN [user[u] EXCEPT !.pc = "request", !.token = t] ELSE user[u]]

\* The retry after a 401 takes its token from the cache.
RetriedFromCache(u) ==
  /\ user[u].pc = "request" /\ user[u].token \in dead /\ bundle # NoLoginToken
  /\ user' = [user EXCEPT ![u].pc = "retry", ![u].token = bundle,
                          ![u].rejected = user[u].token]
  /\ UNCHANGED <<bundle, row, inFlight, logins, dead, near, loginFaults>>

\* The token is handed to the calls before it is stored.
AnsweredEarly ==
  /\ logins' = logins + 1 /\ bundle' = logins + 1
  /\ inFlight' = NoLogin

-----------------------------------------------------------------------------
(* getToken.                                                               *)

\* Call u joins the login in flight or starts one.
JoinOrStart(u, pc) ==
  /\ user' = [user EXCEPT ![u].pc = pc,
                ![u].joined = inFlight.at # "none",
                ![u].rejected = IF pc = "rewaits" THEN user[u].token ELSE NoLoginToken]
  /\ IF inFlight.at = "none" THEN inFlight' = [at |-> "posting", token |-> NoLoginToken]
     ELSE UNCHANGED inFlight

\* A cached token that is not near its expiry is handed out; without one in
\* memory the row is read first; a cached token near its expiry is replaced.
GetToken(u) ==
  /\ user[u].pc = "idle"
  /\ \/ /\ Usable(bundle)
        /\ user' = [user EXCEPT ![u].pc = "request", ![u].token = bundle]
        /\ UNCHANGED inFlight
     \/ /\ bundle = NoLoginToken
        /\ user' = [user EXCEPT ![u].pc = "loads"]
        /\ UNCHANGED inFlight
     \/ /\ bundle # NoLoginToken /\ ~Usable(bundle)
        /\ JoinOrStart(u, "waits")
  /\ UNCHANGED <<bundle, row, logins, dead, near, loginFaults>>

\* The database answers loadFromDb; an error counts as no row.
Load(u) ==
  /\ user[u].pc = "loads"
  /\ user' = [user EXCEPT ![u].pc = "loaded", ![u].token = row]
  /\ UNCHANGED <<bundle, row, inFlight, logins, dead, near, loginFaults>>

LoadFails(u) ==
  /\ user[u].pc = "loads" /\ LoginFault
  /\ user' = [user EXCEPT ![u].pc = "loaded"]
  /\ UNCHANGED <<bundle, row, inFlight, logins, dead, near>>

\* A usable row replaces whatever the cache holds by now.
Loaded(u) ==
  /\ user[u].pc = "loaded"
  /\ IF Usable(user[u].token)
     THEN /\ bundle' = user[u].token
          /\ user' = [user EXCEPT ![u].pc = "request"]
          /\ UNCHANGED inFlight
     ELSE JoinOrStart(u, "waits") /\ UNCHANGED bundle
  /\ UNCHANGED <<row, logins, dead, near, loginFaults>>

-----------------------------------------------------------------------------
(* performLogin.                                                           *)

\* The cache has the new token before the row has it.
Issued ==
  /\ logins' = logins + 1 /\ bundle' = logins + 1
  /\ inFlight' = [at |-> "storing", token |-> logins + 1]

\* The service answers the login.
LoginAnswer ==
  /\ inFlight.at = "posting" /\ logins < MaxLogins
  /\ Issued
  /\ UNCHANGED <<row, user, dead, near, loginFaults>>

\* The calls that wait for the login go on with its token, or fail with it.
Resumed(t) ==
  [u \in LoginCalls |->
     CASE ~AwaitsLogin(u)             -> user[u]
       [] AwaitsLogin(u) /\ t = NoLoginToken -> [user[u] EXCEPT !.pc = "failed"]
       [] user[u].pc = "waits" /\ t # NoLoginToken ->
            [user[u] EXCEPT !.pc = "request", !.token = t]
       [] user[u].pc = "rewaits" /\ t # NoLoginToken ->
            [user[u] EXCEPT !.pc = "retry", !.token = t]]

\* persist swallows its errors: the login succeeds with or without the row.
LoginStored ==
  /\ inFlight.at = "storing"
  /\ row' = inFlight.token
  /\ inFlight' = NoLogin /\ user' = Resumed(inFlight.token)
  /\ UNCHANGED <<bundle, logins, dead, near, loginFaults>>

LoginNotStored ==
  /\ inFlight.at = "storing" /\ LoginFault
  /\ inFlight' = NoLogin /\ user' = Resumed(inFlight.token)
  /\ UNCHANGED <<bundle, row, logins, dead, near>>

\* The salt, the login or the parsing of its answer fails; finally deletes the
\* login all the same.
LoginFails ==
  /\ inFlight.at = "posting"
  /\ inFlight' = NoLogin /\ user' = Resumed(NoLoginToken)
  /\ UNCHANGED <<bundle, row, logins, dead, near, loginFaults>>

-----------------------------------------------------------------------------
(* The call: a request, and after a 401 one more with a forced login.      *)

Accepted(u) ==
  /\ user[u].pc \in {"request", "retry"} /\ user[u].token \notin dead
  /\ user' = [user EXCEPT ![u] = IdleUser]
  /\ UNCHANGED <<bundle, row, inFlight, logins, dead, near, loginFaults>>

\* forceRelogin: the cache forgets its token, whichever that is by now.
LoginRefused(u) ==
  /\ user[u].pc = "request" /\ user[u].token \in dead
  /\ bundle' = NoLoginToken
  /\ JoinOrStart(u, "rewaits")
  /\ UNCHANGED <<row, logins, dead, near, loginFaults>>

LoginRefusedAgain(u) ==
  /\ user[u].pc = "retry" /\ user[u].token \in dead
  /\ user' = [user EXCEPT ![u].pc = "failed"]
  /\ UNCHANGED <<bundle, row, inFlight, logins, dead, near, loginFaults>>

\* The error is answered; the slot is free for another call.
Report(u) ==
  /\ user[u].pc = "failed"
  /\ user' = [user EXCEPT ![u] = IdleUser]
  /\ UNCHANGED <<bundle, row, inFlight, logins, dead, near, loginFaults>>

-----------------------------------------------------------------------------
(* The service and the process.                                            *)

\* The service drops a token: its session ended, or another login replaced it.
Revoke(t) ==
  /\ t <= logins /\ t \notin dead
  /\ dead' = dead \union {t}
  /\ UNCHANGED <<bundle, row, inFlight, user, logins, near, loginFaults>>

GrowOld(t) ==
  /\ t <= logins /\ t \notin near
  /\ near' = near \union {t}
  /\ UNCHANGED <<bundle, row, inFlight, user, logins, dead, loginFaults>>

LoginCrash ==
  /\ LoginFault
  /\ bundle' = NoLoginToken /\ inFlight' = NoLogin
  /\ user' = [u \in LoginCalls |-> IdleUser]
  /\ UNCHANGED <<row, logins, dead, near>>

LoginInit ==
  /\ bundle = NoLoginToken /\ row = NoLoginToken
  /\ inFlight = NoLogin
  /\ user = [u \in LoginCalls |-> IdleUser]
  /\ logins = 0 /\ dead = {} /\ near = {}
  /\ loginFaults = 0

UserStep(u) ==
  \/ Load(u) \/ Loaded(u) \/ Accepted(u) \/ LoginRefused(u) \/ LoginRefusedAgain(u) \/ Report(u)

LoginStep == LoginAnswer \/ LoginFails \/ LoginStored

LoginNext ==
  \/ \E u \in LoginCalls : GetToken(u) \/ LoadFails(u) \/ UserStep(u)
  \/ LoginStep \/ LoginNotStored
  \/ \E t \in LoginTokens : Revoke(t) \/ GrowOld(t)
  \/ LoginCrash

\* The database, the login (15 s) and the request (30 s) answer or time out.
LoginFairness ==
  /\ WF_loginVars(LoginStep)
  /\ \A u \in LoginCalls : WF_loginVars(UserStep(u))

LoginSpec == LoginInit /\ [][LoginNext]_loginVars /\ LoginFairness

-----------------------------------------------------------------------------
(* Properties.                                                             *)

\* Every variable has its type; a call at its request holds an issued token, and
\* the login in flight holds one exactly while it is stored.
LoginTypeOK ==
  /\ bundle \in LoginTokenOrNone /\ row \in LoginTokenOrNone
  /\ inFlight \in [at : {"none", "posting", "storing"}, token : LoginTokenOrNone]
  /\ user \in [LoginCalls ->
       [pc : {"idle", "loads", "loaded", "waits", "rewaits", "request", "retry", "failed"},
        token : LoginTokenOrNone, rejected : LoginTokenOrNone, joined : BOOLEAN]]
  /\ logins \in 0..MaxLogins
  /\ dead \subseteq 1..logins /\ near \subseteq 1..logins
  /\ \A u \in LoginCalls :
       user[u].pc \in {"request", "retry"} => user[u].token \in 1..logins
  /\ inFlight.at = "storing" <=> inFlight.token # NoLoginToken
  /\ loginFaults \in 0..MaxLoginFaults

\* A call that was refused with a token goes on with a newer one.  The exception
\* is a call that joined a login whose token was in the cache before it was
\* stored: that may be the token it was refused with.
ForcedLoginIsNew ==
  \A u \in LoginCalls :
    user[u].pc = "retry" =>
      \/ user[u].token > user[u].rejected
      \/ user[u].joined /\ user[u].token = user[u].rejected

\* Without a fault the row holds the newest token whenever nobody logs in, so
\* that a restart does not log in again.
RowIsNewest ==
  inFlight.at = "none" /\ loginFaults = 0 /\ logins > 0 => row = logins

\* Every call gets its answer, those included that wait for another call's login.
LoginCallsEnd == \A u \in LoginCalls : user[u].pc # "idle" ~> user[u].pc = "idle"
=============================================================================
