--------------------------- MODULE ServicesProofs ---------------------------
(***************************************************************************)
(* What the login tokens of a connector keep, for any number of calls,     *)
(* logins and faults (ForcedLoginIsNew, RowIsNewest, and the types), and   *)
(* the types of the composition MCServices.                                *)
(*                                                                         *)
(* LoginInv adds to the types what a call knows at each place (UserFits):  *)
(* who waits has a login in flight to wait for, and when the answer of     *)
(* that login is being stored it is newer than the token a waiting retry   *)
(* was refused with, unless the call joined a login that was older.        *)
(***************************************************************************)
EXTENDS MCServices, ToolRegistryProofs, OAuth2TokenProofs

(* Login tokens.                                                           *)

\* Tokens are those that were issued, or none.
UserIn(n) == [pc : {"idle", "loads", "loaded", "waits", "rewaits", "request", "retry", "failed"},
              token : (1..n) \union {NoLoginToken},
              rejected : (1..n) \union {NoLoginToken}, joined : BOOLEAN]

\* The login in flight has a token while it is stored, the newest one.
LoginTyped ==
  /\ logins \in 0..MaxLogins /\ loginFaults \in 0..MaxLoginFaults
  /\ bundle \in (1..logins) \union {NoLoginToken}
  /\ row \in (1..logins) \union {NoLoginToken}
  /\ user \in [LoginCalls -> UserIn(logins)]
  /\ dead \subseteq 1..logins /\ near \subseteq 1..logins
  /\ \/ inFlight.at \in {"none", "posting"} /\ inFlight = [at |-> inFlight.at, token |-> NoLoginToken]
     \/ inFlight = [at |-> "storing", token |-> logins] /\ logins > 0

\* Whoever waits waits for a login in flight; one that has its token already may
\* be the one a call was refused with only if the call joined it.
UserFits(v, at, n) ==
  /\ v.pc \in {"request", "retry"} => v.token # NoLoginToken
  /\ v.pc \in {"waits", "rewaits"} => at # "none"
  /\ v.pc = "rewaits" => /\ v.rejected # NoLoginToken
                         /\ at = "storing" => v.rejected < n \/ v.joined
  /\ v.pc = "retry" => /\ v.rejected # NoLoginToken
                       /\ v.token > v.rejected \/ (v.joined /\ v.token = v.rejected)

\* Without a fault a token that is not being stored is in the row.
RowInv == inFlight.at # "storing" /\ loginFaults = 0 /\ logins > 0 => row = logins

LoginInv == LoginTyped /\ (\A u \in LoginCalls : UserFits(user[u], inFlight.at, logins)) /\ RowInv

\* What the runs check follows from the invariant.
LEMMA LoginFromInv == LoginInv => LoginTypeOK /\ ForcedLoginIsNew /\ RowIsNewest
<1> SUFFICES ASSUME LoginInv PROVE LoginTypeOK /\ ForcedLoginIsNew /\ RowIsNewest
  OBVIOUS
<1> USE LoginAssumption
<1>1. logins \in Nat /\ 1..logins \subseteq LoginTokens /\ NoLoginToken \notin 1..logins
  BY DEF LoginInv, LoginTyped, LoginTokens
<1>2. \A u \in LoginCalls : user[u] \in UserIn(logins) /\ UserFits(user[u], inFlight.at, logins)
  BY DEF LoginInv, LoginTyped
<1>3. LoginTypeOK
  <2>1. user \in [LoginCalls ->
       [pc : {"idle", "loads", "loaded", "waits", "rewaits", "request", "retry", "failed"},
        token : LoginTokenOrNone, rejected : LoginTokenOrNone, joined : BOOLEAN]]
    BY <1>1, <1>2 DEF LoginInv, LoginTyped, UserIn, LoginTokenOrNone
  <2>2. inFlight \in [at : {"none", "posting", "storing"}, token : LoginTokenOrNone]
        /\ (inFlight.at = "storing" <=> inFlight.token # NoLoginToken)
    BY <1>1 DEF LoginInv, LoginTyped, LoginTokenOrNone
  <2>3. \A u \in LoginCalls :
       user[u].pc \in {"request", "retry"} => user[u].token \in 1..logins
    BY <1>2 DEF UserIn, UserFits
  <2> QED BY <1>1, <2>1, <2>2, <2>3 DEF LoginInv, LoginTyped, LoginTypeOK, LoginTokenOrNone
<1>4. ForcedLoginIsNew
  BY <1>2 DEF UserFits, ForcedLoginIsNew
<1>5. RowIsNewest
  BY DEF RowIsNewest, LoginInv, RowInv
<1> QED BY <1>3, <1>4, <1>5

\* Nobody has logged in.
LEMMA LoginInvInit == LoginInit => LoginInv
BY LoginAssumption DEF LoginInit, LoginInv, LoginTyped, UserFits, RowInv, UserIn, NoLogin, IdleUser

\* A call moves: the others stay, it fits the login in flight, which starts or stays.
MoveOf(u, v) ==
  /\ user' = [user EXCEPT ![u] = v] /\ v \in UserIn(logins)
  /\ UserFits(v, inFlight'.at, logins)
  /\ \/ inFlight' = inFlight
     \/ inFlight.at = "none" /\ inFlight' = [at |-> "posting", token |-> NoLoginToken]
\* What such a move leaves alone.
Rests ==
  /\ bundle' \in (1..logins) \union {NoLoginToken}
  /\ loginFaults' = loginFaults \/ (loginFaults' = loginFaults + 1 /\ loginFaults < MaxLoginFaults)
  /\ UNCHANGED <<row, logins, dead, near>>

\* A step of one call keeps the invariant if it is a move.
LEMMA UserMoves ==
  ASSUME LoginInv, NEW u \in LoginCalls, NEW v, MoveOf(u, v), Rests
  PROVE  LoginInv'
<1> USE DEF MoveOf, Rests
<1> USE LoginAssumption
<1>1. LoginTyped'
  <2>1. user' \in [LoginCalls -> UserIn(logins)]
    BY DEF LoginInv, LoginTyped
  <2>2. loginFaults' \in 0..MaxLoginFaults
    BY DEF LoginInv, LoginTyped
  <2> QED BY <2>1, <2>2 DEF LoginInv, LoginTyped
<1>2. ASSUME NEW w \in LoginCalls PROVE UserFits(user'[w], inFlight'.at, logins')
  <2>1. CASE w = u
    <3>1. user'[w] = v BY <2>1 DEF LoginInv, LoginTyped
    <3> QED BY <3>1 DEF UserFits
  <2>2. CASE w # u
    <3>1. user'[w] = user[w] BY <2>2 DEF LoginInv, LoginTyped
    <3>2. UserFits(user[w], inFlight.at, logins) BY DEF LoginInv
    <3> QED BY <3>1, <3>2 DEF UserFits
  <2> QED BY <2>1, <2>2
<1>3. RowInv'
  BY DEF LoginInv, LoginTyped, RowInv
<1> QED BY <1>1, <1>2, <1>3 DEF LoginInv

\* The calls that wait get the token, or fail.
LEMMA ResumedFits ==
  ASSUME LoginInv, NEW t \in (1..logins) \union {NoLoginToken}, user' = Resumed(t),
         inFlight.at # "none", inFlight.at = "posting" <=> t = NoLoginToken,
         inFlight.at = "storing" => t = logins,
         inFlight' = NoLogin, logins' = logins
  PROVE  user' \in [LoginCalls -> UserIn(logins)] /\ \A u \in LoginCalls : UserFits(user'[u], inFlight'.at, logins')
<1> USE LoginAssumption
<1> DEFINE after(u) ==
     CASE ~AwaitsLogin(u)             -> user[u]
       [] AwaitsLogin(u) /\ t = NoLoginToken -> [user[u] EXCEPT !.pc = "failed"]
       [] user[u].pc = "waits" /\ t # NoLoginToken ->
            [user[u] EXCEPT !.pc = "request", !.token = t]
       [] user[u].pc = "rewaits" /\ t # NoLoginToken ->
            [user[u] EXCEPT !.pc = "retry", !.token = t]
<1>n. NoLoginToken \notin 1..logins
  BY DEF LoginInv, LoginTyped
<1>0. user' = [u \in LoginCalls |-> after(u)]
  BY DEF Resumed
<1>1. ASSUME NEW u \in LoginCalls PROVE after(u) \in UserIn(logins) /\ UserFits(after(u), "none", logins)
  <2>1. user[u] \in UserIn(logins) /\ UserFits(user[u], inFlight.at, logins) BY DEF LoginInv, LoginTyped
  <2>2. CASE ~AwaitsLogin(u)
    <3>1. after(u) = user[u] BY <2>2 DEF AwaitsLogin
    <3> HIDE DEF after
    <3> QED BY <2>1, <2>2, <3>1 DEF UserFits, AwaitsLogin
  <2>3. CASE AwaitsLogin(u) /\ t = NoLoginToken
    <3>1. after(u) = [user[u] EXCEPT !.pc = "failed"] BY <2>3 DEF AwaitsLogin
    <3> HIDE DEF after
    <3> QED BY <2>1, <3>1 DEF UserFits, UserIn
  <2>4. CASE user[u].pc = "waits" /\ t # NoLoginToken
    <3>1. after(u) = [user[u] EXCEPT !.pc = "request", !.token = t]
      BY <2>4 DEF AwaitsLogin
    <3> HIDE DEF after
    <3> QED BY <1>n, <2>1, <2>4, <3>1 DEF UserFits, UserIn
  <2>5. CASE user[u].pc = "rewaits" /\ t # NoLoginToken
    <3>1. after(u) = [user[u] EXCEPT !.pc = "retry", !.token = t]
      BY <2>5 DEF AwaitsLogin
    <3>2. t = logins /\ logins \in Nat /\ user[u].rejected \in 1..logins
          /\ (user[u].rejected < logins \/ user[u].joined)
      BY <2>1, <2>5 DEF UserFits, UserIn, LoginInv, LoginTyped
    <3> DEFINE v == after(u)
    <3>3. /\ v.pc = "retry" /\ v.token = t /\ v.rejected = user[u].rejected
          /\ v.joined = user[u].joined /\ v \in UserIn(logins)
      BY <2>1, <3>1 DEF UserIn
    <3> HIDE DEF v
    <3>4. v.token > v.rejected \/ (v.joined /\ v.token = v.rejected)
      BY <3>2, <3>3
    <3>5. UserFits(v, "none", logins)
      BY <1>n, <3>2, <3>3, <3>4 DEF UserFits
    <3> QED BY <3>3, <3>5 DEF v
  <2> QED BY <2>2, <2>3, <2>4, <2>5 DEF AwaitsLogin
<1> HIDE DEF after
<1> QED BY <1>0, <1>1 DEF NoLogin

\* No step of the logins leaves the invariant.
LEMMA LoginInvStep == LoginInv /\ [LoginNext]_loginVars => LoginInv'
<1> SUFFICES ASSUME LoginInv, [LoginNext]_loginVars PROVE LoginInv'
  OBVIOUS
<1> USE LoginAssumption
<1>0. /\ \A u \in LoginCalls : user[u] \in UserIn(logins) /\ UserFits(user[u], inFlight.at, logins)
      /\ logins \in Nat /\ NoLoginToken \notin 1..logins
      /\ user \in [LoginCalls -> UserIn(logins)]
      /\ loginFaults \in 0..MaxLoginFaults
      /\ bundle \in (1..logins) \union {NoLoginToken} /\ row \in (1..logins) \union {NoLoginToken}
      /\ dead \subseteq 1..logins
  BY DEF LoginInv, LoginTyped
<1>a. ASSUME NEW u \in LoginCalls, NEW w \in UserIn(logins), NEW pc \in {"waits", "rewaits"},
             w = user[u], JoinOrStart(u, pc), pc = "rewaits" => w.token # NoLoginToken
      PROVE  \E v : MoveOf(u, v)
  <2> DEFINE v == [w EXCEPT !.pc = pc, !.joined = inFlight.at # "none",
                            !.rejected = IF pc = "rewaits" THEN w.token ELSE NoLoginToken]
  <2>1. user' = [user EXCEPT ![u] = v] /\ v \in UserIn(logins)
    BY <1>0, <1>a DEF JoinOrStart, UserIn
  <2>2. \/ inFlight' = inFlight /\ inFlight.at # "none"
        \/ inFlight.at = "none" /\ inFlight' = [at |-> "posting", token |-> NoLoginToken]
    BY <1>a DEF JoinOrStart
  <2>3. UserFits(v, inFlight'.at, logins)
    <3>1. v.pc = pc /\ v.joined = (inFlight.at # "none") /\ (pc = "rewaits" => v.rejected = w.token)
      BY DEF UserIn
    <3> HIDE DEF v
    <3>2. inFlight'.at # "none" /\ (inFlight'.at = "storing" => inFlight.at # "none")
      BY <2>2
    <3> QED BY <1>a, <3>1, <3>2 DEF UserFits
  <2> HIDE DEF v
  <2> QED BY <2>1, <2>2, <2>3 DEF MoveOf
<1>1. ASSUME NEW u \in LoginCalls, GetToken(u) PROVE LoginInv'
  <2>1. CASE user' = [user EXCEPT ![u].pc = "request", ![u].token = bundle]
             /\ Usable(bundle) /\ UNCHANGED inFlight
    <3> DEFINE v == [user[u] EXCEPT !.pc = "request", !.token = bundle]
    <3>1. user' = [user EXCEPT ![u] = v] /\ v \in UserIn(logins) /\ UserFits(v, inFlight'.at, logins)
      BY <1>0, <2>1 DEF UserIn, UserFits, Usable
    <3> HIDE DEF v
    <3> QED BY <1>0, <1>1, <2>1, <3>1, UserMoves DEF MoveOf, Rests, GetToken
  <2>2. CASE user' = [user EXCEPT ![u].pc = "loads"] /\ UNCHANGED inFlight
    <3> DEFINE v == [user[u] EXCEPT !.pc = "loads"]
    <3>1. user' = [user EXCEPT ![u] = v] /\ v \in UserIn(logins) /\ UserFits(v, inFlight'.at, logins)
      BY <1>0, <2>2 DEF UserIn, UserFits
    <3> HIDE DEF v
    <3> QED BY <1>0, <1>1, <2>2, <3>1, UserMoves DEF MoveOf, Rests, GetToken
  <2>3. CASE JoinOrStart(u, "waits")
    <3>1. PICK v : MoveOf(u, v)
      BY <1>0, <1>a, <2>3
    <3> QED BY <1>0, <1>1, <3>1, UserMoves DEF MoveOf, Rests, GetToken
  <2> QED BY <1>1, <2>1, <2>2, <2>3 DEF GetToken
<1>2. ASSUME NEW u \in LoginCalls, Load(u) \/ LoadFails(u) PROVE LoginInv'
  <2> DEFINE v == IF Load(u) THEN [user[u] EXCEPT !.pc = "loaded", !.token = row]
                  ELSE [user[u] EXCEPT !.pc = "loaded"]
  <2>1. user' = [user EXCEPT ![u] = v] /\ v \in UserIn(logins) /\ UserFits(v, inFlight'.at, logins)
    <3>1. CASE Load(u) BY <1>0, <3>1 DEF Load, UserIn, UserFits
    <3>2. CASE ~Load(u) BY <1>0, <1>2, <3>2 DEF LoadFails, UserIn, UserFits
    <3> QED BY <3>1, <3>2
  <2>2. loginFaults' = loginFaults \/ (loginFaults' = loginFaults + 1 /\ loginFaults < MaxLoginFaults)
    BY <1>0, <1>2 DEF Load, LoadFails, LoginFault
  <2>3. UNCHANGED <<bundle, row, inFlight, logins, dead, near>>
    BY <1>2 DEF Load, LoadFails
  <2> HIDE DEF v
  <2> QED BY <1>0, <2>1, <2>2, <2>3, UserMoves DEF MoveOf, Rests
<1>3. ASSUME NEW u \in LoginCalls, Loaded(u) PROVE LoginInv'
  <2>1. CASE Usable(user[u].token)
    <3> DEFINE v == [user[u] EXCEPT !.pc = "request"]
    <3>1. user' = [user EXCEPT ![u] = v] /\ v \in UserIn(logins) /\ UserFits(v, inFlight'.at, logins)
          /\ bundle' \in 1..logins
      BY <1>0, <1>3, <2>1 DEF UserIn, UserFits, Usable, Loaded
    <3> HIDE DEF v
    <3> QED BY <1>0, <1>3, <2>1, <3>1, UserMoves DEF MoveOf, Rests, Loaded
  <2>2. CASE ~Usable(user[u].token)
    <3>1. PICK v : MoveOf(u, v)
      BY <1>0, <1>a, <1>3, <2>2 DEF Loaded
    <3> QED BY <1>0, <1>3, <2>2, <3>1, UserMoves DEF MoveOf, Rests, Loaded
  <2> QED BY <2>1, <2>2
<1>4. ASSUME NEW u \in LoginCalls, LoginRefused(u) PROVE LoginInv'
  <2>1. user[u].token # NoLoginToken
    BY <1>0, <1>4 DEF LoginRefused
  <2>2. PICK v : MoveOf(u, v)
    BY <1>0, <1>a, <1>4, <2>1 DEF LoginRefused
  <2> QED BY <1>0, <1>4, <2>2, UserMoves DEF MoveOf, Rests, LoginRefused
<1>5. ASSUME NEW u \in LoginCalls, Accepted(u) \/ LoginRefusedAgain(u) \/ Report(u) PROVE LoginInv'
  <2> DEFINE v == IF LoginRefusedAgain(u) THEN [user[u] EXCEPT !.pc = "failed"] ELSE IdleUser
  <2>1. user' = [user EXCEPT ![u] = v] /\ v \in UserIn(logins) /\ UserFits(v, inFlight'.at, logins)
    BY <1>0, <1>5 DEF UserIn, UserFits, IdleUser, Accepted, LoginRefusedAgain, Report
  <2>2. UNCHANGED <<bundle, row, inFlight, logins, dead, near, loginFaults>>
    BY <1>5 DEF Accepted, LoginRefusedAgain, Report
  <2> HIDE DEF v
  <2> QED BY <1>0, <2>1, <2>2, UserMoves DEF MoveOf, Rests
<1>6. ASSUME LoginAnswer PROVE LoginInv'
  <2>1. logins' = logins + 1 /\ logins' \in 0..MaxLogins /\ 1..logins \subseteq 1..logins'
    BY <1>0, <1>6 DEF LoginAnswer, Issued, LoginInv, LoginTyped
  <2>2. UserIn(logins) \subseteq UserIn(logins')
    BY <2>1 DEF UserIn
  <2>3. LoginTyped'
    BY <1>0, <1>6, <2>1, <2>2 DEF LoginAnswer, Issued, LoginInv, LoginTyped
  <2>4. ASSUME NEW w \in LoginCalls PROVE UserFits(user'[w], inFlight'.at, logins')
    BY <1>0, <1>6, <2>1 DEF UserFits, UserIn, LoginAnswer, Issued
  <2>5. RowInv'
    BY <1>6 DEF RowInv, LoginAnswer, Issued
  <2> QED BY <2>3, <2>4, <2>5 DEF LoginInv
<1>7. ASSUME LoginStored \/ LoginNotStored \/ LoginFails PROVE LoginInv'
  <2> DEFINE t == IF LoginFails THEN NoLoginToken ELSE inFlight.token
  <2>1. /\ t \in (1..logins) \union {NoLoginToken}
        /\ inFlight.at = "posting" <=> t = NoLoginToken
        /\ inFlight.at # "none" /\ (inFlight.at = "storing" => t = logins)
    BY <1>0, <1>7 DEF LoginStored, LoginNotStored, LoginFails, LoginInv, LoginTyped
  <2>2. user' = Resumed(t) /\ inFlight' = NoLogin /\ logins' = logins
    BY <1>0, <1>7, <2>1 DEF LoginStored, LoginNotStored, LoginFails
  <2> HIDE DEF t
  <2>3. user' \in [LoginCalls -> UserIn(logins)] /\ \A u \in LoginCalls : UserFits(user'[u], inFlight'.at, logins')
    BY <2>1, <2>2, ResumedFits
  <2>4. LoginTyped'
    BY <1>0, <1>7, <2>2, <2>3
    DEF LoginStored, LoginNotStored, LoginFails, LoginInv, LoginTyped, NoLogin, LoginFault
  <2>5. RowInv'
    BY <1>0, <1>7, <2>2
    DEF LoginStored, LoginNotStored, LoginFails, LoginInv, LoginTyped, RowInv, LoginFault, NoLogin
  <2> QED BY <2>3, <2>4, <2>5 DEF LoginInv
<1>8. ASSUME NEW t \in LoginTokens, Revoke(t) \/ GrowOld(t) PROVE LoginInv'
  <2>1. t \in 1..logins
    BY <1>0, <1>8 DEF LoginTokens, Revoke, GrowOld
  <2> QED BY <1>8, <2>1 DEF Revoke, GrowOld, LoginInv, LoginTyped, UserFits, RowInv
<1>9. ASSUME LoginCrash PROVE LoginInv'
  <2>1. LoginTyped'
    BY <1>0, <1>9 DEF LoginCrash, LoginFault, LoginInv, LoginTyped, UserIn, IdleUser, NoLogin
  <2>2. (\A u \in LoginCalls : UserFits(user'[u], inFlight'.at, logins')) /\ RowInv'
    BY <1>0, <1>9 DEF LoginCrash, LoginFault, UserFits, IdleUser, RowInv
  <2> QED BY <2>1, <2>2 DEF LoginInv
<1>10. CASE UNCHANGED loginVars
  BY <1>10 DEF loginVars, LoginInv, LoginTyped, UserFits, RowInv
<1> QED BY <1>1, <1>2, <1>3, <1>4, <1>5, <1>6, <1>7, <1>8, <1>9, <1>10
  DEF LoginNext, UserStep, LoginStep

-----------------------------------------------------------------------------
(* The composition.                                                        *)

\* The parts share no state, and each keeps its own invariant.
ServicesInv == RegistryTypeOK /\ Typed /\ LoginInv

LEMMA ServicesInvInit == ServicesInit => ServicesInv
BY RegistryAssumption, TypeInit, TypedInit, LoginInvInit DEF ServicesInit, ServicesInv

LEMMA ServicesInvStep == ServicesInv /\ [ServicesNext]_servicesVars => ServicesInv'
<1> SUFFICES ASSUME ServicesInv, [ServicesNext]_servicesVars PROVE ServicesInv'
  OBVIOUS
<1>1. [RegistryNext]_registryVars /\ [OAuthNext]_oauthVars /\ [LoginNext]_loginVars
  BY DEF ServicesNext, servicesVars
<1>2. RegistryTypeOK'
  BY <1>1, RegistryAssumption, TypeStep DEF ServicesInv
<1>3. Typed'
  BY <1>1, TypedNext DEF ServicesInv
<1>4. LoginInv'
  BY <1>1, LoginInvStep DEF ServicesInv
<1> QED BY <1>2, <1>3, <1>4 DEF ServicesInv

LEMMA ServicesInvHolds == ServicesSpec => []ServicesInv
BY ServicesInvInit, ServicesInvStep, PTL DEF ServicesSpec

\* The registry, the tokens and the logins keep their types; a call that goes out
\* with a token has one that was issued.
THEOREM ServicesTyped == ServicesSpec => []ServicesTypeOK
<1>1. ServicesInv => ServicesTypeOK
  BY TypedIsTypeOK, LoginFromInv DEF ServicesInv, ServicesTypeOK
<1> QED BY <1>1, ServicesInvHolds, PTL

\* forceRefresh answers a call that the upstream refused with a token newer than the
\* refused one, unless the call joined a login that was already in flight.
THEOREM ForcedIsNew == ServicesSpec => []ForcedLoginIsNew
<1>1. ServicesInv => ForcedLoginIsNew
  BY LoginFromInv DEF ServicesInv
<1> QED BY <1>1, ServicesInvHolds, PTL

\* While no write fails and the process does not stop, the row of the cache has the
\* newest token whenever nobody logs in: a restart goes on with that one.
THEOREM RowHasNewest == ServicesSpec => []RowIsNewest
<1>1. ServicesInv => RowIsNewest
  BY LoginFromInv DEF ServicesInv
<1> QED BY <1>1, ServicesInvHolds, PTL
=============================================================================
