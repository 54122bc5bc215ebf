-------------------------- MODULE OAuth2TokenProofs --------------------------
(***************************************************************************)
(* Proofs about OAuth2Token for any number of calls and tokens: its types, *)
(* the meaning of its mutex, that the stored refresh token stays one that  *)
(* the authorization server accepts, and that no call gets an expired      *)
(* token before a refresh has failed.                                      *)
(***************************************************************************)
EXTENDS OAuth2Token, TLAPS

(* The types, in the form a step preserves: every part speaks of tokens    *)
(* that were issued, and only a first attempt waits or hydrates.           *)

\* Pairs and calls that speak of the first n tokens.
PairIn(n) == [access : 1 .. n, refresh : 1 .. n]
CallIn(n) == [pc : {"idle", "hydrate", "joined", "rehydrate", "posted",
                    "answered", "persist", "using"},
              retried : BOOLEAN, auth : PairIn(n), answer : PairIn(n), token : 0 .. n]
FlowIn(n) == [pc : {"idle", "exchanged", "read", "stored"},
              answer : [access : 1 .. n, refresh : 0 .. n]]

Sane(call) ==
  /\ call.pc = "using" => call.token # NoToken
  /\ call.pc \in {"hydrate", "joined"} => ~ call.retried

ProviderTyped ==
  /\ issued \in Nat \ {0} /\ issued <= MaxTokens
  /\ rotates \in BOOLEAN
  /\ valid \subseteq 1 .. issued
  /\ age \in [Tokens -> {"fresh", "near", "expired"}]

MemoryTyped ==
  /\ snapshot \in PairIn(issued)
  /\ cache \in 0 .. issued
  /\ flight \in Calls \union {NoCall}

CallsTyped ==
  /\ calls \in [Calls -> CallIn(issued)]
  /\ \A c \in Calls : Sane(calls[c])

RowTyped ==
  /\ stored \in PairIn(issued)
  /\ edit \in [pc : {"idle", "read"}, read : PairIn(issued)]
  /\ callback \in FlowIn(issued)
  /\ callback.pc = "read" => callback.answer.refresh # NoToken
  /\ excused \in BOOLEAN

Typed == ProviderTyped /\ MemoryTyped /\ CallsTyped /\ RowTyped

-----------------------------------------------------------------------------
(* Types.                                                                  *)

\* What speaks of the first n tokens speaks of the first n + 1.
LEMMA Wider ==
  ASSUME NEW n \in Nat \ {0}
  PROVE  /\ 1 .. n \subseteq 1 .. (n + 1) /\ 0 .. n \subseteq 0 .. (n + 1)
         /\ PairIn(n) \subseteq PairIn(n + 1)
         /\ CallIn(n) \subseteq CallIn(n + 1)
         /\ FlowIn(n) \subseteq FlowIn(n + 1)
<1>1. 1 .. n \subseteq 1 .. (n + 1) /\ 0 .. n \subseteq 0 .. (n + 1)
  OBVIOUS
<1>2. PairIn(n) \subseteq PairIn(n + 1)
  BY <1>1 DEF PairIn
<1>3. FlowIn(n) \subseteq FlowIn(n + 1)
  BY <1>1 DEF FlowIn
<1> QED BY <1>1, <1>2, <1>3 DEF CallIn

\* A call at a place in getAccessToken has the type of calls; so have IdleCall,
\* NoEdit and NoFlow.
LEMMA CallAtIn ==
  ASSUME NEW n \in Nat \ {0}
  PROVE  /\ First \in PairIn(n)
         /\ IdleCall \in CallIn(n) /\ Sane(IdleCall)
         /\ \A token \in 1 .. n : CallAt("using", token) \in CallIn(n)
                                 /\ Sane(CallAt("using", token))
         /\ CallAt("hydrate", NoToken) \in CallIn(n) /\ Sane(CallAt("hydrate", NoToken))
         /\ CallAt("rehydrate", NoToken) \in CallIn(n)
         /\ NoFlow \in FlowIn(n) /\ NoFlow.pc = "idle"
         /\ NoEdit \in [pc : {"idle", "read"}, read : PairIn(n)]
<1>1. First \in PairIn(n)
  BY DEF First, PairIn
<1>2. NoFlow \in FlowIn(n) /\ NoFlow.pc = "idle"
  BY DEF NoFlow, FlowIn, First
<1> QED BY <1>1, <1>2 DEF IdleCall, CallAt, CallIn, Sane, NoToken, NoEdit

\* A call that is given a token has the type of calls, also after its retry.
LEMMA GivenIn ==
  ASSUME Typed, NEW c \in Calls, NEW token \in 1 .. issued
  PROVE  Given(c, token) \in CallIn(issued) /\ Sane(Given(c, token))
BY CallAtIn DEF Typed, ProviderTyped, Given

\* Typed is the stronger form of OAuthTypeOK.
LEMMA TypedIsTypeOK == Typed => OAuthTypeOK
<1> SUFFICES ASSUME Typed PROVE OAuthTypeOK
  OBVIOUS
<1> USE DEF Typed, ProviderTyped, MemoryTyped, CallsTyped, RowTyped
<1>1. 1 .. issued \subseteq Tokens /\ PairIn(issued) \subseteq Pairs
      /\ 0 .. issued \subseteq Tokens \union {NoToken} /\ issued \in Tokens
  BY OAuthAssumption DEF Tokens, PairIn, Pairs, NoToken
<1>2. calls \in [Calls -> [pc : {"idle", "hydrate", "joined", "rehydrate", "posted",
                                "answered", "persist", "using"},
                          retried : BOOLEAN, auth : Pairs, answer : Pairs,
                          token : Tokens \union {NoToken}]]
  BY <1>1 DEF CallIn
<1>3. \A c \in Calls : calls[c].pc = "using" => calls[c].token \in 1 .. issued
  BY DEF CallIn, Sane, NoToken
<1>4. callback \in [pc : {"idle", "exchanged", "read", "stored"}, answer : Pairs]
  BY <1>1 DEF FlowIn, Pairs, NoToken
<1>5. stored.refresh # NoToken
  BY DEF PairIn, NoToken
<1> QED BY <1>1, <1>2, <1>3, <1>4, <1>5 DEF OAuthTypeOK, Pairs

\* The service starts with one pair of tokens, nothing cached, nothing running.
LEMMA TypedInit == OAuthInit => Typed
<1> SUFFICES ASSUME OAuthInit PROVE Typed
  OBVIOUS
<1> USE DEF OAuthInit
<1>1. 1 \in Nat \ {0} /\ issued = 1
  OBVIOUS
<1>2. ProviderTyped
  BY OAuthAssumption DEF ProviderTyped
<1>3. CallsTyped
  BY <1>1, CallAtIn DEF CallsTyped
<1>4. MemoryTyped
  BY <1>1, CallAtIn DEF MemoryTyped, NoToken
<1>5. RowTyped
  BY <1>1, CallAtIn DEF RowTyped
<1> QED BY <1>2, <1>3, <1>4, <1>5 DEF Typed

\* Every action keeps the types.
LEMMA TypedStep ==
  ASSUME Typed, OAuthNext
  PROVE  Typed'
<1> USE OAuthAssumption DEF Typed
<1>0. issued \in Nat \ {0}
  BY DEF ProviderTyped
<1>1. ASSUME NEW g \in Tokens, Age(g) PROVE Typed'
  <2> USE <1>1 DEF Age
  <2>1. ProviderTyped'
    BY DEF ProviderTyped
  <2> QED BY <2>1 DEF MemoryTyped, CallsTyped, RowTyped, memory
<1>2. ASSUME NEW c \in Calls, Begin(c) PROVE Typed'
  <2>1. calls'[c] \in CallIn(issued) /\ Sane(calls'[c])
    BY <1>2, <1>0, CallAtIn DEF Begin, CallsTyped, MemoryTyped, NoToken
  <2>2. CallsTyped'
    BY <1>2, <2>1 DEF Begin, CallsTyped, provider
  <2> QED BY <1>2, <2>2 DEF Begin, ProviderTyped, MemoryTyped, RowTyped, provider
<1>3. ASSUME NEW c \in Calls, Hydrate(c) PROVE Typed'
  <2>1. PICK auth \in Hydrated : Hydrate(c)!2!(auth)
    BY <1>3 DEF Hydrate
  <2>2. auth \in PairIn(issued)
    BY DEF Hydrated, MemoryTyped, RowTyped
  <2>3. calls'[c] \in CallIn(issued) /\ Sane(calls'[c])
    <3>1. CASE NearExpiry(auth)
      BY <3>1, <1>3, <2>1, <2>2 DEF Hydrate, CallsTyped, CallIn, Sane
    <3>2. CASE ~ NearExpiry(auth)
      <4>1. (IF cache # NoToken THEN cache ELSE auth.access) \in 1 .. issued
        BY <2>2 DEF MemoryTyped, PairIn, NoToken
      <4> QED BY <3>2, <4>1, <2>1, GivenIn DEF CallsTyped
    <3> QED BY <3>1, <3>2
  <2>4. CallsTyped'
    BY <1>3, <2>1, <2>3 DEF Hydrate, CallsTyped, provider
  <2>5. MemoryTyped'
    BY <1>3, <2>1 DEF Hydrate, MemoryTyped, provider
  <2> QED BY <1>3, <2>4, <2>5 DEF Hydrate, ProviderTyped, RowTyped, provider
<1>4. ASSUME NEW c \in Calls, Rehydrate(c) PROVE Typed'
  <2>1. PICK auth \in Hydrated : Rehydrate(c)!2!(auth)
    BY <1>4 DEF Rehydrate
  <2>2. auth.refresh \in 1 .. issued
    BY DEF Hydrated, MemoryTyped, RowTyped, PairIn
  <2>3. calls'[c] \in CallIn(issued) /\ Sane(calls'[c])
    BY <2>1, <2>2 DEF CallsTyped, CallIn, PairIn, Sane
  <2>4. CallsTyped'
    BY <1>4, <2>1, <2>3 DEF Rehydrate, CallsTyped, provider
  <2> QED BY <1>4, <2>4 DEF Rehydrate, ProviderTyped, MemoryTyped, RowTyped, provider
<1>5. ASSUME NEW c \in Calls, Grant(c) PROVE Typed'
  <2>1. issued' = issued + 1 /\ calls[c].auth.refresh \in 1 .. issued
    BY <1>5 DEF Grant, ProviderTyped
  <2>2. Merged(calls[c].auth.refresh, NextPair(rotates)) \in PairIn(issued')
    BY <1>0, <2>1 DEF Merged, NextPair, PairIn, NoToken
  <2>3. ProviderTyped'
    BY <1>5, <2>1 DEF Grant, ProviderTyped
  <2>4. calls'[c] \in CallIn(issued') /\ Sane(calls'[c])
    <3>1. calls[c] \in CallIn(issued') /\ Sane(calls[c])
      BY <1>0, <2>1, Wider DEF CallsTyped
    <3>2. calls'[c] = [calls[c] EXCEPT !.pc = "answered",
                         !.answer = Merged(calls[c].auth.refresh, NextPair(rotates))]
      BY <1>5 DEF Grant, CallsTyped
    <3> QED BY <2>2, <3>1, <3>2 DEF CallIn, Sane
  <2>5. CallsTyped'
    BY <1>5, <1>0, <2>1, <2>4, Wider DEF Grant, CallsTyped
  <2>6. MemoryTyped' /\ RowTyped'
    BY <1>5, <1>0, <2>1, Wider DEF Grant, MemoryTyped, RowTyped
  <2> QED BY <2>3, <2>5, <2>6
<1>6. ASSUME NEW c \in Calls, Receive(c) PROVE Typed'
  <2>1. calls'[c] \in CallIn(issued) /\ Sane(calls'[c])
    BY <1>6 DEF Receive, CallsTyped, CallIn, Sane
  <2>2. CallsTyped'
    BY <1>6, <2>1 DEF Receive, CallsTyped, provider
  <2>3. cache' \in 0 .. issued
    BY <1>6 DEF Receive, CallsTyped, CallIn, PairIn
  <2> QED BY <1>6, <2>2, <2>3 DEF Receive, ProviderTyped, MemoryTyped, RowTyped, provider
<1>7. ASSUME NEW c \in Calls, Succeed(c), issued' = issued
      PROVE  CallsTyped' /\ flight' \in Calls \union {NoCall}
  <2>1. calls[c].answer.access \in 1 .. issued
    BY DEF CallsTyped, CallIn, PairIn
  <2>2. \A d \in Calls : calls'[d] \in CallIn(issued) /\ Sane(calls'[d])
    BY <1>7, <2>1, GivenIn DEF Succeed, CallsTyped
  <2> QED BY <1>7, <2>2 DEF Succeed, CallsTyped, Released, MemoryTyped
<1>8. ASSUME NEW c \in Calls, Persist(c) PROVE Typed'
  <2>1. calls[c].answer \in PairIn(issued)
    BY DEF CallsTyped, CallIn
  <2> QED BY <1>7, <1>8, <2>1 DEF Persist, ProviderTyped, MemoryTyped, RowTyped, provider
<1>9. ASSUME NEW c \in Calls, PersistFail(c) PROVE Typed'
  BY <1>7, <1>9 DEF PersistFail, ProviderTyped, MemoryTyped, RowTyped, provider
<1>10. ASSUME NEW c \in Calls, RefreshFail(c) PROVE Typed'
  <2>1. \A d \in Calls : BestToken(d) \in 1 .. issued
    BY DEF BestToken, MemoryTyped, CallsTyped, CallIn, PairIn, NoToken
  <2>2. \A d \in Calls : calls'[d] \in CallIn(issued) /\ Sane(calls'[d])
    BY <1>10, <2>1, GivenIn DEF RefreshFail, CallsTyped
  <2>3. CallsTyped'
    BY <1>10, <2>2 DEF RefreshFail, CallsTyped, provider
  <2>4. MemoryTyped'
    BY <1>10 DEF RefreshFail, MemoryTyped, Released, provider
  <2> QED BY <1>10, <2>3, <2>4 DEF RefreshFail, ProviderTyped, RowTyped, provider
<1>11. ASSUME NEW c \in Calls, Answered(c) PROVE Typed'
  <2>1. CallsTyped'
    BY <1>11, <1>0, CallAtIn DEF Answered, CallsTyped, provider
  <2> QED BY <1>11, <2>1 DEF Answered, ProviderTyped, MemoryTyped, RowTyped, provider
<1>12. ASSUME NEW c \in Calls, Unauthorized(c) PROVE Typed'
  <2>1. calls'[c] \in CallIn(issued) /\ Sane(calls'[c])
    BY <1>12, <1>0, CallAtIn DEF Unauthorized, CallsTyped, CallAt, CallIn, Sane
  <2>2. CallsTyped'
    BY <1>12, <2>1 DEF Unauthorized, CallsTyped, provider
  <2> QED BY <1>12, <2>2 DEF Unauthorized, ProviderTyped, MemoryTyped, RowTyped, provider
<1>13. CASE EditRead
  BY <1>13 DEF EditRead, ProviderTyped, MemoryTyped, CallsTyped, RowTyped, provider, memory
<1>14. CASE EditWrite
  <2>1. stored' \in PairIn(issued) /\ edit' \in [pc : {"idle", "read"}, read : PairIn(issued)]
    BY <1>14, <1>0, CallAtIn DEF EditWrite, RowTyped
  <2> QED BY <1>14, <2>1 DEF EditWrite, ProviderTyped, MemoryTyped, CallsTyped, RowTyped, provider, memory
<1>15. ASSUME NEW refreshes \in BOOLEAN, NEW withdraws \in BOOLEAN, Authorize(refreshes, withdraws)
       PROVE  Typed'
  <2>1. issued' = issued + 1
    BY <1>15 DEF Authorize
  <2>2. ProviderTyped'
    <3>1. valid' \subseteq 1 .. issued'
      <4>1. valid' \subseteq valid \union {issued + 1}
        BY <1>15 DEF Authorize
      <4> QED BY <4>1, <1>0, <2>1, Wider DEF ProviderTyped
    <3>2. issued' \in Nat \ {0} /\ issued' <= MaxTokens
      BY <1>15, <1>0, <2>1 DEF Authorize, ProviderTyped
    <3> QED BY <1>15, <3>1, <3>2 DEF Authorize, ProviderTyped
  <2>3. callback' \in FlowIn(issued') /\ callback'.pc = "exchanged"
    BY <1>15, <1>0, <2>1 DEF Authorize, NextPair, FlowIn, NoToken
  <2>4. CallsTyped' /\ MemoryTyped'
    BY <1>15, <1>0, <2>1, Wider DEF Authorize, CallsTyped, MemoryTyped, memory
  <2>5. RowTyped'
    BY <1>15, <1>0, <2>1, <2>3, Wider DEF Authorize, RowTyped
  <2> QED BY <2>2, <2>4, <2>5
<1>16. CASE AuthorizeRead
  <2>1. callback' \in FlowIn(issued) /\ callback'.answer.refresh # NoToken
    BY <1>16 DEF AuthorizeRead, Merged, RowTyped, FlowIn, PairIn, NoToken
  <2> QED BY <1>16, <2>1 DEF AuthorizeRead, ProviderTyped, MemoryTyped, CallsTyped, RowTyped, provider, memory
<1>17. CASE AuthorizeStore
  <2>1. stored' \in PairIn(issued) /\ callback' \in FlowIn(issued) /\ callback'.pc = "stored"
    BY <1>17 DEF AuthorizeStore, RowTyped, FlowIn, PairIn, NoToken
  <2>2. excused' \in BOOLEAN
    BY <1>17 DEF AuthorizeStore
  <2> QED BY <1>17, <2>1, <2>2 DEF AuthorizeStore, ProviderTyped, MemoryTyped, CallsTyped, RowTyped, provider, memory
<1>18. CASE AuthorizeFail
  BY <1>18, <1>0, CallAtIn DEF AuthorizeFail, ProviderTyped, MemoryTyped, CallsTyped, RowTyped, provider, memory
<1>19. CASE AuthorizeReload
  BY <1>19, <1>0, CallAtIn DEF AuthorizeReload, ProviderTyped, MemoryTyped, CallsTyped, RowTyped, provider
<1>20. CASE RestartTokens
  <2>1. CallsTyped' /\ MemoryTyped'
    BY <1>20, <1>0, CallAtIn DEF RestartTokens, CallsTyped, MemoryTyped, RowTyped, provider, NoToken
  <2>2. RowTyped'
    BY <1>20, <1>0, CallAtIn DEF RestartTokens, RowTyped, provider
  <2> QED BY <1>20, <2>1, <2>2 DEF RestartTokens, ProviderTyped, provider
<1> QED
  BY <1>1, <1>2, <1>3, <1>4, <1>5, <1>6, <1>8, <1>9, <1>10, <1>11, <1>12, <1>13,
     <1>14, <1>15, <1>16, <1>17, <1>18, <1>19, <1>20 DEF OAuthNext

\* So does every step.
LEMMA TypedNext == Typed /\ [OAuthNext]_oauthVars => Typed'
<1>1. Typed /\ UNCHANGED oauthVars => Typed'
  BY DEF oauthVars, Typed, ProviderTyped, MemoryTyped, CallsTyped, RowTyped
<1> QED BY <1>1, TypedStep

\* The types of every state, and: what a tool call uses is always a token that
\* the server has issued, never the empty place of a missing one.
THEOREM TokensTyped == OAuthSpec => []OAuthTypeOK
BY TypedNext, TypedInit, TypedIsTypeOK, PTL DEF OAuthSpec

-----------------------------------------------------------------------------
(* The mutex.                                                              *)

\* Nothing is refreshed at the start.
LEMMA MutexInit == OAuthInit => MutexIsRefresh
BY OAuthAssumption DEF OAuthInit, MutexIsRefresh, Refreshing, Joined, IdleCall, CallAt

\* What a settled refresh does to the calls and to the mutex: the calls that
\* wait for it end or go on, and no other call is touched.
LEMMA MutexSettled ==
  ASSUME Typed, MutexIsRefresh, NEW c \in Refreshing, NEW token,
         calls' = [d \in Calls |-> IF d \in Waiting(c) THEN Given(d, token[d]) ELSE calls[d]],
         flight' = Released(c)
  PROVE  MutexIsRefresh'
<1> USE OAuthAssumption
<1>1. \A d \in Waiting(c) : calls'[d].pc \in {"idle", "using"}
  BY DEF Waiting, Given, IdleCall, CallAt, Joined, Refreshing
<1>2. \A d \in Calls : d \notin Waiting(c) => calls'[d] = calls[d]
  OBVIOUS
<1>3. CASE flight = c
  <2>1. Joined' = {} /\ flight' = NoCall
    BY <1>1, <1>2, <1>3 DEF Joined, Waiting, Released
  <2>2. \A d \in Calls : ~ (d \in Refreshing' /\ ~ calls'[d].retried)
    BY <1>1, <1>2, <1>3 DEF Refreshing, Waiting, MutexIsRefresh
  <2> QED BY <2>1, <2>2 DEF MutexIsRefresh
<1>4. CASE flight # c
  <2>1. Waiting(c) = {c} /\ flight' = flight
    BY <1>4 DEF Waiting, Released
  <2>2. \A d \in Calls : d # c => calls'[d] = calls[d]
    BY <1>2, <2>1
  <2>3. c \notin Refreshing' /\ c \notin Joined'
    BY <1>1, <2>1 DEF Refreshing, Joined
  <2>4. \A d \in Calls : d \in Refreshing' /\ ~ calls'[d].retried <=> flight' = d
    BY <1>4, <2>1, <2>2, <2>3 DEF MutexIsRefresh, Refreshing
  <2>5. Joined' \subseteq Joined
    BY <2>2, <2>3 DEF Joined
  <2> QED BY <2>1, <2>4, <2>5 DEF MutexIsRefresh
<1> QED BY <1>3, <1>4

\* A step of call c that neither takes nor leaves the mutex.
LEMMA MutexKept ==
  ASSUME Typed, MutexIsRefresh, NEW c \in Calls, flight' = flight,
         \A d \in Calls : d # c => calls'[d] = calls[d],
         c \in Refreshing' /\ ~ calls'[c].retried <=> c \in Refreshing /\ ~ calls[c].retried,
         c \notin Joined'
  PROVE  MutexIsRefresh'
<1>1. \A d \in Calls : d \in Refreshing' /\ ~ calls'[d].retried <=> flight' = d
  BY DEF MutexIsRefresh, Refreshing
<1>2. Joined' \subseteq Joined
  BY DEF Joined
<1> QED BY <1>1, <1>2 DEF MutexIsRefresh

\* Every action keeps the meaning of the mutex.
LEMMA MutexStep ==
  ASSUME Typed, MutexIsRefresh, OAuthNext
  PROVE  MutexIsRefresh'
<1> USE OAuthAssumption DEF Refreshing, Joined
<1>0. ASSUME UNCHANGED <<calls, flight>> PROVE MutexIsRefresh'
  BY <1>0 DEF MutexIsRefresh
<1>00. calls \in [Calls -> CallIn(issued)]
  BY DEF Typed, CallsTyped
<1>1. ASSUME NEW c \in Calls, Begin(c) PROVE MutexIsRefresh'
  BY <1>1, <1>00, MutexKept DEF Begin, CallAt
<1>2. ASSUME NEW c \in Calls, Hydrate(c) PROVE MutexIsRefresh'
  <2>1. PICK auth \in Hydrated : Hydrate(c)!2!(auth)
    BY <1>2 DEF Hydrate
  <2>2. calls[c].pc = "hydrate" /\ ~ calls[c].retried
    BY <1>2 DEF Hydrate, Typed, CallsTyped, Sane
  <2>3. \A d \in Calls : d # c => calls'[d] = calls[d]
    BY <2>1, <1>00
  <2>4. CASE NearExpiry(auth) /\ flight = NoCall
    <3>1. calls'[c].pc = "rehydrate" /\ ~ calls'[c].retried /\ flight' = c
      BY <2>1, <2>2, <2>4, <1>00 DEF CallIn
    <3> QED BY <2>2, <2>3, <2>4, <3>1 DEF MutexIsRefresh
  <2>5. CASE NearExpiry(auth) /\ flight # NoCall
    <3>1. calls'[c].pc = "joined" /\ flight' = flight
      BY <2>1, <2>2, <2>5, <1>00 DEF CallIn
    <3> QED BY <2>2, <2>3, <2>5, <3>1 DEF MutexIsRefresh
  <2>6. CASE ~ NearExpiry(auth)
    <3>1. calls'[c].pc \in {"idle", "using"} /\ flight' = flight
      BY <2>1, <2>2, <2>6, <1>00 DEF Given, IdleCall, CallAt
    <3> QED BY <2>2, <2>3, <3>1, MutexKept
  <2> QED BY <2>4, <2>5, <2>6
<1>3. ASSUME NEW c \in Calls, Rehydrate(c) PROVE MutexIsRefresh'
  <2>1. PICK auth \in Hydrated : Rehydrate(c)!2!(auth)
    BY <1>3 DEF Rehydrate
  <2>2. calls'[c].pc = "posted" /\ calls'[c].retried = calls[c].retried
    BY <2>1, <1>00 DEF CallIn
  <2> QED BY <1>3, <1>00, <2>1, <2>2, MutexKept DEF Rehydrate
<1>4. ASSUME NEW c \in Calls, Grant(c) PROVE MutexIsRefresh'
  <2>1. calls'[c].pc = "answered" /\ calls'[c].retried = calls[c].retried
    BY <1>4, <1>00 DEF Grant, CallIn
  <2> QED BY <1>4, <1>00, <2>1, MutexKept DEF Grant
<1>5. ASSUME NEW c \in Calls, Receive(c) PROVE MutexIsRefresh'
  <2>1. calls'[c].pc = "persist" /\ calls'[c].retried = calls[c].retried
    BY <1>5, <1>00 DEF Receive, CallIn
  <2> QED BY <1>5, <1>00, <2>1, MutexKept DEF Receive
<1>6. ASSUME NEW c \in Calls, c \in Refreshing, Succeed(c) PROVE MutexIsRefresh'
  <2> DEFINE token == [d \in Calls |-> calls[c].answer.access]
  <2>1. calls' = [d \in Calls |-> IF d \in Waiting(c) THEN Given(d, token[d]) ELSE calls[d]]
    BY <1>6 DEF Succeed
  <2>2. flight' = Released(c)
    BY <1>6 DEF Succeed
  <2> HIDE DEF token
  <2> QED BY <1>6, <2>1, <2>2, MutexSettled
<1>7. ASSUME NEW c \in Calls, Persist(c) PROVE MutexIsRefresh'
  BY <1>6, <1>7 DEF Persist
<1>8. ASSUME NEW c \in Calls, PersistFail(c) PROVE MutexIsRefresh'
  BY <1>6, <1>8 DEF PersistFail
<1>9. ASSUME NEW c \in Calls, RefreshFail(c) PROVE MutexIsRefresh'
  <2> DEFINE token == [d \in Calls |-> BestToken(d)]
  <2>1. calls' = [d \in Calls |-> IF d \in Waiting(c) THEN Given(d, token[d]) ELSE calls[d]]
    BY <1>9 DEF RefreshFail
  <2>2. flight' = Released(c) /\ c \in Refreshing
    BY <1>9 DEF RefreshFail
  <2> HIDE DEF token
  <2> QED BY <2>1, <2>2, MutexSettled
<1>10. ASSUME NEW c \in Calls, Answered(c) \/ Unauthorized(c) PROVE MutexIsRefresh'
  BY <1>10, <1>00, MutexKept DEF Answered, Unauthorized, IdleCall, CallAt
<1>11. CASE RestartTokens
  BY <1>11 DEF RestartTokens, MutexIsRefresh, IdleCall, CallAt
<1>12. ASSUME NEW g \in Tokens, Age(g) PROVE MutexIsRefresh'
  BY <1>0, <1>12 DEF Age, memory
<1>13. CASE EditRead \/ EditWrite \/ AuthorizeRead \/ AuthorizeStore \/ AuthorizeFail
  BY <1>0, <1>13 DEF EditRead, EditWrite, AuthorizeRead, AuthorizeStore, AuthorizeFail, memory
<1>14. CASE AuthorizeReload
  BY <1>0, <1>14 DEF AuthorizeReload
<1>15. ASSUME NEW refreshes \in BOOLEAN, NEW withdraws \in BOOLEAN, Authorize(refreshes, withdraws)
       PROVE  MutexIsRefresh'
  BY <1>0, <1>15 DEF Authorize, memory
<1> QED
  BY <1>1, <1>2, <1>3, <1>4, <1>5, <1>7, <1>8, <1>9, <1>10, <1>11, <1>12, <1>13,
     <1>14, <1>15 DEF OAuthNext

\* refreshInFlight stands for the one proactive refresh that runs, and is empty
\* when none does: at most one such refresh runs at a time, and whoever waits
\* waits for a refresh that will settle, for any number of overlapping calls.
THEOREM MutexStandsForRefresh == OAuthSpec => []MutexIsRefresh
<1>1. Typed /\ [OAuthNext]_oauthVars => Typed'
  BY TypedNext
<1>2. Typed /\ MutexIsRefresh /\ [OAuthNext]_oauthVars => MutexIsRefresh'
  <2>1. MutexIsRefresh /\ UNCHANGED oauthVars => MutexIsRefresh'
    BY DEF oauthVars, MutexIsRefresh, Refreshing, Joined
  <2> QED BY <2>1, MutexStep
<1> QED BY <1>1, <1>2, TypedInit, MutexInit, PTL DEF OAuthSpec

-----------------------------------------------------------------------------
(* The refresh token.  A token that was issued and not stored yet is in    *)
(* nobody's hands, so no refresh can spend it before it is stored.         *)

\* The refresh tokens that a refresh may send, now or later.
Known == {First.refresh, stored.refresh, snapshot.refresh, edit.read.refresh}
         \union {calls[d].auth.refresh : d \in Calls}

\* Numbers of tokens that were issued and not stored yet, each of them once.
Unspent ==
  /\ \A c \in Exchanged :
       /\ calls[c].answer.access \notin Known
       /\ \A d \in Exchanged : calls[d].answer.access = calls[c].answer.access => c = d
       /\ Authorizing => calls[c].answer.access \notin {callback.answer.access,
                                                        callback.answer.refresh}
  /\ Authorizing => callback.answer.access \notin Known

\* The refresh token of an answer: the new one if the server rotates them,
\* otherwise the one that was sent.
Answers ==
  /\ \A c \in Exchanged :
       calls[c].answer.refresh = IF rotates THEN calls[c].answer.access
                                 ELSE calls[c].auth.refresh
  /\ callback.pc = "exchanged" =>
       callback.answer.refresh \in {NoToken, callback.answer.access}

\* A re-authorization that brings a new refresh token is under way.
Replaces == Authorizing /\ callback.answer.refresh = callback.answer.access

\* What is accepted: the token of such a re-authorization; otherwise, if
\* nothing was lost, those of all answers, and the stored one unless an answer
\* has just replaced it.
AllAccepted ==
  /\ Replaces => callback.answer.access \in valid
  /\ ~ excused /\ ~ Replaces =>
       /\ \A c \in Exchanged : calls[c].answer.refresh \in valid
       /\ ~ rotates \/ Exchanged = {} => stored.refresh \in valid

RefreshInv == Unspent /\ Answers /\ AllAccepted

\* The connector starts with a refresh token that is accepted.
LEMMA RefreshInvInit == OAuthInit => RefreshInv
BY DEF OAuthInit, RefreshInv, Unspent, Answers, AllAccepted, Replaces, Authorizing,
       Exchanged, IdleCall, CallAt, NoFlow, First

\* The settled refresh of c, seen from the answers.
LEMMA Settled ==
  ASSUME Typed, NEW c \in Refreshing, NEW token,
         calls' = [d \in Calls |-> IF d \in Waiting(c) THEN Given(d, token[d]) ELSE calls[d]]
  PROVE  /\ Exchanged' = Exchanged \ {c}
         /\ \A d \in Calls : calls'[d] = calls[d] \/ calls'[d].auth = First
         /\ \A d \in Exchanged' : calls'[d] = calls[d]
<1>1. \A d \in Waiting(c) : calls'[d].pc \in {"idle", "using"} /\ calls'[d].auth = First
  BY DEF Waiting, Given, IdleCall, CallAt, Joined, Refreshing
<1>2. \A d \in Calls : d \notin Waiting(c) => calls'[d] = calls[d]
  OBVIOUS
<1>3. Waiting(c) \intersect Exchanged \subseteq {c} /\ c \in Waiting(c)
  BY DEF Waiting, Joined, Exchanged
<1> QED BY <1>1, <1>2, <1>3 DEF Exchanged

\* A step of call c other than Grant adds no answer, changes none, and gives
\* no call a refresh token that was not known.
CallMoves(c) ==
  \/ Begin(c) \/ Hydrate(c) \/ Rehydrate(c) \/ Receive(c) \/ Persist(c)
  \/ PersistFail(c) \/ RefreshFail(c) \/ Answered(c) \/ Unauthorized(c)

\* Such a step changes no answer and takes only known refresh tokens.
LEMMA CallEffects ==
  ASSUME Typed, NEW c \in Calls, CallMoves(c)
  PROVE  /\ Exchanged' \subseteq Exchanged
         /\ \A d \in Exchanged' : calls'[d].answer = calls[d].answer
                                  /\ calls'[d].auth = calls[d].auth
         /\ \A d \in Calls : calls'[d].auth.refresh \in Known
         /\ Persist(c) \/ PersistFail(c) \/ RefreshFail(c) \/ Exchanged' = Exchanged
<1> DEFINE Goal == /\ Exchanged' \subseteq Exchanged
                   /\ \A d \in Exchanged' : calls'[d].answer = calls[d].answer
                                            /\ calls'[d].auth = calls[d].auth
                   /\ \A d \in Calls : calls'[d].auth.refresh \in Known
                   /\ Persist(c) \/ PersistFail(c) \/ RefreshFail(c) \/ Exchanged' = Exchanged
<1>0. calls \in [Calls -> CallIn(issued)]
  BY DEF Typed, CallsTyped
<1>1. \A d \in Calls : calls'[d] = calls[d] \/ calls'[d].auth = First
                       => calls'[d].auth.refresh \in Known
  BY DEF Known
<1>2. ASSUME Begin(c) \/ Answered(c) \/ Unauthorized(c) PROVE Goal
  <2>1. calls'[c].pc \notin {"answered", "persist"} /\ calls'[c].auth = First
    BY <1>0, <1>2 DEF Begin, Answered, Unauthorized, IdleCall, CallAt
  <2>2. \A d \in Calls : d # c => calls'[d] = calls[d]
    BY <1>0, <1>2 DEF Begin, Answered, Unauthorized
  <2>3. c \notin Exchanged
    BY <1>2 DEF Begin, Answered, Unauthorized, Exchanged
  <2> QED BY <1>1, <2>1, <2>2, <2>3 DEF Exchanged
<1>3. ASSUME Hydrate(c) PROVE Goal
  <2>1. PICK auth \in Hydrated : Hydrate(c)!2!(auth)
    BY <1>3 DEF Hydrate
  <2>2. calls'[c].pc \notin {"answered", "persist"} /\ calls'[c].auth \in {First, auth}
    BY <1>0, <2>1 DEF Given, IdleCall, CallAt, CallIn
  <2>3. \A d \in Calls : d # c => calls'[d] = calls[d]
    BY <1>0, <2>1
  <2>4. calls'[c].auth.refresh \in Known /\ c \notin Exchanged
    BY <1>3, <2>2 DEF Hydrate, Hydrated, Known, Exchanged
  <2> QED BY <1>1, <2>2, <2>3, <2>4 DEF Exchanged
<1>4. ASSUME Rehydrate(c) PROVE Goal
  <2>1. PICK auth \in Hydrated : Rehydrate(c)!2!(auth)
    BY <1>4 DEF Rehydrate
  <2>2. calls'[c].pc = "posted" /\ calls'[c].auth.refresh = auth.refresh
    BY <1>0, <2>1 DEF CallIn, PairIn
  <2>3. \A d \in Calls : d # c => calls'[d] = calls[d]
    BY <1>0, <2>1
  <2>4. calls'[c].auth.refresh \in Known /\ c \notin Exchanged
    BY <1>4, <2>2 DEF Rehydrate, Hydrated, Known, Exchanged
  <2> QED BY <1>1, <2>2, <2>3, <2>4 DEF Exchanged
<1>5. ASSUME Receive(c) PROVE Goal
  <2>1. /\ calls'[c].pc = "persist" /\ calls'[c].auth = calls[c].auth
        /\ calls'[c].answer = calls[c].answer
    BY <1>0, <1>5 DEF Receive, CallIn
  <2>2. \A d \in Calls : d # c => calls'[d] = calls[d]
    BY <1>0, <1>5 DEF Receive
  <2>3. c \in Exchanged /\ Exchanged' = Exchanged
    BY <1>5, <2>1, <2>2 DEF Receive, Exchanged
  <2>4. calls'[c].auth.refresh \in Known
    BY <2>1 DEF Known
  <2> QED BY <1>1, <2>1, <2>2, <2>3, <2>4 DEF Exchanged
<1>6. ASSUME Persist(c) \/ PersistFail(c) PROVE Goal
  <2> DEFINE token == [d \in Calls |-> calls[c].answer.access]
  <2>1. calls' = [d \in Calls |-> IF d \in Waiting(c) THEN Given(d, token[d]) ELSE calls[d]]
    BY <1>6 DEF Persist, PersistFail, Succeed
  <2>2. c \in Refreshing
    BY <1>6 DEF Persist, PersistFail, Refreshing
  <2> HIDE DEF token
  <2> QED BY <1>1, <1>6, <2>1, <2>2, Settled
<1>7. ASSUME RefreshFail(c) PROVE Goal
  <2> DEFINE token == [d \in Calls |-> BestToken(d)]
  <2>1. calls' = [d \in Calls |-> IF d \in Waiting(c) THEN Given(d, token[d]) ELSE calls[d]]
    BY <1>7 DEF RefreshFail
  <2>2. c \in Refreshing
    BY <1>7 DEF RefreshFail, Refreshing
  <2> HIDE DEF token
  <2> QED BY <1>1, <1>7, <2>1, <2>2, Settled
<1> QED BY <1>2, <1>3, <1>4, <1>5, <1>6, <1>7 DEF CallMoves

\* Unspent tokens stay unspent when the known ones grow by the token of an
\* answer that is unspent no longer, at most.
LEMMA UnspentKept ==
  ASSUME Unspent, NEW n,
         Known' \subseteq Known \union {n},
         Exchanged' \subseteq Exchanged,
         \A c \in Exchanged' : /\ calls'[c].answer = calls[c].answer
                               /\ calls'[c].answer.access # n,
         Authorizing' => /\ Authorizing
                         /\ callback'.answer.access = callback.answer.access
                         /\ callback'.answer.access # n
                         /\ callback'.answer.refresh \in Known \union {callback.answer.refresh}
  PROVE  Unspent'
BY DEF Unspent

\* A new token is above all others.
LEMMA NewIsUnknown ==
  ASSUME Typed
  PROVE  /\ issued + 1 \notin Known
         /\ \A c \in Calls : calls[c].answer.access # issued + 1
         /\ callback.answer.access # issued + 1 /\ callback.answer.refresh # issued + 1
<1> USE DEF Typed
<1>1. issued \in Nat \ {0}
  BY DEF ProviderTyped
<1>2. Known \subseteq 1 .. issued
  <2>1. First.refresh \in 1 .. issued
    BY <1>1 DEF First
  <2>2. stored.refresh \in 1 .. issued /\ snapshot.refresh \in 1 .. issued
        /\ edit.read.refresh \in 1 .. issued
    BY DEF RowTyped, MemoryTyped, PairIn
  <2>3. \A d \in Calls : calls[d].auth.refresh \in 1 .. issued
    BY DEF CallsTyped, CallIn, PairIn
  <2> QED BY <2>1, <2>2, <2>3 DEF Known
<1>3. \A c \in Calls : calls[c].answer.access \in 1 .. issued
  BY DEF CallsTyped, CallIn, PairIn
<1>4. callback.answer.access \in 1 .. issued /\ callback.answer.refresh \in 0 .. issued
  BY DEF RowTyped, FlowIn
<1> QED BY <1>1, <1>2, <1>3, <1>4

\* The steps of calls.
LEMMA CallKeepsRefresh ==
  ASSUME Typed, RefreshInv, NEW c \in Calls, CallMoves(c)
  PROVE  RefreshInv'
<1> USE DEF RefreshInv
<1>1. /\ Exchanged' \subseteq Exchanged
      /\ \A d \in Exchanged' : calls'[d].answer = calls[d].answer
                               /\ calls'[d].auth = calls[d].auth
      /\ \A d \in Calls : calls'[d].auth.refresh \in Known
      /\ Persist(c) \/ PersistFail(c) \/ RefreshFail(c) \/ Exchanged' = Exchanged
  BY CallEffects
<1>2. UNCHANGED <<rotates, valid, edit, callback>>
  BY DEF CallMoves, Begin, Hydrate, Rehydrate, Receive, Persist, PersistFail,
         RefreshFail, Answered, Unauthorized, Succeed, provider
<1>3. UNCHANGED <<stored, snapshot>> \/ Persist(c)
  BY DEF CallMoves, Begin, Hydrate, Rehydrate, Receive, PersistFail,
         RefreshFail, Answered, Unauthorized
<1>4. excused' = excused \/ PersistFail(c) \/ RefreshFail(c)
  BY DEF CallMoves, Begin, Hydrate, Rehydrate, Receive, Persist, Answered, Unauthorized
<1>5. /\ Authorizing' = Authorizing /\ Replaces' = Replaces
  BY <1>2 DEF Authorizing, Replaces
<1>6. Answers'
  BY <1>1, <1>2 DEF Answers
<1>7. CASE Persist(c)
  <2>1. c \in Exchanged /\ stored' = calls[c].answer /\ snapshot' = calls[c].answer
    BY <1>7 DEF Persist, Exchanged
  <2>2. excused' = excused
    BY <1>7 DEF Persist
  <2>3. c \notin Exchanged'
    <3> DEFINE token == [d \in Calls |-> calls[c].answer.access]
    <3>1. calls' = [d \in Calls |-> IF d \in Waiting(c) THEN Given(d, token[d]) ELSE calls[d]]
      BY <1>7 DEF Persist, Succeed
    <3>2. c \in Refreshing
      BY <1>7 DEF Persist, Refreshing
    <3> HIDE DEF token
    <3> QED BY <3>1, <3>2, Settled
  <2>4. Known' \subseteq Known \union {calls[c].answer.refresh}
    BY <1>1, <1>2, <2>1 DEF Known
  <2>5. Unspent'
    <3>1. CASE rotates
      <4>1. calls[c].answer.refresh = calls[c].answer.access
        BY <2>1, <3>1 DEF Answers
      <4>2. \A d \in Exchanged' : calls'[d].answer.access # calls[c].answer.refresh
        BY <1>1, <2>1, <2>3, <4>1 DEF Unspent
      <4>3. Authorizing => callback.answer.access # calls[c].answer.refresh
        BY <2>1, <4>1 DEF Unspent
      <4> QED BY <1>1, <1>2, <1>5, <2>4, <4>2, <4>3, UnspentKept
    <3>2. CASE ~ rotates
      <4>1. calls[c].answer.refresh \in Known
        BY <2>1, <3>2 DEF Answers, Known
      <4>2. \A d \in Exchanged' : calls'[d].answer.access # calls[c].answer.refresh
        BY <1>1, <4>1 DEF Unspent
      <4>3. Authorizing => callback.answer.access # calls[c].answer.refresh
        BY <4>1 DEF Unspent
      <4> QED BY <1>1, <1>2, <1>5, <2>4, <4>2, <4>3, UnspentKept
    <3> QED BY <3>1, <3>2
  <2>6. AllAccepted'
    BY <1>1, <1>2, <1>5, <2>1, <2>2 DEF AllAccepted
  <2> QED BY <1>6, <2>5, <2>6
<1>8. CASE UNCHANGED <<stored, snapshot>>
  <2>1. Known' \subseteq Known \union {First.refresh} /\ First.refresh \in Known
    BY <1>1, <1>2, <1>8 DEF Known
  <2>2. /\ \A d \in Exchanged' : calls'[d].answer.access # First.refresh
        /\ Authorizing => callback.answer.access # First.refresh
    BY <1>1, <2>1 DEF Unspent
  <2>3. Unspent'
    BY <1>1, <1>2, <1>5, <2>1, <2>2, UnspentKept
  <2>4. CASE Exchanged' = Exchanged
    <3>1. excused => excused'
      BY <1>4 DEF PersistFail, RefreshFail
    <3>2. AllAccepted'
      BY <1>1, <1>2, <1>5, <1>8, <2>4, <3>1 DEF AllAccepted
    <3> QED BY <1>6, <2>3, <3>2
  <2>5. CASE Exchanged' # Exchanged /\ (PersistFail(c) \/ RefreshFail(c))
    <3>1. c \in Exchanged
      <4>1. ASSUME RefreshFail(c), calls[c].pc = "posted" PROVE FALSE
        <5> DEFINE token == [d \in Calls |-> BestToken(d)]
        <5>1. calls' = [d \in Calls |-> IF d \in Waiting(c) THEN Given(d, token[d]) ELSE calls[d]]
          BY <4>1 DEF RefreshFail
        <5>2. c \in Refreshing /\ c \notin Exchanged
          BY <4>1 DEF Refreshing, Exchanged
        <5> HIDE DEF token
        <5> QED BY <2>5, <5>1, <5>2, Settled
      <4> QED BY <2>5, <4>1 DEF PersistFail, RefreshFail, Exchanged
    <3>2. excused' = (excused \/ rotates)
      BY <2>5, <3>1 DEF PersistFail, RefreshFail, Exchanged
    <3>3. AllAccepted'
      BY <1>1, <1>2, <1>5, <1>8, <3>2 DEF AllAccepted
    <3> QED BY <1>6, <2>3, <3>3
  <2> QED BY <1>1, <1>3, <2>4, <2>5, <1>7
<1> QED BY <1>3, <1>7, <1>8

\* Grant: the token that was sent is spent, and is nobody's new token.
LEMMA GrantKeepsRefresh ==
  ASSUME Typed, RefreshInv, NEW c \in Calls, Grant(c)
  PROVE  RefreshInv'
<1> USE DEF RefreshInv
<1> DEFINE used == calls[c].auth.refresh
<1>0. calls \in [Calls -> CallIn(issued)]
  BY DEF Typed, CallsTyped
<1>1. /\ calls'[c].pc = "answered" /\ calls'[c].auth = calls[c].auth
      /\ calls'[c].answer = Merged(used, NextPair(rotates))
      /\ \A d \in Calls : d # c => calls'[d] = calls[d]
  BY <1>0 DEF Grant, CallIn
<1>2. /\ calls'[c].answer.access = issued + 1
      /\ calls'[c].answer.refresh = IF rotates THEN issued + 1 ELSE used
  <2>1. issued + 1 # NoToken
    BY DEF Typed, ProviderTyped, NoToken
  <2> QED BY <1>1, <2>1 DEF Merged, NextPair
<1>3. UNCHANGED <<rotates, stored, snapshot, edit, callback, excused>>
  BY DEF Grant
<1>4. /\ Authorizing' = Authorizing /\ Replaces' = Replaces
      /\ Exchanged' = Exchanged \union {c} /\ c \notin Exchanged
  BY <1>1, <1>3 DEF Authorizing, Replaces, Exchanged, Grant
<1>5. Known' = Known
  BY <1>1, <1>3 DEF Known
<1>6. used \in Known
  BY DEF Known
<1>7. used \in valid /\ valid' = IF rotates THEN (valid \ {used}) \union {issued + 1} ELSE valid
  BY DEF Grant
<1>8. \A d \in Exchanged : calls'[d] = calls[d]
  BY <1>1, <1>4 DEF Exchanged
<1> HIDE DEF used
<1>9. Unspent'
  <2>1. /\ issued + 1 \notin Known
        /\ \A d \in Exchanged : calls[d].answer.access # issued + 1
        /\ callback.answer.access # issued + 1 /\ callback.answer.refresh # issued + 1
    BY NewIsUnknown DEF Exchanged
  <2> QED BY <1>2, <1>3, <1>4, <1>5, <1>8, <2>1 DEF Unspent
<1>10. Answers'
  BY <1>1, <1>2, <1>3, <1>4, <1>8 DEF Answers, used
<1>11. AllAccepted'
  <2>1. Replaces => callback.answer.access \in valid'
    BY <1>6, <1>7 DEF AllAccepted, Unspent, Replaces
  <2>2. ASSUME ~ excused, ~ Replaces, NEW d \in Exchanged PROVE calls[d].answer.refresh \in valid'
    <3>1. calls[d].answer.refresh \in valid
      BY <2>2 DEF AllAccepted
    <3>2. rotates => calls[d].answer.refresh # used
      BY <1>6, <2>2 DEF Answers, Unspent
    <3> QED BY <1>7, <3>1, <3>2
  <2>3. calls'[c].answer.refresh \in valid'
    BY <1>2, <1>7
  <2>4. ~ excused /\ ~ Replaces /\ ~ rotates => stored.refresh \in valid'
    BY <1>7 DEF AllAccepted
  <2> QED BY <1>3, <1>4, <1>8, <2>1, <2>2, <2>3, <2>4 DEF AllAccepted
<1> QED BY <1>9, <1>10, <1>11

\* The other writers of the row, and the process.
LEMMA OthersKeepRefresh ==
  ASSUME Typed, RefreshInv,
         \/ EditRead \/ EditWrite \/ AuthorizeRead \/ AuthorizeStore
         \/ AuthorizeFail \/ AuthorizeReload \/ RestartTokens
         \/ \E g \in Tokens : Age(g)
         \/ \E refreshes, withdraws \in BOOLEAN : Authorize(refreshes, withdraws)
  PROVE  RefreshInv'
<1> USE DEF RefreshInv
<1>0. First.refresh \in Known /\ stored.refresh \in Known /\ edit.read.refresh \in Known
  BY DEF Known
<1>00. \A c \in Exchanged : calls[c].answer.access # First.refresh
  BY <1>0 DEF Unspent
<1>000. Authorizing => callback.answer.access # First.refresh
  BY <1>0 DEF Unspent
<1>1. ASSUME \E g \in Tokens : Age(g) PROVE RefreshInv'
  <2>1. UNCHANGED <<rotates, valid, stored, snapshot, calls, edit, callback, excused>>
    BY <1>1 DEF Age, memory
  <2> QED BY <2>1 DEF Unspent, Answers, AllAccepted, Known, Authorizing, Replaces, Exchanged
<1>2. ASSUME EditRead \/ EditWrite PROVE RefreshInv'
  <2>1. UNCHANGED <<rotates, valid, snapshot, calls, callback>>
    BY <1>2 DEF EditRead, EditWrite, provider, memory
  <2>2. /\ Exchanged' = Exchanged /\ Authorizing' = Authorizing /\ Replaces' = Replaces
    BY <2>1 DEF Exchanged, Authorizing, Replaces
  <2>3. Known' \subseteq Known \union {First.refresh}
    BY <1>2, <2>1 DEF EditRead, EditWrite, Known, NoEdit
  <2>4. Unspent'
    BY <1>00, <1>000, <2>1, <2>2, <2>3, UnspentKept
  <2>5. Answers'
    BY <2>1, <2>2 DEF Answers
  <2>6. excused' \/ (~ excused /\ stored'.refresh = stored.refresh) \/ UNCHANGED <<stored, excused>>
    BY <1>2 DEF EditRead, EditWrite
  <2>7. AllAccepted'
    BY <2>1, <2>2, <2>6 DEF AllAccepted
  <2> QED BY <2>4, <2>5, <2>7
<1>3. ASSUME AuthorizeRead PROVE RefreshInv'
  <2>1. UNCHANGED <<rotates, valid, stored, snapshot, calls, edit, excused>>
    BY <1>3 DEF AuthorizeRead, provider, memory
  <2>2. /\ Authorizing /\ Authorizing' /\ callback'.pc = "read"
        /\ callback'.answer.access = callback.answer.access
        /\ callback'.answer.refresh = IF callback.answer.refresh = NoToken THEN stored.refresh
                                      ELSE callback.answer.refresh
    BY <1>3 DEF AuthorizeRead, Authorizing, Merged, Typed, RowTyped, FlowIn
  <2>3. Exchanged' = Exchanged /\ Known' = Known
    BY <2>1 DEF Exchanged, Known
  <2>4. Unspent'
    BY <1>0, <1>00, <1>000, <2>1, <2>2, <2>3, UnspentKept
  <2>5. Answers'
    BY <2>1, <2>2, <2>3 DEF Answers
  <2>6. Replaces' = Replaces
    <3>1. callback.answer.access # stored.refresh
      BY <1>0, <2>2 DEF Unspent
    <3>2. callback.answer.access # NoToken
      BY DEF Typed, RowTyped, FlowIn, NoToken
    <3> QED BY <2>2, <3>1, <3>2 DEF Replaces
  <2>7. AllAccepted'
    BY <2>1, <2>2, <2>3, <2>6 DEF AllAccepted
  <2> QED BY <2>4, <2>5, <2>7
<1>4. ASSUME AuthorizeStore PROVE RefreshInv'
  <2>1. UNCHANGED <<rotates, valid, snapshot, calls, edit>>
    BY <1>4 DEF AuthorizeStore, provider, memory
  <2>2. /\ Authorizing /\ ~ Authorizing' /\ ~ Replaces' /\ callback'.pc = "stored"
        /\ stored' = callback.answer
    BY <1>4 DEF AuthorizeStore, Authorizing, Replaces, Typed, RowTyped, FlowIn
  <2>3. Exchanged' = Exchanged /\ Known' \subseteq Known \union {callback.answer.refresh}
    BY <2>1, <2>2 DEF Exchanged, Known
  <2>4. \A c \in Exchanged : calls[c].answer.access # callback.answer.refresh
    BY <2>2 DEF Unspent
  <2>5. Unspent'
    BY <2>1, <2>2, <2>3, <2>4, UnspentKept
  <2>6. Answers'
    BY <2>1, <2>2, <2>3 DEF Answers
  <2>7. ~ excused' => /\ Exchanged = {}
                      /\ Replaces \/ (~ excused /\ callback.answer.refresh = stored.refresh)
    BY <1>4, <2>2 DEF AuthorizeStore, Replaces
  <2>8. ~ excused' => callback.answer.refresh \in valid
    BY <2>7 DEF AllAccepted, Replaces
  <2>9. AllAccepted'
    BY <2>1, <2>2, <2>3, <2>7, <2>8 DEF AllAccepted
  <2> QED BY <2>5, <2>6, <2>9
<1>5. ASSUME AuthorizeFail \/ AuthorizeReload PROVE RefreshInv'
  <2>1. UNCHANGED <<rotates, valid, stored, calls, edit>>
    BY <1>5 DEF AuthorizeFail, AuthorizeReload, provider, memory
  <2>2. ~ Authorizing' /\ ~ Replaces' /\ callback'.pc = "idle"
    BY <1>5 DEF AuthorizeFail, AuthorizeReload, Authorizing, Replaces, NoFlow
  <2>3. Exchanged' = Exchanged
    BY <2>1 DEF Exchanged
  <2>4. Known' \subseteq Known \union {First.refresh}
    BY <1>5, <2>1 DEF AuthorizeFail, AuthorizeReload, Known, memory
  <2>5. Unspent'
    BY <1>00, <2>1, <2>2, <2>3, <2>4, UnspentKept
  <2>6. Answers'
    BY <2>1, <2>2, <2>3 DEF Answers
  <2>7. excused' \/ (~ Replaces /\ excused' = excused)
    BY <1>5 DEF AuthorizeFail, AuthorizeReload, Replaces, Authorizing
  <2>8. AllAccepted'
    BY <2>1, <2>2, <2>3, <2>7 DEF AllAccepted
  <2> QED BY <2>5, <2>6, <2>8
<1>6. ASSUME RestartTokens PROVE RefreshInv'
  <2>1. UNCHANGED <<rotates, valid, stored>>
    BY <1>6 DEF RestartTokens, provider
  <2>2. Exchanged' = {} /\ ~ Authorizing' /\ ~ Replaces' /\ callback'.pc = "idle"
    BY <1>6 DEF RestartTokens, Exchanged, IdleCall, CallAt, NoFlow, Authorizing, Replaces
  <2>3. Unspent' /\ Answers'
    BY <2>2 DEF Unspent, Answers
  <2>4. ~ excused' => ~ excused /\ ~ Replaces /\ (~ rotates \/ Exchanged = {})
    BY <1>6 DEF RestartTokens, Replaces
  <2>5. AllAccepted'
    BY <2>1, <2>2, <2>4 DEF AllAccepted
  <2> QED BY <2>3, <2>5
<1>7. ASSUME NEW refreshes \in BOOLEAN, NEW withdraws \in BOOLEAN, Authorize(refreshes, withdraws)
      PROVE  RefreshInv'
  <2>1. UNCHANGED <<rotates, stored, snapshot, calls, edit, excused>>
    BY <1>7 DEF Authorize, memory
  <2>2. /\ ~ Authorizing /\ Authorizing' /\ callback'.pc = "exchanged"
        /\ callback'.answer.access = issued + 1
        /\ callback'.answer.refresh = IF refreshes THEN issued + 1 ELSE NoToken
    BY <1>7 DEF Authorize, Authorizing, NextPair
  <2>3. Exchanged' = Exchanged /\ Known' = Known
    BY <2>1 DEF Exchanged, Known
  <2>4. \A c \in Calls : calls[c].answer.access # NoToken
    <3> SUFFICES ASSUME NEW c \in Calls PROVE calls[c].answer.access # NoToken
      OBVIOUS
    <3>1. calls[c].answer.access \in 1 .. issued /\ issued \in Nat
      BY DEF Typed, CallsTyped, CallIn, PairIn, ProviderTyped, Tokens
    <3> QED BY <3>1 DEF NoToken
  <2>5. /\ issued + 1 \notin Known
        /\ \A d \in Exchanged : calls[d].answer.access \notin {issued + 1, NoToken}
    BY <2>4, NewIsUnknown DEF Exchanged
  <2>6. Unspent'
    BY <2>1, <2>2, <2>3, <2>5 DEF Unspent
  <2>7. Answers'
    BY <2>1, <2>2, <2>3 DEF Answers
  <2>8. Replaces' <=> refreshes
    <3>1. issued + 1 # NoToken
      BY DEF Typed, ProviderTyped, NoToken
    <3> QED BY <2>2, <3>1 DEF Replaces
  <2>9. /\ refreshes => issued + 1 \in valid'
        /\ ~ refreshes => valid' = valid
    BY <1>7 DEF Authorize
  <2>10. ~ Replaces
    BY <2>2 DEF Replaces
  <2>11. AllAccepted'
    BY <2>1, <2>2, <2>3, <2>8, <2>9, <2>10 DEF AllAccepted
  <2> QED BY <2>6, <2>7, <2>11
<1> QED BY <1>1, <1>2, <1>3, <1>4, <1>5, <1>6, <1>7

\* With no refresh or authorization under way, and unless an answer or a write
\* was lost or two writers of the row overlapped, the refresh token in the row
\* is one the server accepts: neither concurrent refreshes nor 401 retries nor
\* the rotation of tokens disconnects the connector.
THEOREM ConnectorStaysConnected == OAuthSpec => []StoredRefreshAccepted
<1>1. Typed /\ [OAuthNext]_oauthVars => Typed'
  BY TypedNext
<1>2. Typed /\ RefreshInv /\ [OAuthNext]_oauthVars => RefreshInv'
  <2>1. RefreshInv /\ UNCHANGED oauthVars => RefreshInv'
    BY DEF oauthVars, RefreshInv, Unspent, Answers, AllAccepted, Known, Authorizing,
           Replaces, Exchanged
  <2>2. Typed /\ RefreshInv /\ OAuthNext => RefreshInv'
    BY CallKeepsRefresh, GrantKeepsRefresh, OthersKeepRefresh DEF OAuthNext, CallMoves
  <2> QED BY <2>1, <2>2
<1>3. RefreshInv => StoredRefreshAccepted
  BY DEF RefreshInv, AllAccepted, StoredRefreshAccepted, Replaces
<1> QED BY <1>1, <1>2, <1>3, TypedInit, RefreshInvInit, PTL DEF OAuthSpec

-----------------------------------------------------------------------------
(* Expired tokens.                                                         *)

\* A token is fresh until its answer has been stored or given up.
NewIsFresh ==
  /\ \A g \in Tokens : g > issued => age[g] = "fresh"
  /\ \A c \in Exchanged : age[calls[c].answer.access] = "fresh"

LEMMA NewIsFreshInit == OAuthInit => NewIsFresh
BY OAuthAssumption DEF OAuthInit, NewIsFresh, Exchanged, IdleCall, CallAt

\* Tokens age only once nobody waits to store them.
LEMMA NewIsFreshStep ==
  ASSUME Typed, NewIsFresh, [OAuthNext]_oauthVars
  PROVE  NewIsFresh'
<1>1. ASSUME NEW c \in Calls, CallMoves(c) PROVE NewIsFresh'
  <2>1. UNCHANGED <<issued, age>>
    BY <1>1 DEF CallMoves, Begin, Hydrate, Rehydrate, Receive, Persist, PersistFail, RefreshFail,
                Answered, Unauthorized, provider
  <2> QED BY <1>1, <2>1, CallEffects DEF NewIsFresh
<1>2. ASSUME NEW c \in Calls, Grant(c) PROVE NewIsFresh'
  <2>1. /\ issued' = issued + 1 /\ age' = age /\ issued + 1 \in Tokens /\ issued \in Nat
    BY <1>2, OAuthAssumption DEF Grant, Typed, ProviderTyped, Tokens
  <2>2. \A d \in Calls : d # c => calls'[d] = calls[d]
    BY <1>2 DEF Grant, Typed, CallsTyped
  <2>3. calls'[c].answer.access = issued + 1
    BY <1>2 DEF Grant, Typed, CallsTyped, CallIn, Merged, NextPair
  <2>4. age[issued + 1] = "fresh" /\ \A g \in Tokens : g > issued + 1 => age[g] = "fresh"
    BY <2>1 DEF NewIsFresh, Tokens
  <2> QED BY <2>1, <2>2, <2>3, <2>4 DEF NewIsFresh, Exchanged
<1>3. ASSUME NEW g \in Tokens, Age(g) PROVE NewIsFresh'
  <2>1. /\ g <= issued /\ UNCHANGED <<issued, calls>>
        /\ \A h \in Tokens : h # g => age'[h] = age[h]
    BY <1>3 DEF Age, memory, Typed, ProviderTyped
  <2>2. \A c \in Exchanged : calls[c].answer.access # g /\ calls[c].answer.access \in Tokens
    BY <1>3, OAuthAssumption
    DEF Age, Exchanged, Typed, CallsTyped, ProviderTyped, CallIn, PairIn, Tokens
  <2>3. \A h \in Tokens : h > issued => h # g
    BY <2>1 DEF Tokens, Typed, ProviderTyped
  <2> QED BY <2>1, <2>2, <2>3 DEF NewIsFresh, Exchanged
<1>4. ASSUME NEW refreshes \in BOOLEAN, NEW withdraws \in BOOLEAN, Authorize(refreshes, withdraws)
      PROVE  NewIsFresh'
  <2>1. issued' = issued + 1 /\ UNCHANGED <<age, calls>> /\ issued \in Nat
    BY <1>4 DEF Authorize, memory, Typed, ProviderTyped
  <2>2. \A g \in Tokens : g > issued + 1 => g > issued
    BY <2>1 DEF Tokens
  <2> QED BY <2>1, <2>2 DEF NewIsFresh, Exchanged
<1>5. ASSUME UNCHANGED <<issued, age, calls>> PROVE NewIsFresh'
  BY <1>5 DEF NewIsFresh, Exchanged
<1>6. EditRead \/ EditWrite \/ AuthorizeRead \/ AuthorizeStore \/ AuthorizeFail \/ AuthorizeReload
        \/ UNCHANGED oauthVars => UNCHANGED <<issued, age, calls>>
  BY DEF EditRead, EditWrite, AuthorizeRead, AuthorizeStore, AuthorizeFail, AuthorizeReload,
         provider, memory, oauthVars
<1>7. ASSUME RestartTokens PROVE NewIsFresh'
  BY <1>7 DEF RestartTokens, provider, NewIsFresh, Exchanged, IdleCall, CallAt
<1> QED BY <1>1, <1>2, <1>3, <1>4, <1>5, <1>6, <1>7 DEF OAuthNext, CallMoves

\* What a step gives to a call is fresh, unless a refresh has failed.
LEMMA GivenIsFresh ==
  ASSUME Typed, NewIsFresh, OAuthNext, NEW c \in Calls,
         calls[c].pc # "using", calls'[c].pc = "using", age[calls'[c].token] = "expired"
  PROVE  \E d \in Calls : RefreshFail(d)
<1>0. calls \in [Calls -> CallIn(issued)]
  BY DEF Typed, CallsTyped
<1>1. ASSUME UNCHANGED calls PROVE FALSE
  BY <1>1
<1>2. ASSUME NEW d \in Calls, Begin(d) PROVE FALSE
  BY <1>0, <1>2 DEF Begin, CallAt
<1>3. ASSUME NEW d \in Calls, Hydrate(d) PROVE FALSE
  <2>1. PICK auth \in Hydrated : Hydrate(d)!2!(auth)
    BY <1>3 DEF Hydrate
  <2>2. c = d /\ ~NearExpiry(auth)
    BY <1>0, <2>1 DEF CallIn
  <2>3. calls'[c].token = IF cache # NoToken THEN cache ELSE auth.access
    BY <1>0, <2>1, <2>2 DEF Given, IdleCall, CallAt
  <2> QED BY <2>2, <2>3 DEF NearExpiry
<1>4. ASSUME NEW d \in Calls, Persist(d) \/ PersistFail(d) PROVE FALSE
  <2>1. d \in Exchanged /\ calls'[c] = Given(c, calls[d].answer.access)
    BY <1>0, <1>4 DEF Persist, PersistFail, Succeed, Exchanged
  <2>2. calls'[c].token = calls[d].answer.access
    BY <2>1 DEF Given, IdleCall, CallAt
  <2> QED BY <2>1, <2>2 DEF NewIsFresh
<1>5. ASSUME NEW d \in Calls,
             Rehydrate(d) \/ Grant(d) \/ Receive(d) \/ Answered(d) \/ Unauthorized(d)
      PROVE  FALSE
  BY <1>0, <1>5 DEF Rehydrate, Grant, Receive, Answered, Unauthorized, IdleCall, CallAt, CallIn
<1>6. ASSUME RestartTokens PROVE FALSE
  BY <1>6 DEF RestartTokens, IdleCall, CallAt
<1>7. ASSUME \/ EditRead \/ EditWrite \/ AuthorizeRead \/ AuthorizeStore \/ AuthorizeFail
             \/ AuthorizeReload \/ \E g \in Tokens : Age(g)
             \/ \E refreshes, withdraws \in BOOLEAN : Authorize(refreshes, withdraws)
      PROVE  UNCHANGED calls
  BY <1>7 DEF EditRead, EditWrite, AuthorizeRead, AuthorizeStore, AuthorizeFail, AuthorizeReload,
              Authorize, Age, memory
<1> QED BY <1>1, <1>2, <1>3, <1>4, <1>5, <1>6, <1>7 DEF OAuthNext

\* A call gets an expired token only in the step in which a refresh fails: what the
\* cache or the row holds is not handed out without a look at its expiry, and an
\* answer does not expire on its way to the calls that wait for it.
THEOREM ExpiredAfterFailure == OAuthSpec => ExpiredOnlyAfterFailure
<1>1. Typed /\ [OAuthNext]_oauthVars => Typed'
  BY TypedNext
<1>2. Typed /\ NewIsFresh /\ [OAuthNext]_oauthVars => NewIsFresh'
  BY NewIsFreshStep
<1>3. Typed /\ NewIsFresh /\ [OAuthNext]_oauthVars =>
        [\A c \in Calls :
           /\ calls[c].pc # "using" /\ calls'[c].pc = "using"
           /\ age[calls'[c].token] = "expired"
           => \E d \in Calls : RefreshFail(d)]_oauthVars
  BY GivenIsFresh
<1> QED BY <1>1, <1>2, <1>3, TypedInit, NewIsFreshInit, PTL DEF OAuthSpec, ExpiredOnlyAfterFailure
=============================================================================
