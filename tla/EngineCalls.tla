---------------------------- MODULE EngineCalls ----------------------------
(***************************************************************************)
(* One tool call in the engine that makes it (connectors/engines): the      *)
(* credentials it sends, what the origin does with the request, the         *)
(* repetition of a transient failure (rest.engine.ts) and the one after a  *)
(* 401 (rest, graphql and mcp-client).  SOAP and the databases send once.   *)
(* What the request says is not told apart; where a token comes from is in *)
(* OAuth2Token and LoginToken.                                             *)
(***************************************************************************)
EXTENDS Naturals

VARIABLES
  setup,      \* of the connector: engine, auth, the scheme of its vendor's header,
              \* and whether a refused token can be replaced
  phase,      \* where the call is
  attempt,    \* of requestWithRetry, from 0
  renewed,    \* the request is the one after a 401
  header,     \* what Authorization says: its scheme, and a token the origin takes
  reply,      \* what the last request brought
  acts,       \* how often the origin has done what the tool does
  blurred     \* history: the origin acted and the engine could not know it

engineVars == <<setup, phase, attempt, renewed, header, reply, acts, blurred>>

Engines == {"rest", "graphql", "mcp", "once"}
Auths   == {"fixed", "oauth2", "login"}
Schemes == {"Bearer", "vendor"}
Replies == {"none", "result", "error", "401", "busy", "gone"}

\* delaysMs of requestWithRetry.
MaxRetries == 2

\* A vendor's scheme is an option of OAuth2; the engines that send once, and the
\* MCP client, know no login.
Setups ==
  {s \in [engine : Engines, auth : Auths, scheme : Schemes, renewable : BOOLEAN] :
     /\ s.scheme = "vendor" => s.auth = "oauth2" /\ s.engine = "rest"
     /\ s.engine = "once" => s.auth = "fixed"
     /\ s.engine = "mcp" => s.auth # "login"
     /\ s.renewable => s.auth # "fixed"}

-----------------------------------------------------------------------------
(* Faulty variants of definitions below: bugs the properties must catch.   *)

\* A 500 is transient.
TransientWith500(r) == r \in {"busy", "gone", "error"}

-----------------------------------------------------------------------------
\* isTransientError: 429, 502, 503, 504 ("busy"), or no response for a reset, a
\* timeout or a failed look-up ("gone").  A 500 is an error.
isTransientError(r) == r \in {"busy", "gone"}

Accepted == header.scheme = setup.scheme /\ header.good

\* The call has its answer, or the error the caller gets.
Ends == phase' = "done" /\ UNCHANGED <<attempt, renewed, header>>

\* injectAuth, with the prefix of the vendor.  Getting a token may fail.
Prepare(good) ==
  /\ phase = "prepare"
  /\ header' = [scheme |-> setup.scheme, good |-> good]
  /\ phase' = "send"
  /\ UNCHANGED <<setup, attempt, renewed, reply, acts, blurred>>

PrepareFails ==
  /\ phase = "prepare" /\ setup.auth # "fixed" /\ reply' = "error" /\ Ends
  /\ UNCHANGED <<setup, acts, blurred>>

(* The origin, and the network before and behind it. *)

Replied(r) ==
  /\ phase = "send" /\ phase' = "replied" /\ reply' = r
  /\ UNCHANGED <<setup, attempt, renewed, header>>

\* An upstream error after the act is a 500, or errors in a GraphQL answer.
Acts(r) ==
  /\ Accepted /\ r \in {"result", "error"} /\ Replied(r)
  /\ acts' = acts + 1 /\ UNCHANGED blurred

Denies ==
  ~Accepted /\ Replied("401") /\ UNCHANGED <<acts, blurred>>

\* Too busy, not reached, or the act refused for good (4xx).
Rejects(r) ==
  /\ r \in {"busy", "gone", "error"} /\ Replied(r)
  /\ UNCHANGED <<acts, blurred>>

\* The origin acts, and the answer is late (30 s) or lost, or a gateway answers for it.
ActsUnseen(r) ==
  /\ Accepted /\ r \in {"busy", "gone"} /\ Replied(r)
  /\ acts' = acts + 1 /\ blurred' = TRUE

\* A remote MCP tool fails half way with a text that has "401" in it: the bridge
\* knows a 401 by its text.
ActsWith401Text ==
  /\ setup.engine = "mcp" /\ Accepted /\ Replied("401")
  /\ acts' = acts + 1 /\ blurred' = TRUE

(* What the engine makes of the reply. *)

Repeats == /\ setup.engine = "rest" /\ ~renewed
           /\ isTransientError(reply) /\ attempt < MaxRetries

\* After a delay.
Repeat ==
  /\ phase = "replied" /\ Repeats
  /\ attempt' = attempt + 1 /\ phase' = "send"
  /\ UNCHANGED <<setup, renewed, header, reply, acts, blurred>>

Renews == reply = "401" /\ ~renewed /\ setup.renewable

\* refreshToken: the new token goes out as Bearer, whatever the vendor's scheme.
Refresh ==
  /\ phase = "replied" /\ Renews /\ setup.auth = "oauth2"
  /\ header' = [scheme |-> "Bearer", good |-> TRUE]
  /\ renewed' = TRUE /\ phase' = "send"
  /\ UNCHANGED <<setup, attempt, reply, acts, blurred>>

\* forceRelogin, with the header of the template.
Relogin ==
  /\ phase = "replied" /\ Renews /\ setup.auth = "login"
  /\ header' = [header EXCEPT !.good = TRUE]
  /\ renewed' = TRUE /\ phase' = "send"
  /\ UNCHANGED <<setup, attempt, reply, acts, blurred>>

\* No token to be had: the 401 is thrown, or the error of the login.
RenewFails ==
  /\ phase = "replied" /\ Renews /\ Ends
  /\ UNCHANGED <<setup, reply, acts, blurred>>

Return ==
  /\ phase = "replied" /\ ~Repeats /\ ~Renews /\ Ends
  /\ UNCHANGED <<setup, reply, acts, blurred>>

-----------------------------------------------------------------------------
EngineInit ==
  /\ setup \in Setups
  /\ phase = "prepare" /\ attempt = 0 /\ renewed = FALSE
  /\ header = [scheme |-> setup.scheme, good |-> FALSE]
  /\ reply = "none" /\ acts = 0 /\ blurred = FALSE

EngineNext ==
  \/ \E good \in BOOLEAN : Prepare(good)
  \/ \E r \in Replies : Acts(r) \/ Rejects(r) \/ ActsUnseen(r)
  \/ PrepareFails \/ Denies \/ ActsWith401Text
  \/ Repeat \/ Refresh \/ Relogin \/ RenewFails \/ Return

EngineSpec == EngineInit /\ [][EngineNext]_engineVars

-----------------------------------------------------------------------------
(* Properties.                                                             *)

\* Every variable has its type.
EngineTypeOK ==
  /\ setup \in Setups
  /\ phase \in {"prepare", "send", "replied", "done"}
  /\ attempt \in 0..MaxRetries /\ renewed \in BOOLEAN
  /\ header \in [scheme : Schemes, good : BOOLEAN]
  /\ reply \in Replies /\ acts \in Nat /\ blurred \in BOOLEAN

\* Whatever is repeated, after a transient failure or a 401 or both, the origin
\* acts once where the engine can know that it acted.
ActsOnce == ~blurred => acts <= 1
=============================================================================
