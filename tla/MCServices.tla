----------------------------- MODULE MCServices -----------------------------
(***************************************************************************)
(* Liveness of the three services that keep state about a connector in     *)
(* memory: its registered tools (ToolRegistry) and its tokens (OAuth2Token,*)
(* LoginToken, of which a connector uses one).  They share no state, so a  *)
(* behaviour is one of the three, and in the others nothing is enabled     *)
(* that their fairness asks for.                                           *)
(* Two connectors can expose the same name, one of them has two tools.     *)
(***************************************************************************)
EXTENDS ToolRegistry, OAuth2Token, LoginToken, TLC

CONSTANTS c1, c2, t1, t2, t3, a, b, r1, r2, k1, k2

VARIABLE part   \* which of the three

MCOwnerOf == (t1 :> c1) @@ (t2 :> c1) @@ (t3 :> c2)

servicesVars == <<registryVars, oauthVars, loginVars, part>>

ServicesInit ==
  /\ part \in {"tools", "refresh", "login"}
  /\ RegistryInit /\ OAuthInit /\ LoginInit
  /\ part # "refresh" => rotates

ServicesNext ==
  /\ UNCHANGED part
  /\ \/ part = "tools" /\ RegistryNext /\ UNCHANGED <<oauthVars, loginVars>>
     \/ part = "refresh" /\ OAuthNext /\ UNCHANGED <<registryVars, loginVars>>
     \/ part = "login" /\ LoginNext /\ UNCHANGED <<registryVars, oauthVars>>

ServicesSpec ==
  /\ ServicesInit /\ [][ServicesNext]_servicesVars
  /\ RegistryFairness /\ OAuthFairness /\ LoginFairness

\* Every variable of the three parts has its type.
ServicesTypeOK == RegistryTypeOK /\ OAuthTypeOK /\ LoginTypeOK

\* Every tool call that needs a token ends: it does not wait for ever for a
\* refresh or a login of another call.
EveryCallEnds == CallsEnd /\ LoginCallsEnd
=============================================================================
