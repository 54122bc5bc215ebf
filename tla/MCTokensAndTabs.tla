--------------------------- MODULE MCTokensAndTabs ---------------------------
(***************************************************************************)
(* Safety of the tokens of a connector, of the crons of the cloud and of   *)
(* the session of a browser tab, which share nothing: a behaviour is one   *)
(* of OAuth2Token, CloudCrons or BrowserSession.                           *)
(* Two tool calls, two requests of the scheduler, or two accounts.         *)
(***************************************************************************)
EXTENDS MCOAuth2Token, CloudCrons, MCBrowserSession

VARIABLE part   \* which of the three

MCMaxCronRuns == [c \in Crons |-> IF c = "kg" THEN 4 ELSE 2]
MCSymmetry == Permutations(Calls)

tabsVars == <<oauthVars, cronVars, browserVars, part>>

TabsInit ==
  /\ part \in {"tokens", "crons", "tab"}
  /\ OAuthInit /\ CronsInit /\ BrowserInit
  /\ part # "tokens" => rotates
  /\ part # "crons" => scheduled = "kg" /\ day = 0
  /\ part # "tab" => saved = NobodySaved /\ ~cloud /\ ~plan

TabsNext ==
  /\ UNCHANGED part
  /\ \/ part = "tokens" /\ OAuthNext /\ UNCHANGED <<cronVars, browserVars>>
     \/ part = "crons" /\ CronsNext /\ UNCHANGED <<oauthVars, browserVars>>
     \/ part = "tab" /\ BrowserNext /\ UNCHANGED <<oauthVars, cronVars>>

TabsSpec == TabsInit /\ [][TabsNext]_tabsVars

\* Every variable of the three parts has its type.
TabsTypeOK == OAuthTypeOK /\ CronsTypeOK /\ BrowserTypeOK
=============================================================================
