---------------------------- MODULE MCOAuth2Token ---------------------------
(* OAuth2Token for TLC: tool calls of one connector.                        *)
EXTENDS OAuth2Token, TLC

CONSTANTS k1, k2
=============================================================================
