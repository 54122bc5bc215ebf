-------------------------- MODULE MCBrowserSession --------------------------
(* Tokens of BrowserSession for TLC: two of a new user, with one of the     *)
(* first user of an installation, not yet verified, between them.          *)
EXTENDS BrowserSession

ProfileOf(account, first, verifiedBefore) ==
  [account |-> account, first |-> first, verified |-> verifiedBefore, new |-> TRUE]

MCProfile ==
  <<ProfileOf("A", FALSE, TRUE), ProfileOf("B", TRUE, FALSE), ProfileOf("A", FALSE, TRUE)>>
=============================================================================
