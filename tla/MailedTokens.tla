---------------------------- MODULE MailedTokens ----------------------------
(***************************************************************************)
(* The codes and links mailed to a user (auth/auth.controller.ts): e-mail  *)
(* verification after registration, at login and on request, and the reset *)
(* of a password.  Every handler reads and writes the database one query   *)
(* after the other.                                                        *)
(***************************************************************************)
EXTENDS Naturals

CONSTANTS
  Tokens,          \* tokens of both kinds, in no order
  Callers,         \* requests under way at once
  NoToken,
  MaxCalls         \* bound: requests started

ASSUME MailedAssumption == MaxCalls \in Nat /\ NoToken \notin Tokens

States == {"unborn", "live", "used", "expired"}
Kinds  == {"code", "reset"}

VARIABLES
  token,      \* email_verification_tokens and password_reset_tokens of the user
  verified,   \* user.emailVerified
  password,   \* the token that set user.passwordHash, NoToken the first one
  call,       \* requests under way
  calls,      \* counter of the bound
  sent,       \* history: the sends that created a code, oldest dropped by a later one
  crossed,    \* history: two sends overlapped
  resets      \* history: how often a token set the password, alone

mailedVars == <<token, verified, password, call, calls, sent, crossed, resets>>

Live(kind) == {t \in Tokens : token[t].kind = kind /\ token[t].state = "live"}
None       == [pc |-> "idle", tok |-> NoToken, alone |-> TRUE]
Calls(c, pc)   == call' = [call EXCEPT ![c].pc = pc]
CallEnds(c)    == call' = [call EXCEPT ![c] = None]
CallStarts(c, r) == call[c].pc = "idle" /\ calls < MaxCalls /\ calls' = calls + 1
                    /\ call' = [call EXCEPT ![c] = r]

-----------------------------------------------------------------------------
(* Faulty variants of definitions below: bugs the properties must catch.   *)

\* Old codes stay.
KeptCodes == token

-----------------------------------------------------------------------------
Invalidated == [t \in Tokens |-> IF t \in Live("code") THEN [token[t] EXCEPT !.state = "used"]
                                 ELSE token[t]]

Used(t) == [token EXCEPT ![t].state = "used"]

\* createAndSendVerificationCode: registration and login of an unverified user,
\* and a resend, whose limit of five an hour the login does not know.
Send(c) ==
  /\ ~verified
  /\ CallStarts(c, [None EXCEPT !.pc = "invalidate"])
  /\ crossed' = (crossed \/ \E d \in Callers : call[d].pc \in {"invalidate", "create"})
  /\ UNCHANGED <<token, verified, password, sent, resets>>

Invalidate(c) ==
  /\ call[c].pc = "invalidate"
  /\ token' = Invalidated
  /\ Calls(c, "create")
  /\ UNCHANGED <<verified, password, calls, sent, crossed, resets>>

\* A mail that cannot be sent does not take the code back.
CreateCode(c, t) ==
  /\ call[c].pc = "create" /\ token[t].state = "unborn"
  /\ token' = [token EXCEPT ![t] = [kind |-> "code", state |-> "live"]]
  /\ sent' = {t}
  /\ CallEnds(c)
  /\ UNCHANGED <<verified, password, calls, crossed, resets>>

\* POST /verify-email and GET /verify-email-link.
Verify(c, t) ==
  /\ t \in Live("code")
  /\ CallStarts(c, [None EXCEPT !.pc = "markCode", !.tok = t])
  /\ UNCHANGED <<token, verified, password, sent, crossed, resets>>

MarkCode(c) ==
  /\ call[c].pc = "markCode"
  /\ token' = Used(call[c].tok)
  /\ Calls(c, "verify")
  /\ UNCHANGED <<verified, password, calls, sent, crossed, resets>>

MarkVerified(c) ==
  /\ call[c].pc = "verify"
  /\ verified' = TRUE /\ CallEnds(c)
  /\ UNCHANGED <<token, password, calls, sent, crossed, resets>>

\* POST /forgot-password: earlier links stay good.
Forgot(t) ==
  /\ token[t].state = "unborn" /\ calls < MaxCalls /\ calls' = calls + 1
  /\ token' = [token EXCEPT ![t] = [kind |-> "reset", state |-> "live"]]
  /\ UNCHANGED <<verified, password, call, sent, crossed, resets>>

\* POST /reset-password: the password, then the mark.
Reset(c, t) ==
  /\ t \in Live("reset")
  /\ calls < MaxCalls /\ calls' = calls + 1 /\ call[c].pc = "idle"
  /\ call' = [d \in Callers |->
       IF d = c THEN [pc |-> "setPassword", tok |-> t,
                      alone |-> \A e \in Callers : call[e].tok # t]
       ELSE [call[d] EXCEPT !.alone = @ /\ call[d].tok # t]]
  /\ UNCHANGED <<token, verified, password, sent, crossed, resets>>

SetPassword(c) ==
  /\ call[c].pc = "setPassword"
  /\ password' = call[c].tok
  /\ Calls(c, "markReset")
  /\ UNCHANGED <<token, verified, calls, sent, crossed, resets>>

MarkReset(c) ==
  /\ call[c].pc = "markReset"
  /\ token' = Used(call[c].tok)
  /\ resets' = [resets EXCEPT ![call[c].tok] = IF call[c].alone THEN @ + 1 ELSE @]
  /\ CallEnds(c)
  /\ UNCHANGED <<verified, password, calls, sent, crossed>>

\* PUT /users/me/password: a change by the old password; live links stay good.
ChangePassword ==
  /\ calls < MaxCalls /\ calls' = calls + 1
  /\ password' = NoToken
  /\ UNCHANGED <<token, verified, call, sent, crossed, resets>>

Expires(t) ==
  /\ token[t].state = "live"
  /\ token' = [token EXCEPT ![t].state = "expired"]
  /\ UNCHANGED <<verified, password, call, calls, sent, crossed, resets>>

\* A query fails or the process restarts.
CallBreaks(c) ==
  /\ call[c].pc # "idle" /\ CallEnds(c)
  /\ UNCHANGED <<token, verified, password, calls, sent, crossed, resets>>

MailedInit ==
  /\ token = [t \in Tokens |-> [kind |-> "code", state |-> "unborn"]]
  /\ verified = FALSE /\ password = NoToken
  /\ call = [c \in Callers |-> None]
  /\ calls = 0 /\ sent = {} /\ crossed = FALSE /\ resets = [t \in Tokens |-> 0]

MailedNext ==
  \/ \E c \in Callers :
       \/ Send(c) \/ Invalidate(c) \/ MarkCode(c) \/ MarkVerified(c)
       \/ SetPassword(c) \/ MarkReset(c) \/ CallBreaks(c)
       \/ \E t \in Tokens : CreateCode(c, t) \/ Verify(c, t) \/ Reset(c, t)
  \/ \E t \in Tokens : Forgot(t) \/ Expires(t)
  \/ ChangePassword

MailedSpec == MailedInit /\ [][MailedNext]_mailedVars

-----------------------------------------------------------------------------
(* Properties.                                                             *)

\* Every variable has its type.
MailedTypeOK ==
  /\ token \in [Tokens -> [kind : Kinds, state : States]]
  /\ verified \in BOOLEAN /\ password \in Tokens \union {NoToken}
  /\ calls \in 0..MaxCalls /\ resets \in [Tokens -> 0..MaxCalls]

\* Mailed tokens work as long as they should: unless two sends overlapped, only
\* the newest code is good; a link that reset the password does it once, unless
\* two requests used it at the same time or one stopped before the mark.
MailedTokensWorkOnce ==
  /\ ~crossed => Live("code") \subseteq sent
  /\ \A t \in Tokens : resets[t] <= 1
=============================================================================
