--------------------------- MODULE BrowserSession ---------------------------
(***************************************************************************)
(* The session of one browser tab and the gates that depend on it:         *)
(*   frontend/src/lib/auth-context.tsx, lib/api.ts                         *)
(*   frontend/src/app/login/page.tsx                                       *)
(*   frontend/src/components/onboarding-redirect.tsx                       *)
(*                                                                         *)
(* Answers come in any order.  A request is served when it is answered.    *)
(* The effects of React that run after a change of state are part of the   *)
(* action that makes the change (Become).                                  *)
(* A user object is named by the session it describes.  The form's fields, *)
(* a new code by mail, updateUser and the other public pages are left out. *)
(***************************************************************************)
EXTENDS Naturals, FiniteSets

CONSTANTS
  MaxSignIns,   \* bound: tokens the server issues
  Profile,       \* of a token: its account, whether that is the first user of
                 \* the installation, verified, and new (no connector, no wizard)
  MaxWebClicks,  \* bound: what the user does
  MaxWebFaults,  \* bound: requests without an answer, tokens that expire
  NoSession, NoAccount

IssuedTokens == 1..MaxSignIns

ASSUME BrowserAssumption ==
  /\ MaxSignIns \in Nat \ {0} /\ {MaxWebClicks, MaxWebFaults} \subseteq Nat
  /\ NoSession \notin IssuedTokens
  /\ Profile \in [IssuedTokens -> [account : {Profile[t].account : t \in IssuedTokens},
                               first : BOOLEAN, verified : BOOLEAN, new : BOOLEAN]]

VARIABLES
  saved,      \* localStorage: amcp_token and amcp_user
  ctx,        \* AuthProvider: token, user, isLoading and deploymentMode
  org,        \* AuthProvider: the session orgName was fetched with
  path,       \* the page shown
  form,       \* the login page: setupStep, authToken, isCloudMode, loading
  wire,       \* the requests under way
  gate,       \* lastRun: account and page the onboarding gate ran for last
  signedIn, validTokens, verified, plan, cloud,   \* external: the server
  webClicks, webFaults,
  overtaken,  \* history: me or fetchOrgData answered for another session
  welcomed    \* history: accounts that were sent to /welcome

serverVars  == <<signedIn, validTokens, verified, plan, cloud>>
boundVars   == <<webClicks, webFaults>>
browserVars == <<saved, ctx, org, path, form, wire, gate, serverVars, boundVars,
                 overtaken, welcomed>>

SomeSession == IssuedTokens \union {NoSession}
Gated       == {"home", "page"}   \* the pages the gate looks at
FormOps     == {"formInfo", "sign", "verify", "trial", "community", "key"}
Account(t)  == IF t = NoSession THEN NoAccount ELSE Profile[t].account
Request(op, t) == [op |-> op, token |-> t, cloud |-> FALSE, page |-> "login", live |-> TRUE]
NobodySaved == [token |-> NoSession, user |-> NoSession]
NewForm     == [step |-> "auth", token |-> NoSession, cloud |-> FALSE, busy |-> FALSE]
NoGate      == <<NoAccount, "login">>

-----------------------------------------------------------------------------
(* Faulty variants of definitions below: bugs the properties must catch.   *)

\* The check of a restored session that fails takes the user out of the
\* storage and leaves the token.
TokenLeft == [saved EXCEPT !.user = NoSession]

-----------------------------------------------------------------------------
(* What follows a change of state.                                         *)

\* Without a session every page but a public one goes to /login.
Redirected(c, p) == IF ~c.loading /\ c.token = NoSession THEN "login" ELSE p

\* The gate of the onboarding runs for an account on a page once.
GateRuns(c, p) ==
  /\ ~c.loading /\ c.token # NoSession /\ c.user # NoSession /\ p \in Gated
  /\ gate # <<Account(c.user), p>>

\* A run of the gate is cancelled by any change its effect depends on, also one
\* after which no other run begins; the login page forgets its requests when the
\* user goes to another page, also when that sends him back.
StillLive(q, changed, p) ==
  CASE q.op = "gate"      -> q.live /\ ~changed
    [] q.op \in FormOps   -> q.live /\ p = "login"
    [] OTHER              -> TRUE

\* The tab has context c, goes to page p with form f and has requests w.
\* changed: what the effect of the gate depends on is not what it was.
Becomes(changed, c, p, f, w) ==
  LET to     == Redirected(c, p)
      runs   == changed /\ GateRuns(c, to)
      enters == to = "login" /\ {path, p} # {"login"}
  IN /\ ctx' = c /\ path' = to
     /\ form' = IF {path, p} # {"login"} THEN NewForm ELSE f
     /\ gate' = IF runs THEN <<Account(c.user), to>> ELSE gate
     /\ wire' = {[q EXCEPT !.live = StillLive(q, changed, p)] : q \in w}
          \union (IF runs THEN {[Request("gate", c.token) EXCEPT
                                   !.cloud = c.cloud, !.page = to]} ELSE {})
          \union (IF enters THEN {Request("formInfo", NoSession)} ELSE {})

Become(c, p, f, w) == Becomes(<<c, Redirected(c, p)>> # <<ctx, path>>, c, p, f, w)

\* Nothing of the context changes.
Stays(f, w) == Become(ctx, path, f, w)

\* The token and the user of a session go to the context and to the storage.
Holding(t) == [ctx EXCEPT !.token = t, !.user = t]
Saved(t)   == [token |-> t, user |-> t]

\* logout.
LoggedOut(w) ==
  /\ saved' = NobodySaved /\ org' = NoSession
  /\ Become(Holding(NoSession), "login", form, w)

\* What is restored when the page is loaded: both, or nothing.
Restored ==
  LET both == saved.token # NoSession /\ saved.user # NoSession
  IN [token   |-> IF both THEN saved.token ELSE NoSession,
      user    |-> IF both THEN saved.user ELSE NoSession,
      loading |-> both, cloud |-> FALSE]

\* The tab loads page p: nothing but the storage survives.
Loaded(p) ==
  LET c  == Restored
      to == Redirected(c, p)
  IN /\ ctx' = c /\ path' = to
     /\ org' = NoSession /\ form' = NewForm /\ gate' = NoGate
     /\ wire' = {Request("info", NoSession)}
          \union (IF c.loading THEN {Request("me", c.token)} ELSE {})
          \union (IF to = "login" THEN {Request("formInfo", NoSession)} ELSE {})
     /\ overtaken' = (overtaken /\ (saved.token = NoSession) # (saved.user = NoSession))
     /\ UNCHANGED saved

-----------------------------------------------------------------------------
(* The user.                                                               *)

Clicked == webClicks < MaxWebClicks /\ webClicks' = webClicks + 1
           /\ UNCHANGED <<serverVars, webFaults, welcomed>>

LoadPage(p) == Clicked /\ Loaded(p)

WebClick == Clicked /\ UNCHANGED overtaken

Go(p) ==
  /\ WebClick /\ path # "login" /\ p # path
  /\ Become(ctx, p, form, wire) /\ UNCHANGED <<saved, org>>

\* A page calls the API, or the user switches or creates an organization.
Call(op) ==
  /\ WebClick /\ path # "login" /\ ctx.token # NoSession
  /\ Stays(form, wire \union {Request(op, ctx.token)}) /\ UNCHANGED <<saved, org>>

Logout == WebClick /\ path # "login" /\ LoggedOut(wire)

\* A handler of the login page sends a request; it keeps the isCloudMode it saw.
FormSends(op) ==
  /\ WebClick /\ path = "login" /\ ~form.busy
  /\ Stays([form EXCEPT !.busy = TRUE],
           wire \union {[Request(op, form.token) EXCEPT !.cloud = form.cloud]})
  /\ UNCHANGED <<saved, org>>

handleSubmit     == form.step = "auth" /\ FormSends("sign")
handleVerifyCode == form.step = "verify" /\ FormSends("verify")
handleLicense    == form.step = "license" /\ \E op \in {"community", "key"} : FormSends(op)

\* "Skip for now": the button stays enabled while a code is verified.
SkipVerify ==
  /\ WebClick /\ path = "login" /\ form.step = "verify"
  /\ Profile[form.token].first /\ ~form.cloud
  /\ saved' = Saved(form.token) /\ UNCHANGED org
  /\ Become(Holding(form.token), "login", [form EXCEPT !.step = "license"],
            wire \union {Request("org", form.token)})

\* Continue after the trial, or leave the choice of a license for later.
handleSkip ==
  /\ WebClick /\ path = "login" /\ form.step \in {"license", "trial"}
  /\ Become(ctx, "home", form, wire) /\ UNCHANGED <<saved, org>>

-----------------------------------------------------------------------------
(* Answers.                                                                *)

Rest(q)     == wire \ {q}
Accepted(q) == q.token # NoSession => q.token \in validTokens
Form(q, f)  == IF q.live THEN f ELSE form   \* what q sets, while its form is there
ServerSame  == UNCHANGED <<serverVars, boundVars, welcomed>>

\* The answer says something of a session that is not the one of the tab.
AnswersFor(q) == overtaken' = (overtaken \/ q.token # ctx.token)

\* request: a 401 of any request with a token ends the session of the tab, and
\* then the catch of the handler that sent it runs: the page is no longer loading,
\* the form no longer busy, and a trial goes on to the dashboard, from where the
\* user is sent back.
SessionRefused(q) ==
  /\ ~Accepted(q) /\ q.op # "switched"
  /\ saved' = NobodySaved /\ org' = NoSession
  /\ \/ /\ q.op = "me"
        /\ Become([Holding(NoSession) EXCEPT !.loading = FALSE], "login", form, Rest(q))
     \/ q.op = "trial" /\ Become(Holding(NoSession), "home", form, Rest(q))
     \/ /\ q.op \in FormOps \ {"trial"}
        /\ Become(Holding(NoSession), "login", Form(q, [form EXCEPT !.busy = FALSE]), Rest(q))
     \/ /\ q.op \notin FormOps \union {"me"}
        /\ Become(Holding(NoSession), "login", form, Rest(q))
  /\ ServerSame /\ UNCHANGED overtaken

MeAnswers(q) ==
  /\ q.op = "me" /\ Accepted(q)
  /\ saved' = [saved EXCEPT !.user = q.token]
  /\ Become([ctx EXCEPT !.user = q.token, !.loading = FALSE], path, form,
            Rest(q) \union {Request("org", q.token)})
  /\ AnswersFor(q) /\ UNCHANGED org /\ ServerSame

Forgotten == NobodySaved

InfoAnswers(q) ==
  /\ q.op = "info"
  /\ Become([ctx EXCEPT !.cloud = cloud], path, form, Rest(q))
  /\ UNCHANGED <<saved, org, overtaken>> /\ ServerSame

FormInfoAnswers(q) ==
  /\ q.op = "formInfo"
  /\ Stays(Form(q, [form EXCEPT !.cloud = cloud]), Rest(q))
  /\ UNCHANGED <<saved, org, overtaken>> /\ ServerSame

\* fetchOrgData.
OrgAnswers(q) ==
  /\ q.op = "org" /\ Accepted(q) /\ org' = q.token
  /\ Stays(form, Rest(q)) /\ AnswersFor(q) /\ UNCHANGED saved /\ ServerSame

CallAnswers(q) ==
  /\ q.op = "call" /\ Accepted(q)
  /\ Stays(form, Rest(q)) /\ UNCHANGED <<saved, org, overtaken>> /\ ServerSame

\* The server issues the next token.
Issue ==
  /\ signedIn < MaxSignIns /\ signedIn' = signedIn + 1
  /\ validTokens' = validTokens \union {signedIn + 1}

\* switchOrg and, without the fetch and the reload at its end, replaceSession.
SwitchAnswers(q) ==
  /\ q.op \in {"switch", "replace"} /\ Accepted(q)
  /\ Issue /\ Profile[signedIn + 1].account = Account(q.token)
  /\ saved' = Saved(signedIn + 1) /\ org' = signedIn + 1
  /\ Become(Holding(signedIn + 1), path, form, Rest(q) \union
            (IF q.op = "switch" THEN {Request("switched", signedIn + 1)} ELSE {}))
  /\ UNCHANGED <<verified, plan, cloud, boundVars, overtaken, welcomed>>

\* The fetch at the end of switchOrg is over, however it ended.
Switched(q) ==
  /\ q.op = "switched"
  /\ IF Accepted(q) THEN Loaded("home")
     ELSE \* logout, and then the reload
       /\ saved' = NobodySaved /\ org' = NoSession
       /\ ctx' = [Holding(NoSession) EXCEPT !.loading = FALSE, !.cloud = FALSE]
       /\ path' = "login" /\ form' = NewForm /\ gate' = NoGate
       /\ wire' = {Request("info", NoSession), Request("formInfo", NoSession)}
       /\ UNCHANGED overtaken
  /\ ServerSame

\* The wizard is for a verified user without connectors whose license is good.
Blocked(seen) == seen /\ ~plan
GateAnswers(q) ==
  /\ q.op = "gate" /\ Accepted(q)
  /\ IF q.live /\ Account(q.token) \in verified /\ ~Blocked(q.cloud)
        /\ Profile[q.token].new /\ q.page = "home"
     THEN /\ Become(ctx, "welcome", form, Rest(q))
          /\ welcomed' = welcomed \union {Account(q.token)}
     ELSE Stays(form, Rest(q)) /\ UNCHANGED welcomed
  /\ UNCHANGED <<saved, org, serverVars, boundVars, overtaken>>

\* login with token t, whose user is a new object, and what the login page does
\* next: the trial, the choice of a license or the dashboard.
LoginThen(t, q, trial) ==
  LET w     == Rest(q) \union {Request("org", t)}
      asked == [form EXCEPT !.token = t, !.step = "license", !.busy = FALSE]
  IN /\ saved' = Saved(t) /\ UNCHANGED org
     /\ CASE trial ->
               Becomes(TRUE, Holding(t), path, Form(q, [form EXCEPT !.token = t]),
                       w \union {[Request("trial", t) EXCEPT !.live = q.live]})
          [] ~trial /\ Profile[t].first ->
               Becomes(TRUE, Holding(t), path, Form(q, asked), w)
          [] OTHER -> Becomes(TRUE, Holding(t), "home", form, w)

SignAnswers(q) ==
  /\ q.op = "sign" /\ Issue
  /\ LET t == signedIn + 1
     IN IF Account(t) \in verified
        THEN LoginThen(t, q, q.cloud /\ Profile[t].first)
        ELSE /\ Stays(Form(q, [form EXCEPT !.token = t, !.step = "verify", !.busy = FALSE]),
                      Rest(q))
             /\ UNCHANGED <<saved, org>>
  /\ UNCHANGED <<verified, plan, cloud, boundVars, overtaken, welcomed>>

VerifyAnswers(q) ==
  /\ q.op = "verify" /\ Accepted(q)
  /\ verified' = verified \union {Account(q.token)}
  /\ LoginThen(q.token, q, q.cloud)
  /\ UNCHANGED <<signedIn, validTokens, plan, cloud, boundVars, overtaken, welcomed>>

\* The trial is there, or it was before: then the user goes on.
TrialAnswers(q) ==
  /\ q.op = "trial" /\ Accepted(q) /\ plan' = TRUE
  /\ IF plan THEN Become(ctx, "home", form, Rest(q))
     ELSE Stays(Form(q, [form EXCEPT !.step = "trial", !.busy = FALSE]), Rest(q))
  /\ UNCHANGED <<saved, org, signedIn, validTokens, verified, cloud, boundVars,
                 overtaken, welcomed>>

LicenseAnswers(q) ==
  /\ q.op \in {"community", "key"} /\ Accepted(q)
  /\ IF q.op = "key" THEN plan' = TRUE /\ Become(ctx, "home", form, Rest(q))
     ELSE /\ UNCHANGED plan
          /\ Stays(Form(q, [form EXCEPT !.busy = FALSE]), Rest(q))
  /\ UNCHANGED <<saved, org, signedIn, validTokens, verified, cloud, boundVars,
                 overtaken, welcomed>>

\* No answer, or an error other than a 401: the catch of each handler.
NoAnswer(q) ==
  /\ q.op # "switched" /\ webFaults < MaxWebFaults /\ webFaults' = webFaults + 1
  /\ \/ /\ q.op = "me" /\ saved' = Forgotten
        /\ Become([Holding(NoSession) EXCEPT !.loading = FALSE], path, form, Rest(q))
     \/ q.op = "trial" /\ Become(ctx, "home", form, Rest(q)) /\ UNCHANGED saved
     \/ /\ q.op \in FormOps \ {"trial"} /\ UNCHANGED saved
        /\ Stays(Form(q, [form EXCEPT !.busy = @ /\ q.op = "formInfo"]), Rest(q))
     \/ q.op \notin FormOps \union {"me"} /\ Stays(form, Rest(q)) /\ UNCHANGED saved
  /\ UNCHANGED <<org, serverVars, webClicks, overtaken, welcomed>>

\* A token is seven days old, or its user is gone.
Expire(t) ==
  /\ webFaults < MaxWebFaults /\ webFaults' = webFaults + 1
  /\ t \in validTokens /\ validTokens' = validTokens \ {t}
  /\ UNCHANGED <<saved, ctx, org, path, form, wire, gate, signedIn, verified, plan, cloud,
                 webClicks, overtaken, welcomed>>

-----------------------------------------------------------------------------
BrowserInit ==
  /\ saved \in {NobodySaved, Saved(1)}
  /\ signedIn = (IF saved.token = NoSession THEN 0 ELSE 1) /\ validTokens = 1..signedIn
  /\ ctx = Restored /\ path = Redirected(ctx, "home")
  /\ org = NoSession /\ form = NewForm /\ gate = NoGate
  /\ wire = {Request("info", NoSession)}
       \union (IF ctx.loading THEN {Request("me", 1)} ELSE {Request("formInfo", NoSession)})
  /\ verified = {Profile[t].account : t \in {s \in IssuedTokens : Profile[s].verified}}
  /\ plan \in BOOLEAN /\ cloud \in BOOLEAN
  /\ webClicks = 0 /\ webFaults = 0 /\ overtaken = FALSE /\ welcomed = {}

BrowserUserActs ==
  \/ \E p \in Gated \union {"login"} : LoadPage(p)
  \/ \E p \in Gated : Go(p)
  \/ \E op \in {"call", "switch", "replace"} : Call(op)
  \/ Logout \/ handleSubmit \/ handleVerifyCode \/ SkipVerify \/ handleLicense \/ handleSkip

BrowserNext ==
  \/ BrowserUserActs
  \/ \E q \in wire :
       \/ SessionRefused(q) \/ MeAnswers(q) \/ InfoAnswers(q) \/ FormInfoAnswers(q)
       \/ OrgAnswers(q) \/ CallAnswers(q) \/ SwitchAnswers(q) \/ Switched(q)
       \/ GateAnswers(q) \/ SignAnswers(q) \/ VerifyAnswers(q) \/ TrialAnswers(q)
       \/ LicenseAnswers(q) \/ NoAnswer(q)
  \/ \E t \in IssuedTokens : Expire(t)

BrowserSpec == BrowserInit /\ [][BrowserNext]_browserVars

-----------------------------------------------------------------------------
(* Properties.                                                             *)

\* Every variable has its type.
BrowserTypeOK ==
  /\ saved \in [token : SomeSession, user : SomeSession]
  /\ ctx \in [token : SomeSession, user : SomeSession, loading : BOOLEAN, cloud : BOOLEAN]
  /\ org \in SomeSession /\ path \in Gated \union {"login", "welcome"}
  /\ form \in [step : {"auth", "verify", "trial", "license"}, token : SomeSession,
               cloud : BOOLEAN, busy : BOOLEAN]
  /\ \A q \in wire : q.token \in SomeSession /\ q.live \in BOOLEAN
  /\ signedIn \in 0..MaxSignIns /\ validTokens \subseteq 1..signedIn
  /\ {plan, cloud, overtaken} \subseteq BOOLEAN
  /\ webClicks \in 0..MaxWebClicks /\ webFaults \in 0..MaxWebFaults

\* Token, user and organization of the tab, and what a reload will restore, are
\* of one login: whatever answers, refusals and reloads come between, and whichever
\* requests of another session are still under way, only an answer of me or of the
\* organization for another session mixes them.  login leaves the organization of
\* the session before until its own fetch answers.
SessionIsOfOneLogin ==
  ~overtaken /\ ~ctx.loading =>
    /\ ctx.user = ctx.token
    /\ saved = Saved(ctx.token)
    /\ (webFaults = 0 /\ ~ \E q \in wire : q.op = "org") => org \in {NoSession, ctx.token}

\* The comment of OnboardingRedirect: "If all 4 hold and we're on the dashboard,
\* redirect to /welcome".  With nothing under way and nothing lost, a new and
\* verified user whose license is good and who was never sent to /welcome is not
\* left on the dashboard.
NewUserIsWelcomed ==
  ~ /\ wire = {} /\ webFaults = 0 /\ path = "home" /\ ~ctx.loading
    /\ ctx.user # NoSession /\ Account(ctx.user) \in verified \ welcomed
    /\ Profile[ctx.user].new /\ ~Blocked(cloud)
=============================================================================
