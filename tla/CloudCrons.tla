----------------------------- MODULE CloudCrons -----------------------------
(***************************************************************************)
(* The two crons of the cloud:                                             *)
(*   ee/cloud/onboarding-cron.service.ts  mails to a user that stands      *)
(*                                        still and about a trial's end    *)
(*   ee/cloud/kg-cron.service.ts          runLlmExtendBatch                *)
(*                                                                         *)
(* A run is one HTTP request of a scheduler; nothing keeps two of them      *)
(* apart.  What goes out cannot be taken back: a mail is sent before the   *)
(* row says so, a batch is submitted before its row is created.  One user  *)
(* that gets mail, the admin of one organization, and the batches of it.    *)
(***************************************************************************)
EXTENDS Naturals, Sequences, FiniteSets

CONSTANTS
  CronRuns,    \* requests of the scheduler
  Batches,     \* bound: batches the provider is given
  TrialEnds,   \* the day the trial expires
  LastDay,     \* bound: days after the registration
  MaxCronRuns, \* bound: runs started of each cron
  NotRunning, NoBatch

Crons  == {"onboarding", "kg"}
Stages == {"warn3", "warn1", "expired"}
Mails  == {"first", "second", "activation"} \union Stages

\* The row of the user, and a run under way.
CronUsers == [connector : BOOLEAN, success : BOOLEAN, completed : BOOLEAN,
              count : 0..2, last : 0..LastDay, reminded : BOOLEAN]
RunsOf(cron) ==
  [cron : {cron}, now : 0..LastDay, user : CronUsers, mail : Mails,
   batch : Batches \union {NoBatch},
   pc : IF cron = "kg"
        THEN {"pending", "poll", "apply", "remove", "build", "submit", "record"}
        ELSE {"candidates", "drip", "noteDrip", "stuck", "activate", "noteActivation",
              "trial", "warn", "noteWarn"}]

ASSUME CronsAssumption ==
  /\ TrialEnds \in Nat /\ LastDay \in Nat \ {0} /\ MaxCronRuns \in [Crons -> Nat]
  /\ IsFiniteSet(CronRuns)
  /\ \A cron \in Crons : NotRunning \notin RunsOf(cron)

VARIABLES
  day,         \* since the user registered
  profile,     \* the row of the user
  flags,       \* trial_email_<stage> of the organization
  kgLlmBatch,  \* rows of kg_llm_batches, the oldest first
  provided,    \* external: batches the provider was given
  answered,    \* external: those it is done with
  cooled,      \* kg_llm_auto_last is within the cooldown
  cronRun,     \* the running requests
  scheduled,   \* the cron of a behaviour: the two share no row
  begun,       \* runs started, bounded by MaxCronRuns
  outbox,        \* history: the mails that went out, by kind
  taken,       \* history: how often the results of a batch were applied
  doubled,     \* history: crons of which two runs overlapped
  broken       \* history: crons of which a run ended with something unrecorded

mailVars  == <<profile, flags, outbox>>
batchVars == <<kgLlmBatch, provided, answered, cooled, taken>>
cronVars  == <<day, mailVars, batchVars, cronRun, scheduled, begun, doubled, broken>>

NewUser == [connector |-> FALSE, success |-> FALSE,
            completed |-> FALSE, count |-> 0, last |-> 0, reminded |-> FALSE]

OnStep(r, pc) == cronRun[r] # NotRunning /\ cronRun[r].pc = pc
Proceed(r, pc) == cronRun' = [cronRun EXCEPT ![r].pc = pc]
Over(r)        == cronRun' = [cronRun EXCEPT ![r] = NotRunning]

-----------------------------------------------------------------------------
(* Faulty variants of definitions below: bugs the properties must catch.   *)

\* The mail already sent is not asked for.
StuckAgain(u, now) == u.connector /\ ~u.success /\ now >= 1 /\ now <= 14

\* The reminders are counted up instead of being set.
NoteDripIncremented(r) ==
  /\ OnStep(r, "noteDrip")
  /\ profile' = [profile EXCEPT !.count = @ + 1, !.last = day]
  /\ cronRun' = [cronRun EXCEPT ![r].pc = "stuck", ![r].user = NewUser]
  /\ UNCHANGED <<day, flags, outbox, batchVars, begun, doubled, broken>>

-----------------------------------------------------------------------------
(* Time, and the user.                                                     *)

DayPasses ==
  /\ day < LastDay /\ day' = day + 1
  /\ UNCHANGED <<mailVars, batchVars, cronRun, begun, doubled, broken>>

UserActs ==
  /\ \/ ~profile.connector /\ profile' = [profile EXCEPT !.connector = TRUE]
     \/ profile.connector /\ ~profile.success /\ profile' = [profile EXCEPT !.success = TRUE]
  /\ UNCHANGED <<day, flags, outbox, batchVars, cronRun, begun, doubled, broken>>

-----------------------------------------------------------------------------
(* A run of the onboarding cron: three passes.                             *)

StartRun(r, cron, pc) ==
  /\ cronRun[r] = NotRunning
  /\ scheduled = cron
  /\ begun < MaxCronRuns[cron] /\ begun' = begun + 1
  /\ cronRun' = [cronRun EXCEPT ![r] =
       [cron |-> cron, pc |-> pc, now |-> day, user |-> NewUser, mail |-> "first",
        batch |-> NoBatch]]
  /\ doubled' = doubled \union
       {c \in {cron} : \E q \in CronRuns : cronRun[q] # NotRunning /\ cronRun[q].cron = c}

StartOnboarding(r) ==
  /\ StartRun(r, "onboarding", "candidates")
  /\ UNCHANGED <<day, mailVars, batchVars, broken>>

IsCandidate(u, now) ==
  ~u.completed /\ u.count < 2 /\ now >= 1 /\ now <= 14

Candidates(r) ==
  /\ OnStep(r, "candidates")
  /\ cronRun' = [cronRun EXCEPT ![r].user = profile,
       ![r].pc = IF IsCandidate(profile, cronRun[r].now) THEN "drip" ELSE "stuck"]
  /\ UNCHANGED <<day, mailVars, batchVars, begun, doubled, broken>>

\* The reminder that is due, by the row as it was when it was pulled.
DueReminders(u, now) ==
  {m \in {"first", "second"} :
     IF m = "first" THEN u.count = 0
     ELSE u.count = 1 /\ now >= 3 /\ now >= u.last + 2}

\* A user with a connector, at the pull, is stamped and never looked at again.
Drip(r) ==
  /\ OnStep(r, "drip")
  /\ LET u   == cronRun[r].user
         due == DueReminders(u, cronRun[r].now)
     IN IF u.connector
        THEN /\ profile' = [profile EXCEPT !.completed = TRUE]
             /\ Proceed(r, "stuck") /\ UNCHANGED outbox
        ELSE IF due = {} THEN Proceed(r, "stuck") /\ UNCHANGED <<profile, outbox>>
        ELSE \E m \in due :
               /\ outbox' = [outbox EXCEPT ![m] = @ + 1]
               /\ cronRun' = [cronRun EXCEPT ![r].pc = "noteDrip", ![r].mail = m]
               /\ UNCHANGED profile
  /\ UNCHANGED <<day, flags, batchVars, begun, doubled, broken>>

CountOf(mail) == IF mail = "first" THEN 1 ELSE 2

NoteDrip(r) ==
  /\ OnStep(r, "noteDrip")
  /\ profile' = [profile EXCEPT !.count = CountOf(cronRun[r].mail), !.last = day]
  /\ cronRun' = [cronRun EXCEPT ![r].pc = "stuck", ![r].user = NewUser]
  /\ UNCHANGED <<day, flags, outbox, batchVars, begun, doubled, broken>>

\* The activation pass: a connector, and no call that succeeded.
IsStuck(u, now) ==
  u.connector /\ ~u.success /\ ~u.reminded /\ now >= 1 /\ now <= 14

Stuck(r) ==
  /\ OnStep(r, "stuck")
  /\ Proceed(r, IF IsStuck(profile, cronRun[r].now) THEN "activate" ELSE "trial")
  /\ UNCHANGED <<day, mailVars, batchVars, begun, doubled, broken>>

Activate(r) ==
  /\ OnStep(r, "activate")
  /\ outbox' = [outbox EXCEPT !.activation = @ + 1]
  /\ Proceed(r, "noteActivation")
  /\ UNCHANGED <<day, profile, flags, batchVars, begun, doubled, broken>>

NoteActivation(r) ==
  /\ OnStep(r, "noteActivation")
  /\ profile' = [profile EXCEPT !.reminded = TRUE]
  /\ Proceed(r, "trial")
  /\ UNCHANGED <<day, flags, outbox, batchVars, begun, doubled, broken>>

\* The trial pass: the most urgent stage, once per organization.
StageOf(now) ==
  IF now >= TrialEnds THEN "expired" ELSE IF now + 1 >= TrialEnds THEN "warn1" ELSE "warn3"

Trial(r) ==
  /\ OnStep(r, "trial")
  /\ LET stage == StageOf(cronRun[r].now)
     IN IF cronRun[r].now + 3 < TrialEnds \/ stage \in flags
        THEN Over(r)
        ELSE cronRun' = [cronRun EXCEPT ![r].pc = "warn", ![r].mail = stage]
  /\ UNCHANGED <<day, mailVars, batchVars, begun, doubled, broken>>

Warn(r) ==
  /\ OnStep(r, "warn")
  /\ outbox' = [outbox EXCEPT ![cronRun[r].mail] = @ + 1]
  /\ Proceed(r, "noteWarn")
  /\ UNCHANGED <<day, profile, flags, batchVars, begun, doubled, broken>>

NoteWarn(r) ==
  /\ OnStep(r, "noteWarn")
  /\ flags' = flags \union {cronRun[r].mail}
  /\ Over(r)
  /\ UNCHANGED <<day, profile, outbox, batchVars, begun, doubled, broken>>

\* The mailer says no: nothing is written, the run goes on.
MailFails(r) ==
  /\ \/ OnStep(r, "drip") /\ ~cronRun[r].user.connector
        /\ DueReminders(cronRun[r].user, cronRun[r].now) # {} /\ Proceed(r, "stuck")
     \/ OnStep(r, "activate") /\ Proceed(r, "trial")
     \/ OnStep(r, "warn") /\ Over(r)
  /\ UNCHANGED <<day, mailVars, batchVars, begun, doubled, broken>>

-----------------------------------------------------------------------------
(* A run of the knowledge graph cron, as far as the batches go.            *)

StartBatchRun(r) ==
  /\ StartRun(r, "kg", "pending")
  /\ UNCHANGED <<day, mailVars, batchVars, broken>>

FindPending(r) ==
  /\ OnStep(r, "pending")
  /\ cronRun' = IF kgLlmBatch = <<>> THEN [cronRun EXCEPT ![r].pc = "build"]
                ELSE [cronRun EXCEPT ![r].pc = "poll", ![r].batch = Head(kgLlmBatch)]
  /\ UNCHANGED <<day, mailVars, batchVars, begun, doubled, broken>>

Poll(r) ==
  /\ OnStep(r, "poll")
  /\ IF cronRun[r].batch \in answered THEN Proceed(r, "apply") ELSE Over(r)
  /\ UNCHANGED <<day, mailVars, batchVars, begun, doubled, broken>>

\* applyEnrichResult and applyConnectorResult; a result that cannot be applied
\* is logged and left.
ApplyResults(r) ==
  /\ OnStep(r, "apply")
  /\ taken' = [taken EXCEPT ![cronRun[r].batch] = @ + 1]
  /\ Proceed(r, "remove")
  /\ UNCHANGED <<day, mailVars, kgLlmBatch, provided, answered, cooled, begun, doubled, broken>>

\* A row that is gone makes the delete throw, which is caught.
RemoveBatch(r) ==
  /\ OnStep(r, "remove")
  /\ \/ \E n \in DOMAIN kgLlmBatch :
          /\ kgLlmBatch[n] = cronRun[r].batch
          /\ kgLlmBatch' = SubSeq(kgLlmBatch, 1, n - 1) \o SubSeq(kgLlmBatch, n + 1, Len(kgLlmBatch))
     \/ (\A n \in DOMAIN kgLlmBatch : kgLlmBatch[n] # cronRun[r].batch) /\ UNCHANGED kgLlmBatch
  /\ Over(r)
  /\ UNCHANGED <<day, mailVars, provided, answered, cooled, taken, begun, doubled, broken>>

\* The cooldown is stamped while the requests are gathered, also when there is
\* nothing to ask.
Build(r) ==
  /\ OnStep(r, "build")
  /\ IF cooled THEN Over(r) /\ UNCHANGED cooled
     ELSE cooled' = TRUE /\ (Over(r) \/ Proceed(r, "submit"))
  /\ UNCHANGED <<day, mailVars, kgLlmBatch, provided, answered, taken, begun, doubled, broken>>

Submit(r, b) ==
  /\ OnStep(r, "submit") /\ b \notin provided
  /\ provided' = provided \union {b}
  /\ cronRun' = [cronRun EXCEPT ![r].pc = "record", ![r].batch = b]
  /\ UNCHANGED <<day, mailVars, kgLlmBatch, answered, cooled, taken, begun, doubled, broken>>

RecordBatch(r) ==
  /\ OnStep(r, "record")
  /\ kgLlmBatch' = Append(kgLlmBatch, cronRun[r].batch)
  /\ Over(r)
  /\ UNCHANGED <<day, mailVars, provided, answered, cooled, taken, begun, doubled, broken>>

ProviderAnswers(b) ==
  /\ b \in provided \ answered /\ answered' = answered \union {b}
  /\ UNCHANGED <<day, mailVars, kgLlmBatch, provided, cooled, taken, cronRun, begun, doubled, broken>>

LlmCooldownEnds ==
  /\ cooled /\ cooled' = FALSE
  /\ UNCHANGED <<day, mailVars, kgLlmBatch, provided, answered, taken, cronRun, begun, doubled, broken>>

-----------------------------------------------------------------------------
\* Something went out and no row says so.
Unrecorded(r) ==
  \E pc \in {"noteDrip", "noteActivation", "noteWarn", "remove", "submit", "record"} : OnStep(r, pc)

\* A statement of the run throws, the submission included, or the process stops.
CronEnds(r) ==
  /\ cronRun[r] # NotRunning /\ Over(r)
  /\ broken' = broken \union {c \in {cronRun[r].cron} : Unrecorded(r)}
  /\ UNCHANGED <<day, mailVars, batchVars, begun, doubled>>

\* A user that has just registered, or that got the first reminder.
CronsInit ==
  /\ \/ day = 0 /\ profile = NewUser /\ outbox = [m \in Mails |-> 0]
     \/ /\ day = 1 /\ profile = [NewUser EXCEPT !.count = 1, !.last = 1]
        /\ outbox = [m \in Mails |-> IF m = "first" THEN 1 ELSE 0]
  /\ flags = {}
  /\ kgLlmBatch = <<>> /\ provided = {} /\ answered = {} /\ cooled = FALSE
  /\ cronRun = [r \in CronRuns |-> NotRunning]
  /\ taken = [b \in Batches |-> 0]
  /\ begun = 0 /\ scheduled \in Crons
  /\ doubled = {} /\ broken = {}

OnboardingStep(r) ==
  \/ Candidates(r) \/ Drip(r) \/ NoteDrip(r) \/ Stuck(r) \/ Activate(r)
  \/ NoteActivation(r) \/ Trial(r) \/ Warn(r) \/ NoteWarn(r) \/ MailFails(r)

BatchStep(r) ==
  \/ FindPending(r) \/ Poll(r) \/ ApplyResults(r) \/ RemoveBatch(r)
  \/ Build(r) \/ RecordBatch(r) \/ \E b \in Batches : Submit(r, b)

CronsNext ==
  /\ UNCHANGED scheduled
  /\ \/ scheduled = "onboarding" /\ (DayPasses \/ UserActs)
     \/ LlmCooldownEnds
     \/ \E b \in Batches : ProviderAnswers(b)
     \/ \E r \in CronRuns :
          \/ StartOnboarding(r) \/ OnboardingStep(r)
          \/ StartBatchRun(r) \/ BatchStep(r) \/ CronEnds(r)

CronsSpec == CronsInit /\ [][CronsNext]_cronVars

-----------------------------------------------------------------------------
(* Properties.                                                             *)

\* Every variable has its type.
CronsTypeOK ==
  /\ day \in 0..LastDay
  /\ profile \in CronUsers
  /\ flags \subseteq Stages
  /\ kgLlmBatch \in Seq(Batches)
  /\ answered \subseteq provided /\ provided \subseteq Batches /\ cooled \in BOOLEAN
  /\ cronRun \in [CronRuns -> RunsOf(scheduled) \union {NotRunning}]
  /\ begun \in 0..MaxCronRuns[scheduled]
  /\ outbox \in [Mails -> 0..(MaxCronRuns["onboarding"] + 1)]
  /\ taken \in [Batches -> 0..MaxCronRuns["kg"]]
  /\ {scheduled} \union doubled \union broken \subseteq Crons

\* What cannot be taken back is done once.  A user gets each of the two
\* reminders, the activation mail and each mail about the trial at most once;
\* one batch is in flight at a time, it has its row or a run that is about to
\* create or delete it, and its results are applied once.  This is so until two
\* runs of the cron overlap, or one ends between what went out and its record.
CronsActOnce ==
  /\ "onboarding" \notin doubled \union broken => \A m \in Mails : outbox[m] <= 1
  /\ "kg" \notin doubled \union broken =>
       /\ Len(kgLlmBatch) <= 1
       /\ \A b \in Batches : taken[b] <= 1
       /\ \A b \in provided :
            \/ \E n \in DOMAIN kgLlmBatch : kgLlmBatch[n] = b
            \/ taken[b] = 1
            \/ \E r \in CronRuns : OnStep(r, "record") /\ cronRun[r].batch = b
=============================================================================
