----------------------------- MODULE TabsProofs -----------------------------
(***************************************************************************)
(* What the crons and a browser tab keep, for any number of runs, days,    *)
(* batches, logins and requests (CronsActOnce, SessionIsOfOneLogin, and    *)
(* the types), and the theorems of the composition MCTokensAndTabs.        *)
(*                                                                         *)
(*   crons     How often a run has mailed or applied is bounded by the     *)
(*             runs that began (Counted).  While no two runs overlapped    *)
(*             and none stopped before its record, one run at most is      *)
(*             under way (Alone), and it and the row of the user, or of    *)
(*             the batch, tell together what went out (MailedOnce,         *)
(*             AppliedOnce).                                               *)
(*   tab       The storage is the context at every moment, also while the  *)
(*             page loads, and no request of the session carries another   *)
(*             token than the context (OneLogin).                          *)
(***************************************************************************)
EXTENDS MCTokensAndTabs, OAuth2TokenProofs, FiniteSetTheorems

(* Crons.                                                                  *)

(* Types, and how often a run mails or applies.                            *)

\* The places of a run up to the one where it sends mail m, or applies a batch.
Before(m) ==
  IF m \in {"first", "second"} THEN {"candidates", "drip"}
  ELSE {"candidates", "drip", "noteDrip", "stuck", "activate"} \union
       (IF m = "activation" THEN {} ELSE {"noteActivation", "trial", "warn"})
Applying == {"pending", "poll", "apply"}

\* The run x is at one of the places pcs.
In(x, pcs) == x # NotRunning /\ x.pc \in pcs
RunsAt(run, pcs) == {r \in CronRuns : In(run[r], pcs)}

\* A run knows its mail, and its batch.
RunFits(x) ==
  /\ In(x, {"noteDrip"}) => x.mail \in {"first", "second"}
  /\ In(x, {"warn", "noteWarn"}) => x.mail \in Stages
  /\ In(x, {"poll", "apply", "remove", "record"}) => x.batch \in Batches

CronsTyped ==
  /\ day \in 0..LastDay /\ profile \in CronUsers /\ flags \subseteq Stages
  /\ kgLlmBatch \in Seq(Batches)
  /\ answered \subseteq provided /\ provided \subseteq Batches /\ cooled \in BOOLEAN
  /\ scheduled \in Crons
  /\ cronRun \in [CronRuns -> RunsOf(scheduled) \union {NotRunning}]
  /\ begun \in 0..MaxCronRuns[scheduled]
  /\ outbox \in [Mails -> Nat] /\ taken \in [Batches -> Nat]
  /\ doubled \subseteq Crons /\ broken \subseteq Crons
  /\ \A r \in CronRuns : RunFits(cronRun[r])

\* A run sends each mail once and applies one batch; another cron does neither.
Sent(run, box, n, m) ==
  IF scheduled = "onboarding" THEN box[m] + Cardinality(RunsAt(run, Before(m))) <= n + 1
  ELSE box[m] <= 1
Applied(run, tk, n, b) ==
  IF scheduled = "kg" THEN tk[b] + Cardinality(RunsAt(run, Applying)) <= n ELSE tk[b] = 0

Counted ==
  /\ \A m \in Mails : Sent(cronRun, outbox, begun, m)
  /\ \A b \in Batches : Applied(cronRun, taken, begun, b)
  /\ scheduled = "onboarding" => kgLlmBatch = <<>> /\ provided = {}

-----------------------------------------------------------------------------
(* What is done once.                                                      *)

Alone == \A q, r \in CronRuns : cronRun[q] # NotRunning /\ cronRun[r] # NotRunning => q = r

\* x is the only run, or nothing if there is none.
Sole(x) ==
  /\ x = NotRunning => \A q \in CronRuns : cronRun[q] = NotRunning
  /\ x # NotRunning =>
       \E r \in CronRuns : cronRun[r] = x /\ \A q \in CronRuns \ {r} : cronRun[q] = NotRunning

\* The row counts the reminders, once the run x has noted them.
RemindedOnce(x, count, box) ==
  /\ box["first"] <= 1 /\ box["second"] <= 1
  /\ ~In(x, {"noteDrip"}) => /\ count = 0 => box["first"] = 0
                             /\ count <= 1 => box["second"] = 0
  /\ In(x, {"drip"}) => x.user.count = count
  /\ In(x, {"noteDrip"}) /\ x.mail = "first" => box["second"] = 0

\* The mark of the activation mail.
ActivatedOnce(x, reminded, box) ==
  /\ box["activation"] <= 1
  /\ ~In(x, {"noteActivation"}) /\ ~reminded => box["activation"] = 0
  /\ In(x, {"activate"}) => ~reminded

\* The flags of the mails about the trial.
WarnedOnce(x, noted, box) ==
  /\ \A s \in Stages :
       /\ box[s] <= 1
       /\ s \notin noted /\ ~(In(x, {"noteWarn"}) /\ x.mail = s) => box[s] = 0
  /\ In(x, {"warn"}) => x.mail \notin noted

MailedOnce(x, count, reminded, noted, box) ==
  RemindedOnce(x, count, box) /\ ActivatedOnce(x, reminded, box) /\ WarnedOnce(x, noted, box)

\* The one batch in flight, and those that were applied.
AppliedOnce(x, rows, given, tk) ==
  /\ In(x, {"poll", "apply"}) => rows = <<x.batch>> /\ tk[x.batch] = 0
  /\ In(x, {"remove"}) => rows = <<x.batch>> /\ tk[x.batch] = 1
  /\ In(x, {"build", "submit"}) => rows = <<>>
  /\ In(x, {"record"}) => rows = <<>> /\ x.batch \in given /\ tk[x.batch] = 0
  /\ rows = <<>> \/ \E b \in given : rows = <<b>> /\ (~In(x, {"remove"}) => tk[b] = 0)
  /\ \A b \in Batches : tk[b] <= 1 /\ (b \notin given => tk[b] = 0)
  /\ \A b \in given : tk[b] = 1 \/ rows = <<b>> \/ (In(x, {"record"}) /\ x.batch = b)

\* All this until two runs overlap, or one stops before its record.
OnceInv ==
  /\ scheduled \notin doubled => Alone
  /\ scheduled = "onboarding" /\ scheduled \notin doubled \union broken =>
       \A x : Sole(x) => MailedOnce(x, profile.count, profile.reminded, flags, outbox)
  /\ scheduled = "kg" /\ scheduled \notin doubled \union broken =>
       \A x : Sole(x) => AppliedOnce(x, kgLlmBatch, provided, taken)

CronsInv == CronsTyped /\ Counted /\ OnceInv

-----------------------------------------------------------------------------
\* If two runs are never under way at once, there is a sole one or none.
LEMMA SoleIs ==
  ASSUME Alone PROVE \E x : Sole(x)
<1>1. CASE \A q \in CronRuns : cronRun[q] = NotRunning
  <2>1. Sole(NotRunning) BY <1>1 DEF Sole
  <2> QED BY <2>1
<1>2. ASSUME NEW r \in CronRuns, cronRun[r] # NotRunning PROVE \E x : Sole(x)
  <2>1. Sole(cronRun[r]) BY <1>2 DEF Sole, Alone
  <2> QED BY <2>1
<1> QED BY <1>1, <1>2

\* What the runs check follows from the invariant.
LEMMA CronsFromInv == CronsInv => CronsTypeOK /\ CronsActOnce
<1> SUFFICES ASSUME CronsInv PROVE CronsTypeOK /\ CronsActOnce
  OBVIOUS
<1> USE CronsAssumption
<1>1. CronsTyped /\ Counted /\ OnceInv
  BY DEF CronsInv
<1>2. \A P : Cardinality(RunsAt(cronRun, P)) \in Nat
  <2> TAKE P
  <2>1. IsFiniteSet(RunsAt(cronRun, P)) BY FS_Subset DEF RunsAt
  <2> QED BY <2>1, FS_CardinalityType
<1>3. MaxCronRuns["onboarding"] \in Nat /\ MaxCronRuns["kg"] \in Nat
  BY DEF Crons
<1>4. scheduled \in {"onboarding", "kg"} /\ begun \in 0..MaxCronRuns[scheduled]
  BY <1>1 DEF CronsTyped, Crons
<1>5. outbox \in [Mails -> 0..(MaxCronRuns["onboarding"] + 1)]
  <2> SUFFICES ASSUME NEW m \in Mails PROVE outbox[m] \in 0..(MaxCronRuns["onboarding"] + 1)
    BY <1>1 DEF CronsTyped
  <2>1. outbox[m] \in Nat /\ Sent(cronRun, outbox, begun, m) BY <1>1 DEF CronsTyped, Counted
  <2>2. Cardinality(RunsAt(cronRun, Before(m))) \in Nat BY <1>2
  <2> QED BY <1>3, <1>4, <2>1, <2>2 DEF Sent
<1>6. taken \in [Batches -> 0..MaxCronRuns["kg"]]
  <2> SUFFICES ASSUME NEW b \in Batches PROVE taken[b] \in 0..MaxCronRuns["kg"]
    BY <1>1 DEF CronsTyped
  <2>1. taken[b] \in Nat /\ Applied(cronRun, taken, begun, b) BY <1>1 DEF CronsTyped, Counted
  <2>2. Cardinality(RunsAt(cronRun, Applying)) \in Nat BY <1>2
  <2> QED BY <1>3, <1>4, <2>1, <2>2 DEF Applied
<1>7. CronsTypeOK
  BY <1>1, <1>5, <1>6 DEF CronsTyped, CronsTypeOK
<1>8. ASSUME "onboarding" \notin doubled \union broken PROVE \A m \in Mails : outbox[m] <= 1
  <2>1. CASE scheduled = "kg"
    BY <1>1, <2>1 DEF Counted, Sent
  <2>2. CASE scheduled = "onboarding"
    <3>1. PICK x : Sole(x) BY <1>1, <1>8, <2>2, SoleIs DEF OnceInv
    <3>2. MailedOnce(x, profile.count, profile.reminded, flags, outbox)
      BY <1>1, <1>8, <2>2, <3>1 DEF OnceInv
    <3> QED BY <3>2 DEF MailedOnce, RemindedOnce, ActivatedOnce, WarnedOnce, Mails
  <2> QED BY <1>4, <2>1, <2>2
<1>9. ASSUME "kg" \notin doubled \union broken
      PROVE  /\ Len(kgLlmBatch) <= 1
             /\ \A b \in Batches : taken[b] <= 1
             /\ \A b \in provided :
                  \/ \E n \in DOMAIN kgLlmBatch : kgLlmBatch[n] = b
                  \/ taken[b] = 1
                  \/ \E r \in CronRuns : OnStep(r, "record") /\ cronRun[r].batch = b
  <2>1. CASE scheduled = "onboarding"
    BY <1>1, <2>1 DEF Counted, Applied
  <2>2. CASE scheduled = "kg"
    <3>1. PICK x : Sole(x) BY <1>1, <1>9, <2>2, SoleIs DEF OnceInv
    <3>2. AppliedOnce(x, kgLlmBatch, provided, taken)
      BY <1>1, <1>9, <2>2, <3>1 DEF OnceInv
    <3>3. Len(kgLlmBatch) <= 1
      <4>1. CASE kgLlmBatch = <<>> BY <4>1
      <4>2. ASSUME NEW b, kgLlmBatch = <<b>> PROVE Len(kgLlmBatch) <= 1 BY <4>2
      <4> QED BY <3>2, <4>1, <4>2 DEF AppliedOnce
    <3>4. ASSUME NEW b \in provided
          PROVE  \/ \E n \in DOMAIN kgLlmBatch : kgLlmBatch[n] = b
                 \/ taken[b] = 1
                 \/ \E r \in CronRuns : OnStep(r, "record") /\ cronRun[r].batch = b
      <4>1. CASE kgLlmBatch = <<b>>
        <5>1. 1 \in DOMAIN kgLlmBatch /\ kgLlmBatch[1] = b BY <4>1
        <5> QED BY <5>1
      <4>2. CASE In(x, {"record"}) /\ x.batch = b
        <5>1. PICK r \in CronRuns : cronRun[r] = x BY <3>1, <4>2 DEF Sole, In
        <5>2. OnStep(r, "record") BY <4>2, <5>1 DEF OnStep, In
        <5> QED BY <4>2, <5>1, <5>2
      <4> QED BY <3>2, <4>1, <4>2 DEF AppliedOnce
    <3> QED BY <3>2, <3>3, <3>4 DEF AppliedOnce
  <2> QED BY <1>4, <2>1, <2>2
<1>10. CronsActOnce
  BY <1>8, <1>9 DEF CronsActOnce
<1> QED BY <1>7, <1>10

\* One user, nothing sent but perhaps a first reminder, no run under way.
LEMMA CronsInvInit == CronsInit => CronsInv
<1> SUFFICES ASSUME CronsInit PROVE CronsInv
  OBVIOUS
<1> USE CronsAssumption
<1>1. \A P : Cardinality(RunsAt(cronRun, P)) = 0
  <2> TAKE P
  <2>1. RunsAt(cronRun, P) = {} BY DEF CronsInit, RunsAt, In
  <2> QED BY <2>1, FS_EmptySet
<1>2. profile \in CronUsers /\ day \in 0..LastDay
  <2>1. NewUser \in CronUsers
    BY DEF NewUser, CronUsers
  <2>2. 1 \in 0..LastDay /\ 1 \in 0..2
    OBVIOUS
  <2>3. [NewUser EXCEPT !.count = 1, !.last = 1] \in CronUsers
    BY <2>1, <2>2 DEF CronUsers
  <2> QED BY <2>1, <2>3 DEF CronsInit
<1>3. outbox \in [Mails -> Nat] /\ \A m \in Mails : outbox[m] <= 1
  BY DEF CronsInit
<1>4. CronsTyped
  <2>1. \A r \in CronRuns : RunFits(cronRun[r])
    BY DEF CronsInit, RunFits, In
  <2>2. begun \in 0..MaxCronRuns[scheduled]
    BY DEF CronsInit
  <2>3. cronRun \in [CronRuns -> RunsOf(scheduled) \union {NotRunning}]
    BY DEF CronsInit
  <2>4. flags \subseteq Stages /\ kgLlmBatch \in Seq(Batches) /\ taken \in [Batches -> Nat]
    BY DEF CronsInit
  <2>5. answered \subseteq provided /\ provided \subseteq Batches /\ cooled \in BOOLEAN /\ scheduled \in Crons
        /\ doubled \subseteq Crons /\ broken \subseteq Crons
    BY DEF CronsInit
  <2> QED BY <1>2, <1>3, <2>1, <2>2, <2>3, <2>4, <2>5 DEF CronsTyped
<1>5. Counted
  <2>1. ASSUME NEW m \in Mails PROVE Sent(cronRun, outbox, begun, m)
    BY <1>1, <1>3 DEF Sent, CronsInit
  <2>2. ASSUME NEW b \in Batches PROVE Applied(cronRun, taken, begun, b)
    BY <1>1 DEF Applied, CronsInit
  <2> QED BY <2>1, <2>2 DEF Counted, CronsInit
<1>6. ASSUME NEW x, Sole(x) PROVE x = NotRunning
  BY <1>6 DEF Sole, CronsInit
<1>7. MailedOnce(NotRunning, profile.count, profile.reminded, flags, outbox)
  <2>1. RemindedOnce(NotRunning, profile.count, outbox)
    <3>1. outbox["first"] <= 1 /\ outbox["second"] = 0 /\ (profile.count = 0 => outbox["first"] = 0)
      <4>0. "first" \in Mails /\ "second" \in Mails BY DEF Mails
      <4>1. CASE profile = NewUser /\ outbox = [m \in Mails |-> 0]
        BY <4>0, <4>1
      <4>2. CASE /\ profile = [NewUser EXCEPT !.count = 1, !.last = 1]
                 /\ outbox = [m \in Mails |-> IF m = "first" THEN 1 ELSE 0]
        <5>1. profile.count = 1 BY <4>2 DEF NewUser
        <5> QED BY <4>0, <4>2, <5>1
      <4> QED BY <4>1, <4>2 DEF CronsInit
    <3>2. \A P : ~In(NotRunning, P)
      BY DEF In
    <3> QED BY <3>1, <3>2 DEF RemindedOnce
  <2>2. outbox["activation"] = 0 /\ \A s \in Stages : outbox[s] = 0
    BY DEF CronsInit, Mails, Stages
  <2>3. ActivatedOnce(NotRunning, profile.reminded, outbox) /\ WarnedOnce(NotRunning, flags, outbox)
    BY <2>2 DEF ActivatedOnce, WarnedOnce, In
  <2> QED BY <2>1, <2>3 DEF MailedOnce
<1>8. AppliedOnce(NotRunning, kgLlmBatch, provided, taken)
  BY DEF CronsInit, AppliedOnce, In
<1>9. OnceInv
  BY <1>6, <1>7, <1>8 DEF OnceInv, Alone, CronsInit
<1> QED BY <1>4, <1>5, <1>9 DEF CronsInv

-----------------------------------------------------------------------------
(* A step of one run.                                                      *)

\* One if x is there, to be summed up.
At(x, pcs) == IF In(x, pcs) THEN 1 ELSE 0

\* How many runs are at some places, when one run moves.
LEMMA CountMoves ==
  ASSUME NEW r \in CronRuns, NEW run, NEW moved, NEW h,
         \A q \in CronRuns : moved[q] = IF q = r THEN h ELSE run[q]
  PROVE  \A P : /\ Cardinality(RunsAt(run, P)) \in Nat /\ Cardinality(RunsAt(moved, P)) \in Nat
               /\ Cardinality(RunsAt(moved, P)) + At(run[r], P)
                    = Cardinality(RunsAt(run, P)) + At(h, P)
<1> TAKE P
<1> USE CronsAssumption
<1> DEFINE others == RunsAt(run, P) \ {r}
<1>1. IsFiniteSet(others) /\ r \notin others /\ Cardinality(others) \in Nat
  <2>1. IsFiniteSet(others) BY FS_Subset DEF RunsAt
  <2> QED BY <2>1, FS_CardinalityType
<1>2. Cardinality(others \union {r}) = Cardinality(others) + 1
  BY <1>1, FS_AddElement
<1>3. RunsAt(run, P) = IF In(run[r], P) THEN others \union {r} ELSE others
  BY DEF RunsAt
<1>4. RunsAt(moved, P) = IF In(h, P) THEN others \union {r} ELSE others
  BY DEF RunsAt
<1>5. CASE In(run[r], P)
  <2>1. Cardinality(RunsAt(run, P)) = Cardinality(others) + 1 /\ At(run[r], P) = 1
    BY <1>2, <1>3, <1>5 DEF At
  <2>2. CASE In(h, P)
    BY <1>1, <1>2, <1>4, <2>1, <2>2 DEF At
  <2>3. CASE ~In(h, P)
    BY <1>1, <1>4, <2>1, <2>3 DEF At
  <2> QED BY <2>2, <2>3
<1>6. CASE ~In(run[r], P)
  <2>1. Cardinality(RunsAt(run, P)) = Cardinality(others) /\ At(run[r], P) = 0
    BY <1>3, <1>6 DEF At
  <2>2. CASE In(h, P)
    BY <1>1, <1>2, <1>4, <2>1, <2>2 DEF At
  <2>3. CASE ~In(h, P)
    BY <1>1, <1>4, <2>1, <2>3 DEF At
  <2> QED BY <2>2, <2>3
<1> QED BY <1>5, <1>6

\* If all other runs are over, the one that moves is the sole one before and after.
LEMMA SoleMoves ==
  ASSUME NEW r \in CronRuns, NEW h, \A q \in CronRuns \ {r} : cronRun[q] = NotRunning,
         \A q \in CronRuns : cronRun'[q] = IF q = r THEN h ELSE cronRun[q]
  PROVE  Alone' /\ Sole(cronRun[r]) /\ \A x : Sole(x)' => x = h
BY DEF Alone, Sole

\* What a run does to the mails, and to the row of the user.
MailMoves(r, h) ==
  /\ cronRun' = [cronRun EXCEPT ![r] = h]
  /\ h \in RunsOf("onboarding") \union {NotRunning} /\ RunFits(h)
  /\ profile' \in CronUsers /\ flags' \subseteq Stages /\ outbox' \in [Mails -> Nat]
  /\ UNCHANGED <<day, batchVars, scheduled, begun, doubled>>
  /\ broken \subseteq broken' /\ broken' \subseteq Crons
  /\ \A m \in Mails : outbox'[m] + At(h, Before(m)) <= outbox[m] + At(cronRun[r], Before(m))
  /\ scheduled \notin broken' /\ MailedOnce(cronRun[r], profile.count, profile.reminded, flags, outbox)
       => MailedOnce(h, profile'.count, profile'.reminded, flags', outbox')

\* A step of an onboarding run keeps the invariant if it moves as MailMoves says.
LEMMA MailStep ==
  ASSUME CronsInv, scheduled = "onboarding", NEW r \in CronRuns, cronRun[r] # NotRunning,
         NEW h, MailMoves(r, h)
  PROVE  CronsInv'
<1> USE CronsAssumption
<1>1. CronsTyped /\ Counted /\ OnceInv
  BY DEF CronsInv
<1>2. \A q \in CronRuns : cronRun'[q] = IF q = r THEN h ELSE cronRun[q]
  BY <1>1 DEF CronsTyped, MailMoves
<1>3. CronsTyped'
  <2>1. cronRun' \in [CronRuns -> RunsOf(scheduled) \union {NotRunning}]
    BY <1>1 DEF CronsTyped, MailMoves
  <2>2. \A q \in CronRuns : RunFits(cronRun'[q])
    BY <1>1, <1>2 DEF CronsTyped, MailMoves
  <2> QED BY <1>1, <2>1, <2>2 DEF CronsTyped, MailMoves, batchVars
<1>6. \A P : /\ Cardinality(RunsAt(cronRun, P)) \in Nat /\ Cardinality(RunsAt(cronRun', P)) \in Nat
            /\ Cardinality(RunsAt(cronRun', P)) + At(cronRun[r], P)
                 = Cardinality(RunsAt(cronRun, P)) + At(h, P)
  <2> DEFINE now == cronRun  then == cronRun'
  <2>1. \A q \in CronRuns : then[q] = IF q = r THEN h ELSE now[q]
    BY <1>2
  <2> HIDE DEF now, then
  <2>2. \A P : /\ Cardinality(RunsAt(now, P)) \in Nat /\ Cardinality(RunsAt(then, P)) \in Nat
              /\ Cardinality(RunsAt(then, P)) + At(now[r], P) = Cardinality(RunsAt(now, P)) + At(h, P)
    BY <2>1, CountMoves
  <2> QED BY <2>2 DEF now, then
<1>4. Counted'
  <2>1. ASSUME NEW m \in Mails PROVE Sent(cronRun', outbox', begun, m)
    <3>1. outbox[m] \in Nat /\ outbox'[m] \in Nat /\ begun \in Nat
      BY <1>1 DEF CronsTyped, MailMoves
    <3>2. Sent(cronRun, outbox, begun, m) BY <1>1 DEF Counted
    <3> DEFINE old == Cardinality(RunsAt(cronRun, Before(m)))
               new == Cardinality(RunsAt(cronRun', Before(m)))
    <3>3. /\ old \in Nat /\ new \in Nat
          /\ new + At(cronRun[r], Before(m)) = old + At(h, Before(m))
      BY <1>6
    <3>4. At(cronRun[r], Before(m)) \in Nat /\ At(h, Before(m)) \in Nat BY DEF At
    <3>5. outbox'[m] + At(h, Before(m)) <= outbox[m] + At(cronRun[r], Before(m)) BY DEF MailMoves
    <3>6. outbox[m] + old <= begun + 1 BY <3>2 DEF Sent
    <3> HIDE DEF old, new
    <3>7. outbox'[m] + new <= begun + 1 BY <3>1, <3>3, <3>4, <3>5, <3>6
    <3> QED BY <3>7 DEF Sent, new
  <2>2. ASSUME NEW b \in Batches PROVE taken'[b] = 0
    BY <1>1 DEF Counted, Applied, MailMoves, batchVars
  <2>3. scheduled' = scheduled /\ begun' = begun /\ kgLlmBatch' = <<>> /\ provided' = {}
    BY <1>1 DEF Counted, MailMoves, batchVars
  <2> QED BY <2>1, <2>2, <2>3 DEF Counted, Sent, Applied
<1>5. OnceInv'
  <2>1. scheduled' = scheduled /\ doubled' = doubled BY DEF MailMoves
  <2>2. ASSUME scheduled \notin doubled
        PROVE  /\ Alone' /\ (\A x : Sole(x)' => x = h)
               /\ scheduled \notin broken =>
                    MailedOnce(cronRun[r], profile.count, profile.reminded, flags, outbox)
    <3>1. \A q \in CronRuns \ {r} : cronRun[q] = NotRunning
      BY <1>1, <2>2 DEF OnceInv, Alone
    <3> QED BY <1>1, <1>2, <2>2, <3>1, SoleMoves DEF OnceInv
  <2>3. ASSUME scheduled \notin doubled, scheduled \notin broken'
        PROVE  MailedOnce(h, profile'.count, profile'.reminded, flags', outbox')
    BY <2>2, <2>3 DEF MailMoves
  <2> QED BY <2>1, <2>2, <2>3 DEF OnceInv
<1> QED BY <1>3, <1>4, <1>5 DEF CronsInv

\* What a run does to the batches.
BatchMoves(r, h) ==
  /\ cronRun' = [cronRun EXCEPT ![r] = h]
  /\ h \in RunsOf("kg") \union {NotRunning} /\ RunFits(h)
  /\ kgLlmBatch' \in Seq(Batches) /\ provided \subseteq provided' /\ provided' \subseteq Batches
  /\ cooled' \in BOOLEAN /\ taken' \in [Batches -> Nat]
  /\ UNCHANGED <<day, mailVars, answered, scheduled, begun, doubled>>
  /\ broken \subseteq broken' /\ broken' \subseteq Crons
  /\ \A b \in Batches : taken'[b] + At(h, Applying) <= taken[b] + At(cronRun[r], Applying)
  /\ scheduled \notin broken' /\ AppliedOnce(cronRun[r], kgLlmBatch, provided, taken)
       => AppliedOnce(h, kgLlmBatch', provided', taken')

\* A step of a knowledge graph run keeps the invariant if it moves as BatchMoves says.
LEMMA BatchRunStep ==
  ASSUME CronsInv, scheduled = "kg", NEW r \in CronRuns, cronRun[r] # NotRunning,
         NEW h, BatchMoves(r, h)
  PROVE  CronsInv'
<1> USE CronsAssumption
<1>1. CronsTyped /\ Counted /\ OnceInv
  BY DEF CronsInv
<1>2. \A q \in CronRuns : cronRun'[q] = IF q = r THEN h ELSE cronRun[q]
  BY <1>1 DEF CronsTyped, BatchMoves
<1>3. CronsTyped'
  <2>1. cronRun' \in [CronRuns -> RunsOf(scheduled) \union {NotRunning}]
    BY <1>1 DEF CronsTyped, BatchMoves
  <2>2. \A q \in CronRuns : RunFits(cronRun'[q])
    BY <1>1, <1>2 DEF CronsTyped, BatchMoves
  <2> QED BY <1>1, <2>1, <2>2 DEF CronsTyped, BatchMoves, mailVars
<1>6. \A P : /\ Cardinality(RunsAt(cronRun, P)) \in Nat /\ Cardinality(RunsAt(cronRun', P)) \in Nat
            /\ Cardinality(RunsAt(cronRun', P)) + At(cronRun[r], P)
                 = Cardinality(RunsAt(cronRun, P)) + At(h, P)
  <2> DEFINE now == cronRun  then == cronRun'
  <2>1. \A q \in CronRuns : then[q] = IF q = r THEN h ELSE now[q]
    BY <1>2
  <2> HIDE DEF now, then
  <2>2. \A P : /\ Cardinality(RunsAt(now, P)) \in Nat /\ Cardinality(RunsAt(then, P)) \in Nat
              /\ Cardinality(RunsAt(then, P)) + At(now[r], P) = Cardinality(RunsAt(now, P)) + At(h, P)
    BY <2>1, CountMoves
  <2> QED BY <2>2 DEF now, then
<1>4. Counted'
  <2>1. ASSUME NEW b \in Batches PROVE Applied(cronRun', taken', begun, b)
    <3>1. taken[b] \in Nat /\ taken'[b] \in Nat /\ begun \in Nat
      BY <1>1 DEF CronsTyped, BatchMoves
    <3>2. Applied(cronRun, taken, begun, b) BY <1>1 DEF Counted
    <3> DEFINE old == Cardinality(RunsAt(cronRun, Applying))
               new == Cardinality(RunsAt(cronRun', Applying))
    <3>3. /\ old \in Nat /\ new \in Nat
          /\ new + At(cronRun[r], Applying) = old + At(h, Applying)
      BY <1>6
    <3>4. At(cronRun[r], Applying) \in Nat /\ At(h, Applying) \in Nat BY DEF At
    <3>5. taken'[b] + At(h, Applying) <= taken[b] + At(cronRun[r], Applying) BY DEF BatchMoves
    <3>6. taken[b] + old <= begun BY <3>2 DEF Applied
    <3> HIDE DEF old, new
    <3>7. taken'[b] + new <= begun BY <3>1, <3>3, <3>4, <3>5, <3>6
    <3> QED BY <3>7 DEF Applied, new
  <2>2. ASSUME NEW m \in Mails PROVE outbox'[m] <= 1
    BY <1>1 DEF Counted, Sent, BatchMoves, mailVars
  <2>3. scheduled' = scheduled /\ begun' = begun
    BY DEF BatchMoves
  <2> QED BY <2>1, <2>2, <2>3 DEF Counted, Sent, Applied
<1>5. OnceInv'
  <2>1. scheduled' = scheduled /\ doubled' = doubled BY DEF BatchMoves
  <2>2. ASSUME scheduled \notin doubled
        PROVE  /\ Alone' /\ (\A x : Sole(x)' => x = h)
               /\ scheduled \notin broken => AppliedOnce(cronRun[r], kgLlmBatch, provided, taken)
    <3>1. \A q \in CronRuns \ {r} : cronRun[q] = NotRunning
      BY <1>1, <2>2 DEF OnceInv, Alone
    <3> QED BY <1>1, <1>2, <2>2, <3>1, SoleMoves DEF OnceInv
  <2>3. ASSUME scheduled \notin doubled, scheduled \notin broken'
        PROVE  AppliedOnce(h, kgLlmBatch', provided', taken')
    BY <2>2, <2>3 DEF BatchMoves
  <2> QED BY <2>1, <2>2, <2>3 DEF OnceInv
<1> QED BY <1>3, <1>4, <1>5 DEF CronsInv

-----------------------------------------------------------------------------
(* The steps of a run of the onboarding cron.                              *)

MailPcs == {"candidates", "drip", "noteDrip", "stuck", "activate", "noteActivation",
            "trial", "warn", "noteWarn"}
BatchPcs == {"pending", "poll", "apply", "remove", "build", "submit", "record"}

\* The cron of a behaviour tells the places its runs are at.
LEMMA RunTyped ==
  ASSUME CronsTyped, NEW r \in CronRuns, cronRun[r] # NotRunning
  PROVE  /\ cronRun[r] \in RunsOf(scheduled) /\ RunFits(cronRun[r])
         /\ scheduled = "onboarding" => cronRun[r].pc \in MailPcs
         /\ scheduled = "kg" => cronRun[r].pc \in BatchPcs
<1>1. cronRun[r] \in RunsOf(scheduled) /\ RunFits(cronRun[r])
  BY DEF CronsTyped
<1> QED BY <1>1 DEF RunsOf, MailPcs, BatchPcs

\* A run that is over is at no place.
LEMMA NotRunningMoves ==
  /\ NotRunning \in RunsOf("onboarding") \union {NotRunning}
  /\ NotRunning \in RunsOf("kg") \union {NotRunning}
  /\ RunFits(NotRunning) /\ \A P : At(NotRunning, P) = 0 /\ ~In(NotRunning, P)
BY DEF RunFits, At, In

\* A run of the onboarding cron goes on to place pc, with its user and its mail.
LEMMA MailProceeds ==
  ASSUME CronsTyped, scheduled = "onboarding", NEW r \in CronRuns, cronRun[r] # NotRunning,
         NEW pc \in MailPcs, Proceed(r, pc)
  PROVE  \E h \in RunsOf("onboarding") :
           /\ cronRun' = [cronRun EXCEPT ![r] = h]
           /\ h # NotRunning /\ h.pc = pc /\ h.mail = cronRun[r].mail /\ h.user = cronRun[r].user
<1> DEFINE x == cronRun[r]
           h == [x EXCEPT !.pc = pc]
<1>1. x \in RunsOf("onboarding") BY RunTyped
<1>2. h \in RunsOf("onboarding") BY <1>1 DEF RunsOf, MailPcs
<1>3. h.pc = pc /\ h.mail = x.mail /\ h.user = x.user BY <1>1 DEF RunsOf
<1>4. cronRun' = [cronRun EXCEPT ![r] = h] BY DEF Proceed, CronsTyped
<1>5. h # NotRunning BY <1>2, CronsAssumption DEF Crons
<1> QED BY <1>2, <1>3, <1>4, <1>5

\* One mail goes out, or none.
LEMMA SendCounts ==
  ASSUME outbox \in [Mails -> Nat], NEW x, NEW h,
         \A m \in Mails : In(h, Before(m)) => In(x, Before(m)),
         \/ outbox' = outbox
         \/ \E m \in Mails : /\ outbox' = [outbox EXCEPT ![m] = @ + 1]
                            /\ In(x, Before(m)) /\ ~In(h, Before(m))
  PROVE  /\ outbox' \in [Mails -> Nat]
         /\ \A m \in Mails : outbox'[m] + At(h, Before(m)) <= outbox[m] + At(x, Before(m))
<1>1. CASE outbox' = outbox
  BY <1>1 DEF At
<1>2. ASSUME NEW m \in Mails, outbox' = [outbox EXCEPT ![m] = @ + 1],
             In(x, Before(m)), ~In(h, Before(m))
      PROVE  /\ outbox' \in [Mails -> Nat]
             /\ \A o \in Mails : outbox'[o] + At(h, Before(o)) <= outbox[o] + At(x, Before(o))
  <2>1. outbox' \in [Mails -> Nat] BY <1>2
  <2>2. ASSUME NEW o \in Mails
        PROVE  outbox'[o] + At(h, Before(o)) <= outbox[o] + At(x, Before(o))
    <3>1. CASE o = m
      <4>1. At(h, Before(o)) = 0 /\ At(x, Before(o)) = 1 /\ outbox'[o] = outbox[o] + 1
        BY <1>2, <3>1 DEF At
      <4> QED BY <4>1
    <3>2. CASE o # m
      <4>1. outbox'[o] = outbox[o] BY <1>2, <3>2
      <4> QED BY <4>1 DEF At
    <3> QED BY <3>1, <3>2
  <2> QED BY <2>1, <2>2
<1> QED BY <1>1, <1>2

\* Where a run that mails is: nothing but what it has passed lies behind it.
LEMMA PassedPlaces ==
  ASSUME NEW x, NEW h, x # NotRunning,
         \/ x.pc = "candidates" /\ In(h, {"drip", "stuck"})
         \/ x.pc = "drip" /\ In(h, {"noteDrip", "stuck"})
         \/ x.pc = "noteDrip" /\ In(h, {"stuck"})
         \/ x.pc = "stuck" /\ In(h, {"activate", "trial"})
         \/ x.pc = "activate" /\ In(h, {"noteActivation", "trial"})
         \/ x.pc = "noteActivation" /\ In(h, {"trial"})
         \/ x.pc = "trial" /\ In(h, {"warn"})
         \/ x.pc = "warn" /\ In(h, {"noteWarn"})
         \/ h = NotRunning
  PROVE  \A m \in Mails : In(h, Before(m)) => In(x, Before(m))
BY DEF In, Before

\* The selection of the candidates for a reminder.
LEMMA CandidatesStep ==
  ASSUME CronsInv, scheduled = "onboarding", scheduled' = scheduled,
         NEW r \in CronRuns, Candidates(r)
  PROVE  CronsInv'
<1> DEFINE x  == cronRun[r]
           pc == IF IsCandidate(profile, x.now) THEN "drip" ELSE "stuck"
           h  == [x EXCEPT !.user = profile, !.pc = pc]
<1>1. CronsTyped /\ x # NotRunning /\ x.pc = "candidates" /\ x \in RunsOf("onboarding")
  BY RunTyped DEF CronsInv, Candidates, OnStep
<1>2. /\ h \in RunsOf("onboarding") /\ h # NotRunning /\ h.pc = pc /\ h.user = profile
      /\ h.mail = x.mail /\ pc \in {"drip", "stuck"}
  <2>1. pc \in {"drip", "stuck"} OBVIOUS
  <2>2. profile \in CronUsers BY <1>1 DEF CronsTyped
  <2> HIDE DEF pc
  <2>3. h \in RunsOf("onboarding") BY <1>1, <2>1, <2>2 DEF RunsOf
  <2>4. h.pc = pc /\ h.user = profile /\ h.mail = x.mail BY <1>1 DEF RunsOf
  <2>5. "onboarding" \in Crons BY DEF Crons
  <2> QED BY <2>1, <2>3, <2>4, <2>5, CronsAssumption
<1>3. cronRun' = [cronRun EXCEPT ![r] = h]
  BY <1>1 DEF Candidates, CronsTyped
<1> HIDE DEF x, h, pc
<1>4. /\ RunFits(h) /\ outbox' = outbox /\ outbox' \in [Mails -> Nat]
      /\ \A m \in Mails : outbox'[m] + At(h, Before(m)) <= outbox[m] + At(x, Before(m))
  <2>1. RunFits(h) BY <1>2 DEF RunFits, In
  <2>2. \A m \in Mails : In(h, Before(m)) => In(x, Before(m))
    BY <1>1, <1>2, PassedPlaces DEF In
  <2>3. outbox' = outbox BY DEF Candidates, mailVars
  <2> QED BY <1>1, <2>1, <2>2, <2>3, SendCounts DEF CronsTyped
<1>5. ASSUME MailedOnce(x, profile.count, profile.reminded, flags, outbox)
      PROVE  MailedOnce(h, profile.count, profile.reminded, flags, outbox)
  BY <1>1, <1>2, <1>5 DEF MailedOnce, RemindedOnce, ActivatedOnce, WarnedOnce, In
<1>6. MailMoves(r, h)
  BY <1>1, <1>2, <1>3, <1>4, <1>5 DEF Candidates, MailMoves, CronsTyped, mailVars, x
<1> QED BY <1>1, <1>6, MailStep DEF x

\* A reminder goes out.
LEMMA DripStep ==
  ASSUME CronsInv, scheduled = "onboarding", scheduled' = scheduled, NEW r \in CronRuns, Drip(r)
  PROVE  CronsInv'
<1> DEFINE x == cronRun[r]
<1>1. /\ CronsTyped /\ x # NotRunning /\ x.pc = "drip" /\ x \in RunsOf("onboarding")
      /\ x.user \in CronUsers /\ x.user.count \in 0..2
  <2>1. CronsTyped /\ x # NotRunning /\ x.pc = "drip" /\ x \in RunsOf("onboarding")
    BY RunTyped DEF CronsInv, Drip, OnStep
  <2> QED BY <2>1 DEF RunsOf, CronUsers
<1>2. CASE x.user.connector \/ DueReminders(x.user, x.now) = {}
  <2>1. Proceed(r, "stuck") /\ outbox' = outbox
        /\ profile' \in {profile, [profile EXCEPT !.completed = TRUE]}
    BY <1>2 DEF Drip
  <2>2. PICK h \in RunsOf("onboarding") :
          /\ cronRun' = [cronRun EXCEPT ![r] = h] /\ h # NotRunning /\ h.pc = "stuck"
    BY <1>1, <2>1, MailProceeds DEF MailPcs
  <2>3. /\ profile' \in CronUsers /\ profile'.count = profile.count
        /\ profile'.reminded = profile.reminded
    BY <1>1, <2>1 DEF CronsTyped, CronUsers
  <2>4. RunFits(h)
    BY <2>2 DEF RunFits, In
  <2>5. /\ outbox' \in [Mails -> Nat]
        /\ \A m \in Mails : outbox'[m] + At(h, Before(m)) <= outbox[m] + At(x, Before(m))
    <3>1. \A m \in Mails : In(h, Before(m)) => In(x, Before(m))
      BY <1>1, <2>2, PassedPlaces DEF In
    <3> QED BY <1>1, <2>1, <3>1, SendCounts DEF CronsTyped
  <2> HIDE DEF x
  <2>6. ASSUME MailedOnce(x, profile.count, profile.reminded, flags, outbox)
        PROVE  MailedOnce(h, profile.count, profile.reminded, flags, outbox)
    BY <1>1, <2>2, <2>6 DEF MailedOnce, RemindedOnce, ActivatedOnce, WarnedOnce, In
  <2>7. MailMoves(r, h)
    BY <1>1, <2>1, <2>2, <2>3, <2>4, <2>5, <2>6 DEF Drip, MailMoves, CronsTyped, x
  <2> QED BY <1>1, <2>7, MailStep DEF x
<1>3. CASE ~x.user.connector /\ DueReminders(x.user, x.now) # {}
  <2>1. PICK m \in DueReminders(x.user, x.now) :
          /\ outbox' = [outbox EXCEPT ![m] = @ + 1] /\ profile' = profile
          /\ cronRun' = [cronRun EXCEPT ![r].pc = "noteDrip", ![r].mail = m]
    BY <1>3 DEF Drip
  <2> DEFINE h == [x EXCEPT !.pc = "noteDrip", !.mail = m]
  <2>2. /\ m \in {"first", "second"} /\ m \in Mails
        /\ m = "first" => x.user.count = 0
        /\ m = "second" => x.user.count = 1
    BY DEF DueReminders, Mails
  <2>3. h \in RunsOf("onboarding") /\ h.pc = "noteDrip" /\ h.mail = m
    BY <1>1, <2>2 DEF RunsOf
  <2>4. h # NotRunning
    BY <2>3, CronsAssumption DEF Crons
  <2>5. cronRun' = [cronRun EXCEPT ![r] = h]
    BY <1>1, <2>1 DEF CronsTyped
  <2> HIDE DEF x, h
  <2>6. RunFits(h)
    BY <2>2, <2>3 DEF RunFits, In
  <2>7. /\ outbox' \in [Mails -> Nat]
        /\ \A o \in Mails : outbox'[o] + At(h, Before(o)) <= outbox[o] + At(x, Before(o))
    <3>1. \A o \in Mails : In(h, Before(o)) => In(x, Before(o))
      BY <1>1, <2>3, <2>4, PassedPlaces DEF In
    <3>2. In(x, Before(m)) /\ ~In(h, Before(m))
      BY <1>1, <2>2, <2>3 DEF In, Before
    <3> QED BY <1>1, <2>1, <2>2, <3>1, <3>2, SendCounts DEF CronsTyped
  <2>8. ASSUME MailedOnce(x, profile.count, profile.reminded, flags, outbox)
        PROVE  MailedOnce(h, profile.count, profile.reminded, flags, outbox')
    <3>1. \A o \in Mails \ {m} : outbox'[o] = outbox[o]
      BY <1>1, <2>1 DEF CronsTyped
    <3>2. outbox'[m] = outbox[m] + 1
      BY <1>1, <2>1, <2>2 DEF CronsTyped
    <3>3. x.user.count = profile.count /\ (profile.count = 0 => outbox["first"] = 0)
          /\ (profile.count <= 1 => outbox["second"] = 0)
      BY <1>1, <2>8 DEF MailedOnce, RemindedOnce, In
    <3>4. RemindedOnce(h, profile.count, outbox')
      <4>1. CASE m = "first"
        <5>1. outbox'["first"] = 1 /\ outbox'["second"] = 0
          BY <2>2, <3>1, <3>2, <3>3, <4>1 DEF Mails
        <5> QED BY <2>3, <2>4, <4>1, <5>1 DEF RemindedOnce, In
      <4>2. CASE m = "second"
        <5>1. outbox'["second"] = 1 /\ outbox'["first"] = outbox["first"]
          BY <2>2, <3>1, <3>2, <3>3, <4>2 DEF Mails
        <5> QED BY <2>3, <2>4, <2>8, <4>2, <5>1 DEF RemindedOnce, In, MailedOnce
      <4> QED BY <2>2, <4>1, <4>2
    <3>5. outbox'["activation"] = outbox["activation"] /\ \A s \in Stages : outbox'[s] = outbox[s]
      BY <2>2, <3>1 DEF Mails, Stages
    <3>6. ActivatedOnce(h, profile.reminded, outbox') /\ WarnedOnce(h, flags, outbox')
      BY <1>1, <2>3, <2>8, <3>5 DEF MailedOnce, ActivatedOnce, WarnedOnce, In
    <3> QED BY <3>4, <3>6 DEF MailedOnce
  <2>9. MailMoves(r, h)
    BY <1>1, <2>1, <2>3, <2>5, <2>6, <2>7, <2>8 DEF Drip, MailMoves, CronsTyped, x
  <2> QED BY <1>1, <2>9, MailStep DEF x
<1> QED BY <1>2, <1>3

\* A run that neither mails nor writes.
LEMMA MailStays ==
  ASSUME CronsInv, scheduled = "onboarding", scheduled' = scheduled,
         NEW r \in CronRuns, cronRun[r] # NotRunning,
         NEW h \in RunsOf("onboarding") \union {NotRunning}, RunFits(h),
         cronRun' = [cronRun EXCEPT ![r] = h],
         UNCHANGED <<day, mailVars, batchVars, begun, doubled>>,
         broken \subseteq broken', broken' \subseteq Crons,
         \A m \in Mails : In(h, Before(m)) => In(cronRun[r], Before(m)),
         scheduled \notin broken' /\ MailedOnce(cronRun[r], profile.count, profile.reminded, flags, outbox)
           => MailedOnce(h, profile.count, profile.reminded, flags, outbox)
  PROVE  CronsInv'
<1>1. CronsTyped /\ outbox' = outbox
  BY DEF CronsInv, mailVars
<1>2. /\ outbox' \in [Mails -> Nat]
      /\ \A m \in Mails : outbox'[m] + At(h, Before(m)) <= outbox[m] + At(cronRun[r], Before(m))
  BY <1>1, SendCounts DEF CronsTyped
<1>3. MailMoves(r, h)
  BY <1>1, <1>2 DEF MailMoves, CronsTyped, mailVars
<1> QED BY <1>3, MailStep

\* The reminder is noted in the row of the user.
LEMMA NoteDripStep ==
  ASSUME CronsInv, scheduled = "onboarding", scheduled' = scheduled, NEW r \in CronRuns, NoteDrip(r)
  PROVE  CronsInv'
<1> DEFINE x == cronRun[r]
           h == [x EXCEPT !.pc = "stuck", !.user = NewUser]
<1>1. /\ CronsTyped /\ x # NotRunning /\ x.pc = "noteDrip" /\ x \in RunsOf("onboarding")
      /\ x.mail \in {"first", "second"}
  <2>1. CronsTyped /\ x # NotRunning /\ x.pc = "noteDrip" /\ x \in RunsOf("onboarding") /\ RunFits(x)
    BY RunTyped DEF CronsInv, NoteDrip, OnStep
  <2> QED BY <2>1 DEF RunFits, In
<1>2. NewUser \in CronUsers
  BY CronsAssumption DEF NewUser, CronUsers
<1>3. h \in RunsOf("onboarding") /\ h.pc = "stuck"
  BY <1>1, <1>2 DEF RunsOf
<1>4. h # NotRunning
  BY <1>3, CronsAssumption DEF Crons
<1>5. cronRun' = [cronRun EXCEPT ![r] = h]
  BY <1>1 DEF CronsTyped, NoteDrip
<1> HIDE DEF h
<1>6. /\ profile' = [profile EXCEPT !.count = CountOf(x.mail), !.last = day]
      /\ outbox' = outbox /\ flags' = flags
  BY DEF NoteDrip
<1>7. /\ profile' \in CronUsers /\ profile'.count = CountOf(x.mail)
      /\ profile'.reminded = profile.reminded
  <2>1. CountOf(x.mail) \in 0..2 BY DEF CountOf
  <2> QED BY <1>1, <1>6, <2>1 DEF CronsTyped, CronUsers
<1> HIDE DEF x
<1>8. RunFits(h)
  BY <1>3 DEF RunFits, In
<1>9. /\ outbox' \in [Mails -> Nat]
      /\ \A m \in Mails : outbox'[m] + At(h, Before(m)) <= outbox[m] + At(x, Before(m))
  <2>1. \A m \in Mails : In(h, Before(m)) => In(x, Before(m))
    BY <1>1, <1>3, PassedPlaces DEF In
  <2> QED BY <1>1, <1>6, <2>1, SendCounts DEF CronsTyped
<1>10. ASSUME MailedOnce(x, profile.count, profile.reminded, flags, outbox)
       PROVE  MailedOnce(h, profile'.count, profile'.reminded, flags', outbox')
  <2>1. CountOf(x.mail) = (IF x.mail = "first" THEN 1 ELSE 2) BY DEF CountOf
  <2>2. RemindedOnce(h, profile'.count, outbox')
    BY <1>1, <1>3, <1>4, <1>6, <1>7, <1>10, <2>1 DEF MailedOnce, RemindedOnce, In
  <2>3. ActivatedOnce(h, profile'.reminded, outbox') /\ WarnedOnce(h, flags', outbox')
    BY <1>1, <1>3, <1>6, <1>7, <1>10 DEF MailedOnce, ActivatedOnce, WarnedOnce, In
  <2> QED BY <2>2, <2>3 DEF MailedOnce
<1>11. MailMoves(r, h)
  BY <1>1, <1>3, <1>5, <1>6, <1>7, <1>8, <1>9, <1>10 DEF NoteDrip, MailMoves, CronsTyped, x
<1> QED BY <1>1, <1>11, MailStep DEF x

\* The selection of the users that are stuck.
LEMMA StuckStep ==
  ASSUME CronsInv, scheduled = "onboarding", scheduled' = scheduled, NEW r \in CronRuns, Stuck(r)
  PROVE  CronsInv'
<1> DEFINE x  == cronRun[r]
           pc == IF IsStuck(profile, x.now) THEN "activate" ELSE "trial"
<1>1. CronsTyped /\ x # NotRunning /\ x.pc = "stuck"
  BY DEF CronsInv, Stuck, OnStep
<1>2. Proceed(r, pc) /\ pc \in {"activate", "trial"} /\ (pc = "activate" => ~profile.reminded)
  BY DEF Stuck, IsStuck
<1> HIDE DEF pc
<1>3. PICK h \in RunsOf("onboarding") :
        /\ cronRun' = [cronRun EXCEPT ![r] = h] /\ h # NotRunning /\ h.pc = pc
  BY <1>1, <1>2, MailProceeds DEF MailPcs
<1>4. RunFits(h) /\ \A m \in Mails : In(h, Before(m)) => In(x, Before(m))
  <2>1. RunFits(h) BY <1>2, <1>3 DEF RunFits, In
  <2> QED BY <1>1, <1>2, <1>3, <2>1, PassedPlaces DEF In
<1> HIDE DEF x
<1>5. ASSUME MailedOnce(x, profile.count, profile.reminded, flags, outbox)
      PROVE  MailedOnce(h, profile.count, profile.reminded, flags, outbox)
  BY <1>1, <1>2, <1>3, <1>5 DEF MailedOnce, RemindedOnce, ActivatedOnce, WarnedOnce, In
<1> QED BY <1>1, <1>3, <1>4, <1>5, MailStays DEF Stuck, CronsTyped, x

\* The activation mail goes out.
LEMMA ActivateStep ==
  ASSUME CronsInv, scheduled = "onboarding", scheduled' = scheduled, NEW r \in CronRuns, Activate(r)
  PROVE  CronsInv'
<1> DEFINE x == cronRun[r]
<1>1. CronsTyped /\ x # NotRunning /\ x.pc = "activate" /\ "activation" \in Mails
  BY DEF CronsInv, Activate, OnStep, Mails
<1>2. PICK h \in RunsOf("onboarding") :
        /\ cronRun' = [cronRun EXCEPT ![r] = h] /\ h # NotRunning /\ h.pc = "noteActivation"
  BY <1>1, MailProceeds DEF MailPcs, Activate
<1>3. outbox' = [outbox EXCEPT !["activation"] = @ + 1] /\ profile' = profile /\ flags' = flags
  BY DEF Activate
<1> HIDE DEF x
<1>4. /\ outbox' \in [Mails -> Nat]
      /\ \A m \in Mails : outbox'[m] + At(h, Before(m)) <= outbox[m] + At(x, Before(m))
  <2>1. \A m \in Mails : In(h, Before(m)) => In(x, Before(m))
    BY <1>1, <1>2, PassedPlaces DEF In
  <2>2. In(x, Before("activation")) /\ ~In(h, Before("activation"))
    BY <1>1, <1>2 DEF In, Before
  <2> QED BY <1>1, <1>3, <2>1, <2>2, SendCounts DEF CronsTyped
<1>5. ASSUME MailedOnce(x, profile.count, profile.reminded, flags, outbox)
      PROVE  MailedOnce(h, profile.count, profile.reminded, flags, outbox')
  <2>1. /\ outbox'["activation"] = outbox["activation"] + 1
        /\ outbox'["first"] = outbox["first"] /\ outbox'["second"] = outbox["second"]
        /\ \A s \in Stages : outbox'[s] = outbox[s]
    BY <1>1, <1>3 DEF CronsTyped, Mails, Stages
  <2>2. outbox["activation"] = 0
    BY <1>1, <1>5 DEF MailedOnce, ActivatedOnce, In
  <2> QED BY <1>1, <1>2, <1>5, <2>1, <2>2
          DEF MailedOnce, RemindedOnce, ActivatedOnce, WarnedOnce, In
<1>6. RunFits(h)
  BY <1>2 DEF RunFits, In
<1>7. MailMoves(r, h)
  BY <1>1, <1>2, <1>3, <1>4, <1>5, <1>6 DEF Activate, MailMoves, CronsTyped, x
<1> QED BY <1>1, <1>7, MailStep DEF x

\* The activation mail is noted.
LEMMA NoteActivationStep ==
  ASSUME CronsInv, scheduled = "onboarding", scheduled' = scheduled, NEW r \in CronRuns,
         NoteActivation(r)
  PROVE  CronsInv'
<1> DEFINE x == cronRun[r]
<1>1. CronsTyped /\ x # NotRunning /\ x.pc = "noteActivation"
  BY DEF CronsInv, NoteActivation, OnStep
<1>2. PICK h \in RunsOf("onboarding") :
        /\ cronRun' = [cronRun EXCEPT ![r] = h] /\ h # NotRunning /\ h.pc = "trial"
  BY <1>1, MailProceeds DEF MailPcs, NoteActivation
<1>3. profile' = [profile EXCEPT !.reminded = TRUE] /\ outbox' = outbox /\ flags' = flags
  BY DEF NoteActivation
<1>4. profile' \in CronUsers /\ profile'.count = profile.count /\ profile'.reminded = TRUE
  BY <1>1, <1>3 DEF CronsTyped, CronUsers
<1> HIDE DEF x
<1>5. /\ outbox' \in [Mails -> Nat]
      /\ \A m \in Mails : outbox'[m] + At(h, Before(m)) <= outbox[m] + At(x, Before(m))
  <2>1. \A m \in Mails : In(h, Before(m)) => In(x, Before(m))
    BY <1>1, <1>2, PassedPlaces DEF In
  <2> QED BY <1>1, <1>3, <2>1, SendCounts DEF CronsTyped
<1>6. ASSUME MailedOnce(x, profile.count, profile.reminded, flags, outbox)
      PROVE  MailedOnce(h, profile'.count, profile'.reminded, flags', outbox')
  BY <1>1, <1>2, <1>3, <1>4, <1>6
     DEF MailedOnce, RemindedOnce, ActivatedOnce, WarnedOnce, In
<1>7. RunFits(h)
  BY <1>2 DEF RunFits, In
<1>8. MailMoves(r, h)
  BY <1>1, <1>2, <1>3, <1>4, <1>5, <1>6, <1>7 DEF NoteActivation, MailMoves, CronsTyped, x
<1> QED BY <1>1, <1>8, MailStep DEF x

\* A run that ends with nothing unrecorded.
LEMMA OverStays ==
  ASSUME CronsInv, scheduled = "onboarding", scheduled' = scheduled, NEW r \in CronRuns,
         cronRun[r] # NotRunning, Over(r),
         UNCHANGED <<day, mailVars, batchVars, begun, doubled>>,
         broken \subseteq broken', broken' \subseteq Crons,
         scheduled \notin broken' => ~In(cronRun[r], {"noteDrip", "noteActivation", "noteWarn"})
  PROVE  CronsInv'
<1> DEFINE x == cronRun[r]
<1>1. \A m \in Mails : In(NotRunning, Before(m)) => In(x, Before(m))
  BY NotRunningMoves
<1>2. cronRun' = [cronRun EXCEPT ![r] = NotRunning]
  BY DEF Over
<1> HIDE DEF x
<1>3. ASSUME MailedOnce(x, profile.count, profile.reminded, flags, outbox),
             ~In(x, {"noteDrip", "noteActivation", "noteWarn"})
      PROVE  MailedOnce(NotRunning, profile.count, profile.reminded, flags, outbox)
  BY <1>3, NotRunningMoves DEF MailedOnce, RemindedOnce, ActivatedOnce, WarnedOnce, In
<1> QED BY <1>1, <1>2, <1>3, MailStays, NotRunningMoves DEF x

\* The stage of the trial the user is at.
LEMMA TrialStep ==
  ASSUME CronsInv, scheduled = "onboarding", scheduled' = scheduled, NEW r \in CronRuns, Trial(r)
  PROVE  CronsInv'
<1> DEFINE x == cronRun[r]
           stage == StageOf(x.now)
<1>1. CronsTyped /\ x # NotRunning /\ x.pc = "trial" /\ x \in RunsOf("onboarding")
  BY RunTyped DEF CronsInv, Trial, OnStep
<1>2. CASE Over(r)
  <2>1. ~In(x, {"noteDrip", "noteActivation", "noteWarn"})
    BY <1>1 DEF In
  <2> QED BY <1>1, <1>2, <2>1, OverStays DEF Trial, CronsTyped
<1>3. CASE /\ stage \notin flags
           /\ cronRun' = [cronRun EXCEPT ![r].pc = "warn", ![r].mail = stage]
  <2> DEFINE h == [x EXCEPT !.pc = "warn", !.mail = stage]
  <2>1. stage \in Stages /\ stage \in Mails
    BY DEF StageOf, Stages, Mails
  <2> HIDE DEF stage
  <2>2. h \in RunsOf("onboarding") /\ h.pc = "warn" /\ h.mail = stage
    BY <1>1, <2>1 DEF RunsOf
  <2>3. h # NotRunning
    BY <2>2, CronsAssumption DEF Crons
  <2>4. cronRun' = [cronRun EXCEPT ![r] = h]
    BY <1>1, <1>3 DEF CronsTyped
  <2> HIDE DEF x, h
  <2>5. RunFits(h) /\ \A m \in Mails : In(h, Before(m)) => In(x, Before(m))
    <3>1. RunFits(h) BY <2>1, <2>2 DEF RunFits, In
    <3> QED BY <1>1, <2>2, <2>3, <3>1, PassedPlaces DEF In
  <2>6. ASSUME MailedOnce(x, profile.count, profile.reminded, flags, outbox)
        PROVE  MailedOnce(h, profile.count, profile.reminded, flags, outbox)
    BY <1>1, <1>3, <2>2, <2>6 DEF MailedOnce, RemindedOnce, ActivatedOnce, WarnedOnce, In
  <2> QED BY <1>1, <2>2, <2>4, <2>5, <2>6, MailStays DEF Trial, CronsTyped, x
<1> QED BY <1>2, <1>3 DEF Trial

\* The mail about the trial goes out.
LEMMA WarnStep ==
  ASSUME CronsInv, scheduled = "onboarding", scheduled' = scheduled, NEW r \in CronRuns, Warn(r)
  PROVE  CronsInv'
<1> DEFINE x == cronRun[r]
<1>1. CronsTyped /\ x # NotRunning /\ x.pc = "warn" /\ x.mail \in Stages /\ x.mail \in Mails
  <2>1. CronsTyped /\ x # NotRunning /\ x.pc = "warn" /\ RunFits(x)
    BY RunTyped DEF CronsInv, Warn, OnStep
  <2> QED BY <2>1 DEF RunFits, In, Mails
<1>2. PICK h \in RunsOf("onboarding") :
        /\ cronRun' = [cronRun EXCEPT ![r] = h] /\ h # NotRunning /\ h.pc = "noteWarn"
        /\ h.mail = x.mail
  BY <1>1, MailProceeds DEF MailPcs, Warn
<1>3. outbox' = [outbox EXCEPT ![x.mail] = @ + 1] /\ profile' = profile /\ flags' = flags
  BY DEF Warn
<1> HIDE DEF x
<1>4. /\ outbox' \in [Mails -> Nat]
      /\ \A m \in Mails : outbox'[m] + At(h, Before(m)) <= outbox[m] + At(x, Before(m))
  <2>1. \A m \in Mails : In(h, Before(m)) => In(x, Before(m))
    BY <1>1, <1>2, PassedPlaces DEF In
  <2>2. In(x, Before(x.mail)) /\ ~In(h, Before(x.mail))
    BY <1>1, <1>2 DEF In, Before, Stages
  <2> QED BY <1>1, <1>3, <2>1, <2>2, SendCounts DEF CronsTyped
<1>5. ASSUME MailedOnce(x, profile.count, profile.reminded, flags, outbox)
      PROVE  MailedOnce(h, profile.count, profile.reminded, flags, outbox')
  <2>1. /\ outbox'["activation"] = outbox["activation"]
        /\ outbox'["first"] = outbox["first"] /\ outbox'["second"] = outbox["second"]
        /\ \A s \in Stages : outbox'[s] = IF s = x.mail THEN outbox[s] + 1 ELSE outbox[s]
    BY <1>1, <1>3 DEF CronsTyped, Mails, Stages
  <2>2. outbox[x.mail] = 0
    BY <1>1, <1>5 DEF MailedOnce, WarnedOnce, In
  <2>3. WarnedOnce(h, flags, outbox')
    BY <1>1, <1>2, <1>5, <2>1, <2>2 DEF MailedOnce, WarnedOnce, In
  <2>4. RemindedOnce(h, profile.count, outbox') /\ ActivatedOnce(h, profile.reminded, outbox')
    BY <1>1, <1>2, <1>5, <2>1 DEF MailedOnce, RemindedOnce, ActivatedOnce, In
  <2> QED BY <2>3, <2>4 DEF MailedOnce
<1>6. RunFits(h)
  BY <1>1, <1>2 DEF RunFits, In
<1>7. MailMoves(r, h)
  BY <1>1, <1>2, <1>3, <1>4, <1>5, <1>6 DEF Warn, MailMoves, CronsTyped, x
<1> QED BY <1>1, <1>7, MailStep DEF x

\* That mail is noted in the flags.
LEMMA NoteWarnStep ==
  ASSUME CronsInv, scheduled = "onboarding", scheduled' = scheduled, NEW r \in CronRuns, NoteWarn(r)
  PROVE  CronsInv'
<1> DEFINE x == cronRun[r]
<1>1. CronsTyped /\ x # NotRunning /\ x.pc = "noteWarn" /\ x.mail \in Stages
  <2>1. CronsTyped /\ x # NotRunning /\ x.pc = "noteWarn" /\ RunFits(x)
    BY RunTyped DEF CronsInv, NoteWarn, OnStep
  <2> QED BY <2>1 DEF RunFits, In
<1>2. /\ outbox' = outbox /\ profile' = profile /\ flags' = flags \union {x.mail}
      /\ cronRun' = [cronRun EXCEPT ![r] = NotRunning]
  BY DEF NoteWarn, Over
<1>3. /\ outbox' \in [Mails -> Nat]
      /\ \A m \in Mails : outbox'[m] + At(NotRunning, Before(m)) <= outbox[m] + At(x, Before(m))
  BY <1>1, <1>2, SendCounts, NotRunningMoves DEF CronsTyped
<1> HIDE DEF x
<1>4. ASSUME MailedOnce(x, profile.count, profile.reminded, flags, outbox)
      PROVE  MailedOnce(NotRunning, profile.count, profile.reminded, flags', outbox)
  BY <1>1, <1>2, <1>4, NotRunningMoves
     DEF MailedOnce, RemindedOnce, ActivatedOnce, WarnedOnce, In
<1>5. MailMoves(r, NotRunning)
  BY <1>1, <1>2, <1>3, <1>4, NotRunningMoves DEF NoteWarn, MailMoves, CronsTyped, x
<1> QED BY <1>1, <1>5, MailStep DEF x

\* A mail that is not accepted.
LEMMA MailFailsStep ==
  ASSUME CronsInv, scheduled = "onboarding", scheduled' = scheduled, NEW r \in CronRuns, MailFails(r)
  PROVE  CronsInv'
<1> DEFINE x == cronRun[r]
<1>1. CronsTyped /\ x # NotRunning
  BY DEF CronsInv, MailFails, OnStep
<1>2. ASSUME NEW pc \in {"stuck", "trial"}, x.pc = IF pc = "stuck" THEN "drip" ELSE "activate",
             Proceed(r, pc)
      PROVE  CronsInv'
  <2>1. PICK h \in RunsOf("onboarding") :
          /\ cronRun' = [cronRun EXCEPT ![r] = h] /\ h # NotRunning /\ h.pc = pc
    BY <1>1, <1>2, MailProceeds DEF MailPcs
  <2>2. RunFits(h) /\ \A m \in Mails : In(h, Before(m)) => In(x, Before(m))
    <3>1. RunFits(h) BY <1>2, <2>1 DEF RunFits, In
    <3> QED BY <1>1, <1>2, <2>1, <3>1, PassedPlaces DEF In
  <2> HIDE DEF x
  <2>3. ASSUME MailedOnce(x, profile.count, profile.reminded, flags, outbox)
        PROVE  MailedOnce(h, profile.count, profile.reminded, flags, outbox)
    BY <1>1, <1>2, <2>1, <2>3 DEF MailedOnce, RemindedOnce, ActivatedOnce, WarnedOnce, In
  <2> QED BY <1>1, <2>1, <2>2, <2>3, MailStays DEF MailFails, CronsTyped, x
<1>3. CASE x.pc = "warn" /\ Over(r)
  <2>1. ~In(x, {"noteDrip", "noteActivation", "noteWarn"})
    BY <1>3 DEF In
  <2> QED BY <1>1, <1>3, <2>1, OverStays DEF MailFails, CronsTyped
<1>4. CASE x.pc = "drip" /\ Proceed(r, "stuck")
  BY <1>2, <1>4
<1>5. CASE x.pc = "activate" /\ Proceed(r, "trial")
  BY <1>2, <1>5
<1> QED BY <1>3, <1>4, <1>5 DEF MailFails, OnStep

-----------------------------------------------------------------------------
(* The steps of a run of the knowledge graph cron.                         *)

\* A run of the knowledge graph cron goes on to place pc with batch b.
Takes(r, pc, b) == cronRun' = [cronRun EXCEPT ![r].pc = pc, ![r].batch = b]

\* Where a run of the knowledge graph cron is after Takes.
LEMMA BatchProceeds ==
  ASSUME CronsTyped, scheduled = "kg", NEW r \in CronRuns, cronRun[r] # NotRunning,
         NEW pc \in BatchPcs, NEW b \in Batches \union {cronRun[r].batch},
         Takes(r, pc, b)
  PROVE  \E h \in RunsOf("kg") :
           /\ cronRun' = [cronRun EXCEPT ![r] = h]
           /\ h # NotRunning /\ h.pc = pc /\ h.batch = b
<1> DEFINE x == cronRun[r]
           h == [x EXCEPT !.pc = pc, !.batch = b]
<1>1. x \in RunsOf("kg") BY RunTyped
<1>2. h \in RunsOf("kg") BY <1>1 DEF RunsOf, BatchPcs
<1>3. h.pc = pc /\ h.batch = b BY <1>1 DEF RunsOf
<1>4. cronRun' = [cronRun EXCEPT ![r] = h] BY DEF CronsTyped, Takes
<1>5. h # NotRunning BY <1>2, CronsAssumption DEF Crons
<1> QED BY <1>2, <1>3, <1>4, <1>5

\* The batch of the run stays, or it is one.
LEMMA ProceedsWithBatch ==
  ASSUME CronsTyped, scheduled = "kg", NEW r \in CronRuns, cronRun[r] # NotRunning,
         NEW pc \in BatchPcs, Proceed(r, pc)
  PROVE  \E h \in RunsOf("kg") :
           /\ cronRun' = [cronRun EXCEPT ![r] = h]
           /\ h # NotRunning /\ h.pc = pc /\ h.batch = cronRun[r].batch
<1>1. cronRun[r] \in RunsOf("kg") BY RunTyped
<1>2. [cronRun[r] EXCEPT !.pc = pc, !.batch = cronRun[r].batch] = [cronRun[r] EXCEPT !.pc = pc]
  BY <1>1 DEF RunsOf
<1>3. Takes(r, pc, cronRun[r].batch)
  BY <1>2 DEF Proceed, CronsTyped, Takes
<1> QED BY <1>3, BatchProceeds

\* A run of which no batch is applied.
LEMMA BatchCounts ==
  ASSUME CronsTyped, NEW x, NEW h, In(h, Applying) => In(x, Applying)
  PROVE  \A b \in Batches : taken[b] + At(h, Applying) <= taken[b] + At(x, Applying)
BY DEF CronsTyped, At

\* Every step of a run of the knowledge graph cron.
LEMMA BatchStepKeeps ==
  ASSUME CronsInv, scheduled = "kg", scheduled' = scheduled, NEW r \in CronRuns, BatchStep(r)
  PROVE  CronsInv'
<1> DEFINE x == cronRun[r]
<1>1. CronsTyped /\ x # NotRunning
  BY DEF CronsInv, BatchStep, OnStep, FindPending, Poll, ApplyResults, RemoveBatch, Build,
         RecordBatch, Submit
<1>2. x \in RunsOf("kg") /\ RunFits(x)
  BY <1>1, RunTyped
<1>3. /\ kgLlmBatch \in Seq(Batches) /\ provided \subseteq Batches /\ taken \in [Batches -> Nat]
      /\ cooled \in BOOLEAN /\ broken \subseteq Crons
  BY <1>1 DEF CronsTyped
<1>4. CASE FindPending(r)
  <2>1. x.pc = "pending" /\ UNCHANGED <<day, mailVars, batchVars, begun, doubled, broken>>
    BY <1>4 DEF FindPending, OnStep
  <2>2. CASE kgLlmBatch = <<>>
    <3>1. Proceed(r, "build") BY <1>4, <2>2 DEF FindPending, Proceed
    <3>2. PICK h \in RunsOf("kg") :
            /\ cronRun' = [cronRun EXCEPT ![r] = h] /\ h # NotRunning /\ h.pc = "build"
      BY <1>1, <3>1, ProceedsWithBatch DEF BatchPcs
    <3> HIDE DEF x
    <3>3. RunFits(h) /\ (In(h, Applying) => In(x, Applying))
      BY <3>2 DEF RunFits, In, Applying
    <3>4. ASSUME AppliedOnce(x, kgLlmBatch, provided, taken)
          PROVE  AppliedOnce(h, kgLlmBatch, provided, taken)
      BY <2>1, <2>2, <3>2, <3>4 DEF AppliedOnce, In
    <3>5. BatchMoves(r, h)
      BY <1>1, <1>3, <2>1, <3>2, <3>3, <3>4, BatchCounts DEF BatchMoves, batchVars, x
    <3> QED BY <1>1, <3>5, BatchRunStep DEF x
  <2>3. CASE kgLlmBatch # <<>>
    <3> DEFINE b == Head(kgLlmBatch)
    <3>1. b \in Batches BY <1>3, <2>3
    <3>2. Takes(r, "poll", b)
      BY <1>4, <2>3 DEF FindPending, Takes
    <3> HIDE DEF b
    <3>3. PICK h \in RunsOf("kg") :
            /\ cronRun' = [cronRun EXCEPT ![r] = h] /\ h # NotRunning /\ h.pc = "poll" /\ h.batch = b
      BY <1>1, <3>1, <3>2, BatchProceeds DEF BatchPcs
    <3> HIDE DEF x
    <3>4. RunFits(h) /\ (In(h, Applying) => In(x, Applying))
      BY <1>1, <2>1, <3>1, <3>3 DEF RunFits, In, Applying
    <3>5. ASSUME AppliedOnce(x, kgLlmBatch, provided, taken)
          PROVE  AppliedOnce(h, kgLlmBatch, provided, taken)
      <4>1. PICK a \in provided : kgLlmBatch = <<a>> /\ taken[a] = 0
        BY <2>1, <2>3, <3>5 DEF AppliedOnce, In
      <4>2. b = a BY <4>1 DEF b
      <4> QED BY <2>1, <3>3, <3>5, <4>1, <4>2 DEF AppliedOnce, In
    <3>6. BatchMoves(r, h)
      BY <1>1, <1>3, <2>1, <3>3, <3>4, <3>5, BatchCounts DEF BatchMoves, batchVars, x
    <3> QED BY <1>1, <3>6, BatchRunStep DEF x
  <2> QED BY <2>2, <2>3
<1>5. CASE Poll(r)
  <2>1. x.pc = "poll" /\ UNCHANGED <<day, mailVars, batchVars, begun, doubled, broken>>
        /\ x.batch \in Batches
    BY <1>1, <1>2, <1>5 DEF Poll, OnStep, RunFits, In
  <2>2. PICK h \in RunsOf("kg") \union {NotRunning} :
          /\ cronRun' = [cronRun EXCEPT ![r] = h]
          /\ h # NotRunning => h.pc = "apply" /\ h.batch = x.batch
    <3>1. CASE Over(r) BY <3>1 DEF Over
    <3>2. CASE Proceed(r, "apply")
      BY <1>1, <3>2, ProceedsWithBatch DEF BatchPcs
    <3> QED BY <1>5, <3>1, <3>2 DEF Poll
  <2> HIDE DEF x
  <2>3. RunFits(h) /\ (In(h, Applying) => In(x, Applying))
    BY <1>1, <2>1, <2>2 DEF RunFits, In, Applying
  <2>4. ASSUME AppliedOnce(x, kgLlmBatch, provided, taken)
        PROVE  AppliedOnce(h, kgLlmBatch, provided, taken)
    BY <1>1, <2>1, <2>2, <2>4 DEF AppliedOnce, In
  <2>5. BatchMoves(r, h)
    BY <1>1, <1>3, <2>1, <2>2, <2>3, <2>4, BatchCounts DEF BatchMoves, batchVars, x
  <2> QED BY <1>1, <2>5, BatchRunStep DEF x
<1>6. CASE ApplyResults(r)
  <2>1. /\ x.pc = "apply" /\ x.batch \in Batches
        /\ UNCHANGED <<day, mailVars, kgLlmBatch, provided, answered, cooled, begun, doubled, broken>>
        /\ taken' = [taken EXCEPT ![x.batch] = @ + 1] /\ Proceed(r, "remove")
    BY <1>1, <1>2, <1>6 DEF ApplyResults, OnStep, RunFits, In
  <2>2. PICK h \in RunsOf("kg") :
          /\ cronRun' = [cronRun EXCEPT ![r] = h] /\ h # NotRunning /\ h.pc = "remove"
          /\ h.batch = x.batch
    BY <1>1, <2>1, ProceedsWithBatch DEF BatchPcs
  <2> HIDE DEF x
  <2>3. RunFits(h) /\ At(h, Applying) = 0 /\ At(x, Applying) = 1
    BY <1>1, <2>1, <2>2 DEF RunFits, In, Applying, At
  <2>4. /\ taken' \in [Batches -> Nat]
        /\ \A b \in Batches : taken'[b] = IF b = x.batch THEN taken[b] + 1 ELSE taken[b]
    BY <1>3, <2>1
  <2>5. \A b \in Batches : taken'[b] + At(h, Applying) <= taken[b] + At(x, Applying)
    <3> SUFFICES ASSUME NEW b \in Batches
                 PROVE  taken'[b] + 0 <= taken[b] + 1
      BY <2>3
    <3>1. taken[b] \in Nat /\ taken'[b] \in {taken[b], taken[b] + 1}
      BY <1>3, <2>4
    <3> QED BY <3>1
  <2>6. ASSUME AppliedOnce(x, kgLlmBatch, provided, taken)
        PROVE  AppliedOnce(h, kgLlmBatch, provided, taken')
    <3>1. kgLlmBatch = <<x.batch>> /\ taken[x.batch] = 0 /\ taken'[x.batch] = 1
      BY <1>1, <2>1, <2>4, <2>6 DEF AppliedOnce, In
    <3>2. x.batch \in provided
      <4>1. PICK a \in provided : kgLlmBatch = <<a>> BY <2>6, <3>1 DEF AppliedOnce
      <4> QED BY <3>1, <4>1
    <3>3. \A b \in Batches : taken'[b] <= 1 /\ (b \notin provided => taken'[b] = 0)
      BY <1>3, <2>4, <2>6, <3>1, <3>2 DEF AppliedOnce
    <3>4. \A b \in provided : taken'[b] = 1 \/ kgLlmBatch = <<b>>
      BY <1>1, <1>3, <2>1, <2>4, <2>6, <3>1 DEF AppliedOnce, In
    <3> QED BY <2>2, <3>1, <3>2, <3>3, <3>4 DEF AppliedOnce, In
  <2>7. BatchMoves(r, h)
    BY <1>1, <1>3, <2>1, <2>2, <2>3, <2>4, <2>5, <2>6 DEF BatchMoves, x
  <2> QED BY <1>1, <2>7, BatchRunStep DEF x
<1>7. CASE RemoveBatch(r)
  <2>1. /\ x.pc = "remove" /\ x.batch \in Batches
        /\ UNCHANGED <<day, mailVars, provided, answered, cooled, taken, begun, doubled, broken>>
        /\ cronRun' = [cronRun EXCEPT ![r] = NotRunning]
    BY <1>1, <1>2, <1>7 DEF RemoveBatch, OnStep, RunFits, In, Over
  <2>2. /\ kgLlmBatch' \in Seq(Batches)
        /\ kgLlmBatch = <<x.batch>> => kgLlmBatch' = <<>>
    <3>1. ASSUME NEW n \in DOMAIN kgLlmBatch,
                 kgLlmBatch' = SubSeq(kgLlmBatch, 1, n - 1) \o SubSeq(kgLlmBatch, n + 1, Len(kgLlmBatch))
          PROVE  kgLlmBatch' \in Seq(Batches) /\ (Len(kgLlmBatch) = 1 => kgLlmBatch' = <<>>)
      <4>1. n \in 1..Len(kgLlmBatch) BY <1>3
      <4>2. SubSeq(kgLlmBatch, 1, n - 1) \in Seq(Batches)
            /\ SubSeq(kgLlmBatch, n + 1, Len(kgLlmBatch)) \in Seq(Batches)
        BY <1>3, <4>1
      <4>3. ASSUME Len(kgLlmBatch) = 1 PROVE kgLlmBatch' = <<>>
        <5>1. SubSeq(kgLlmBatch, 1, n - 1) = <<>> /\ SubSeq(kgLlmBatch, n + 1, Len(kgLlmBatch)) = <<>>
          BY <1>3, <4>1, <4>3
        <5> QED BY <3>1, <5>1
      <4> QED BY <3>1, <4>2, <4>3
    <3>2. ASSUME \A n \in DOMAIN kgLlmBatch : kgLlmBatch[n] # x.batch
          PROVE  kgLlmBatch # <<x.batch>>
      <4> SUFFICES ASSUME kgLlmBatch = <<x.batch>> PROVE FALSE
        OBVIOUS
      <4>1. 1 \in DOMAIN kgLlmBatch /\ kgLlmBatch[1] = x.batch OBVIOUS
      <4> QED BY <3>2, <4>1
    <3>3. kgLlmBatch = <<x.batch>> => Len(kgLlmBatch) = 1 OBVIOUS
    <3> QED BY <1>3, <1>7, <3>1, <3>2, <3>3 DEF RemoveBatch
  <2> HIDE DEF x
  <2>3. \A b \in Batches : taken'[b] + At(NotRunning, Applying) <= taken[b] + At(x, Applying)
    <3>1. In(NotRunning, Applying) => In(x, Applying) BY NotRunningMoves
    <3> QED BY <1>1, <2>1, <3>1, BatchCounts
  <2>4. ASSUME AppliedOnce(x, kgLlmBatch, provided, taken)
        PROVE  AppliedOnce(NotRunning, kgLlmBatch', provided, taken)
    <3>1. kgLlmBatch = <<x.batch>> /\ taken[x.batch] = 1 /\ kgLlmBatch' = <<>>
      BY <1>1, <2>1, <2>2, <2>4 DEF AppliedOnce, In
    <3>2. \A b \in provided : kgLlmBatch = <<b>> => b = x.batch
      BY <3>1
    <3>3. \A b \in provided : taken[b] = 1
      BY <1>1, <2>1, <2>4, <3>1, <3>2 DEF AppliedOnce, In
    <3> QED BY <2>4, <3>1, <3>3, NotRunningMoves DEF AppliedOnce
  <2>5. BatchMoves(r, NotRunning)
    BY <1>1, <1>3, <2>1, <2>2, <2>3, <2>4, NotRunningMoves DEF BatchMoves, x
  <2> QED BY <1>1, <2>5, BatchRunStep DEF x
<1>8. CASE Build(r)
  <2>1. /\ x.pc = "build" /\ cooled' \in BOOLEAN
        /\ UNCHANGED <<day, mailVars, kgLlmBatch, provided, answered, taken, begun, doubled, broken>>
    BY <1>1, <1>3, <1>8 DEF Build, OnStep
  <2>2. PICK h \in RunsOf("kg") \union {NotRunning} :
          /\ cronRun' = [cronRun EXCEPT ![r] = h]
          /\ h # NotRunning => h.pc = "submit"
    <3>1. CASE Over(r) BY <3>1 DEF Over
    <3>2. CASE Proceed(r, "submit")
      BY <1>1, <3>2, ProceedsWithBatch DEF BatchPcs
    <3> QED BY <1>8, <3>1, <3>2 DEF Build
  <2> HIDE DEF x
  <2>3. RunFits(h) /\ (In(h, Applying) => In(x, Applying))
    BY <2>2 DEF RunFits, In, Applying
  <2>4. ASSUME AppliedOnce(x, kgLlmBatch, provided, taken)
        PROVE  AppliedOnce(h, kgLlmBatch, provided, taken)
    BY <1>1, <2>1, <2>2, <2>4 DEF AppliedOnce, In
  <2>5. BatchMoves(r, h)
    BY <1>1, <1>3, <2>1, <2>2, <2>3, <2>4, BatchCounts DEF BatchMoves, x
  <2> QED BY <1>1, <2>5, BatchRunStep DEF x
<1>9. ASSUME NEW b \in Batches, Submit(r, b) PROVE CronsInv'
  <2>1. /\ x.pc = "submit" /\ b \notin provided /\ provided' = provided \union {b}
        /\ UNCHANGED <<day, mailVars, kgLlmBatch, answered, cooled, taken, begun, doubled, broken>>
    BY <1>9 DEF Submit, OnStep
  <2>2. Takes(r, "record", b)
    BY <1>9 DEF Submit, Takes
  <2>3. PICK h \in RunsOf("kg") :
          /\ cronRun' = [cronRun EXCEPT ![r] = h] /\ h # NotRunning /\ h.pc = "record" /\ h.batch = b
    BY <1>1, <2>2, BatchProceeds DEF BatchPcs
  <2> HIDE DEF x
  <2>4. RunFits(h) /\ (In(h, Applying) => In(x, Applying))
    BY <2>3 DEF RunFits, In, Applying
  <2>5. ASSUME AppliedOnce(x, kgLlmBatch, provided, taken)
        PROVE  AppliedOnce(h, kgLlmBatch, provided', taken)
    <3>1. kgLlmBatch = <<>> /\ taken[b] = 0
      BY <1>1, <2>1, <2>5 DEF AppliedOnce, In
    <3>2. \A a \in provided : taken[a] = 1
      BY <1>1, <2>1, <2>5, <3>1 DEF AppliedOnce, In
    <3> QED BY <2>1, <2>3, <2>5, <3>1, <3>2 DEF AppliedOnce, In
  <2>6. BatchMoves(r, h)
    BY <1>1, <1>3, <2>1, <2>3, <2>4, <2>5, BatchCounts DEF BatchMoves, x
  <2> QED BY <1>1, <2>6, BatchRunStep DEF x
<1>10. CASE RecordBatch(r)
  <2>1. /\ x.pc = "record" /\ x.batch \in Batches /\ kgLlmBatch' = Append(kgLlmBatch, x.batch)
        /\ UNCHANGED <<day, mailVars, provided, answered, cooled, taken, begun, doubled, broken>>
        /\ cronRun' = [cronRun EXCEPT ![r] = NotRunning]
    BY <1>1, <1>2, <1>10 DEF RecordBatch, OnStep, RunFits, In, Over
  <2>2. /\ kgLlmBatch' \in Seq(Batches)
        /\ kgLlmBatch = <<>> => kgLlmBatch' = <<x.batch>>
    <3>1. kgLlmBatch' \in Seq(Batches) BY <1>3, <2>1
    <3>2. Append(<<>>, x.batch) = <<x.batch>> OBVIOUS
    <3> QED BY <2>1, <3>1, <3>2
  <2> HIDE DEF x
  <2>3. \A b \in Batches : taken'[b] + At(NotRunning, Applying) <= taken[b] + At(x, Applying)
    <3>1. In(NotRunning, Applying) => In(x, Applying) BY NotRunningMoves
    <3> QED BY <1>1, <2>1, <3>1, BatchCounts
  <2>4. ASSUME AppliedOnce(x, kgLlmBatch, provided, taken)
        PROVE  AppliedOnce(NotRunning, kgLlmBatch', provided, taken)
    <3>1. kgLlmBatch' = <<x.batch>> /\ x.batch \in provided /\ taken[x.batch] = 0
      BY <1>1, <2>1, <2>2, <2>4 DEF AppliedOnce, In
    <3>2. \A a \in provided : taken[a] = 1 \/ kgLlmBatch' = <<a>>
      BY <1>1, <2>1, <2>2, <2>4, <3>1 DEF AppliedOnce, In
    <3> QED BY <2>4, <3>1, <3>2, NotRunningMoves DEF AppliedOnce
  <2>5. BatchMoves(r, NotRunning)
    BY <1>1, <1>3, <2>1, <2>2, <2>3, <2>4, NotRunningMoves DEF BatchMoves, x
  <2> QED BY <1>1, <2>5, BatchRunStep DEF x
<1> QED BY <1>4, <1>5, <1>6, <1>7, <1>8, <1>9, <1>10 DEF BatchStep

-----------------------------------------------------------------------------
(* A run starts or ends, and what no run does.                             *)

\* A run starts: it is alone, unless the crons are then doubled.
LEMMA StartStep ==
  ASSUME CronsInv, scheduled' = scheduled, NEW r \in CronRuns, NEW cron \in Crons, NEW pc,
         \/ cron = "onboarding" /\ pc = "candidates"
         \/ cron = "kg" /\ pc = "pending",
         StartRun(r, cron, pc), UNCHANGED <<day, mailVars, batchVars, broken>>
  PROVE  CronsInv'
<1> DEFINE h == [cron |-> cron, pc |-> pc, now |-> day, user |-> NewUser, mail |-> "first",
                 batch |-> NoBatch]
<1>1. CronsTyped /\ Counted /\ OnceInv /\ scheduled = cron /\ cronRun[r] = NotRunning
  BY DEF CronsInv, StartRun
<1>2. h \in RunsOf(cron) /\ h # NotRunning /\ h.pc = pc
  <2>1. NewUser \in CronUsers BY CronsAssumption DEF NewUser, CronUsers
  <2>2. "first" \in Mails BY DEF Mails
  <2>3. h \in RunsOf(cron) BY <1>1, <2>1, <2>2 DEF CronsTyped, RunsOf
  <2> QED BY <2>3, CronsAssumption
<1>3. cronRun' = [cronRun EXCEPT ![r] = h] /\ begun' = begun + 1 /\ begun < MaxCronRuns[cron]
      /\ doubled' = doubled \union
           {c \in {cron} : \E q \in CronRuns : cronRun[q] # NotRunning /\ cronRun[q].cron = c}
  BY DEF StartRun
<1> HIDE DEF h
<1>4. RunFits(h) /\ (\A P : At(h, P) \in {0, 1}) /\ \A P : At(cronRun[r], P) = 0
  BY <1>1, <1>2, NotRunningMoves DEF RunFits, In, At
<1>5. \A q \in CronRuns : cronRun'[q] = IF q = r THEN h ELSE cronRun[q]
  BY <1>1, <1>3 DEF CronsTyped
<1>6. begun \in Nat /\ begun' \in 0..MaxCronRuns[scheduled]
  BY <1>1, <1>3, CronsAssumption DEF CronsTyped
<1>7. CronsTyped'
  <2>1. cronRun' \in [CronRuns -> RunsOf(scheduled) \union {NotRunning}]
    BY <1>1, <1>2, <1>3 DEF CronsTyped
  <2>2. \A q \in CronRuns : RunFits(cronRun'[q])
    BY <1>1, <1>4, <1>5 DEF CronsTyped
  <2>3. doubled' \subseteq Crons
    BY <1>1, <1>3 DEF CronsTyped
  <2> QED BY <1>1, <1>6, <2>1, <2>2, <2>3 DEF CronsTyped, mailVars, batchVars
<1>8. \A P : /\ Cardinality(RunsAt(cronRun, P)) \in Nat /\ Cardinality(RunsAt(cronRun', P)) \in Nat
            /\ Cardinality(RunsAt(cronRun', P)) <= Cardinality(RunsAt(cronRun, P)) + 1
  <2> DEFINE now == cronRun  then == cronRun'
  <2>1. (\A q \in CronRuns : then[q] = IF q = r THEN h ELSE now[q]) /\ \A P : At(now[r], P) = 0
    BY <1>4, <1>5
  <2> HIDE DEF now, then
  <2>2. \A P : /\ Cardinality(RunsAt(now, P)) \in Nat /\ Cardinality(RunsAt(then, P)) \in Nat
              /\ Cardinality(RunsAt(then, P)) + At(now[r], P) = Cardinality(RunsAt(now, P)) + At(h, P)
    BY <2>1, CountMoves
  <2>3. \A P : /\ Cardinality(RunsAt(now, P)) \in Nat /\ Cardinality(RunsAt(then, P)) \in Nat
              /\ Cardinality(RunsAt(then, P)) <= Cardinality(RunsAt(now, P)) + 1
    BY <1>4, <2>1, <2>2
  <2> QED BY <2>3 DEF now, then
<1>9. Counted'
  <2>1. ASSUME NEW m \in Mails PROVE Sent(cronRun', outbox, begun', m)
    <3>1. outbox[m] \in Nat /\ Sent(cronRun, outbox, begun, m) BY <1>1 DEF CronsTyped, Counted
    <3> DEFINE old == Cardinality(RunsAt(cronRun, Before(m)))
               new == Cardinality(RunsAt(cronRun', Before(m)))
    <3>2. old \in Nat /\ new \in Nat /\ new <= old + 1 BY <1>8
    <3>3. scheduled = "onboarding" => outbox[m] + old <= begun + 1 BY <3>1 DEF Sent
    <3>4. scheduled # "onboarding" => outbox[m] <= 1 BY <3>1 DEF Sent
    <3> HIDE DEF old, new
    <3>5. scheduled = "onboarding" => outbox[m] + new <= begun' + 1 BY <1>3, <1>6, <3>1, <3>2, <3>3
    <3> QED BY <3>4, <3>5 DEF Sent, new
  <2>2. ASSUME NEW b \in Batches PROVE Applied(cronRun', taken, begun', b)
    <3>1. taken[b] \in Nat /\ Applied(cronRun, taken, begun, b) BY <1>1 DEF CronsTyped, Counted
    <3> DEFINE old == Cardinality(RunsAt(cronRun, Applying))
               new == Cardinality(RunsAt(cronRun', Applying))
    <3>2. old \in Nat /\ new \in Nat /\ new <= old + 1 BY <1>8
    <3>3. scheduled = "kg" => taken[b] + old <= begun BY <3>1 DEF Applied
    <3>4. scheduled # "kg" => taken[b] = 0 BY <3>1 DEF Applied
    <3> HIDE DEF old, new
    <3>5. scheduled = "kg" => taken[b] + new <= begun' BY <1>3, <1>6, <3>1, <3>2, <3>3
    <3> QED BY <3>4, <3>5 DEF Applied, new
  <2> QED BY <1>1, <2>1, <2>2 DEF Counted, Sent, Applied, mailVars, batchVars
<1>10. OnceInv'
  <2>1. ASSUME scheduled \notin doubled' PROVE Alone' /\ Sole(NotRunning) /\ \A x : Sole(x)' => x = h
    <3>1. ASSUME NEW q \in CronRuns PROVE cronRun[q] = NotRunning
      <4>1. cronRun[q] # NotRunning => cronRun[q].cron = cron
        BY <1>1, RunTyped DEF RunsOf
      <4> QED BY <1>1, <1>3, <2>1, <4>1
    <3> QED BY <1>1, <1>5, <3>1, SoleMoves
  <2>2. scheduled \notin doubled' => scheduled \notin doubled BY <1>3
  <2>3. ASSUME MailedOnce(NotRunning, profile.count, profile.reminded, flags, outbox),
               scheduled = "onboarding"
        PROVE  MailedOnce(h, profile.count, profile.reminded, flags, outbox)
    BY <1>1, <1>2, <2>3, NotRunningMoves DEF MailedOnce, RemindedOnce, ActivatedOnce, WarnedOnce, In
  <2>4. ASSUME AppliedOnce(NotRunning, kgLlmBatch, provided, taken), scheduled = "kg"
        PROVE  AppliedOnce(h, kgLlmBatch, provided, taken)
    BY <1>1, <1>2, <2>4, NotRunningMoves DEF AppliedOnce, In
  <2>5. scheduled' = scheduled /\ broken' = broken /\ profile' = profile /\ flags' = flags
        /\ outbox' = outbox /\ kgLlmBatch' = kgLlmBatch /\ provided' = provided /\ taken' = taken
    BY DEF mailVars, batchVars
  <2>6. ASSUME scheduled = "onboarding", scheduled \notin doubled' \union broken
        PROVE  MailedOnce(h, profile.count, profile.reminded, flags, outbox)
    BY <1>1, <2>1, <2>2, <2>3, <2>6 DEF OnceInv
  <2>7. ASSUME scheduled = "kg", scheduled \notin doubled' \union broken
        PROVE  AppliedOnce(h, kgLlmBatch, provided, taken)
    BY <1>1, <2>1, <2>2, <2>4, <2>7 DEF OnceInv
  <2> QED BY <2>1, <2>5, <2>6, <2>7 DEF OnceInv
<1> QED BY <1>7, <1>9, <1>10 DEF CronsInv

\* A run stops, perhaps between an effect and its record.
LEMMA CronEndsStep ==
  ASSUME CronsInv, scheduled' = scheduled, NEW r \in CronRuns, CronEnds(r)
  PROVE  CronsInv'
<1> DEFINE x == cronRun[r]
<1>1. /\ CronsTyped /\ x # NotRunning /\ scheduled \in {"onboarding", "kg"}
      /\ x.cron = scheduled /\ RunFits(x)
  <2>1. CronsTyped /\ x # NotRunning /\ x \in RunsOf(scheduled) /\ RunFits(x)
    BY RunTyped DEF CronsInv, CronEnds
  <2> QED BY <2>1 DEF CronsTyped, Crons, RunsOf
<1>2. /\ cronRun' = [cronRun EXCEPT ![r] = NotRunning]
      /\ broken' = broken \union {c \in {scheduled} : Unrecorded(r)}
      /\ UNCHANGED <<day, mailVars, batchVars, begun, doubled>>
  BY <1>1 DEF CronEnds, Over
<1>3. broken \subseteq broken' /\ broken' \subseteq Crons
  BY <1>1, <1>2 DEF CronsTyped, Crons
<1>4. scheduled \notin broken' =>
        ~In(x, {"noteDrip", "noteActivation", "noteWarn", "remove", "submit", "record"})
  BY <1>2 DEF Unrecorded, OnStep, In
<1>5. CASE scheduled = "onboarding"
  <2>1. scheduled \notin broken' => ~In(x, {"noteDrip", "noteActivation", "noteWarn"})
    BY <1>4 DEF In
  <2> QED BY <1>1, <1>2, <1>3, <1>5, <2>1, OverStays DEF Over
<1>6. CASE scheduled = "kg"
  <2> HIDE DEF x
  <2>1. ASSUME AppliedOnce(x, kgLlmBatch, provided, taken), ~In(x, {"remove", "submit", "record"})
        PROVE  AppliedOnce(NotRunning, kgLlmBatch, provided, taken)
    <3>1. ~In(x, {"remove"}) /\ ~In(x, {"record"}) BY <2>1 DEF In
    <3> QED BY <2>1, <3>1, NotRunningMoves DEF AppliedOnce
  <2>2. scheduled \notin broken' => ~In(x, {"remove", "submit", "record"})
    BY <1>4 DEF In
  <2>3. \A b \in Batches : taken[b] + At(NotRunning, Applying) <= taken[b] + At(x, Applying)
    <3>1. In(NotRunning, Applying) => In(x, Applying) BY NotRunningMoves
    <3> QED BY <1>1, <3>1, BatchCounts
  <2>4. BatchMoves(r, NotRunning)
    BY <1>1, <1>2, <1>3, <2>1, <2>2, <2>3, NotRunningMoves DEF BatchMoves, CronsTyped, batchVars, x
  <2> QED BY <1>1, <1>6, <2>4, BatchRunStep DEF x
<1> QED BY <1>1, <1>5, <1>6

\* What is no step of a run leaves what the runs promise.
LEMMA NoRunStep ==
  ASSUME CronsInv, CronsTyped',
         UNCHANGED <<cronRun, scheduled, begun, doubled, broken, flags, outbox, kgLlmBatch, provided, taken>>,
         profile'.count = profile.count, profile'.reminded = profile.reminded
  PROVE  CronsInv'
<1>1. Counted'
  BY DEF CronsInv, Counted, Sent, Applied
<1>2. Alone' = Alone /\ \A x : Sole(x)' = Sole(x)
  BY DEF Alone, Sole
<1>3. OnceInv'
  BY <1>2 DEF CronsInv, OnceInv
<1> QED BY <1>1, <1>3 DEF CronsInv

\* A day passes, the user acts, the provider answers or cools down.
LEMMA OtherCronSteps ==
  ASSUME CronsInv, scheduled' = scheduled,
         \/ DayPasses \/ UserActs \/ LlmCooldownEnds \/ \E b \in Batches : ProviderAnswers(b)
  PROVE  CronsInv'
<1>1. CronsTyped
  BY DEF CronsInv
<1>2. CASE DayPasses
  <2>1. day' \in 0..LastDay BY <1>1, <1>2, CronsAssumption DEF DayPasses, CronsTyped
  <2>2. CronsTyped' BY <1>1, <1>2, <2>1 DEF DayPasses, CronsTyped, mailVars, batchVars
  <2> QED BY <1>2, <2>2, NoRunStep DEF DayPasses, mailVars, batchVars
<1>3. CASE UserActs
  <2>1. /\ profile' \in CronUsers /\ profile'.count = profile.count
        /\ profile'.reminded = profile.reminded
    BY <1>1, <1>3 DEF UserActs, CronsTyped, CronUsers
  <2>2. CronsTyped' BY <1>1, <1>3, <2>1 DEF UserActs, CronsTyped, batchVars
  <2> QED BY <1>3, <2>1, <2>2, NoRunStep DEF UserActs, batchVars
<1>4. CASE LlmCooldownEnds
  <2>1. CronsTyped' BY <1>1, <1>4 DEF LlmCooldownEnds, CronsTyped, mailVars
  <2> QED BY <1>4, <2>1, NoRunStep DEF LlmCooldownEnds, mailVars
<1>5. ASSUME NEW b \in Batches, ProviderAnswers(b) PROVE CronsInv'
  <2>1. CronsTyped' BY <1>1, <1>5 DEF ProviderAnswers, CronsTyped, mailVars
  <2> QED BY <1>5, <2>1, NoRunStep DEF ProviderAnswers, mailVars
<1> QED BY <1>2, <1>3, <1>4, <1>5

\* No step of the crons leaves the invariant.
LEMMA CronsInvStep == CronsInv /\ [CronsNext]_cronVars => CronsInv'
<1> SUFFICES ASSUME CronsInv, [CronsNext]_cronVars PROVE CronsInv'
  OBVIOUS
<1>1. CASE UNCHANGED cronVars
  <2>1. CronsTyped' BY <1>1 DEF CronsInv, CronsTyped, cronVars, mailVars, batchVars
  <2> QED BY <1>1, <2>1, NoRunStep DEF cronVars, mailVars, batchVars
<1>2. CASE CronsNext
  <2>0. scheduled' = scheduled /\ CronsTyped BY <1>2 DEF CronsNext, CronsInv
  <2>1. CASE DayPasses \/ UserActs \/ LlmCooldownEnds \/ \E b \in Batches : ProviderAnswers(b)
    BY <2>0, <2>1, OtherCronSteps
  <2>2. ASSUME NEW r \in CronRuns, StartOnboarding(r) \/ StartBatchRun(r) PROVE CronsInv'
    BY <2>0, <2>2, StartStep DEF StartOnboarding, StartBatchRun, Crons
  <2>3. ASSUME NEW r \in CronRuns, OnboardingStep(r) PROVE CronsInv'
    <3>1. cronRun[r] # NotRunning /\ cronRun[r].pc \in MailPcs
      BY <2>3 DEF OnboardingStep, OnStep, Candidates, Drip, NoteDrip, Stuck, Activate,
                  NoteActivation, Trial, Warn, NoteWarn, MailFails, MailPcs
    <3>2. scheduled = "onboarding"
      BY <2>0, <3>1, RunTyped DEF MailPcs, BatchPcs, CronsTyped, Crons
    <3> QED BY <2>0, <2>3, <3>2, CandidatesStep, DripStep, NoteDripStep, StuckStep, ActivateStep,
               NoteActivationStep, TrialStep, WarnStep, NoteWarnStep, MailFailsStep
            DEF OnboardingStep
  <2>4. ASSUME NEW r \in CronRuns, BatchStep(r) PROVE CronsInv'
    <3>1. cronRun[r] # NotRunning /\ cronRun[r].pc \in BatchPcs
      BY <2>4 DEF BatchStep, OnStep, FindPending, Poll, ApplyResults, RemoveBatch, Build,
                  RecordBatch, Submit, BatchPcs
    <3>2. scheduled = "kg"
      BY <2>0, <3>1, RunTyped DEF MailPcs, BatchPcs, CronsTyped, Crons
    <3> QED BY <2>0, <2>4, <3>2, BatchStepKeeps
  <2>5. ASSUME NEW r \in CronRuns, CronEnds(r) PROVE CronsInv'
    BY <2>0, <2>5, CronEndsStep
  <2> QED BY <1>2, <2>1, <2>2, <2>3, <2>4, <2>5 DEF CronsNext
<1> QED BY <1>1, <1>2

-----------------------------------------------------------------------------
(* A tab.                                                                  *)

\* The requests that carry the token of the session, and the types of a tab.
SessionOps == {"me", "org", "call", "switch", "replace", "switched", "gate"}
Pages      == Gated \union {"login", "welcome"}
Contexts   == [token : SomeSession, user : SomeSession, loading : BOOLEAN, cloud : BOOLEAN]
Forms      == [step : {"auth", "verify", "trial", "license"}, token : SomeSession,
               cloud : BOOLEAN, busy : BOOLEAN]
WebRequests == [op : SessionOps \union FormOps \union {"info"}, token : SomeSession,
                cloud : BOOLEAN, page : Pages, live : BOOLEAN]

\* Requests of a session, and those that verify, have a token.
Asks(q) ==
  /\ q \in WebRequests
  /\ q.op \in SessionOps \union {"verify"} => q.token # NoSession
FormFits(f) == f \in Forms /\ (f.step = "verify" => f.token # NoSession)

LEMMA FitsAreForms == \A f : FormFits(f) => f \in Forms
BY DEF FormFits

\* The types of the tab.
BrowserTyped ==
  /\ saved \in [token : SomeSession, user : SomeSession]
  /\ ctx \in Contexts /\ org \in SomeSession /\ path \in Pages
  /\ FormFits(form) /\ \A q \in wire : Asks(q)
  /\ signedIn \in 0..MaxSignIns /\ validTokens \subseteq 1..signedIn
  /\ plan \in BOOLEAN /\ cloud \in BOOLEAN /\ overtaken \in BOOLEAN
  /\ webClicks \in 0..MaxWebClicks /\ webFaults \in 0..MaxWebFaults

\* The storage is the context, and the organization is its own or is being fetched.
OneLogin ==
  ~overtaken =>
    /\ saved = [token |-> ctx.token, user |-> ctx.user]
    /\ ((ctx.token = NoSession) <=> (ctx.user = NoSession))
    /\ (~ctx.loading => ctx.user = ctx.token)
    /\ (webFaults = 0 /\ (\A q \in wire : q.op # "org") => org \in {NoSession, ctx.token})

BrowserInv == BrowserTyped /\ OneLogin

\* What the runs check follows from the invariant.
LEMMA BrowserFromInv == BrowserInv => BrowserTypeOK /\ SessionIsOfOneLogin
<1> SUFFICES ASSUME BrowserInv PROVE BrowserTypeOK /\ SessionIsOfOneLogin
  OBVIOUS
<1>1. \A q \in wire : q.token \in SomeSession /\ q.live \in BOOLEAN
  BY DEF BrowserInv, BrowserTyped, Asks, WebRequests
<1>2. BrowserTypeOK
  BY <1>1 DEF BrowserInv, BrowserTyped, BrowserTypeOK, FormFits, Contexts, Forms, Pages
<1>3. SessionIsOfOneLogin
  BY DEF BrowserInv, OneLogin, SessionIsOfOneLogin, Saved
<1> QED BY <1>2, <1>3

-----------------------------------------------------------------------------
\* What a change of state leaves: the requests of before, and new ones of c.
Became(c, w) ==
  /\ ctx' = c /\ path' \in Pages /\ FormFits(form') /\ (\A q \in wire' : Asks(q))
  /\ \A a \in w : \E q \in wire' : q.op = a.op

\* Whether a request is still waited for is yes or no.
LEMMA StillLiveBoolean ==
  ASSUME NEW q, q.live \in BOOLEAN, NEW changed \in BOOLEAN, NEW p
  PROVE  StillLive(q, changed, p) \in BOOLEAN
<1>1. CASE q.op = "gate"
  BY <1>1 DEF StillLive, FormOps
<1>2. CASE q.op # "gate" /\ q.op \in FormOps
  BY <1>2 DEF StillLive
<1>3. CASE q.op # "gate" /\ q.op \notin FormOps
  BY <1>3 DEF StillLive
<1> QED BY <1>1, <1>2, <1>3

\* A request that is made is of its type.
LEMMA RequestAsks ==
  ASSUME NEW op \in SessionOps \union FormOps \union {"info"}, NEW t \in SomeSession,
         op \in SessionOps \union {"verify"} => t # NoSession
  PROVE  Asks(Request(op, t)) /\ Request(op, t).op = op /\ Request(op, t).token = t
BY DEF Asks, Request, WebRequests, Pages

\* A change of context, page and form leaves what Became says.
LEMMA Becoming ==
  ASSUME BrowserTyped, NEW changed \in BOOLEAN, NEW c \in Contexts, NEW p \in Pages,
         NEW f, FormFits(f), NEW w, \A q \in w : Asks(q), Becomes(changed, c, p, f, w)
  PROVE  Became(c, w)
<1> DEFINE to     == Redirected(c, p)
           runs   == changed /\ GateRuns(c, to)
           enters == to = "login" /\ {path, p} # {"login"}
           kept   == {[q EXCEPT !.live = StillLive(q, changed, p)] : q \in w}
           gates  == IF runs THEN {[Request("gate", c.token) EXCEPT !.cloud = c.cloud, !.page = to]}
                     ELSE {}
           forms  == IF enters THEN {Request("formInfo", NoSession)} ELSE {}
<1>1. to \in Pages
  BY DEF Redirected, Pages
<1>2. /\ ctx' = c /\ path' = to /\ form' = (IF {path, p} # {"login"} THEN NewForm ELSE f)
      /\ wire' = kept \union gates \union forms
  BY DEF Becomes
<1>3. FormFits(form')
  <2>1. FormFits(NewForm) BY DEF FormFits, NewForm, Forms, SomeSession
  <2> QED BY <1>2, <2>1
<1>4. ASSUME NEW q \in kept PROVE Asks(q)
  <2>1. PICK a \in w : q = [a EXCEPT !.live = StillLive(a, changed, p)]
    OBVIOUS
  <2>2. StillLive(a, changed, p) \in BOOLEAN /\ Asks(a)
    BY StillLiveBoolean DEF Asks, WebRequests
  <2> QED BY <2>1, <2>2 DEF Asks, WebRequests
<1>5. ASSUME NEW a \in w PROVE \E q \in kept : q.op = a.op
  <2>1. [a EXCEPT !.live = StillLive(a, changed, p)] \in kept
    OBVIOUS
  <2>2. [a EXCEPT !.live = StillLive(a, changed, p)].op = a.op
    BY DEF Asks, WebRequests
  <2> QED BY <2>1, <2>2
<1>6. ASSUME NEW q \in gates PROVE Asks(q)
  <2>1. c.token # NoSession /\ c.token \in SomeSession /\ c.cloud \in BOOLEAN
    BY DEF GateRuns, Contexts
  <2>2. q = [Request("gate", c.token) EXCEPT !.cloud = c.cloud, !.page = to]
    OBVIOUS
  <2> HIDE DEF to
  <2> QED BY <1>1, <2>1, <2>2 DEF Asks, WebRequests, Request, SessionOps
<1>7. ASSUME NEW q \in forms PROVE Asks(q)
  <2>1. q = Request("formInfo", NoSession)
    OBVIOUS
  <2>2. "formInfo" \in FormOps /\ "formInfo" \notin SessionOps \union {"verify"}
    BY DEF FormOps, SessionOps
  <2> QED BY <2>1, <2>2, RequestAsks DEF SomeSession
<1> HIDE DEF to, kept, gates, forms, runs, enters
<1>8. (\A q \in wire' : Asks(q)) /\ \A a \in w : \E q \in wire' : q.op = a.op
  BY <1>2, <1>4, <1>5, <1>6, <1>7
<1> QED BY <1>1, <1>2, <1>3, <1>8 DEF Became

\* The same for a step with one such change.
LEMMA BecomingOnce ==
  ASSUME BrowserTyped, NEW c \in Contexts, NEW p \in Pages,
         NEW f, FormFits(f), NEW w, \A q \in w : Asks(q), Become(c, p, f, w)
  PROVE  Became(c, w)
BY Becoming DEF Become

\* What a step that makes the context c with the requests w does to the storage and
\* the organization.
Follows(c, w) ==
  /\ saved' \in [token : SomeSession, user : SomeSession] /\ org' \in SomeSession
  /\ overtaken' \in BOOLEAN
  /\ ~overtaken' =>
       /\ ~overtaken
       /\ saved' = [token |-> c.token, user |-> c.user]
       /\ ((c.token = NoSession) <=> (c.user = NoSession))
       /\ (~c.loading => c.user = c.token)
       /\ \/ org' \in {NoSession, c.token} \/ webFaults' # 0 \/ (\E q \in w : q.op = "org")
          \/ /\ org' = org /\ c.token = ctx.token /\ webFaults' = webFaults
             /\ \A q \in wire : q.op = "org" => q \in w

\* What is not of the tab has its type after the step.
ServerTyped ==
  /\ signedIn' \in 0..MaxSignIns /\ validTokens' \subseteq 1..signedIn'
  /\ plan' \in BOOLEAN /\ cloud' \in BOOLEAN
  /\ webClicks' \in 0..MaxWebClicks /\ webFaults' \in 0..MaxWebFaults

\* Became, Follows and ServerTyped give the invariant.
LEMMA Kept ==
  ASSUME BrowserInv, NEW c \in Contexts, NEW w, \A q \in w : Asks(q), Became(c, w),
         Follows(c, w), ServerTyped
  PROVE  BrowserInv'
<1>1. BrowserTyped'
  BY DEF BrowserTyped, Became, Follows, ServerTyped
<1>2. ASSUME ~overtaken' PROVE OneLogin'
  <2>1. ~overtaken
    BY <1>2 DEF Follows
  <2>2. /\ saved' = [token |-> ctx'.token, user |-> ctx'.user]
        /\ ((ctx'.token = NoSession) <=> (ctx'.user = NoSession))
        /\ (~ctx'.loading => ctx'.user = ctx'.token)
    BY <1>2 DEF Became, Follows
  <2>3. ASSUME webFaults' = 0, \A q \in wire' : q.op # "org"
        PROVE  org' \in {NoSession, ctx'.token}
    <3>1. \A q \in w : q.op # "org" BY <2>3 DEF Became
    <3>2. CASE /\ org' = org /\ c.token = ctx.token /\ webFaults' = webFaults
               /\ \A q \in wire : q.op = "org" => q \in w
      <4>1. org \in {NoSession, ctx.token}
        BY <2>1, <2>3, <3>1, <3>2 DEF BrowserInv, OneLogin
      <4> QED BY <3>2, <4>1 DEF Became
    <3> QED BY <1>2, <2>3, <3>1, <3>2 DEF Follows, Became
  <2> QED BY <2>2, <2>3 DEF OneLogin
<1>3. OneLogin'
  BY <1>2 DEF OneLogin
<1> QED BY <1>1, <1>3 DEF BrowserInv

\* A step that leaves the session of the tab.
LEMMA Stayed ==
  ASSUME BrowserInv, NEW c \in Contexts, NEW w, \A q \in w : Asks(q), Became(c, w), ServerTyped,
         UNCHANGED <<saved, org, overtaken>>,
         c.token = ctx.token, c.user = ctx.user, c.loading = ctx.loading,
         webFaults' # 0 \/ (webFaults' = webFaults /\ \A q \in wire : q.op = "org" => q \in w)
  PROVE  BrowserInv'
<1>1. saved' \in [token : SomeSession, user : SomeSession] /\ org' \in SomeSession
      /\ overtaken' \in BOOLEAN
  BY DEF BrowserInv, BrowserTyped
<1>2. Follows(c, w)
  BY <1>1 DEF BrowserInv, OneLogin, Follows
<1> QED BY <1>2, Kept

\* The requests that stay, and the one that is answered.
LEMMA RestAsks ==
  ASSUME BrowserTyped, NEW q \in wire
  PROVE  /\ \A o \in Rest(q) : Asks(o) /\ o \in wire
         /\ Asks(q) /\ q.token \in SomeSession /\ q.cloud \in BOOLEAN /\ q.live \in BOOLEAN
         /\ FormFits(form)
BY DEF BrowserTyped, Rest, Asks, WebRequests

\* A session of token t, kept in the tab and in the storage.
LEMMA HoldingTyped ==
  ASSUME BrowserTyped, NEW t \in SomeSession
  PROVE  /\ Holding(t) \in Contexts /\ Holding(t).token = t /\ Holding(t).user = t
         /\ Saved(t) \in [token : SomeSession, user : SomeSession]
         /\ Saved(t) = [token |-> t, user |-> t]
BY DEF BrowserTyped, Holding, Saved, Contexts

-----------------------------------------------------------------------------
(* Each action.                                                            *)

\* Nobody, or the first login, restored from the storage.
LEMMA BrowserInvInit == BrowserInit => BrowserInv
<1> SUFFICES ASSUME BrowserInit PROVE BrowserInv
  OBVIOUS
<1> USE BrowserAssumption
<1>1. 1 \in IssuedTokens /\ NoSession # 1 /\ NoSession \notin IssuedTokens
  BY DEF IssuedTokens
<1>2. NobodySaved = [token |-> NoSession, user |-> NoSession] /\ Saved(1) = [token |-> 1, user |-> 1]
  BY DEF NobodySaved, Saved
<1>3. /\ saved \in [token : SomeSession, user : SomeSession]
      /\ signedIn \in 0..MaxSignIns /\ validTokens \subseteq 1..signedIn
  BY <1>1, <1>2 DEF BrowserInit, SomeSession
<1>4. ASSUME saved = NobodySaved
      PROVE  /\ ctx = [token |-> NoSession, user |-> NoSession, loading |-> FALSE, cloud |-> FALSE]
             /\ wire = {Request("info", NoSession), Request("formInfo", NoSession)}
  <2>1. ctx = [token |-> NoSession, user |-> NoSession, loading |-> FALSE, cloud |-> FALSE]
    BY <1>2, <1>4 DEF BrowserInit, Restored
  <2> QED BY <2>1 DEF BrowserInit
<1>5. ASSUME saved = Saved(1)
      PROVE  /\ ctx = [token |-> 1, user |-> 1, loading |-> TRUE, cloud |-> FALSE]
             /\ wire = {Request("info", NoSession), Request("me", 1)}
  <2> DEFINE both == saved.token # NoSession /\ saved.user # NoSession
  <2>0. saved.token = 1 /\ saved.user = 1 /\ both = TRUE
    BY <1>1, <1>2, <1>5
  <2>1. ctx = [token |-> 1, user |-> 1, loading |-> TRUE, cloud |-> FALSE]
    BY <1>1, <2>0 DEF BrowserInit, Restored
  <2> QED BY <2>1 DEF BrowserInit
<1>6. /\ Asks(Request("info", NoSession)) /\ Request("info", NoSession).op = "info"
      /\ Asks(Request("formInfo", NoSession)) /\ Request("formInfo", NoSession).op = "formInfo"
      /\ Asks(Request("me", 1)) /\ Request("me", 1).op = "me" /\ Request("me", 1).token = 1
  BY <1>1, RequestAsks DEF SessionOps, FormOps, SomeSession
<1>7. \A q \in wire : Asks(q)
  BY <1>4, <1>5, <1>6 DEF BrowserInit
<1>8. ctx \in Contexts /\ path \in Pages /\ FormFits(form)
  <2>1. ctx \in Contexts
    <3>1. [token |-> NoSession, user |-> NoSession, loading |-> FALSE, cloud |-> FALSE] \in Contexts
      BY DEF Contexts, SomeSession
    <3>2. [token |-> 1, user |-> 1, loading |-> TRUE, cloud |-> FALSE] \in Contexts
      BY <1>1 DEF Contexts, SomeSession
    <3> QED BY <1>4, <1>5, <3>1, <3>2 DEF BrowserInit
  <2> QED BY <2>1 DEF BrowserInit, Redirected, Pages, Gated, FormFits, NewForm, Forms, SomeSession
<1>9. BrowserTyped
  <2>1. org \in SomeSession /\ plan \in BOOLEAN /\ cloud \in BOOLEAN /\ overtaken \in BOOLEAN
    BY DEF BrowserInit, SomeSession
  <2>2. webClicks \in 0..MaxWebClicks /\ webFaults \in 0..MaxWebFaults
    BY DEF BrowserInit
  <2> QED BY <1>3, <1>7, <1>8, <2>1, <2>2 DEF BrowserTyped
<1>10. OneLogin
  <2>1. CASE saved = NobodySaved
    BY <1>2, <1>4, <1>6, <2>1 DEF OneLogin, BrowserInit
  <2>2. CASE saved = Saved(1)
    BY <1>1, <1>2, <1>5, <1>6, <2>2 DEF OneLogin, BrowserInit
  <2> QED BY <2>1, <2>2 DEF BrowserInit
<1> QED BY <1>9, <1>10 DEF BrowserInv

\* The page is loaded: the storage is the context.
LEMMA LoadedStep ==
  ASSUME BrowserInv, NEW p \in Pages, Loaded(p), ServerTyped
  PROVE  BrowserInv'
<1> DEFINE both == saved.token # NoSession /\ saved.user # NoSession
           to   == Redirected(Restored, p)
<1>1. saved \in [token : SomeSession, user : SomeSession] /\ saved' = saved
  BY DEF BrowserInv, BrowserTyped, Loaded
<1>2. /\ ctx' = Restored /\ path' = to /\ org' = NoSession /\ form' = NewForm
      /\ overtaken' = (overtaken /\ (saved.token = NoSession) # (saved.user = NoSession))
      /\ wire' = {Request("info", NoSession)}
             \union (IF Restored.loading THEN {Request("me", Restored.token)} ELSE {})
             \union (IF to = "login" THEN {Request("formInfo", NoSession)} ELSE {})
  BY DEF Loaded
<1>3. /\ Restored \in Contexts /\ Restored.loading = both
      /\ both => Restored.token = saved.token /\ Restored.user = saved.user
      /\ ~both => Restored.token = NoSession /\ Restored.user = NoSession
  BY <1>1 DEF Restored, Contexts, SomeSession
<1>4. to \in Pages /\ FormFits(NewForm)
  BY DEF Redirected, Pages, FormFits, NewForm, Forms, SomeSession
<1>5. /\ Asks(Request("info", NoSession)) /\ Request("info", NoSession).op = "info"
      /\ Asks(Request("formInfo", NoSession)) /\ Request("formInfo", NoSession).op = "formInfo"
      /\ both => /\ Asks(Request("me", Restored.token)) /\ Request("me", Restored.token).op = "me"
                 /\ Request("me", Restored.token).token = Restored.token
  BY <1>1, <1>3, RequestAsks DEF SessionOps, FormOps, SomeSession
<1> HIDE DEF to
<1>6. \A q \in wire' : Asks(q)
  BY <1>2, <1>3, <1>5
<1>7. overtaken' \in BOOLEAN
  BY <1>2 DEF BrowserInv, BrowserTyped
<1>8. BrowserTyped'
  BY <1>1, <1>2, <1>3, <1>4, <1>6, <1>7 DEF BrowserTyped, ServerTyped, SomeSession
<1>9. ASSUME ~overtaken' PROVE (saved.token = NoSession) <=> (saved.user = NoSession)
  <2>1. CASE ~overtaken
    <3>1. saved.token = ctx.token /\ saved.user = ctx.user
      BY <2>1 DEF BrowserInv, OneLogin
    <3> QED BY <2>1, <3>1 DEF BrowserInv, OneLogin
  <2>2. CASE ~((saved.token = NoSession) # (saved.user = NoSession))
    BY <2>2
  <2> QED BY <1>2, <1>9, <2>1, <2>2
<1>10. OneLogin'
  BY <1>1, <1>2, <1>3, <1>6, <1>9 DEF OneLogin
<1> QED BY <1>8, <1>10 DEF BrowserInv

\* A step that at most loses an answer.
LEMMA ServerKept ==
  ASSUME BrowserTyped, UNCHANGED <<signedIn, validTokens, plan, cloud, webClicks>>,
         webFaults' \in 0..MaxWebFaults
  PROVE  ServerTyped
BY DEF BrowserTyped, ServerTyped

\* A click of the user, which the server does not see by itself.
LEMMA ClickKept ==
  ASSUME BrowserTyped, Clicked
  PROVE  ServerTyped /\ webFaults' = webFaults
<1> USE BrowserAssumption
<1> QED BY DEF BrowserTyped, ServerTyped, Clicked, serverVars

\* logout, by the user or after a refusal, and what follows it.
LEMMA LoggedOutStep ==
  ASSUME BrowserInv, ServerTyped, NEW w, \A q \in w : Asks(q), NEW c \in Contexts,
         c.token = NoSession, c.user = NoSession, NEW p \in Pages, NEW f, FormFits(f),
         Become(c, p, f, w), saved' = NobodySaved, org' = NoSession, UNCHANGED overtaken
  PROVE  BrowserInv'
<1>1. BrowserTyped /\ NoSession \in SomeSession
  BY DEF BrowserInv, SomeSession
<1>2. Became(c, w)
  BY <1>1, BecomingOnce
<1>3. Follows(c, w)
  BY <1>1 DEF Follows, NobodySaved, BrowserTyped
<1> QED BY <1>2, <1>3, Kept

\* Everything the user of the tab does.
LEMMA UserActsStep ==
  ASSUME BrowserInv, BrowserUserActs
  PROVE  BrowserInv'
<1>0. /\ BrowserTyped /\ FormFits(form) /\ ctx \in Contexts /\ path \in Pages
      /\ \A q \in wire : Asks(q)
  BY DEF BrowserInv, BrowserTyped
<1>1. ASSUME NEW p \in Gated \union {"login"}, LoadPage(p) PROVE BrowserInv'
  BY <1>0, <1>1, ClickKept, LoadedStep DEF LoadPage, Pages
<1>2. ASSUME NEW p \in Gated, Go(p) PROVE BrowserInv'
  <2>1. ServerTyped /\ webFaults' = webFaults BY <1>0, <1>2, ClickKept DEF Go, WebClick
  <2>2. p \in Pages BY DEF Pages
  <2>3. Became(ctx, wire) BY <1>0, <1>2, <2>2, BecomingOnce DEF Go
  <2> QED BY <1>0, <1>2, <2>1, <2>3, Stayed DEF Go, WebClick
<1>3. ASSUME NEW op \in {"call", "switch", "replace"}, Call(op) PROVE BrowserInv'
  <2>1. ServerTyped /\ webFaults' = webFaults BY <1>0, <1>3, ClickKept DEF Call, WebClick
  <2>2. Asks(Request(op, ctx.token)) /\ Request(op, ctx.token).token = ctx.token
    BY <1>0, <1>3, RequestAsks DEF Call, SessionOps, Contexts
  <2> DEFINE w == wire \union {Request(op, ctx.token)}
  <2>3. \A q \in w : Asks(q) BY <1>0, <2>2
  <2>4. Become(ctx, path, form, w) BY <1>3 DEF Call, Stays
  <2>5. \A q \in wire : q \in w OBVIOUS
  <2> HIDE DEF w
  <2>6. Became(ctx, w) BY <1>0, <2>3, <2>4, BecomingOnce
  <2> QED BY <1>0, <1>3, <2>1, <2>3, <2>5, <2>6, Stayed DEF Call, WebClick
<1>4. ASSUME Logout PROVE BrowserInv'
  <2>1. ServerTyped /\ "login" \in Pages BY <1>0, <1>4, ClickKept DEF Logout, WebClick, Pages
  <2>2. Holding(NoSession) \in Contexts
        /\ Holding(NoSession).token = NoSession /\ Holding(NoSession).user = NoSession
    BY <1>0, HoldingTyped DEF SomeSession
  <2>3. /\ Become(Holding(NoSession), "login", form, wire) /\ saved' = NobodySaved
        /\ org' = NoSession /\ UNCHANGED overtaken
    BY <1>4 DEF Logout, LoggedOut, WebClick
  <2> QED BY <1>0, <2>1, <2>2, <2>3, LoggedOutStep
<1>5. ASSUME NEW op \in {"sign", "verify", "community", "key"}, FormSends(op),
             op = "verify" => form.step = "verify"
      PROVE  BrowserInv'
  <2>1. ServerTyped /\ webFaults' = webFaults BY <1>0, <1>5, ClickKept DEF FormSends, WebClick
  <2> DEFINE new == [Request(op, form.token) EXCEPT !.cloud = form.cloud]
             f   == [form EXCEPT !.busy = TRUE]
             w   == wire \union {new}
  <2>2. form.token \in SomeSession /\ form.cloud \in BOOLEAN /\ (op = "verify" => form.token # NoSession)
    BY <1>0, <1>5 DEF FormFits, Forms
  <2>3. new.op = op /\ op \notin SessionOps
    BY DEF Request, SessionOps
  <2>4. Asks(new)
    BY <2>2, <2>3 DEF Asks, Request, WebRequests, FormOps, Pages
  <2>5. FormFits(f)
    BY <1>0 DEF FormFits, Forms
  <2>6. Become(ctx, path, f, w) BY <1>5 DEF FormSends, Stays
  <2>7. (\A q \in w : Asks(q)) /\ (\A q \in wire : q \in w)
    BY <1>0, <2>4
  <2> HIDE DEF w, f
  <2>8. Became(ctx, w) BY <1>0, <2>5, <2>6, <2>7, BecomingOnce
  <2> QED BY <1>0, <1>5, <2>1, <2>7, <2>8, Stayed DEF FormSends, WebClick
<1>6. ASSUME SkipVerify PROVE BrowserInv'
  <2>1. ServerTyped /\ webFaults' = webFaults BY <1>0, <1>6, ClickKept DEF SkipVerify, WebClick
  <2> DEFINE t == form.token
             f == [form EXCEPT !.step = "license"]
             w == wire \union {Request("org", t)}
  <2>2. t \in SomeSession /\ t # NoSession BY <1>0, <1>6 DEF SkipVerify, FormFits, Forms
  <2>3. /\ Holding(t) \in Contexts /\ Holding(t).token = t /\ Holding(t).user = t
        /\ saved' \in [token : SomeSession, user : SomeSession]
        /\ saved' = [token |-> t, user |-> t]
    BY <1>0, <1>6, <2>2, HoldingTyped DEF SkipVerify
  <2>4. Asks(Request("org", t)) /\ Request("org", t).op = "org" /\ Request("org", t).token = t
    BY <2>2, RequestAsks DEF SessionOps
  <2>5. FormFits(f) BY <1>0 DEF FormFits, Forms
  <2>6. Become(Holding(t), "login", f, w) /\ org' = org /\ "login" \in Pages
    BY <1>6 DEF SkipVerify, Pages
  <2>7. /\ \A q \in w : Asks(q)
        /\ \E q \in w : q.op = "org"
    BY <1>0, <2>4
  <2> HIDE DEF w, f, t
  <2>8. Became(Holding(t), w) BY <1>0, <2>3, <2>5, <2>6, <2>7, BecomingOnce
  <2>9. org' \in SomeSession /\ overtaken' = overtaken /\ overtaken \in BOOLEAN
    BY <1>0, <1>6, <2>6 DEF BrowserTyped, SkipVerify, WebClick
  <2>10. Follows(Holding(t), w) BY <2>2, <2>3, <2>7, <2>9 DEF Follows
  <2> QED BY <2>1, <2>3, <2>7, <2>8, <2>10, Kept
<1>7. ASSUME handleSkip PROVE BrowserInv'
  <2>1. ServerTyped /\ webFaults' = webFaults BY <1>0, <1>7, ClickKept DEF handleSkip, WebClick
  <2>2. "home" \in Pages BY DEF Pages, Gated
  <2>3. Became(ctx, wire) BY <1>0, <1>7, <2>2, BecomingOnce DEF handleSkip
  <2> QED BY <1>0, <1>7, <2>1, <2>3, Stayed DEF handleSkip, WebClick
<1> QED BY <1>1, <1>2, <1>3, <1>4, <1>5, <1>6, <1>7
        DEF BrowserUserActs, handleSubmit, handleVerifyCode, handleLicense

-----------------------------------------------------------------------------
(* Answers.                                                                *)

\* An answer that leaves the session.
LEMMA AnswerStays ==
  ASSUME BrowserInv, ServerTyped, NEW q \in wire, NEW c \in Contexts, NEW p \in Pages,
         NEW f, FormFits(f), Become(c, p, f, Rest(q)), UNCHANGED <<saved, org, overtaken>>,
         c.token = ctx.token, c.user = ctx.user, c.loading = ctx.loading,
         webFaults' # 0 \/ (webFaults' = webFaults /\ q.op # "org")
  PROVE  BrowserInv'
<1>1. BrowserTyped /\ \A o \in Rest(q) : Asks(o) /\ o \in wire
  BY RestAsks DEF BrowserInv
<1>2. Became(c, Rest(q))
  BY <1>1, BecomingOnce
<1>3. q.op # "org" => \A o \in wire : o.op = "org" => o \in Rest(q)
  BY DEF Rest
<1> QED BY <1>1, <1>2, <1>3, Stayed

\* A form set by the answer q, if q is still waited for.
LEMMA FormSet ==
  ASSUME BrowserTyped, NEW q \in wire, NEW f, FormFits(f)
  PROVE  FormFits(Form(q, f))
<1>1. CASE q.live BY <1>1 DEF Form
<1>2. CASE ~q.live BY <1>2, RestAsks DEF Form
<1> QED BY <1>1, <1>2

\* The forms the handlers set.
LEMMA FormsFit ==
  ASSUME FormFits(form), NEW t \in SomeSession
  PROVE  /\ FormFits([form EXCEPT !.busy = FALSE])
         /\ FormFits([form EXCEPT !.step = "trial", !.busy = FALSE])
         /\ FormFits([form EXCEPT !.token = t, !.step = "license", !.busy = FALSE])
         /\ t # NoSession => /\ FormFits([form EXCEPT !.token = t])
                             /\ FormFits([form EXCEPT !.token = t, !.step = "verify", !.busy = FALSE])
BY DEF FormFits, Forms

\* login, and where it sends the user.
LEMMA LoginThenStep ==
  ASSUME BrowserInv, ServerTyped, NEW q \in wire, NEW t \in IssuedTokens, NEW trial \in BOOLEAN,
         LoginThen(t, q, trial), UNCHANGED overtaken
  PROVE  BrowserInv'
<1> USE BrowserAssumption
<1> DEFINE w     == Rest(q) \union {Request("org", t)}
           three == [Request("trial", t) EXCEPT !.live = q.live]
<1>1. /\ BrowserTyped /\ t \in SomeSession /\ t # NoSession /\ path \in Pages /\ FormFits(form)
      /\ \A o \in Rest(q) : Asks(o) /\ o \in wire
  BY RestAsks DEF BrowserInv, BrowserTyped, SomeSession
<1>2. /\ Holding(t) \in Contexts /\ Holding(t).token = t /\ Holding(t).user = t
      /\ Saved(t) \in [token : SomeSession, user : SomeSession]
      /\ Saved(t) = [token |-> t, user |-> t]
  BY <1>1, HoldingTyped
<1>3. Asks(Request("org", t)) /\ Request("org", t).op = "org" /\ Request("org", t).token = t
  BY <1>1, RequestAsks DEF SessionOps
<1>4. Asks(three) /\ three.token = t
  <2>1. Asks(Request("trial", t)) /\ q.live \in BOOLEAN
    BY <1>1, RequestAsks, RestAsks DEF FormOps, SessionOps
  <2> QED BY <2>1 DEF Asks, Request, WebRequests
<1>5. /\ \A o \in w \union {three} : Asks(o)
      /\ \E o \in w : o.op = "org"
  BY <1>1, <1>3, <1>4
<1>6. PICK v \in {w, w \union {three}}, p \in Pages, f \in Forms : FormFits(f) /\ Becomes(TRUE, Holding(t), p, f, v)
  <2>1. CASE trial
    <3>1. Becomes(TRUE, Holding(t), path, Form(q, [form EXCEPT !.token = t]), w \union {three})
      BY <2>1 DEF LoginThen
    <3>2. FormFits(Form(q, [form EXCEPT !.token = t]))
      BY <1>1, FormSet, FormsFit
    <3> HIDE DEF w, three
    <3> QED BY <1>1, <3>1, <3>2, FitsAreForms
  <2>2. CASE ~trial /\ Profile[t].first
    <3>1. Becomes(TRUE, Holding(t), path,
                  Form(q, [form EXCEPT !.token = t, !.step = "license", !.busy = FALSE]), w)
      BY <2>2 DEF LoginThen
    <3>2. FormFits(Form(q, [form EXCEPT !.token = t, !.step = "license", !.busy = FALSE]))
      BY <1>1, FormSet, FormsFit
    <3> HIDE DEF w, three
    <3> QED BY <1>1, <3>1, <3>2, FitsAreForms
  <2>3. CASE ~trial /\ ~Profile[t].first
    <3>1. Becomes(TRUE, Holding(t), "home", form, w)
      BY <2>3 DEF LoginThen
    <3>2. "home" \in Pages BY DEF Pages, Gated
    <3> HIDE DEF w, three
    <3> QED BY <1>1, <3>1, <3>2, FitsAreForms
  <2> QED BY <2>1, <2>2, <2>3
<1>7. saved' = Saved(t) /\ org' = org
  BY DEF LoginThen
<1> HIDE DEF w, three
<1>8. /\ \A o \in v : Asks(o)
      /\ \E o \in v : o.op = "org"
  BY <1>5, <1>6
<1>9. Became(Holding(t), v)
  BY <1>1, <1>2, <1>6, <1>8, Becoming
<1>10. Follows(Holding(t), v)
  BY <1>1, <1>2, <1>7, <1>8 DEF Follows, BrowserTyped
<1> QED BY <1>2, <1>8, <1>9, <1>10, Kept

\* The server issues token signedIn + 1.
LEMMA IssueTyped ==
  ASSUME BrowserTyped, Issue
  PROVE  /\ signedIn + 1 \in IssuedTokens /\ signedIn + 1 \in SomeSession
         /\ signedIn + 1 # NoSession
         /\ signedIn' \in 0..MaxSignIns /\ validTokens' \subseteq 1..signedIn'
<1> USE BrowserAssumption
<1>1. signedIn \in Nat /\ signedIn < MaxSignIns /\ signedIn' = signedIn + 1
      /\ validTokens' = validTokens \union {signedIn + 1} /\ validTokens \subseteq 1..signedIn
  BY DEF BrowserTyped, Issue
<1>2. 1..signedIn \subseteq 1..(signedIn + 1) /\ signedIn + 1 \in 1..(signedIn + 1)
  BY <1>1
<1>3. signedIn + 1 \in IssuedTokens
  BY <1>1 DEF IssuedTokens
<1> QED BY <1>1, <1>2, <1>3 DEF SomeSession

\* The answers to the requests of the session.
LEMMA SessionAnswersStep ==
  ASSUME BrowserInv, NEW q \in wire,
         \/ SessionRefused(q) \/ MeAnswers(q) \/ OrgAnswers(q) \/ SwitchAnswers(q) \/ Switched(q)
  PROVE  BrowserInv'
<1>0. /\ BrowserTyped /\ ctx \in Contexts /\ path \in Pages /\ FormFits(form)
      /\ \A o \in Rest(q) : Asks(o) /\ o \in wire
      /\ Asks(q) /\ q.token \in SomeSession
  BY RestAsks DEF BrowserInv, BrowserTyped
<1>1. ServerSame => ServerTyped /\ webFaults' = webFaults
  BY <1>0, ServerKept DEF ServerSame, serverVars, boundVars, BrowserTyped
<1>2. CASE SessionRefused(q)
  <2>1. ServerTyped BY <1>1, <1>2 DEF SessionRefused
  <2> DEFINE c == Holding(NoSession)
             d == [c EXCEPT !.loading = FALSE]
             f == Form(q, [form EXCEPT !.busy = FALSE])
  <2>2. /\ c \in Contexts /\ c.token = NoSession /\ c.user = NoSession
        /\ d \in Contexts /\ d.token = NoSession /\ d.user = NoSession
    <3>1. c \in Contexts /\ c.token = NoSession /\ c.user = NoSession
      BY <1>0, HoldingTyped DEF SomeSession
    <3> HIDE DEF c
    <3> QED BY <3>1 DEF Contexts
  <2>3. FormFits(f) /\ "login" \in Pages /\ "home" \in Pages
    BY <1>0, FormsFit, FormSet DEF Pages, Gated
  <2>4. /\ saved' = NobodySaved /\ org' = NoSession /\ UNCHANGED overtaken
        /\ \/ Become(d, "login", form, Rest(q)) \/ Become(c, "home", form, Rest(q))
           \/ Become(c, "login", f, Rest(q)) \/ Become(c, "login", form, Rest(q))
    BY <1>2 DEF SessionRefused
  <2> HIDE DEF c, d, f
  <2>5. PICK k \in {c, d}, p \in Pages, e \in {f, form} : Become(k, p, e, Rest(q))
    BY <2>3, <2>4
  <2> QED BY <1>0, <2>1, <2>2, <2>3, <2>4, <2>5, LoggedOutStep
<1>3. CASE MeAnswers(q)
  <2> DEFINE c == [ctx EXCEPT !.user = q.token, !.loading = FALSE]
             w == Rest(q) \union {Request("org", q.token)}
  <2>1. q.op = "me" /\ q.token # NoSession
    BY <1>0, <1>3 DEF MeAnswers, Asks, SessionOps
  <2>2. c \in Contexts /\ c.token = ctx.token /\ c.user = q.token
    BY <1>0 DEF Contexts
  <2>3. Asks(Request("org", q.token)) /\ Request("org", q.token).op = "org"
        /\ Request("org", q.token).token = q.token
    BY <1>0, <2>1, RequestAsks DEF SessionOps
  <2>4. /\ \A o \in w : Asks(o)
        /\ \E o \in w : o.op = "org"
    BY <1>0, <2>3
  <2>5. Become(c, path, form, w) /\ saved' = [saved EXCEPT !.user = q.token] /\ org' = org
    BY <1>3 DEF MeAnswers
  <2> HIDE DEF c, w
  <2>6. Became(c, w)
    BY <1>0, <2>2, <2>4, <2>5, BecomingOnce
  <2>7. /\ overtaken' \in BOOLEAN
        /\ ~overtaken' => /\ ~overtaken /\ q.token = ctx.token
                          /\ saved = [token |-> ctx.token, user |-> ctx.user]
    BY <1>3 DEF BrowserInv, OneLogin, MeAnswers, AnswersFor
  <2>8. Follows(c, w)
    <3>1. saved' \in [token : SomeSession, user : SomeSession] /\ org' \in SomeSession
      BY <1>0, <2>5 DEF BrowserTyped
    <3>2. ~overtaken' => saved' = [token |-> c.token, user |-> c.user]
      BY <2>2, <2>5, <2>7
    <3> QED BY <2>1, <2>2, <2>4, <2>7, <3>1, <3>2 DEF Follows
  <2> QED BY <1>1, <1>3, <2>2, <2>4, <2>6, <2>8, Kept DEF MeAnswers
<1>4. CASE OrgAnswers(q)
  <2>1. q.op = "org" /\ org' = q.token /\ saved' = saved /\ ServerSame
        /\ Become(ctx, path, form, Rest(q))
    BY <1>4 DEF OrgAnswers, Stays
  <2>2. Became(ctx, Rest(q))
    BY <1>0, <2>1, BecomingOnce
  <2>3. overtaken' \in BOOLEAN /\ (~overtaken' => ~overtaken /\ q.token = ctx.token)
    BY <1>4 DEF OrgAnswers, AnswersFor
  <2>4. Follows(ctx, Rest(q))
    BY <1>0, <2>1, <2>3 DEF Follows, BrowserInv, OneLogin, BrowserTyped
  <2> QED BY <1>0, <1>1, <2>1, <2>2, <2>4, Kept
<1>5. CASE SwitchAnswers(q)
  <2> DEFINE t == signedIn + 1
             w == Rest(q) \union (IF q.op = "switch" THEN {Request("switched", t)} ELSE {})
  <2>1. /\ t \in SomeSession /\ t # NoSession
        /\ signedIn' \in 0..MaxSignIns /\ validTokens' \subseteq 1..signedIn'
    BY <1>0, <1>5, IssueTyped DEF SwitchAnswers
  <2>2. ServerTyped
    BY <1>0, <1>5, <2>1 DEF SwitchAnswers, ServerTyped, BrowserTyped, boundVars
  <2>3. Become(Holding(t), path, form, w) /\ saved' = Saved(t) /\ org' = t
    BY <1>5 DEF SwitchAnswers
  <2>4. Asks(Request("switched", t)) /\ Request("switched", t).token = t
    BY <2>1, RequestAsks DEF SessionOps
  <2>5. \A o \in w : Asks(o)
    BY <1>0, <2>4
  <2> HIDE DEF w, t
  <2>6. /\ Holding(t) \in Contexts /\ Holding(t).token = t /\ Holding(t).user = t
        /\ Saved(t) \in [token : SomeSession, user : SomeSession]
        /\ Saved(t) = [token |-> t, user |-> t]
    BY <1>0, <2>1, HoldingTyped
  <2>7. Became(Holding(t), w)
    BY <1>0, <2>3, <2>5, <2>6, BecomingOnce
  <2>8. overtaken' = overtaken /\ overtaken \in BOOLEAN
    BY <1>0, <1>5 DEF SwitchAnswers, BrowserTyped
  <2>9. Follows(Holding(t), w)
    BY <2>1, <2>3, <2>5, <2>6, <2>8 DEF Follows
  <2> QED BY <2>2, <2>5, <2>6, <2>7, <2>9, Kept
<1>6. CASE Switched(q) /\ Accepted(q)
  <2>1. Loaded("home") /\ "home" \in Pages /\ ServerTyped
    BY <1>1, <1>6 DEF Switched, Pages, Gated
  <2> QED BY <2>1, LoadedStep
<1>7. CASE Switched(q) /\ ~Accepted(q)
  <2> DEFINE c == [Holding(NoSession) EXCEPT !.loading = FALSE, !.cloud = FALSE]
             w == {Request("info", NoSession), Request("formInfo", NoSession)}
  <2>1. /\ saved' = [token |-> NoSession, user |-> NoSession] /\ org' = NoSession
        /\ ctx' = c /\ path' = "login" /\ form' = NewForm
        /\ wire' = w /\ overtaken' = overtaken
    BY <1>7 DEF Switched, NobodySaved
  <2>2. c \in Contexts /\ c.token = NoSession /\ c.user = NoSession
    BY <1>0 DEF Holding, Contexts, SomeSession
  <2>3. \A o \in w : Asks(o)
    <3>1. Asks(Request("info", NoSession)) /\ Request("info", NoSession).op = "info"
      BY RequestAsks DEF SessionOps, FormOps, SomeSession
    <3>2. Asks(Request("formInfo", NoSession)) /\ Request("formInfo", NoSession).op = "formInfo"
      BY RequestAsks DEF SessionOps, FormOps, SomeSession
    <3> QED BY <3>1, <3>2
  <2> HIDE DEF c, w
  <2>4. FormFits(NewForm) /\ "login" \in Pages /\ NoSession \in SomeSession
    BY DEF FormFits, NewForm, Forms, SomeSession, Pages
  <2>5. ServerTyped
    BY <1>1, <1>7 DEF Switched
  <2>6. BrowserTyped'
    BY <1>0, <2>1, <2>2, <2>3, <2>4, <2>5 DEF BrowserTyped, ServerTyped
  <2>7. OneLogin'
    BY <2>1, <2>2, <2>3 DEF OneLogin
  <2> QED BY <2>6, <2>7 DEF BrowserInv
<1> QED BY <1>2, <1>3, <1>4, <1>5, <1>6, <1>7

\* The answers to the requests of the forms.
LEMMA FormAnswersStep ==
  ASSUME BrowserInv, NEW q \in wire,
         \/ InfoAnswers(q) \/ FormInfoAnswers(q) \/ CallAnswers(q) \/ GateAnswers(q)
         \/ SignAnswers(q) \/ VerifyAnswers(q) \/ TrialAnswers(q) \/ LicenseAnswers(q)
  PROVE  BrowserInv'
<1>0. /\ BrowserTyped /\ ctx \in Contexts /\ path \in Pages /\ FormFits(form)
      /\ cloud \in BOOLEAN /\ Asks(q) /\ q.token \in SomeSession /\ q.cloud \in BOOLEAN
  BY RestAsks DEF BrowserInv, BrowserTyped
<1>1. ServerSame => ServerTyped /\ webFaults' = webFaults
  BY <1>0, ServerKept DEF ServerSame, serverVars, boundVars, BrowserTyped
<1>2. "home" \in Pages /\ "welcome" \in Pages
  BY DEF Pages, Gated
<1>3. CASE InfoAnswers(q)
  <2> DEFINE c == [ctx EXCEPT !.cloud = cloud]
  <2>1. c \in Contexts /\ c.token = ctx.token /\ c.user = ctx.user /\ c.loading = ctx.loading
    BY <1>0 DEF Contexts
  <2>2. Become(c, path, form, Rest(q)) /\ saved' = saved /\ org' = org /\ q.op # "org"
    BY <1>3 DEF InfoAnswers
  <2> HIDE DEF c
  <2> QED BY <1>0, <1>1, <1>3, <2>1, <2>2, AnswerStays DEF InfoAnswers
<1>4. CASE FormInfoAnswers(q)
  <2>1. FormFits([form EXCEPT !.cloud = cloud])
    BY <1>0 DEF FormFits, Forms
  <2>2. FormFits(Form(q, [form EXCEPT !.cloud = cloud]))
    BY <1>0, <2>1, FormSet
  <2> QED BY <1>0, <1>1, <1>4, <2>2, AnswerStays DEF FormInfoAnswers, Stays
<1>5. CASE CallAnswers(q)
  BY <1>0, <1>1, <1>5, AnswerStays DEF CallAnswers, Stays
<1>6. CASE GateAnswers(q)
  <2>1. ServerTyped /\ webFaults' = webFaults
    BY <1>0, <1>6, ServerKept DEF GateAnswers, serverVars, boundVars, BrowserTyped
  <2>2. PICK p \in Pages : Become(ctx, p, form, Rest(q))
    BY <1>0, <1>2, <1>6 DEF GateAnswers, Stays
  <2> QED BY <1>0, <1>6, <2>1, <2>2, AnswerStays DEF GateAnswers
<1>7. CASE SignAnswers(q)
  <2> DEFINE t == signedIn + 1
  <2>1. /\ t \in IssuedTokens /\ t \in SomeSession /\ t # NoSession
        /\ signedIn' \in 0..MaxSignIns /\ validTokens' \subseteq 1..signedIn'
    BY <1>0, <1>7, IssueTyped DEF SignAnswers
  <2>2. ServerTyped /\ webFaults' = webFaults
    BY <1>0, <1>7, <2>1 DEF SignAnswers, ServerTyped, BrowserTyped, boundVars
  <2>3. (q.cloud /\ Profile[t].first) \in BOOLEAN
    <3>1. Profile[t].first \in BOOLEAN BY <2>1, BrowserAssumption
    <3> QED BY <1>0, <3>1
  <2>4. CASE Account(t) \in verified
    BY <1>7, <2>1, <2>2, <2>3, <2>4, LoginThenStep DEF SignAnswers
  <2>5. CASE Account(t) \notin verified
    <3>1. FormFits(Form(q, [form EXCEPT !.token = t, !.step = "verify", !.busy = FALSE]))
      BY <1>0, <2>1, FormsFit, FormSet
    <3> QED BY <1>0, <1>7, <2>2, <2>5, <3>1, AnswerStays DEF SignAnswers, Stays
  <2> QED BY <2>4, <2>5
<1>8. CASE VerifyAnswers(q)
  <2>1. ServerTyped
    BY <1>0, <1>8 DEF VerifyAnswers, ServerTyped, BrowserTyped, boundVars
  <2>2. q.token \in IssuedTokens
    BY <1>0, <1>8 DEF VerifyAnswers, Asks, SomeSession
  <2> QED BY <1>0, <1>8, <2>1, <2>2, LoginThenStep DEF VerifyAnswers
<1>9. CASE TrialAnswers(q) \/ LicenseAnswers(q)
  <2>1. /\ ServerTyped /\ webFaults' = webFaults /\ q.op # "org"
        /\ saved' = saved /\ org' = org /\ overtaken' = overtaken
    BY <1>0, <1>9 DEF TrialAnswers, LicenseAnswers, ServerTyped, BrowserTyped, boundVars
  <2>2. /\ FormFits(Form(q, [form EXCEPT !.step = "trial", !.busy = FALSE]))
        /\ FormFits(Form(q, [form EXCEPT !.busy = FALSE]))
    BY <1>0, FormsFit, FormSet
  <2>3. PICK p \in Pages, f \in Forms : FormFits(f) /\ Become(ctx, p, f, Rest(q))
    <3>1. CASE Become(ctx, "home", form, Rest(q))
      BY <1>0, <1>2, <3>1, FitsAreForms
    <3>2. CASE Become(ctx, path, Form(q, [form EXCEPT !.step = "trial", !.busy = FALSE]), Rest(q))
      BY <1>0, <2>2, <3>2, FitsAreForms
    <3>3. CASE Become(ctx, path, Form(q, [form EXCEPT !.busy = FALSE]), Rest(q))
      BY <1>0, <2>2, <3>3, FitsAreForms
    <3> QED BY <1>9, <3>1, <3>2, <3>3 DEF TrialAnswers, LicenseAnswers, Stays
  <2> QED BY <1>0, <2>1, <2>3, AnswerStays
<1> QED BY <1>3, <1>4, <1>5, <1>6, <1>7, <1>8, <1>9

\* A request that fails.
LEMMA NoAnswerStep ==
  ASSUME BrowserInv, NEW q \in wire, NoAnswer(q)
  PROVE  BrowserInv'
<1> USE BrowserAssumption
<1>0. /\ BrowserTyped /\ ctx \in Contexts /\ path \in Pages /\ FormFits(form)
      /\ \A o \in Rest(q) : Asks(o) /\ o \in wire
  BY RestAsks DEF BrowserInv, BrowserTyped
<1>1. webFaults' \in 0..MaxWebFaults /\ webFaults' # 0
  BY <1>0 DEF NoAnswer, BrowserTyped
<1>2. ServerTyped
  BY <1>0, <1>1, ServerKept DEF NoAnswer, serverVars
<1>3. CASE q.op = "me"
  <2> DEFINE c == [Holding(NoSession) EXCEPT !.loading = FALSE]
  <2>1. c \in Contexts /\ c.token = NoSession /\ c.user = NoSession /\ NoSession \in SomeSession
    BY <1>0 DEF Holding, Contexts, SomeSession
  <2>2. /\ Become(c, path, form, Rest(q)) /\ saved' = [token |-> NoSession, user |-> NoSession]
        /\ org' = org
    <3>1. saved' = Forgotten /\ Become(c, path, form, Rest(q))
      BY <1>3 DEF NoAnswer, FormOps
    <3>2. org' = org
      BY DEF NoAnswer
    <3> QED BY <3>1, <3>2 DEF Forgotten, NobodySaved
  <2> HIDE DEF c
  <2>3. Became(c, Rest(q))
    BY <1>0, <2>1, <2>2, BecomingOnce
  <2>4. Follows(c, Rest(q))
    BY <1>0, <1>1, <2>1, <2>2 DEF Follows, BrowserTyped, NoAnswer
  <2> QED BY <1>0, <1>2, <2>1, <2>3, <2>4, Kept
<1>4. CASE q.op # "me"
  <2>1. FormFits([form EXCEPT !.busy = @ /\ q.op = "formInfo"])
    <3>1. (form.busy /\ q.op = "formInfo") \in BOOLEAN OBVIOUS
    <3> QED BY <1>0, <3>1 DEF FormFits, Forms
  <2>2. FormFits(Form(q, [form EXCEPT !.busy = @ /\ q.op = "formInfo"]))
    BY <1>0, <2>1, FormSet
  <2>3. "home" \in Pages BY DEF Pages, Gated
  <2>4. PICK p \in Pages, f \in Forms : FormFits(f) /\ Become(ctx, p, f, Rest(q))
    <3>1. CASE q.op = "trial"
      <4>1. Become(ctx, "home", form, Rest(q)) BY <3>1 DEF NoAnswer, FormOps
      <4> QED BY <1>0, <2>3, <4>1, FitsAreForms
    <3>2. CASE q.op \in FormOps \ {"trial"}
      <4>1. Become(ctx, path, Form(q, [form EXCEPT !.busy = @ /\ q.op = "formInfo"]), Rest(q))
        BY <1>4, <3>2 DEF NoAnswer, Stays
      <4> QED BY <1>0, <2>2, <4>1, FitsAreForms
    <3>3. CASE q.op \notin FormOps
      <4>1. q.op # "trial" BY <3>3 DEF FormOps
      <4>2. Become(ctx, path, form, Rest(q)) BY <1>4, <3>3, <4>1 DEF NoAnswer, Stays
      <4> QED BY <1>0, <4>2, FitsAreForms
    <3> QED BY <3>1, <3>2, <3>3
  <2>5. saved' = saved /\ org' = org /\ overtaken' = overtaken
    BY <1>4 DEF NoAnswer
  <2> QED BY <1>0, <1>1, <1>2, <2>4, <2>5, AnswerStays
<1> QED BY <1>3, <1>4

\* A token expires at the server.
LEMMA ExpireStep ==
  ASSUME BrowserInv, NEW t \in IssuedTokens, Expire(t)
  PROVE  BrowserInv'
<1> USE BrowserAssumption
<1>1. webFaults' \in 0..MaxWebFaults /\ webFaults' # 0 /\ validTokens' \subseteq 1..signedIn
  BY DEF Expire, BrowserInv, BrowserTyped
<1>2. BrowserTyped'
  BY <1>1 DEF Expire, BrowserInv, BrowserTyped
<1>3. OneLogin'
  BY <1>1 DEF Expire, BrowserInv, OneLogin
<1> QED BY <1>2, <1>3 DEF BrowserInv

\* No step of the tab leaves the invariant.
LEMMA BrowserInvStep == BrowserInv /\ [BrowserNext]_browserVars => BrowserInv'
<1> SUFFICES ASSUME BrowserInv, [BrowserNext]_browserVars PROVE BrowserInv'
  OBVIOUS
<1>1. CASE UNCHANGED browserVars
  BY <1>1 DEF browserVars, serverVars, boundVars, BrowserInv, BrowserTyped, OneLogin
<1>2. CASE BrowserUserActs
  BY <1>2, UserActsStep
<1>3. ASSUME NEW q \in wire,
             \/ SessionRefused(q) \/ MeAnswers(q) \/ InfoAnswers(q) \/ FormInfoAnswers(q)
             \/ OrgAnswers(q) \/ CallAnswers(q) \/ SwitchAnswers(q) \/ Switched(q)
             \/ GateAnswers(q) \/ SignAnswers(q) \/ VerifyAnswers(q) \/ TrialAnswers(q)
             \/ LicenseAnswers(q) \/ NoAnswer(q)
      PROVE  BrowserInv'
  BY <1>3, SessionAnswersStep, FormAnswersStep, NoAnswerStep
<1>4. ASSUME NEW t \in IssuedTokens, Expire(t) PROVE BrowserInv'
  BY <1>4, ExpireStep
<1> QED BY <1>1, <1>2, <1>3, <1>4 DEF BrowserNext

-----------------------------------------------------------------------------
(* The composition.                                                        *)

\* The parts share no state, and each keeps its own invariant.
TabsInv == Typed /\ CronsInv /\ BrowserInv

LEMMA TabsInvInit == TabsInit => TabsInv
BY TypedInit, CronsInvInit, BrowserInvInit DEF TabsInit, TabsInv

LEMMA TabsInvStep == TabsInv /\ [TabsNext]_tabsVars => TabsInv'
<1> SUFFICES ASSUME TabsInv, [TabsNext]_tabsVars PROVE TabsInv'
  OBVIOUS
<1>1. [OAuthNext]_oauthVars /\ [CronsNext]_cronVars /\ [BrowserNext]_browserVars
  BY DEF TabsNext, tabsVars
<1>2. Typed'
  BY <1>1, TypedNext DEF TabsInv
<1>3. CronsInv'
  BY <1>1, CronsInvStep DEF TabsInv
<1>4. BrowserInv'
  BY <1>1, BrowserInvStep DEF TabsInv
<1> QED BY <1>2, <1>3, <1>4 DEF TabsInv

LEMMA TabsInvHolds == TabsSpec => []TabsInv
BY TabsInvInit, TabsInvStep, PTL DEF TabsSpec

\* The tokens, the crons and the tab keep their types: a mail is not counted more
\* often than the cron ran, a batch not applied more often.
THEOREM TabsTyped == TabsSpec => []TabsTypeOK
<1>1. TabsInv => TabsTypeOK
  BY TypedIsTypeOK, CronsFromInv, BrowserFromInv DEF TabsInv, TabsTypeOK
<1> QED BY <1>1, TabsInvHolds, PTL

\* While runs of a cron neither overlap nor stop between an effect and its record,
\* every mail goes out once, one batch is in flight and its results are applied once.
THEOREM CronsDoItOnce == TabsSpec => []CronsActOnce
<1>1. TabsInv => CronsActOnce
  BY CronsFromInv DEF TabsInv
<1> QED BY <1>1, TabsInvHolds, PTL

\* Token, user and organization of a tab belong to one login, the one in its storage,
\* also after a refused or a lost answer, until me or the organization is answered
\* for another session than the one the tab has by then.
THEOREM TabIsOfOneLogin == TabsSpec => []SessionIsOfOneLogin
<1>1. TabsInv => SessionIsOfOneLogin
  BY BrowserFromInv DEF TabsInv
<1> QED BY <1>1, TabsInvHolds, PTL
=============================================================================
