------------------------------ MODULE Licensing ------------------------------
(***************************************************************************)
(* Licenses of organizations and what they allow:                          *)
(*   license/license.service.ts, license.controller.ts                     *)
(*   license/license-guard.service.ts         the caps of a trial          *)
(*   auth/auth.controller.ts, ensureCloudTrial                             *)
(* The licensing site is outside: it knows for every key whether it is     *)
(* valid, and gives one trial to an address.  License rows are not deleted. *)
(***************************************************************************)
EXTENDS Naturals, FiniteSets

CONSTANTS
  Tenants,         \* organizations, each with one address that asks for a trial
  TrialKeys, PaidKeys,
  NoLicense, NoTenant,
  Deskers,         \* requests under way at once
  Cap,             \* connectors of a trial
  MaxAsks,         \* bound: requests started
  MaxTurns         \* bound: changes at the licensing site

Keys == TrialKeys \union PaidKeys

ASSUME LicensingAssumption ==
  /\ {Cap, MaxAsks, MaxTurns} \subseteq Nat
  /\ IsFiniteSet(Keys) /\ NoLicense \notin Keys
  /\ IsFiniteSet(Deskers) /\ NoTenant \notin Tenants

License == [status : {"active", "refused"}, org : Tenants \union {NoTenant},
            at : 1..Cardinality(Keys)]

ASSUME NoLicenseAssumption == NoLicense \notin License

VARIABLES
  inCloud,       \* DEPLOYMENT_MODE = cloud
  truth,         \* the licensing site: is the key valid
  trialOf,       \* the licensing site: the address of a trial
  license,       \* the rows, by key
  pointer,       \* site_settings license_key
  made,          \* connectors of the organization
  ask,           \* requests under way
  asks, turns,   \* counters of the bounds
  told           \* history: the last answer about the key, and were answers applied in order

licensingVars == <<inCloud, truth, trialOf, license, pointer, made, ask, asks, turns, told>>

Rest        == [pc |-> "idle", org |-> NoTenant, key |-> NoLicense, valid |-> FALSE,
                then |-> "idle"]
Is(d, pc)   == ask[d].pc = pc
Rests(d)    == ask' = [ask EXCEPT ![d] = Rest]
Continues(d, r) == ask' = [ask EXCEPT ![d] = r]
Asks(d, r)  == Is(d, "idle") /\ asks < MaxAsks /\ asks' = asks + 1 /\ Continues(d, r)
Plan(k)     == IF k \in TrialKeys THEN "trial" ELSE "paid"
Rows        == {k \in Keys : license[k] # NoLicense}
Newest(ks)  == CHOOSE k \in ks : \A j \in ks : license[j].at <= license[k].at
Stamp       == Cardinality(Rows) + 1

\* Two requests about one key are under way: which answer is written last is open.
Tell(d, k, v) ==
  told' = [told EXCEPT ![k] = [valid |-> v,
             ordered |-> \A e \in Deskers \ {d} : ask[e].key # k]]
Untell(k)   == [told EXCEPT ![k].ordered = FALSE]

-----------------------------------------------------------------------------
(* Faulty variants of definitions below: bugs the properties must catch.   *)

\* A key that is refused keeps its status.
KeptVerdict(k, valid) ==
  IF valid THEN [license EXCEPT ![k].status = "active"] ELSE license

-----------------------------------------------------------------------------
\* getCurrentLicense: the newest active one of the organization; self-hosted,
\* else the one of the instance, else the newest that nobody has.
OfOrg(o)   == {k \in Rows : license[k].org = o /\ license[k].status = "active"}
Unassigned == {k \in Rows : license[k].org = NoTenant /\ license[k].status = "active"}

Current(o) ==
  IF OfOrg(o) # {} THEN Newest(OfOrg(o))
  ELSE IF inCloud THEN NoLicense
  ELSE IF pointer \in Rows THEN pointer
  ELSE IF Unassigned # {} THEN Newest(Unassigned)
  ELSE NoLicense

\* GET /license/status: a license nobody has is given to the one who asks.
Status(o) ==
  LET k == Current(o)
  IN /\ k # NoLicense /\ license[k].org = NoTenant
     /\ license' = [license EXCEPT ![k].org = o]
     /\ UNCHANGED <<inCloud, truth, trialOf, pointer, made, ask, asks, turns, told>>

-----------------------------------------------------------------------------
\* requestTrialLicense: POST /license/activate-trial, and after an address is
\* verified if the organization has no license yet (ensureCloudTrial).
AskTrial(d, o) ==
  /\ inCloud
  /\ Asks(d, [Rest EXCEPT !.pc = "trial", !.org = o])
  /\ UNCHANGED <<inCloud, truth, trialOf, license, pointer, made, turns, told>>

\* The site gives a key, or has given the address one already, or does not answer.
TrialAnswer(d, k) ==
  /\ Is(d, "trial") /\ k \in TrialKeys
  /\ \/ /\ trialOf[k] = NoTenant /\ \A j \in TrialKeys : trialOf[j] # ask[d].org
        /\ trialOf' = [trialOf EXCEPT ![k] = ask[d].org]
        /\ truth' = [truth EXCEPT ![k] = TRUE]
        /\ Tell(d, k, TRUE)
        /\ Continues(d, [ask[d] EXCEPT !.pc = "upsert", !.key = k, !.valid = TRUE])
     \/ Rests(d) /\ UNCHANGED <<truth, trialOf, told>>
  /\ UNCHANGED <<inCloud, license, pointer, made, asks, turns>>

\* The row is made or takes the organization; self-hosted it becomes the
\* instance's, whose write follows.
Upsert(d) ==
  /\ Is(d, "upsert")
  /\ LET k == ask[d].key
     IN license' = [license EXCEPT ![k] =
          [status |-> "active", org |-> ask[d].org,
           at |-> IF @ = NoLicense THEN Stamp ELSE @.at]]
  /\ IF inCloud THEN Rests(d) ELSE Continues(d, [ask[d] EXCEPT !.pc = "point"])
  /\ UNCHANGED <<inCloud, truth, trialOf, pointer, made, asks, turns, told>>

Point(d) ==
  /\ Is(d, "point")
  /\ pointer' = ask[d].key /\ Rests(d)
  /\ UNCHANGED <<inCloud, truth, trialOf, license, made, asks, turns, told>>

\* PUT /license/key: the key is verified, then stored.
SetKey(d, o, k) ==
  /\ Asks(d, [Rest EXCEPT !.pc = "verify", !.org = o, !.key = k, !.then = "upsert"])
  /\ told' = IF \E e \in Deskers \ {d} : ask[e].key = k THEN Untell(k) ELSE told
  /\ UNCHANGED <<inCloud, truth, trialOf, license, pointer, made, turns>>

\* POST /license/verify, and the check at start when the last one is a day old.
\* In the cloud the newest license of the organization, else the instance's.
VerifyKey(d, o) ==
  LET own == {k \in Rows : license[k].org = o}
      k   == IF ~inCloud THEN pointer
             ELSE IF own = {} THEN NoLicense ELSE Newest(own)
  IN /\ k # NoLicense
     /\ Asks(d, [Rest EXCEPT !.pc = "verify", !.org = o, !.key = k])
     /\ told' = IF \E e \in Deskers \ {d} : ask[e].key = k THEN Untell(k) ELSE told
     /\ UNCHANGED <<inCloud, truth, trialOf, license, pointer, made, turns>>

VerifyAnswer(d) ==
  /\ Is(d, "verify")
  /\ \/ /\ Tell(d, ask[d].key, truth[ask[d].key])
        /\ Continues(d, [ask[d] EXCEPT !.pc = "verdict", !.valid = truth[ask[d].key]])
     \/ Rests(d) /\ UNCHANGED told
  /\ UNCHANGED <<inCloud, truth, trialOf, license, pointer, made, asks, turns>>

\* The verdict is written, if there is a row.
Verdict(k, valid) ==
  [license EXCEPT ![k].status = IF valid THEN "active" ELSE "refused"]

WriteVerdict(d) ==
  /\ Is(d, "verdict")
  /\ LET k == ask[d].key
     IN license' = IF license[k] = NoLicense THEN license ELSE Verdict(k, ask[d].valid)
  /\ IF ask[d].valid /\ ask[d].then = "upsert"
     THEN Continues(d, [ask[d] EXCEPT !.pc = "upsert"]) ELSE Rests(d)
  /\ UNCHANGED <<inCloud, truth, trialOf, pointer, made, asks, turns, told>>

-----------------------------------------------------------------------------
\* checkCanCreateConnector: in the cloud a license is needed, a trial must not
\* have lapsed, and only a trial is capped.  Then the connector is made.
Lapsed(k) == k \in TrialKeys /\ ~truth[k]
Full(n)   == n >= Cap

CreateStart(d, o) ==
  /\ Asks(d, [Rest EXCEPT !.pc = "entitled", !.org = o])
  /\ UNCHANGED <<inCloud, truth, trialOf, license, pointer, made, turns, told>>

\* checkLicenseActive.
Entitled(d) ==
  /\ Is(d, "entitled")
  /\ LET k == Current(ask[d].org)
     IN IF inCloud /\ (k = NoLicense \/ Lapsed(k)) THEN Rests(d)
        ELSE Continues(d, [ask[d] EXCEPT !.pc = IF inCloud THEN "cap" ELSE "make"])
  /\ UNCHANGED <<inCloud, truth, trialOf, license, pointer, made, asks, turns, told>>

\* The license is read once more, and the connectors are counted.
Capped(d) ==
  /\ Is(d, "cap")
  /\ LET k == Current(ask[d].org)
     IN IF k \in TrialKeys /\ Full(made[ask[d].org]) THEN Rests(d)
        ELSE Continues(d, [ask[d] EXCEPT !.pc = "make"])
  /\ UNCHANGED <<inCloud, truth, trialOf, license, pointer, made, asks, turns, told>>

Make(d) ==
  /\ Is(d, "make")
  /\ made' = [made EXCEPT ![ask[d].org] = @ + 1]
  /\ Rests(d)
  /\ UNCHANGED <<inCloud, truth, trialOf, license, pointer, asks, turns, told>>

-----------------------------------------------------------------------------
\* A subscription ends or is paid again, a trial runs out.
Turn(k) ==
  /\ turns < MaxTurns /\ turns' = turns + 1
  /\ k \in PaidKeys \/ truth[k]
  /\ truth' = [truth EXCEPT ![k] = ~@]
  /\ UNCHANGED <<inCloud, trialOf, license, pointer, made, ask, asks, told>>

\* A write fails or the process restarts.
AskBreaks(d) ==
  /\ ~Is(d, "idle") /\ Rests(d)
  /\ told' = IF ask[d].key \in Keys THEN Untell(ask[d].key) ELSE told
  /\ UNCHANGED <<inCloud, truth, trialOf, license, pointer, made, asks, turns>>

\* A self-hosted instance may come with a license that nobody has, from before
\* there were organizations.
LicensingInit ==
  /\ inCloud \in BOOLEAN
  /\ truth = [k \in Keys |-> k \in PaidKeys]
  /\ trialOf = [k \in TrialKeys |-> NoTenant]
  /\ \E old \in IF inCloud THEN {{}} ELSE {{}} \union {{k} : k \in PaidKeys} :
       /\ license = [k \in Keys |-> IF k \notin old THEN NoLicense
                       ELSE [status |-> "active", org |-> NoTenant, at |-> 1]]
       /\ pointer \in old \union {NoLicense}
  /\ made = [o \in Tenants |-> 0]
  /\ ask = [d \in Deskers |-> Rest]
  /\ asks = 0 /\ turns = 0
  /\ told = [k \in Keys |-> [valid |-> TRUE, ordered |-> TRUE]]

LicensingNext ==
  \/ \E d \in Deskers :
       \/ \E o \in Tenants :
            \/ AskTrial(d, o) \/ VerifyKey(d, o) \/ CreateStart(d, o)
            \/ \E k \in Keys : SetKey(d, o, k)
       \/ \E k \in TrialKeys : TrialAnswer(d, k)
       \/ Upsert(d) \/ Point(d) \/ VerifyAnswer(d) \/ WriteVerdict(d)
       \/ Entitled(d) \/ Capped(d) \/ Make(d) \/ AskBreaks(d)
  \/ \E o \in Tenants : Status(o)
  \/ \E k \in Keys : Turn(k)

LicensingSpec == LicensingInit /\ [][LicensingNext]_licensingVars

-----------------------------------------------------------------------------
(* Properties.                                                             *)

\* Every variable has its type.
LicensingTypeOK ==
  /\ license \in [Keys -> License \union {NoLicense}]
  /\ \A j, k \in Rows : j # k => license[j].at # license[k].at
  /\ pointer \in Keys \union {NoLicense}
  /\ made \in [Tenants -> 0..MaxAsks] /\ asks \in 0..MaxAsks /\ turns \in 0..MaxTurns

\* A row tells what the licensing site last answered about its key, when no two
\* requests about the key overlapped and none stopped half way; and the key of
\* the instance has a row, in the cloud there is none.
RowTellsVerdict ==
  /\ \A k \in Rows :
       told[k].ordered /\ (\A d \in Deskers : ask[d].key # k) =>
         (license[k].status = "active") = told[k].valid
  /\ IF inCloud THEN pointer = NoLicense ELSE pointer \in Rows \union {NoLicense}
=============================================================================
