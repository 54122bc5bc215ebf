------------------------------ MODULE KgSkills ------------------------------
(***************************************************************************)
(* Skills: rules for the agent that a model suggests from the users'        *)
(* intents and that an admin activates (knowledge-graph/                    *)
(* kg-skill.service.ts).  A skill is of a server, of a connector, or of     *)
(* neither.  A request that asks the model waits for it, and people go on   *)
(* editing meanwhile; the model may answer anything.                        *)
(***************************************************************************)
EXTENDS FiniteSets, Naturals

CONSTANTS
  Skills,          \* ids of rows
  Rules,           \* what a skill may say
  SkillServers,
  SkillConnectors,
  Workspace,       \* the scope of the skills of no server, and the place of one of no connector
  NoSkill,
  Askers,          \* requests under way at once, the cron's among them
  MaxItems,        \* bound: items the model is asked for (6 in the prompt)
  MaxEdits,        \* bound: requests of people
  MaxAsked         \* bound: requests to the model

ASSUME SkillsAssumption ==
  /\ MaxItems \in Nat /\ MaxEdits \in Nat /\ MaxAsked \in Nat /\ IsFiniteSet(Skills)
  /\ SkillServers \intersect SkillConnectors = {}
  /\ Workspace \notin SkillServers \union SkillConnectors

SkillPlaces == SkillServers \union SkillConnectors \union {Workspace}
Statuses    == {"pending", "applied", "dismissed"}
Skill       == [place : SkillPlaces, rules : (SUBSET Rules) \ {{}}, status : Statuses]

ASSUME NoSkillAssumption == NoSkill \notin Skill

VARIABLES
  skills,      \* kg_skill_suggestions
  live,        \* servers and connectors that exist
  autoApply,   \* org_settings kg_skill_auto_apply
  asker,       \* requests under way
  edits, asked,   \* counters of the bounds
  approved,    \* history: rules somebody, or the switch, made active in a place
  answered     \* history: rules a merge made active in a scope

skillsVars == <<skills, live, autoApply, asker, edits, asked, approved, answered>>

Resting == [pc |-> "idle", scope |-> Workspace, auto |-> FALSE, left |-> 0, seen |-> 0]

\* Requests to the model are for the skills of a server, or for all of no server.
ScopeOf(place) == IF place \in SkillServers THEN place ELSE Workspace
Scopes == SkillServers \union {Workspace}

\* Where a skill of the scope can be: a foreign key needs its row.
OpenIn(scope) == {place \in live \union {Workspace} : ScopeOf(place) = scope}

In(scope, status) ==
  {k \in Skills : /\ skills[k] # NoSkill
                  /\ ScopeOf(skills[k].place) = scope /\ skills[k].status = status}

RulesIn(K)  == UNION {skills[k].rules : k \in K}
DroppingRows(K)  == [k \in Skills |-> IF k \in K THEN NoSkill ELSE skills[k]]
Approve(R, place) == approved' = approved \union (R \X {place}) /\ UNCHANGED answered

Step(j, pc)   == asker' = [asker EXCEPT ![j].pc = pc]
Done(j)       == asker' = [asker EXCEPT ![j] = Resting]

-----------------------------------------------------------------------------
(* Faulty variants of definitions below: bugs the properties must catch.   *)

\* A sure suggestion is active whatever the switch says.
StatusOfSure(auto, sure) == IF sure THEN "applied" ELSE "pending"

\* The model is shown the suggestions too.
ShownAll(scope) == In(scope, "applied") \union In(scope, "pending")

-----------------------------------------------------------------------------
(* Requests of people.                                                     *)

Edits == edits < MaxEdits /\ edits' = edits + 1

\* create: live at once, a deliberately written rule needs no review.
create(k, r, place, status) ==
  /\ Edits /\ skills[k] = NoSkill
  /\ place \in live \union {Workspace}
  /\ skills' = [skills EXCEPT ![k] = [place |-> place, rules |-> {r}, status |-> status]]
  /\ Approve(IF status = "applied" THEN {r} ELSE {}, place)
  /\ UNCHANGED <<live, autoApply, asker, asked>>

\* apply, dismiss, and update with a status.
setStatus(k, status) ==
  /\ Edits /\ skills[k] # NoSkill
  /\ skills' = [skills EXCEPT ![k].status = status]
  /\ Approve(IF status = "applied" THEN skills[k].rules ELSE {}, skills[k].place)
  /\ UNCHANGED <<live, autoApply, asker, asked>>

\* update with a text: what an active skill says is what was typed.
update(k, r) ==
  /\ Edits /\ skills[k] # NoSkill
  /\ skills' = [skills EXCEPT ![k].rules = {r}]
  /\ Approve(IF skills[k].status = "applied" THEN {r} ELSE {}, skills[k].place)
  /\ UNCHANGED <<live, autoApply, asker, asked>>

remove(k) ==
  /\ Edits /\ skills[k] # NoSkill
  /\ skills' = DroppingRows({k})
  /\ UNCHANGED <<live, autoApply, asker, asked, approved, answered>>

\* The foreign key of a server or connector that is deleted is set to null, and
\* what was active there is active still.
PlaceDeleted(place) ==
  /\ Edits /\ place \in live
  /\ live' = live \ {place}
  /\ LET there == {k \in Skills : skills[k] # NoSkill /\ skills[k].place = place}
     IN /\ skills' = [k \in Skills |-> IF k \in there THEN [skills[k] EXCEPT !.place = Workspace]
                                                    ELSE skills[k]]
        /\ Approve(RulesIn({k \in there : skills[k].status = "applied"}), Workspace)
  /\ UNCHANGED <<autoApply, asker, asked>>

SwitchAutoApply ==
  /\ Edits /\ autoApply' = ~autoApply
  /\ UNCHANGED <<skills, live, asker, asked, approved, answered>>

-----------------------------------------------------------------------------
(* generate: the request, or the cron's batch hours later.                 *)

\* Where AI is off nothing starts.  The answer has any number of items.
Generate(j, scope) ==
  /\ asker[j].pc = "idle" /\ asked < MaxAsked /\ asked' = asked + 1
  /\ OpenIn(scope) # {}
  /\ \E n \in 0..MaxItems :
       asker' = [asker EXCEPT ![j] =
         [Resting EXCEPT !.pc = IF scope = Workspace THEN "switch" ELSE "clear",
                         !.scope = scope, !.left = n]]
  /\ UNCHANGED <<skills, live, autoApply, edits, approved, answered>>

\* The switch is read before the old suggestions go (connectors) or after (server).
ReadSwitch(j) ==
  /\ asker[j].pc = "switch"
  /\ asker' = [asker EXCEPT ![j].auto = autoApply,
                            ![j].pc = IF asker[j].scope = Workspace THEN "clear" ELSE "insert"]
  /\ UNCHANGED <<skills, live, autoApply, edits, asked, approved, answered>>

Clear(j) ==
  /\ asker[j].pc = "clear"
  /\ skills' = DroppingRows(In(asker[j].scope, "pending"))
  /\ Step(j, IF asker[j].scope = Workspace THEN "insert" ELSE "switch")
  /\ UNCHANGED <<live, autoApply, edits, asked, approved, answered>>

StatusOf(auto, sure) == IF auto /\ sure THEN "applied" ELSE "pending"

\* insertSkill: an item without title or instruction is skipped.  The model names the
\* connector a suggestion of no server is for.
InsertSkill(j, k, r, sure, place) ==
  /\ asker[j].pc = "insert" /\ asker[j].left > 0
  /\ place \in OpenIn(asker[j].scope)
  /\ skills[k] = NoSkill
  /\ skills' = [skills EXCEPT ![k] =
       [place |-> place, rules |-> {r}, status |-> StatusOf(asker[j].auto, sure)]]
  /\ Approve(IF asker[j].auto /\ sure THEN {r} ELSE {}, place)
  /\ asker' = [asker EXCEPT ![j].left = @ - 1]
  /\ UNCHANGED <<live, autoApply, edits, asked>>

SkipItem(j) ==
  /\ asker[j].pc = "insert" /\ asker[j].left > 0
  /\ asker' = [asker EXCEPT ![j].left = @ - 1]
  /\ UNCHANGED <<skills, live, autoApply, edits, asked, approved, answered>>

Generated(j) ==
  /\ asker[j].pc = "insert" /\ asker[j].left = 0 /\ Done(j)
  /\ UNCHANGED <<skills, live, autoApply, edits, asked, approved, answered>>

-----------------------------------------------------------------------------
(* consolidate: the active skills of a scope, merged by the model.         *)

Shown(scope) == In(scope, "applied")

\* Fewer than two leave nothing to merge.
Consolidate(j, scope) ==
  /\ asker[j].pc = "idle" /\ asked < MaxAsked /\ asked' = asked + 1
  /\ OpenIn(scope) # {}
  /\ Cardinality(Shown(scope)) >= 2
  /\ asker' = [asker EXCEPT ![j] =
       [Resting EXCEPT !.pc = "merge", !.scope = scope, !.seen = Cardinality(Shown(scope))]]
  /\ UNCHANGED <<skills, live, autoApply, edits, approved, answered>>

\* No item, or as many as there were: nothing is replaced.
MergeRefused(j) ==
  /\ asker[j].pc = "merge" /\ Done(j)
  /\ UNCHANGED <<skills, live, autoApply, edits, asked, approved, answered>>

\* The transaction: every skill of the scope that is active by now goes, the items
\* that have a title and an instruction come.  What they say, and the connector they
\* are for, is what the model answered.
Merge(j, merged, items) ==
  /\ asker[j].pc = "merge"
  /\ items \in 1..(asker[j].seen - 1) /\ Cardinality(merged) <= items
  /\ LET freed == DroppingRows(In(asker[j].scope, "applied"))
     IN \E says \in [merged -> (SUBSET Rules) \ {{}}], place \in [merged -> OpenIn(asker[j].scope)] :
          /\ \A k \in merged : freed[k] = NoSkill
          /\ skills' = [k \in Skills |->
               IF k \in merged
               THEN [place |-> place[k], rules |-> says[k], status |-> "applied"]
               ELSE freed[k]]
          /\ answered' = answered \union ((UNION {says[k] : k \in merged}) \X {asker[j].scope})
  /\ Done(j)
  /\ UNCHANGED <<live, autoApply, edits, asked, approved>>

\* The model or a query fails, a server is gone, or the process restarts.
AskFails(j) ==
  /\ asker[j].pc # "idle" /\ Done(j)
  /\ UNCHANGED <<skills, live, autoApply, edits, asked, approved, answered>>

-----------------------------------------------------------------------------
SkillsInit ==
  /\ skills = [k \in Skills |-> NoSkill]
  /\ live = SkillServers \union SkillConnectors /\ autoApply = FALSE
  /\ asker = [j \in Askers |-> Resting]
  /\ edits = 0 /\ asked = 0 /\ approved = {} /\ answered = {}

SkillsNext ==
  \/ \E k \in Skills, r \in Rules :
       \/ \E place \in SkillPlaces, status \in Statuses : create(k, r, place, status)
       \/ update(k, r)
       \/ \E j \in Askers, sure \in BOOLEAN, place \in SkillPlaces : InsertSkill(j, k, r, sure, place)
  \/ \E k \in Skills : remove(k) \/ \E status \in Statuses : setStatus(k, status)
  \/ \E place \in SkillServers \union SkillConnectors : PlaceDeleted(place)
  \/ SwitchAutoApply
  \/ \E j \in Askers :
       \/ ReadSwitch(j) \/ Clear(j) \/ SkipItem(j) \/ Generated(j)
       \/ MergeRefused(j) \/ AskFails(j)
       \/ \E scope \in Scopes : Generate(j, scope) \/ Consolidate(j, scope)
       \/ \E merged \in SUBSET Skills, items \in 1..MaxItems : Merge(j, merged, items)

SkillsSpec == SkillsInit /\ [][SkillsNext]_skillsVars

-----------------------------------------------------------------------------
(* Properties.                                                             *)

\* Every variable has its type.
SkillsTypeOK ==
  /\ skills \in [Skills -> Skill \union {NoSkill}]
  /\ live \subseteq SkillServers \union SkillConnectors /\ autoApply \in BOOLEAN
  /\ edits \in 0..MaxEdits /\ asked \in 0..MaxAsked
  /\ approved \subseteq Rules \X SkillPlaces /\ answered \subseteq Rules \X Scopes

\* Something was made active in the scope, by a person or by the switch.
SomeApproved(scope) ==
  \E r \in Rules, place \in SkillPlaces : ScopeOf(place) = scope /\ <<r, place>> \in approved

\* Where the rules an agent follows come from, however the model and the people's
\* edits interleave: what an active skill says was activated or written in its place
\* by a person, or by the switch for a suggestion the model was sure of; or it stands
\* in the answer to a merge, which is applied unread, and then of skills of a scope
\* where something had been approved.  That answer may have a rule nobody wrote, or
\* one dismissed while the model was busy, though consolidate is said to never
\* "silently activate or revive anything".
ActiveRulesWereApproved ==
  /\ \A k \in Skills : skills[k] # NoSkill /\ skills[k].status = "applied" =>
       \A r \in skills[k].rules :
         <<r, skills[k].place>> \in approved \/ <<r, ScopeOf(skills[k].place)>> \in answered
  /\ \A r \in Rules, scope \in Scopes : <<r, scope>> \in answered => SomeApproved(scope)

\* "Never let a bad/empty model response wipe live skills": a merge, whatever the
\* model answered, leaves its scope an active skill.
LiveSkillsNotWiped ==
  [][\A j \in Askers, scope \in Scopes :
       /\ asker[j].pc = "merge" /\ asker[j].scope = scope /\ asker'[j].pc = "idle"
       /\ Shown(scope) # {}
       => Shown(scope)' # {}]_skillsVars
=============================================================================
