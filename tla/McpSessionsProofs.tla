-------------------------- MODULE McpSessionsProofs --------------------------
(***************************************************************************)
(* Theorems about McpSessions, for any number of servers, principals,      *)
(* sessions, rebuilds and changes: types, the cap and the index of the     *)
(* session table, that the table implements SessionTable, and that settled *)
(* sessions show what a new one would.  The steps of the registry are      *)
(* those of ToolRegistry, whose proofs are used here.                      *)
(***************************************************************************)
EXTENDS McpSessions, ToolRegistryProofs

(* The types, by the part of the state they speak of, and the one fact     *)
(* they need: only a session that is or was live is rebuilt.               *)

SessionRecords ==
  [pc : {"unused", "asked", "conns", "tools", "planned", "live", "closed", "failed"},
   server : Servers \union {NoServer}, owner : Principals \union {NoPrincipal},
   conns : SUBSET Connectors, rows : Rows, shown : SUBSET Names]

RebuildRecords ==
  [pc : {"idle", "asked", "conns", "tools", "planned"}, conns : SUBSET Connectors,
   rows : Rows, plan : SUBSET Names, alone : BOOLEAN]

TableTyped ==
  /\ server \in [Servers -> {"active", "inactive", "deleted"}]
  /\ assigned \in [Servers -> SUBSET Connectors]
  /\ assigning \subseteq Servers
  /\ allowed \in [Principals -> SUBSET Tools]
  /\ changes \in 0 .. MaxChanges

Bound(session) ==
  /\ session.pc \in {"unused", "failed"} <=> session.server = NoServer
  /\ session.pc \in {"unused", "failed"} <=> session.owner = NoPrincipal

SessTyped ==
  /\ sess \in [Sessions -> SessionRecords]
  /\ \A s \in Sessions : Bound(sess[s])
  /\ byServer \in [Servers -> SUBSET Sessions]

RebuildsTyped ==
  /\ rebuilds \in [Sessions -> [Slots -> RebuildRecords]]
  /\ \A s \in Sessions : \A k \in Slots :
       rebuilds[s][k].pc # "idle" => sess[s].pc \in {"live", "closed"}
  /\ behind \subseteq Sessions

SessionsTyped == RegistryTypeOK /\ TableTyped /\ SessTyped /\ RebuildsTyped

-----------------------------------------------------------------------------
(* Types.                                                                  *)

\* SessionsTyped is the stronger form of SessionsTypeOK.
LEMMA TypedIsTypeOK == SessionsTyped => SessionsTypeOK
BY DEF SessionsTyped, SessionsTypeOK, TableTyped, SessTyped, RebuildsTyped,
       SessionRecords, RebuildRecords, Bound

\* Every step of the sessions is a step of the registry or leaves it alone.
LEMMA RegistrySteps == [Next]_vars => [RegistryNext]_registryVars
BY DEF Next, vars, RegistryNext, AdminWrite, AdminRemove, AdminReload, AdminReloadFail,
       AdminReloadFinish, AssignConnectors, AnnounceAssignment, SwitchServer,
       DeleteServer, SetToolAccess, OpenAsk, OpenConns, OpenTools, OpenPlan, OpenAdd,
       OpenFail, CloseByClient, SweepIdle, RebuildConns, RebuildTools, RebuildPlan,
       RebuildCommit, RebuildFail, RestartProcess

\* The records that are written into sessions and rebuilds have their types.
LEMMA EmptyRecords ==
  /\ NoRows \in Rows
  /\ Unused \in SessionRecords /\ Bound(Unused)
  /\ [Unused EXCEPT !.pc = "failed"] \in SessionRecords
  /\ Bound([Unused EXCEPT !.pc = "failed"])
  /\ NoRebuild \in RebuildRecords
<1>1. NoRows \in Rows
  BY DEF Rows, NoRows, NamesOrNone
<1> QED
  BY <1>1 DEF Unused, NoRebuild, SessionRecords, RebuildRecords, Bound

\* What sessions and rebuilds read has its type.
LEMMA ReadsTyped ==
  ASSUME RegistryTypeOK
  PROVE  /\ \A C : RegisteredRows(C) \in Rows
         /\ \A rows, T : Plan(rows, T) \subseteq Names
         /\ \A shown, plan \in SUBSET Names : Reconciled(shown, plan) \subseteq Names
BY DEF RegistryTypeOK, RegisteredRows, Rows, NamesOrNone, Plan, Reconciled

\* The service starts with empty sessions.
LEMMA SessionsTypedInit == SessionsInit => SessionsTyped
<1> SUFFICES ASSUME SessionsInit PROVE SessionsTyped
  OBVIOUS
<1>1. RegistryTypeOK
  BY EmptyRecords, RegistryAssumption
     DEF SessionsInit, RegistryTypeOK, RegistryAssumption, Rows, NamesOrNone, Existing,
         Idle, NoRows, IndexOfIds
<1>2. TableTyped
  BY SessionsAssumption DEF SessionsInit, TableTyped, SessionsAssumption
<1>3. SessTyped
  BY EmptyRecords DEF SessionsInit, SessTyped
<1>4. RebuildsTyped
  BY EmptyRecords DEF SessionsInit, RebuildsTyped, NoRebuild
<1> QED BY <1>1, <1>2, <1>3, <1>4 DEF SessionsTyped

\* A rebuild that is not alone any more is otherwise what it was.
LEMMA NotAlone ==
  ASSUME NEW r \in RebuildRecords
  PROVE  /\ [r EXCEPT !.alone = FALSE] \in RebuildRecords
         /\ [r EXCEPT !.alone = FALSE].pc = r.pc
BY DEF RebuildRecords

\* An announcement starts rebuilds of live sessions only.
LEMMA NotifyTyped ==
  ASSUME RebuildsTyped, Notify, sess' = sess
  PROVE  RebuildsTyped'
<1>1. ASSUME NEW s \in Sessions
      PROVE  WithRebuild(s) \in [Slots -> RebuildRecords]
  <2>1. \A b \in BOOLEAN :
          [NoRebuild EXCEPT !.pc = "asked", !.alone = b] \in RebuildRecords
    BY EmptyRecords DEF NoRebuild, RebuildRecords
  <2>2. \A k \in Slots : [rebuilds[s][k] EXCEPT !.alone = FALSE] \in RebuildRecords
    BY NotAlone DEF RebuildsTyped
  <2> QED BY <2>1, <2>2, Zenon DEF WithRebuild
<1>2. rebuilds' \in [Sessions -> [Slots -> RebuildRecords]]
  BY <1>1 DEF Notify, RebuildsTyped
<1>3. \A s \in Sessions : s \in Live \/ rebuilds'[s] = rebuilds[s]
  BY DEF Notify
<1> QED BY <1>2, <1>3 DEF Notify, RebuildsTyped, Live, HasRead, Opening

\* A change nobody announces starts none.
LEMMA UnannouncedTyped ==
  ASSUME RebuildsTyped, NEW S, Unannounced(S), sess' = sess
  PROVE  RebuildsTyped'
<1>1. \A s \in Sessions : \A k \in Slots :
        /\ [rebuilds[s][k] EXCEPT !.alone = FALSE] \in RebuildRecords
        /\ [rebuilds[s][k] EXCEPT !.alone = FALSE].pc = rebuilds[s][k].pc
  BY NotAlone DEF RebuildsTyped
<1>2. rebuilds' \in [Sessions -> [Slots -> RebuildRecords]]
  BY <1>1 DEF Unannounced, RebuildsTyped
<1>3. \A s \in Sessions : \A k \in Slots : rebuilds'[s][k].pc = rebuilds[s][k].pc
  BY <1>1 DEF Unannounced
<1> QED BY <1>2, <1>3 DEF Unannounced, RebuildsTyped, Live, HasRead, Opening

\* Closing sessions keeps their binding and their rebuilds.
LEMMA ClosedTyped ==
  ASSUME SessTyped, NEW out \in SUBSET Live
  PROVE  /\ Closed(out) \in [Sessions -> SessionRecords]
         /\ \A s \in Sessions : /\ Bound(Closed(out)[s])
                                /\ Closed(out)[s].server = sess[s].server
                                /\ Closed(out)[s].owner = sess[s].owner
         /\ \A s \in Sessions : IF s \in out THEN Closed(out)[s].pc = "closed"
                                ELSE Closed(out)[s] = sess[s]
         /\ IndexWithoutClosed(out) \in [Servers -> SUBSET Sessions]
<1>1. \A s \in Sessions : s \in out =>
        LET r == [sess[s] EXCEPT !.pc = "closed", !.conns = {}, !.shown = {}]
        IN  /\ r \in SessionRecords /\ Bound(r) /\ r.pc = "closed"
            /\ r.server = sess[s].server /\ r.owner = sess[s].owner
  BY DEF SessTyped, SessionRecords, Bound, Live
<1> QED BY <1>1 DEF Closed, IndexWithoutClosed, SessTyped

\* Every action keeps the types of the sessions.
LEMMA SessTypedStep ==
  ASSUME SessionsTyped, Next
  PROVE  SessTyped'
<1> USE DEF SessionsTyped
<1>1. CASE UNCHANGED <<sess, byServer>>
  BY <1>1 DEF SessTyped
<1>2. ASSUME NEW s \in Sessions, NEW v \in Servers, NEW p \in Principals, OpenAsk(s, v, p)
      PROVE  SessTyped'
  BY <1>2, SessionsAssumption
     DEF OpenAsk, SessTyped, SessionRecords, Bound, SessionsAssumption
<1>3. ASSUME NEW s \in Sessions, OpenConns(s) PROVE SessTyped'
  <2>1. sess[s].server \in Servers
    BY <1>3, SessionsAssumption
       DEF OpenConns, SessTyped, SessionRecords, Bound, SessionsAssumption
  <2>2. assigned[sess[s].server] \in SUBSET Connectors
    BY <2>1 DEF TableTyped
  <2> DEFINE r == [sess[s] EXCEPT !.pc = "conns", !.conns = assigned[sess[s].server]]
  <2>3. r \in SessionRecords /\ Bound(r)
    BY <1>3, <2>2 DEF OpenConns, SessTyped, SessionRecords, Bound
  <2>4. sess' = [sess EXCEPT ![s] = r] /\ byServer' = byServer
    BY <1>3 DEF OpenConns, SessTyped, SessionRecords
  <2> QED BY <2>3, <2>4 DEF SessTyped
<1>4. ASSUME NEW s \in Sessions, OpenTools(s) PROVE SessTyped'
  <2> DEFINE r == [sess[s] EXCEPT !.pc = "tools", !.conns = {},
                                  !.rows = RegisteredRows(sess[s].conns)]
  <2>1. r \in SessionRecords /\ Bound(r)
    BY <1>4, ReadsTyped DEF OpenTools, SessTyped, SessionRecords, Bound
  <2>2. sess' = [sess EXCEPT ![s] = r] /\ byServer' = byServer
    BY <1>4 DEF OpenTools, SessTyped, SessionRecords
  <2> QED BY <2>1, <2>2 DEF SessTyped
<1>5. ASSUME NEW s \in Sessions, OpenPlan(s) PROVE SessTyped'
  <2> DEFINE r == [sess[s] EXCEPT !.pc = "planned", !.rows = NoRows,
                      !.shown = Plan(sess[s].rows, allowed[sess[s].owner])]
  <2>1. r \in SessionRecords /\ Bound(r)
    BY <1>5, ReadsTyped, EmptyRecords DEF OpenPlan, SessTyped, SessionRecords, Bound
  <2>2. sess' = [sess EXCEPT ![s] = r] /\ byServer' = byServer
    BY <1>5 DEF OpenPlan, SessTyped, SessionRecords
  <2> QED BY <2>1, <2>2 DEF SessTyped
<1>6. ASSUME NEW s \in Sessions, OpenAdd(s) PROVE SessTyped'
  <2>1. PICK out \in Evicted(s) :
          /\ sess' = [Closed(out) EXCEPT ![s].pc = "live"]
          /\ byServer' = [IndexWithoutClosed(out) EXCEPT ![sess[s].server] = @ \union {s}]
    BY <1>6 DEF OpenAdd
  <2>2. out \in SUBSET Live
    BY DEF Evicted
  <2>3. Closed(out)[s] = sess[s] /\ sess[s].pc = "planned"
    BY <1>6, <2>2, ClosedTyped DEF OpenAdd, Live
  <2>4. /\ [sess[s] EXCEPT !.pc = "live"] \in SessionRecords
        /\ Bound([sess[s] EXCEPT !.pc = "live"])
    BY <2>3 DEF SessTyped, SessionRecords, Bound
  <2>5. sess' = [Closed(out) EXCEPT ![s] = [sess[s] EXCEPT !.pc = "live"]]
    BY <2>1, <2>2, <2>3, ClosedTyped
  <2>6. sess' \in [Sessions -> SessionRecords] /\ \A u \in Sessions : Bound(sess'[u])
    BY <2>2, <2>4, <2>5, ClosedTyped
  <2>7. byServer' \in [Servers -> SUBSET Sessions]
    <3>1. IndexWithoutClosed(out) \in [Servers -> SUBSET Sessions]
      BY <2>2, ClosedTyped
    <3>2. \A index \in [Servers -> SUBSET Sessions], v \in Servers :
            [index EXCEPT ![v] = @ \union {s}] \in [Servers -> SUBSET Sessions]
      OBVIOUS
    <3>3. sess[s].server \in Servers
      BY <2>3 DEF SessTyped, SessionRecords, Bound
    <3> QED BY <2>1, <3>1, <3>2, <3>3, Zenon
  <2> QED BY <2>6, <2>7 DEF SessTyped
<1>7. ASSUME NEW s \in Sessions, OpenFail(s) PROVE SessTyped'
  BY <1>7, EmptyRecords DEF OpenFail, SessTyped
<1>8. ASSUME NEW out \in SUBSET Live, Remove(out) PROVE SessTyped'
  BY <1>8, ClosedTyped DEF Remove, SessTyped
<1>9. ASSUME NEW s \in Sessions, NEW k \in Slots, RebuildCommit(s, k) PROVE SessTyped'
  <2>1. rebuilds[s][k].plan \subseteq Names /\ sess[s].shown \subseteq Names
    BY DEF RebuildsTyped, RebuildRecords, SessTyped, SessionRecords
  <2>2. Reconciled(sess[s].shown, rebuilds[s][k].plan) \subseteq Names
    BY <2>1, ReadsTyped
  <2> QED BY <1>9, <2>2 DEF RebuildCommit, SessTyped, SessionRecords, Bound
<1>10. ASSUME RestartProcess PROVE SessTyped'
  <2>1. Live \in SUBSET Live
    OBVIOUS
  <2>2. \A s \in Sessions :
          \/ sess'[s] = Closed(Live)[s]
          \/ sess'[s] = [Unused EXCEPT !.pc = "failed"]
          \/ sess'[s] = sess[s]
    BY <1>10 DEF RestartProcess
  <2>3. \A s \in Sessions : sess'[s] \in SessionRecords /\ Bound(sess'[s])
    BY <2>1, <2>2, ClosedTyped, EmptyRecords DEF SessTyped
  <2> QED BY <1>10, <2>3 DEF RestartProcess, SessTyped
<1>11. CASE AdminWrite \/ AdminRemove \/ AdminReload \/ AdminReloadFail \/ AdminReloadFinish
  BY <1>1, <1>11 DEF AdminWrite, AdminRemove, AdminReload, AdminReloadFail,
                     AdminReloadFinish, sessionVars
<1>12. CASE \/ \E v \in Servers, C \in SUBSET Connectors : AssignConnectors(v, C)
            \/ \E v \in Servers : AnnounceAssignment(v)
            \/ \E v \in Servers, state \in {"active", "inactive"} : SwitchServer(v, state)
            \/ \E v \in Servers : DeleteServer(v)
            \/ \E p \in Principals, T \in SUBSET Tools : SetToolAccess(p, T)
  BY <1>1, <1>12 DEF AssignConnectors, AnnounceAssignment, SwitchServer, DeleteServer,
                     SetToolAccess
<1>13. CASE \E s \in Sessions, k \in Slots :
              RebuildConns(s, k) \/ RebuildTools(s, k) \/ RebuildPlan(s, k) \/ RebuildFail(s, k)
  BY <1>1, <1>13 DEF RebuildConns, RebuildTools, RebuildPlan, RebuildFail
<1>14. CASE \/ \E s \in Sessions, v \in Servers, p \in Principals : CloseByClient(s, v, p)
            \/ \E out \in SUBSET Live : SweepIdle(out)
  BY <1>8, <1>14 DEF CloseByClient, SweepIdle
<1> QED
  BY <1>2, <1>3, <1>4, <1>5, <1>6, <1>7, <1>9, <1>10, <1>11, <1>12, <1>13, <1>14 DEF Next

\* Every action keeps the types of the rebuilds.
LEMMA RebuildsTypedStep ==
  ASSUME SessionsTyped, Next
  PROVE  RebuildsTyped'
<1> USE DEF SessionsTyped
<1>1. ASSUME UNCHANGED <<rebuilds, behind>>,
             \A s \in Sessions : sess[s].pc \in {"live", "closed"}
                                 => sess'[s].pc \in {"live", "closed"}
      PROVE  RebuildsTyped'
  BY <1>1 DEF RebuildsTyped
<1>2. ASSUME NEW s \in Sessions, NEW k \in Slots, NEW r \in RebuildRecords,
             RebuildStep(s, k, r), UNCHANGED sess, behind' \subseteq Sessions,
             r.pc # "idle" => rebuilds[s][k].pc # "idle"
      PROVE  RebuildsTyped'
  <2>1. rebuilds' = [rebuilds EXCEPT ![s] = [rebuilds[s] EXCEPT ![k] = r]]
    BY <1>2 DEF RebuildStep, RebuildsTyped
  <2>2. [rebuilds[s] EXCEPT ![k] = r] \in [Slots -> RebuildRecords]
    BY DEF RebuildsTyped
  <2>3. rebuilds' \in [Sessions -> [Slots -> RebuildRecords]]
    BY <2>1, <2>2 DEF RebuildsTyped
  <2>4. \A u \in Sessions : \A j \in Slots :
          rebuilds'[u][j].pc # "idle" => rebuilds[u][j].pc # "idle"
    BY <1>2, <2>1 DEF RebuildsTyped
  <2> QED BY <1>2, <2>3, <2>4 DEF RebuildsTyped
<1>3. ASSUME NEW s \in Sessions, NEW k \in Slots, rebuilds[s][k].pc # "idle"
      PROVE  sess[s].server \in Servers /\ sess[s].owner \in Principals
  BY <1>3 DEF RebuildsTyped, SessTyped, SessionRecords, Bound
<1>4. ASSUME NEW s \in Sessions, NEW k \in Slots, RebuildConns(s, k) PROVE RebuildsTyped'
  <2> DEFINE r == [rebuilds[s][k] EXCEPT !.pc = "conns", !.conns = assigned[sess[s].server]]
  <2>1. assigned[sess[s].server] \in SUBSET Connectors
    BY <1>3, <1>4 DEF RebuildConns, TableTyped
  <2>2. rebuilds[s][k] \in RebuildRecords
    BY DEF RebuildsTyped
  <2>3. r \in RebuildRecords /\ rebuilds[s][k].pc # "idle"
    <3>1. rebuilds[s][k].pc # "idle"
      BY <1>4 DEF RebuildConns
    <3> QED BY <2>1, <2>2, <3>1 DEF RebuildRecords
  <2>4. RebuildStep(s, k, r) /\ UNCHANGED <<sess, behind>>
    BY <1>4 DEF RebuildConns
  <2> QED BY <1>2, <2>3, <2>4 DEF RebuildsTyped
<1>5. ASSUME NEW s \in Sessions, NEW k \in Slots, RebuildTools(s, k) PROVE RebuildsTyped'
  <2> DEFINE r == [rebuilds[s][k] EXCEPT !.pc = "tools", !.conns = {},
                                         !.rows = RegisteredRows(rebuilds[s][k].conns)]
  <2>1. rebuilds[s][k] \in RebuildRecords
    BY DEF RebuildsTyped
  <2>2. r \in RebuildRecords /\ rebuilds[s][k].pc # "idle"
    <3>1. rebuilds[s][k].pc # "idle"
      BY <1>5 DEF RebuildTools
    <3> QED BY <2>1, ReadsTyped, <3>1 DEF RebuildRecords
  <2>3. RebuildStep(s, k, r) /\ UNCHANGED <<sess, behind>>
    BY <1>5 DEF RebuildTools
  <2> QED BY <1>2, <2>2, <2>3 DEF RebuildsTyped
<1>6. ASSUME NEW s \in Sessions, NEW k \in Slots, RebuildPlan(s, k) PROVE RebuildsTyped'
  <2> DEFINE r == [rebuilds[s][k] EXCEPT !.pc = "planned", !.rows = NoRows,
                     !.plan = Plan(rebuilds[s][k].rows, allowed[sess[s].owner])]
  <2>1. rebuilds[s][k] \in RebuildRecords
    BY DEF RebuildsTyped
  <2>2. r \in RebuildRecords /\ rebuilds[s][k].pc # "idle"
    <3>1. rebuilds[s][k].pc # "idle"
      BY <1>6 DEF RebuildPlan
    <3> QED BY <2>1, ReadsTyped, EmptyRecords, <3>1 DEF RebuildRecords
  <2>3. RebuildStep(s, k, r) /\ UNCHANGED <<sess, behind>>
    BY <1>6 DEF RebuildPlan
  <2> QED BY <1>2, <2>2, <2>3 DEF RebuildsTyped
<1>7. ASSUME NEW s \in Sessions, NEW k \in Slots, RebuildFail(s, k) PROVE RebuildsTyped'
  <2>1. behind' \subseteq Sessions
    BY <1>7 DEF RebuildFail, RebuildsTyped
  <2>2. RebuildStep(s, k, NoRebuild) /\ UNCHANGED sess /\ NoRebuild.pc = "idle"
    BY <1>7 DEF RebuildFail, NoRebuild
  <2> QED BY <1>2, <2>1, <2>2, EmptyRecords
<1>8. ASSUME NEW s \in Sessions, NEW k \in Slots, RebuildCommit(s, k) PROVE RebuildsTyped'
  <2>1. rebuilds' = [rebuilds EXCEPT ![s] = [rebuilds[s] EXCEPT ![k] = NoRebuild]]
    BY <1>8 DEF RebuildCommit, RebuildStep, RebuildsTyped
  <2>2. [rebuilds[s] EXCEPT ![k] = NoRebuild] \in [Slots -> RebuildRecords]
    BY EmptyRecords DEF RebuildsTyped
  <2>3. rebuilds' \in [Sessions -> [Slots -> RebuildRecords]]
    BY <2>1, <2>2 DEF RebuildsTyped
  <2>4. \A u \in Sessions : \A j \in Slots :
          rebuilds'[u][j].pc # "idle" => rebuilds[u][j].pc # "idle"
    BY <2>1 DEF RebuildsTyped, NoRebuild
  <2>5. \A u \in Sessions : sess'[u].pc = sess[u].pc
    BY <1>8 DEF RebuildCommit, SessTyped, SessionRecords
  <2> QED BY <1>8, <2>3, <2>4, <2>5 DEF RebuildCommit, RebuildsTyped
<1>9. ASSUME NEW s \in Sessions, NEW v \in Servers, NEW p \in Principals, OpenAsk(s, v, p)
      PROVE  RebuildsTyped'
  BY <1>1, <1>9 DEF OpenAsk, SessTyped, SessionRecords
<1>10. ASSUME NEW s \in Sessions, OpenConns(s) \/ OpenTools(s) \/ OpenPlan(s)
       PROVE  RebuildsTyped'
  <2>1. sess[s].pc \notin {"live", "closed"} /\ UNCHANGED <<rebuilds, behind>>
    BY <1>10 DEF OpenConns, OpenTools, OpenPlan
  <2>2. \A u \in Sessions : u # s => sess'[u] = sess[u]
    BY <1>10 DEF OpenConns, OpenTools, OpenPlan, SessTyped
  <2> QED BY <1>1, <2>1, <2>2
<1>11. ASSUME NEW out \in SUBSET Live, Remove(out), UNCHANGED rebuilds PROVE RebuildsTyped'
  <2>1. \A s \in Sessions : sess'[s].pc = "closed" \/ sess'[s] = sess[s]
    BY <1>11, ClosedTyped DEF Remove
  <2> QED BY <1>11, <2>1 DEF Remove, RebuildsTyped
<1>12. ASSUME NEW s \in Sessions, OpenAdd(s) PROVE RebuildsTyped'
  <2>1. PICK out \in SUBSET Live : /\ sess' = [Closed(out) EXCEPT ![s].pc = "live"]
                                   /\ behind' = behind \ out
    BY <1>12 DEF OpenAdd, Evicted
  <2>2. \A u \in Sessions \ {s} : sess'[u].pc = "closed" \/ sess'[u] = sess[u]
    BY <2>1, ClosedTyped
  <2>3. sess[s].pc = "planned" /\ UNCHANGED rebuilds
    BY <1>12 DEF OpenAdd
  <2> QED BY <2>1, <2>2, <2>3 DEF RebuildsTyped
<1>13. ASSUME NEW s \in Sessions, OpenFail(s) PROVE RebuildsTyped'
  <2>1. sess[s].pc \notin {"live", "closed"} /\ UNCHANGED rebuilds /\ behind' \subseteq Sessions
    BY <1>13 DEF OpenFail, Opening, RebuildsTyped
  <2>2. \A u \in Sessions \ {s} : sess'[u] = sess[u]
    BY <1>13 DEF OpenFail, SessTyped
  <2> QED BY <2>1, <2>2 DEF RebuildsTyped
<1>14. ASSUME RestartProcess PROVE RebuildsTyped'
  BY <1>14, EmptyRecords DEF RestartProcess, RebuildsTyped, NoRebuild
<1>15. CASE AdminWrite \/ AdminRemove \/ AdminReload
  BY <1>1, <1>15 DEF AdminWrite, AdminRemove, AdminReload, sessionVars
<1>16. CASE AdminReloadFail \/ AdminReloadFinish
  BY <1>16, NotifyTyped, UnannouncedTyped DEF AdminReloadFail, AdminReloadFinish
<1>17. CASE \/ \E v \in Servers, C \in SUBSET Connectors : AssignConnectors(v, C)
            \/ \E v \in Servers, state \in {"active", "inactive"} : SwitchServer(v, state)
  BY <1>1, <1>17 DEF AssignConnectors, SwitchServer
<1>18. CASE \/ \E v \in Servers : AnnounceAssignment(v)
            \/ \E v \in Servers : DeleteServer(v)
            \/ \E p \in Principals, T \in SUBSET Tools : SetToolAccess(p, T)
  BY <1>18, NotifyTyped, UnannouncedTyped
     DEF AnnounceAssignment, DeleteServer, SetToolAccess
<1>19. CASE \/ \E s \in Sessions, v \in Servers, p \in Principals : CloseByClient(s, v, p)
            \/ \E out \in SUBSET Live : SweepIdle(out)
  BY <1>11, <1>19 DEF CloseByClient, SweepIdle
<1> QED
  BY <1>4, <1>5, <1>6, <1>7, <1>8, <1>9, <1>10, <1>12, <1>13, <1>14, <1>15, <1>16,
     <1>17, <1>18, <1>19 DEF Next

\* Every action keeps the types of servers, assignments and roles.
LEMMA TableTypedStep ==
  ASSUME SessionsTyped, Next
  PROVE  TableTyped'
<1> USE DEF SessionsTyped
<1>1. CASE UNCHANGED tableOnly
  BY <1>1 DEF TableTyped, tableOnly
<1>2. Change => changes' \in 0 .. MaxChanges
  BY SessionsAssumption DEF Change, TableTyped, SessionsAssumption
<1>3. CASE AdminWrite \/ AdminRemove
  BY <1>2, <1>3 DEF AdminWrite, AdminRemove, TableTyped
<1>4. CASE \/ \E v \in Servers, C \in SUBSET Connectors : AssignConnectors(v, C)
           \/ \E v \in Servers : AnnounceAssignment(v)
           \/ \E v \in Servers, state \in {"active", "inactive"} : SwitchServer(v, state)
  BY <1>2, <1>4 DEF AssignConnectors, AnnounceAssignment, SwitchServer, TableTyped
<1>5. CASE \/ \E v \in Servers : DeleteServer(v)
           \/ \E p \in Principals, T \in SUBSET Tools : SetToolAccess(p, T)
           \/ RestartProcess
  BY <1>2, <1>5 DEF DeleteServer, SetToolAccess, RestartProcess, TableTyped
<1>6. CASE AdminReload \/ AdminReloadFail \/ AdminReloadFinish
  BY <1>1, <1>6 DEF AdminReload, AdminReloadFail, AdminReloadFinish, sessionVars, tableOnly
<1>7. CASE \E s \in Sessions :
             \/ \E v \in Servers, p \in Principals : OpenAsk(s, v, p) \/ CloseByClient(s, v, p)
             \/ OpenConns(s) \/ OpenTools(s) \/ OpenPlan(s) \/ OpenAdd(s) \/ OpenFail(s)
  BY <1>1, <1>7 DEF OpenAsk, CloseByClient, OpenConns, OpenTools, OpenPlan, OpenAdd, OpenFail
<1>8. CASE \/ \E out \in SUBSET Live : SweepIdle(out)
           \/ \E s \in Sessions, k \in Slots :
                \/ RebuildConns(s, k) \/ RebuildTools(s, k) \/ RebuildPlan(s, k)
                \/ RebuildCommit(s, k) \/ RebuildFail(s, k)
  BY <1>1, <1>8 DEF SweepIdle, RebuildConns, RebuildTools, RebuildPlan, RebuildCommit,
                    RebuildFail
<1> QED BY <1>3, <1>4, <1>5, <1>6, <1>7, <1>8 DEF Next

\* So does every step.
LEMMA SessionsTypedStep == SessionsTyped /\ [Next]_vars => SessionsTyped'
<1> SUFFICES ASSUME SessionsTyped, [Next]_vars PROVE SessionsTyped'
  OBVIOUS
<1>1. RegistryTypeOK'
  BY RegistryAssumption, RegistrySteps, TypeStep DEF SessionsTyped
<1>2. CASE Next
  BY <1>1, <1>2, SessTypedStep, RebuildsTypedStep, TableTypedStep DEF SessionsTyped
<1>3. CASE UNCHANGED vars
  BY <1>1, <1>3 DEF SessionsTyped, TableTyped, SessTyped, RebuildsTyped, vars, sessionVars
<1> QED BY <1>2, <1>3

\* The types of every state, and: a session is bound to a server and a
\* principal from its first request on.
THEOREM SessionTypes == Spec => []SessionsTypeOK
BY SessionsTypedInit, SessionsTypedStep, TypedIsTypeOK, PTL DEF Spec

-----------------------------------------------------------------------------
(* The table of sessions.  Every step keeps it, closes some sessions, or    *)
(* adds one and evicts to make room; cap, index and SessionTable follow.    *)

Shut == {s \in Sessions : sess[s].pc = "closed"}

\* The sessions in S stay bound as they are.
SameBinding(S) ==
  \A s \in S : sess'[s].server = sess[s].server /\ sess'[s].owner = sess[s].owner

Kept ==
  /\ Live' = Live /\ Shut' = Shut /\ SameBinding(Live \union Shut)
  /\ byServer' = byServer

Leaves(out) ==
  /\ Live' = Live \ out /\ Shut' = Shut \union out /\ SameBinding(Live \union Shut)
  /\ byServer' = IndexWithoutClosed(out)

Enters(s, out) ==
  /\ s \notin Live \union Shut
  /\ Live' = (Live \ out) \union {s} /\ Shut' = Shut \union out
  /\ SameBinding(Live \union Shut \union {s})
  /\ sess[s].server \in Servers /\ sess[s].owner \in Principals
  /\ byServer' = [IndexWithoutClosed(out) EXCEPT ![sess[s].server] = @ \union {s}]

\* Closing the sessions out takes them from the table.
LEMMA RemoveEffect ==
  ASSUME SessTyped, NEW out \in SUBSET Live, sess' = Closed(out)
  PROVE  /\ Live' = Live \ out /\ Shut' = Shut \union out
         /\ SameBinding(Live \union Shut)
<1>1. \A s \in Sessions : IF s \in out THEN sess'[s].pc = "closed" ELSE sess'[s] = sess[s]
  BY ClosedTyped
<1>2. SameBinding(Sessions)
  BY ClosedTyped DEF SameBinding
<1> QED BY <1>1, <1>2 DEF Live, Shut, SameBinding

\* What every action does to the table.
LEMMA TableEffect ==
  ASSUME SessionsTyped, IndexIsTable, Next
  PROVE  \/ Kept
         \/ \E out \in SUBSET Live : Leaves(out)
         \/ \E s \in Sessions : \E out \in Evicted(s) : Enters(s, out)
<1> DEFINE Goal == \/ Kept
                   \/ \E out \in SUBSET Live : Leaves(out)
                   \/ \E s \in Sessions : \E out \in Evicted(s) : Enters(s, out)
<1>0. SessTyped
  BY DEF SessionsTyped
<1>1. CASE UNCHANGED <<sess, byServer>>
  <2>1. Kept
    BY <1>1 DEF Kept, Live, Shut, SameBinding
  <2> QED BY <2>1
<1>2. ASSUME NEW s \in Sessions, sess[s].pc \notin {"live", "closed"},
             sess'[s].pc \notin {"live", "closed"}, UNCHANGED byServer,
             \A u \in Sessions \ {s} : sess'[u] = sess[u]
      PROVE  Goal
  <2>1. Kept
    BY <1>2 DEF Kept, Live, Shut, SameBinding
  <2> QED BY <2>1
<1>3. ASSUME NEW s \in Sessions,
             \/ \E v \in Servers, p \in Principals : OpenAsk(s, v, p)
             \/ OpenConns(s) \/ OpenTools(s) \/ OpenPlan(s)
      PROVE  Goal
  <2>1. \A u \in Sessions \ {s} : sess'[u] = sess[u]
    BY <1>0, <1>3 DEF SessTyped, OpenAsk, OpenConns, OpenTools, OpenPlan
  <2>2. sess[s].pc \notin {"live", "closed"} /\ UNCHANGED byServer
    BY <1>3 DEF OpenAsk, OpenConns, OpenTools, OpenPlan
  <2>3. sess'[s].pc \notin {"live", "closed"}
    <3>1. CASE \E v \in Servers, p \in Principals : OpenAsk(s, v, p)
      BY <1>0, <3>1 DEF SessTyped, SessionRecords, OpenAsk
    <3>2. CASE OpenConns(s)
      BY <1>0, <3>2 DEF SessTyped, SessionRecords, OpenConns
    <3>3. CASE OpenTools(s)
      BY <1>0, <3>3 DEF SessTyped, SessionRecords, OpenTools
    <3>4. CASE OpenPlan(s)
      BY <1>0, <3>4 DEF SessTyped, SessionRecords, OpenPlan
    <3> QED BY <1>3, <3>1, <3>2, <3>3, <3>4
  <2> QED BY <1>2, <2>1, <2>2, <2>3
<1>4. ASSUME NEW s \in Sessions, OpenFail(s) PROVE Goal
  <2>1. sess' = [sess EXCEPT ![s] = [Unused EXCEPT !.pc = "failed"]]
        /\ sess[s].pc \notin {"live", "closed"} /\ UNCHANGED byServer
    BY <1>4 DEF OpenFail, Opening
  <2>2. sess'[s].pc = "failed" /\ \A u \in Sessions \ {s} : sess'[u] = sess[u]
    BY <1>0, <2>1 DEF SessTyped, Unused
  <2> QED BY <1>2, <2>1, <2>2
<1>5. ASSUME NEW s \in Sessions, NEW k \in Slots, RebuildCommit(s, k) PROVE Goal
  <2>1. \A u \in Sessions : /\ sess'[u].pc = sess[u].pc /\ sess'[u].owner = sess[u].owner
                            /\ sess'[u].server = sess[u].server
    BY <1>0, <1>5 DEF RebuildCommit, SessTyped, SessionRecords
  <2>2. UNCHANGED byServer
    BY <1>5 DEF RebuildCommit
  <2>3. Kept
    BY <2>1, <2>2 DEF Kept, Live, Shut, SameBinding
  <2> QED BY <2>3
<1>6. ASSUME NEW out \in SUBSET Live, Remove(out) PROVE Goal
  <2>1. Leaves(out)
    BY <1>0, <1>6, RemoveEffect DEF Remove, Leaves
  <2> QED BY <2>1
<1>7. ASSUME NEW s \in Sessions, OpenAdd(s) PROVE Goal
  <2>1. PICK out \in Evicted(s) :
          /\ sess' = [Closed(out) EXCEPT ![s].pc = "live"]
          /\ byServer' = [IndexWithoutClosed(out) EXCEPT ![sess[s].server] = @ \union {s}]
    BY <1>7 DEF OpenAdd
  <2>2. out \in SUBSET Live
    BY DEF Evicted
  <2>3. sess[s].pc = "planned" /\ s \notin Live \union Shut /\ s \notin out
    BY <1>7, <2>2 DEF OpenAdd, Live, Shut
  <2>4. sess[s].server \in Servers /\ sess[s].owner \in Principals
    BY <1>0, <2>3 DEF SessTyped, SessionRecords, Bound
  <2>5. /\ sess'[s].pc = "live"
        /\ sess'[s].server = sess[s].server /\ sess'[s].owner = sess[s].owner
    BY <1>0, <2>1, <2>2, <2>3, ClosedTyped DEF SessTyped, SessionRecords
  <2>6. \A u \in Sessions \ {s} : sess'[u] = Closed(out)[u]
    BY <1>0, <2>1, <2>2, ClosedTyped
  <2>7. \A u \in Sessions \ {s} : /\ IF u \in out THEN sess'[u].pc = "closed"
                                     ELSE sess'[u] = sess[u]
                                  /\ sess'[u].server = sess[u].server
                                  /\ sess'[u].owner = sess[u].owner
    BY <1>0, <2>2, <2>6, ClosedTyped
  <2>8. Live' = (Live \ out) \union {s} /\ Shut' = Shut \union out
    BY <2>2, <2>3, <2>5, <2>7 DEF Live, Shut
  <2>9. SameBinding(Live \union Shut \union {s})
    BY <2>5, <2>7 DEF SameBinding, Live, Shut
  <2>10. Enters(s, out)
    BY <2>1, <2>3, <2>4, <2>8, <2>9 DEF Enters
  <2> QED BY <2>10
<1>8. ASSUME RestartProcess PROVE Goal
  <2>1. \A s \in Sessions : IF s \in Live THEN sess'[s] = Closed(Live)[s]
                            ELSE \/ sess'[s].pc \notin {"live", "closed"} /\ s \notin Shut
                                 \/ sess'[s] = sess[s]
    BY <1>8 DEF RestartProcess, Opening, Shut, Live, Unused
  <2>2. \A s \in Live : /\ Closed(Live)[s].pc = "closed"
                        /\ Closed(Live)[s].server = sess[s].server
                        /\ Closed(Live)[s].owner = sess[s].owner
    BY <1>0, ClosedTyped DEF Live
  <2>3. Live' = {} /\ Shut' = Shut \union Live /\ SameBinding(Live \union Shut)
    BY <2>1, <2>2 DEF Live, Shut, SameBinding
  <2>4. byServer' = IndexWithoutClosed(Live)
    BY <1>8 DEF RestartProcess, IndexWithoutClosed, IndexIsTable
  <2>5. Leaves(Live)
    BY <2>3, <2>4 DEF Leaves
  <2> QED BY <2>5
<1>9. CASE AdminWrite \/ AdminRemove \/ AdminReload \/ AdminReloadFail \/ AdminReloadFinish
  BY <1>1, <1>9 DEF AdminWrite, AdminRemove, AdminReload, AdminReloadFail,
                    AdminReloadFinish, sessionVars
<1>10. CASE \/ \E v \in Servers, C \in SUBSET Connectors : AssignConnectors(v, C)
            \/ \E v \in Servers : AnnounceAssignment(v)
            \/ \E v \in Servers, state \in {"active", "inactive"} : SwitchServer(v, state)
            \/ \E v \in Servers : DeleteServer(v)
            \/ \E p \in Principals, T \in SUBSET Tools : SetToolAccess(p, T)
  BY <1>1, <1>10 DEF AssignConnectors, AnnounceAssignment, SwitchServer, DeleteServer,
                     SetToolAccess
<1>11. CASE \E s \in Sessions, k \in Slots :
              RebuildConns(s, k) \/ RebuildTools(s, k) \/ RebuildPlan(s, k) \/ RebuildFail(s, k)
  BY <1>1, <1>11 DEF RebuildConns, RebuildTools, RebuildPlan, RebuildFail
<1>12. CASE \/ \E s \in Sessions, v \in Servers, p \in Principals : CloseByClient(s, v, p)
            \/ \E out \in SUBSET Live : SweepIdle(out)
  BY <1>6, <1>12 DEF CloseByClient, SweepIdle
<1> QED BY <1>3, <1>4, <1>5, <1>7, <1>8, <1>9, <1>10, <1>11, <1>12 DEF Next

\* The index of the table is kept by each of the three kinds of step.
LEMMA IndexStep ==
  ASSUME SessionsTyped, IndexIsTable, [Next]_vars
  PROVE  IndexIsTable'
<1>0. Live \subseteq Sessions /\ byServer \in [Servers -> SUBSET Sessions]
  BY DEF Live, SessionsTyped, SessTyped
<1>1. CASE UNCHANGED vars
  BY <1>1 DEF vars, sessionVars, IndexIsTable, Live
<1>2. CASE Kept
  BY <1>2 DEF Kept, SameBinding, IndexIsTable
<1>3. ASSUME NEW out \in SUBSET Live, Leaves(out) PROVE IndexIsTable'
  BY <1>3 DEF Leaves, SameBinding, IndexIsTable, IndexWithoutClosed
<1>4. ASSUME NEW s \in Sessions, NEW out \in Evicted(s), Enters(s, out) PROVE IndexIsTable'
  <2>1. \A v \in Servers : byServer'[v] =
          (byServer[v] \ out) \union (IF v = sess[s].server THEN {s} ELSE {})
    BY <1>4 DEF Enters, IndexWithoutClosed
  <2> QED BY <1>4, <2>1 DEF Enters, SameBinding, IndexIsTable
<1> QED BY <1>1, <1>2, <1>3, <1>4, TableEffect

\* Sessions are finitely many, and so are those in the table.
LEMMA LiveFinite == IsFiniteSet(Live) /\ Cardinality(Live) \in Nat
<1>1. IsFiniteSet(Sessions) /\ Live \in SUBSET Sessions
  BY SessionsAssumption DEF SessionsAssumption, Live
<1>2. IsFiniteSet(Live)
  BY <1>1, FS_Subset
<1> QED BY <1>2, FS_CardinalityType

\* A session that enters a full table takes the place of exactly one other.
LEMMA EntersCounts ==
  ASSUME NEW s \in Sessions, NEW out \in Evicted(s), Enters(s, out)
  PROVE  /\ Cardinality(Live) >= MaxSessions => Cardinality(Live') = Cardinality(Live)
         /\ Cardinality(Live) < MaxSessions => Cardinality(Live') = Cardinality(Live) + 1
<1>0. IsFiniteSet(out) /\ s \notin Live /\ Live' = (Live \ out) \union {s}
  BY LiveFinite, FS_Subset DEF Evicted, Enters
<1>00. MaxSessions \in Nat
  BY SessionsAssumption DEF SessionsAssumption
<1>1. CASE Cardinality(Live) >= MaxSessions
  <2>1. Cardinality(out) = 1
    BY <1>1 DEF Evicted
  <2>2. PICK x : out = {x}
    BY <1>0, <2>1, FS_Singleton
  <2>3. x \in Live
    BY <2>2 DEF Evicted
  <2>4. IsFiniteSet(Live \ {x}) /\ Cardinality(Live \ {x}) = Cardinality(Live) - 1
    BY <2>3, LiveFinite, FS_RemoveElement
  <2>5. Cardinality(Live') = Cardinality(Live \ {x}) + 1
    BY <1>0, <2>2, <2>4, FS_AddElement
  <2> QED BY <1>1, <1>00, <2>4, <2>5, LiveFinite
<1>2. CASE Cardinality(Live) < MaxSessions
  <2>1. out = {}
    BY <1>0, <1>00, <1>2, LiveFinite, FS_EmptySet DEF Evicted
  <2>2. Live' = Live \union {s}
    BY <1>0, <2>1
  <2>3. Cardinality(Live') = Cardinality(Live) + 1
    BY <1>0, <2>2, LiveFinite, FS_AddElement
  <2> QED BY <1>00, <1>2, <2>3, LiveFinite
<1> QED BY <1>1, <1>2, <1>00, LiveFinite

LEMMA CapStep ==
  ASSUME SessionsTyped, IndexIsTable, SessionCap, [Next]_vars
  PROVE  SessionCap'
<1>00. MaxSessions \in Nat \ {0}
  BY SessionsAssumption DEF SessionsAssumption
<1>1. CASE UNCHANGED vars
  BY <1>1 DEF vars, sessionVars, SessionCap, Live
<1>2. ASSUME NEW out \in SUBSET Live, Live' = Live \ out PROVE SessionCap'
  <2>1. Cardinality(Live') <= Cardinality(Live) /\ Cardinality(Live') \in Nat
    BY <1>2, LiveFinite, FS_Subset, FS_CardinalityType
  <2> QED BY <1>00, <2>1, LiveFinite DEF SessionCap
<1>3. ASSUME NEW s \in Sessions, NEW out \in Evicted(s), Enters(s, out) PROVE SessionCap'
  BY <1>00, <1>3, EntersCounts, LiveFinite DEF SessionCap
<1>4. CASE Kept
  BY <1>4 DEF Kept, SessionCap
<1> QED BY <1>1, <1>2, <1>3, <1>4, TableEffect DEF Leaves

\* The table starts empty.
LEMMA TableInitial == SessionsInit => IndexIsTable /\ SessionCap
<1> SUFFICES ASSUME SessionsInit PROVE IndexIsTable /\ SessionCap
  OBVIOUS
<1>1. Live = {}
  BY DEF SessionsInit, Live, Unused
<1>2. IndexIsTable
  BY <1>1 DEF SessionsInit, IndexIsTable
<1>3. Cardinality(Live) = 0
  BY <1>1, FS_EmptySet
<1> QED BY <1>2, <1>3, SessionsAssumption DEF SessionCap, SessionsAssumption

\* The sessions that a server notifies are exactly the live ones bound to it.
THEOREM IndexFollowsTable == Spec => []IndexIsTable
BY SessionsTypedInit, SessionsTypedStep, TableInitial, IndexStep, PTL DEF Spec

\* The table never outgrows MCP_MAX_SESSIONS, however many sessions open at once.
THEOREM TableIsBounded == Spec => []SessionCap
BY SessionsTypedInit, SessionsTypedStep, TableInitial, IndexStep, CapStep, PTL DEF Spec

-----------------------------------------------------------------------------
(* The table implements SessionTable.                                      *)

NotBound == <<NoServer, NoPrincipal>>
BindingOf(s) ==
  IF sess[s].pc \in {"live", "closed"} THEN <<sess[s].server, sess[s].owner>> ELSE NotBound

LEMMA RefinesInit == SessionsInit => Table!TableInit
BY DEF SessionsInit, Table!TableInit, Live, Unused

LEMMA RefinesStep ==
  ASSUME SessionsTyped, IndexIsTable, SessionCap, [Next]_vars
  PROVE  [Table!TableNext]_(Table!tableVars)
<1> DEFINE map  == [s \in Sessions |-> BindingOf(s)]
<1>1. CASE UNCHANGED vars
  BY <1>1 DEF vars, sessionVars, Table!tableVars, Live
<1>2. ASSUME SameBinding(Live \union Shut), Live' \union Shut' = Live \union Shut
      PROVE  map' = map
  BY <1>2 DEF SameBinding, Live, Shut, BindingOf
<1>3. CASE Kept
  BY <1>2, <1>3 DEF Kept, Table!tableVars, Shut, BindingOf, NotBound
<1>4. ASSUME NEW out \in SUBSET Live, Leaves(out) PROVE Table!Leave(out)
  BY <1>2, <1>4 DEF Leaves, Table!Leave, Shut, BindingOf, NotBound
<1>5. ASSUME NEW s \in Sessions, NEW out \in Evicted(s), Enters(s, out),
             NEW b \in Servers \X Principals, b = <<sess[s].server, sess[s].owner>>
      PROVE  Table!Enter(s, b)
  <2>1. Cardinality(out) = IF Cardinality(Live) = MaxSessions THEN 1 ELSE 0
    BY LiveFinite, SessionsAssumption DEF Evicted, SessionCap, SessionsAssumption
  <2>2. map' = [map EXCEPT ![s] = b]
    BY <1>5 DEF Enters, SameBinding, BindingOf, Live, Shut, Evicted
  <2>3. out \in SUBSET Live /\ s \notin Live \union Shut
    BY <1>5 DEF Enters, Evicted
  <2>4. Live' = (Live \ out) \union {s} /\ Shut' = Shut \union out
    BY <1>5 DEF Enters
  <2>5. \A S : Table!Cardinality(S) = Cardinality(S)
    BY Zenon DEF Cardinality, Table!Cardinality
  <2> QED BY <2>1, <2>2, <2>3, <2>4, <2>5, Zenon DEF Table!Enter, Shut, BindingOf, NotBound
<1>6. ASSUME NEW s \in Sessions, NEW out \in Evicted(s), Enters(s, out)
      PROVE  Table!TableNext
  <2>1. PICK b \in Servers \X Principals : b = <<sess[s].server, sess[s].owner>>
    BY <1>6 DEF Enters
  <2>2. Table!Enter(s, b)
    BY <1>5, <1>6, <2>1
  <2> QED BY <2>2 DEF Table!TableNext
<1> QED BY <1>1, <1>3, <1>4, <1>6, TableEffect DEF Table!TableNext

\* The table of sessions implements SessionTable: a session is bound once, the
\* table makes room by closing one session, and a closed id never comes back,
\* whatever rebuilds, evictions, sweeps and restarts interleave.
THEOREM TableImplemented == Spec => ImplementsTable
BY SessionsTypedInit, SessionsTypedStep, TableInitial, IndexStep, CapStep, RefinesInit,
   RefinesStep, PTL DEF Spec, ImplementsTable, Table!TableSpec

-----------------------------------------------------------------------------
(* Sessions catch up.  What a session will show is read in three steps, by *)
(* the request that opens it or by a rebuild; Agrees says that what was    *)
(* read so far is still what the registry, the assignments and the roles   *)
(* say.  A rebuild that is the only one of its session and a session that  *)
(* opens keep that while no change is on its way: each change that ends    *)
(* starts new rebuilds, or puts the session into behind.                   *)

\* A change is stored or a connector is being reloaded, and the sessions will
\* hear of it.  A request that only wrote rows changed nothing they read.
Unsettled ==
  assigning # {} \/ \E r \in Requests : req[r].pc \in {"removed", "cleared", "read"}

Agrees(s, pc, conns, rows, plan) ==
  /\ pc = "conns" => conns = assigned[sess[s].server]
  /\ pc = "tools" => rows = RegisteredRows(assigned[sess[s].server])
  /\ pc = "planned" => plan = Surface(s)

\* Only a lone rebuild is marked so, and one that is not leaves its session
\* behind.
RacesAreBehind(s) ==
  /\ \A k \in Slots : rebuilds[s][k].alone => Busy(s) = {k}
  /\ s \in Live \ behind => \A k \in Busy(s) : rebuilds[s][k].alone

RebuildAgrees(s, r) == Agrees(s, r.pc, r.conns, r.rows, r.plan)
SessionAgrees(s) ==
  Agrees(s, sess[s].pc, sess[s].conns, sess[s].rows, sess[s].shown)

Current(s) ==
  /\ s \in Live => \A k \in Slots : rebuilds[s][k].alone => RebuildAgrees(s, rebuilds[s][k])
  /\ s \in HasRead \ behind => SessionAgrees(s)
  /\ s \in Live \ behind /\ Busy(s) = {} => sess[s].shown = Surface(s)

CatchesUp ==
  /\ \A s \in Sessions : RacesAreBehind(s)
  /\ ~ Unsettled => \A s \in Sessions : Current(s)

LEMMA CatchesUpInit == SessionsInit => CatchesUp
BY DEF SessionsInit, CatchesUp, RacesAreBehind, Current, Unused, NoRebuild, Live, HasRead,
       Opening, Busy

\* In a state without changes on their way, CatchesUp is what is wanted.
LEMMA CaughtUp == CatchesUp => SettledSessionsCurrent
BY DEF CatchesUp, Current, SettledSessionsCurrent, Quiet, Unsettled, Idle, Live

\* What session s reads from is what it was.
SameSources(s) ==
  /\ byId' = byId
  /\ assigned'[sess[s].server] = assigned[sess[s].server]
  /\ allowed'[sess[s].owner] = allowed[sess[s].owner]

LEMMA SurfaceKept ==
  ASSUME NEW s \in Sessions, SameSources(s),
         sess'[s].server = sess[s].server, sess'[s].owner = sess[s].owner
  PROVE  /\ assigned[sess[s].server]' = assigned[sess[s].server]
         /\ RegisteredRows(assigned[sess[s].server])'
              = RegisteredRows(assigned[sess[s].server])
         /\ Surface(s)' = Surface(s)
<1>1. assigned[sess[s].server]' = assigned[sess[s].server]
  BY DEF SameSources
<1>2. RegisteredRows(assigned[sess[s].server])' = RegisteredRows(assigned[sess[s].server])
  BY <1>1 DEF SameSources, RegisteredRows
<1>3. allowed[sess[s].owner]' = allowed[sess[s].owner]
  BY DEF SameSources
<1> QED BY <1>1, <1>2, <1>3 DEF Surface, Plan

\* What agreed before a step that leaves the sources alone agrees after it.
LEMMA AgreesKept ==
  ASSUME NEW s \in Sessions, SameSources(s), NEW pc, NEW conns, NEW rows, NEW plan,
         sess'[s].server = sess[s].server, sess'[s].owner = sess[s].owner,
         Agrees(s, pc, conns, rows, plan)
  PROVE  Agrees(s, pc, conns, rows, plan)'
BY SurfaceKept DEF Agrees

\* A step that does not touch the session, its rebuilds and what it reads from.
Untouched(s) ==
  /\ sess'[s] = sess[s] /\ rebuilds'[s] = rebuilds[s]
  /\ s \in behind => s \in behind'
  /\ s \in Live \union HasRead => SameSources(s)

LEMMA UntouchedCurrent ==
  ASSUME NEW s \in Sessions, Untouched(s), Current(s)
  PROVE  Current(s)'
<1>1. /\ (s \in Live)' <=> s \in Live
      /\ (s \in HasRead)' <=> s \in HasRead
      /\ Busy(s)' = Busy(s)
  BY DEF Untouched, Live, HasRead, Opening, Busy
<1>2. CASE s \notin Live \union HasRead
  BY <1>1, <1>2 DEF Current
<1>3. CASE s \in Live \union HasRead
  <2>1. SameSources(s) /\ sess'[s] = sess[s]
    BY <1>3 DEF Untouched
  <2>2. ASSUME NEW k \in Slots, RebuildAgrees(s, rebuilds[s][k])
        PROVE  RebuildAgrees(s, rebuilds[s][k])'
    BY <2>1, <2>2, AgreesKept DEF RebuildAgrees, Untouched
  <2>3. SessionAgrees(s) => SessionAgrees(s)'
    BY <2>1, AgreesKept DEF SessionAgrees
  <2>4. Surface(s)' = Surface(s)
    BY <2>1, SurfaceKept
  <2> QED BY <1>1, <2>1, <2>2, <2>3, <2>4 DEF Current, Untouched
<1> QED BY <1>2, <1>3

LEMMA UntouchedRaces ==
  ASSUME NEW s \in Sessions, RacesAreBehind(s), rebuilds'[s] = rebuilds[s],
         (s \in Live \ behind)' => s \in Live \ behind \/ Busy(s) = {}
  PROVE  RacesAreBehind(s)'
BY DEF RacesAreBehind, Busy

\* A session that is neither live nor reading makes no promise.
LEMMA GoneCurrent ==
  ASSUME NEW s \in Sessions, (s \notin Live \union HasRead)'
  PROVE  Current(s)'
BY DEF Current

\* An announcement gives a live session one more rebuild, and it alone may be
\* a lone one.
LEMMA NotifyEffect ==
  ASSUME RebuildsTyped, Notify, NEW s \in Live
  PROVE  \E free \in Slots \ Busy(s) :
           /\ rebuilds'[s][free].pc = "asked"
           /\ rebuilds'[s][free].alone <=> Busy(s) = {}
           /\ \A k \in Slots \ {free} : /\ rebuilds'[s][k].pc = rebuilds[s][k].pc
                                        /\ ~ rebuilds'[s][k].alone
<1> DEFINE free == CHOOSE k \in Slots : k \notin Busy(s)
<1>0. s \in Sessions
  BY DEF Live
<1>1. free \in Slots /\ free \notin Busy(s)
  BY DEF Notify, Busy
<1>2. rebuilds'[s] = [k \in Slots |->
        IF k = free THEN [NoRebuild EXCEPT !.pc = "asked", !.alone = (Busy(s) = {})]
        ELSE [rebuilds[s][k] EXCEPT !.alone = FALSE]]
  BY <1>0 DEF Notify, WithRebuild
<1> HIDE DEF free
<1>3. \A b \in BOOLEAN : LET r == [NoRebuild EXCEPT !.pc = "asked", !.alone = b]
                         IN  r.pc = "asked" /\ r.alone = b
  BY DEF NoRebuild
<1>4. \A k \in Slots : /\ [rebuilds[s][k] EXCEPT !.alone = FALSE].pc = rebuilds[s][k].pc
                       /\ [rebuilds[s][k] EXCEPT !.alone = FALSE].alone = FALSE
  BY <1>0 DEF RebuildsTyped, RebuildRecords
<1>5. rebuilds'[s][free].pc = "asked" /\ rebuilds'[s][free].alone = (Busy(s) = {})
  BY <1>1, <1>2, <1>3
<1>6. \A k \in Slots \ {free} : /\ rebuilds'[s][k].pc = rebuilds[s][k].pc
                                /\ rebuilds'[s][k].alone = FALSE
  BY <1>2, <1>4
<1> QED BY <1>1, <1>5, <1>6

\* After an announcement every live session has a lone rebuild that has read
\* nothing yet, or is behind.
LEMMA NotifyCatchesUp ==
  ASSUME SessionsTyped, CatchesUp, Notify, sess' = sess
  PROVE  CatchesUp'
<1>0. RebuildsTyped /\ Live' = Live /\ HasRead' = HasRead
  BY DEF SessionsTyped, Live, HasRead, Opening
<1>1. ASSUME NEW s \in Sessions, s \notin Live
      PROVE  RacesAreBehind(s)' /\ Current(s)'
  <2>1. rebuilds'[s] = rebuilds[s] /\ (s \in HasRead => s \in behind')
    BY <1>1 DEF Notify
  <2>2. RacesAreBehind(s)
    BY DEF CatchesUp
  <2> QED BY <1>0, <1>1, <2>1, <2>2 DEF RacesAreBehind, Current, Busy
<1>2. ASSUME NEW s \in Sessions, s \in Live
      PROVE  RacesAreBehind(s)' /\ Current(s)'
  <2>1. PICK free \in Slots \ Busy(s) :
          /\ rebuilds'[s][free].pc = "asked"
          /\ rebuilds'[s][free].alone <=> Busy(s) = {}
          /\ \A k \in Slots \ {free} : /\ rebuilds'[s][k].pc = rebuilds[s][k].pc
                                       /\ ~ rebuilds'[s][k].alone
    BY <1>0, <1>2, NotifyEffect
  <2>2. Busy(s)' = Busy(s) \union {free}
    BY <2>1 DEF Busy
  <2>3. Busy(s) # {} => s \in behind'
    BY <1>2 DEF Notify
  <2>4. s \notin HasRead
    BY <1>2 DEF Live, HasRead, Opening
  <2>5. RacesAreBehind(s)'
    BY <2>1, <2>2, <2>3 DEF RacesAreBehind
  <2>6. \A k \in Slots : rebuilds'[s][k].alone => RebuildAgrees(s, rebuilds[s][k])'
    BY <2>1 DEF RebuildAgrees, Agrees
  <2> QED BY <1>0, <2>2, <2>4, <2>5, <2>6 DEF Current
<1> QED BY <1>1, <1>2 DEF CatchesUp

\* A change that nobody announces puts behind whom it falls on.
LEMMA UnannouncedCatchesUp ==
  ASSUME SessionsTyped, CatchesUp, NEW S, Unannounced(S), sess' = sess,
         Unsettled' \/ ~ Unsettled \/ S = Sessions,
         \A s \in Sessions \ S : s \in Live \union HasRead => SameSources(s)
  PROVE  CatchesUp'
<1>0. RebuildsTyped /\ Live' = Live /\ HasRead' = HasRead
  BY DEF SessionsTyped, Live, HasRead, Opening
<1>1. ASSUME NEW s \in Sessions, s \in S
      PROVE  RacesAreBehind(s)' /\ Current(s)'
  <2>1. \A k \in Slots : ~ rebuilds'[s][k].alone
    BY <1>0, <1>1 DEF Unannounced, RebuildsTyped, RebuildRecords
  <2>2. s \in Live \union HasRead => s \in behind'
    BY <1>1 DEF Unannounced
  <2> QED BY <1>0, <2>1, <2>2 DEF RacesAreBehind, Current
<1>2. ASSUME NEW s \in Sessions, s \notin S
      PROVE  RacesAreBehind(s)' /\ (Current(s) => Current(s)')
  <2>1. Untouched(s)
    BY <1>2 DEF Unannounced, Untouched
  <2>2. RacesAreBehind(s)'
    BY <1>0, <2>1, UntouchedRaces DEF CatchesUp, Untouched
  <2> QED BY <2>1, <2>2, UntouchedCurrent
<1> QED BY <1>1, <1>2 DEF CatchesUp

\* A step of the admins that leaves the sessions alone: either the sessions
\* will hear of it, or they read nothing that it changed.
LEMMA AdminCatchesUp ==
  ASSUME CatchesUp, UNCHANGED <<sess, rebuilds, behind>>,
         Unsettled' \/ (~ Unsettled /\ UNCHANGED <<byId, assigned, allowed>>)
  PROVE  CatchesUp'
<1>1. \A s \in Sessions : RacesAreBehind(s)'
  BY UntouchedRaces DEF CatchesUp, Live
<1>2. ASSUME NEW s \in Sessions, ~ Unsettled'
      PROVE  Current(s)'
  BY <1>2, UntouchedCurrent DEF CatchesUp, Untouched, SameSources
<1> QED BY <1>1, <1>2 DEF CatchesUp

\* A step of one session leaves the others alone.
LEMMA SessionCatchesUp ==
  ASSUME CatchesUp, UNCHANGED <<registryVars, tableOnly>>, NEW s \in Sessions,
         \A u \in Sessions \ {s} : /\ sess'[u] = sess[u] /\ rebuilds'[u] = rebuilds[u]
                                   /\ u \in behind' <=> u \in behind,
         RacesAreBehind(s)', Current(s) => Current(s)'
  PROVE  CatchesUp'
<1>1. Unsettled' = Unsettled /\ \A u : SameSources(u)
  BY DEF registryVars, tableOnly, Unsettled, SameSources
<1>2. ASSUME NEW u \in Sessions \ {s}
      PROVE  RacesAreBehind(u)' /\ (Current(u) => Current(u)')
  BY <1>1, UntouchedRaces, UntouchedCurrent DEF CatchesUp, Untouched, Live
<1> QED BY <1>1, <1>2 DEF CatchesUp

\* The steps of the admins.
LEMMA AdminStep ==
  ASSUME SessionsTyped, CatchesUp,
         \/ AdminWrite \/ AdminRemove \/ AdminReload
         \/ \E v \in Servers, C \in SUBSET Connectors : AssignConnectors(v, C)
         \/ \E v \in Servers, state \in {"active", "inactive"} : SwitchServer(v, state)
  PROVE  CatchesUp'
<1>0. req \in [Requests -> [pc : {"idle", "written", "removed", "cleared", "read"},
                            conn : Connectors \union {NoConnector}, rows : Rows]]
  BY DEF SessionsTyped, RegistryTypeOK
<1>1. ASSUME NEW r \in Requests, NEW c, NEW pc, NEW rows, Goes(r, c, pc, rows),
             pc \in {"removed", "cleared", "read"}
      PROVE  Unsettled'
  BY <1>0, <1>1 DEF Goes, Unsettled
<1>2. ASSUME AdminWrite PROVE ~ Unsettled' => ~ Unsettled
  <2>1. CASE UNCHANGED <<req, assigning>>
    BY <2>1 DEF Unsettled
  <2>2. ASSUME NEW r \in Requests, NEW t \in Tools, NEW n \in NamesOrNone, WriteTool(r, t, n),
               UNCHANGED assigning
        PROVE  ~ Unsettled' => ~ Unsettled
    <3>1. req[r].pc \in {"idle", "written"}
      BY <2>2 DEF WriteTool, MayWrite, Idle
    <3>2. \A q \in Requests \ {r} : req'[q] = req[q]
      BY <1>0, <2>2 DEF WriteTool, Goes
    <3> QED BY <2>2, <3>1, <3>2 DEF Unsettled
  <2> QED BY <1>2, <2>1, <2>2 DEF AdminWrite, CreateConnector, UpdateConnector
<1>3. CASE AdminWrite
  <2>1. UNCHANGED <<sess, rebuilds, behind, byId, assigned, allowed>>
    BY <1>3 DEF AdminWrite, CreateConnector, UpdateConnector, WriteTool, memoryVars
  <2> QED BY <1>2, <1>3, <2>1, AdminCatchesUp
<1>4. CASE AdminRemove
  <2>1. Unsettled' /\ UNCHANGED <<sess, rebuilds, behind>>
    BY <1>1, <1>4 DEF AdminRemove, RemoveConnector
  <2> QED BY <2>1, AdminCatchesUp
<1>5. ASSUME NEW r \in Requests, FailWrite(r), UNCHANGED sessionVars
      PROVE  CatchesUp'
  <2>1. \A q \in Requests : req'[q] = IF q = r THEN Idle ELSE req[q]
    BY <1>0, <1>5 DEF FailWrite
  <2>2. ~ Unsettled' => ~ Unsettled
    BY <1>5, <2>1 DEF FailWrite, Unsettled, sessionVars
  <2>3. UNCHANGED <<sess, rebuilds, behind, byId, assigned, allowed>>
    BY <1>5 DEF FailWrite, memoryVars, sessionVars
  <2> QED BY <2>2, <2>3, AdminCatchesUp
<1>6. ASSUME NEW r \in Requests, ReloadStart(r) \/ ReloadRead(r), UNCHANGED sessionVars
      PROVE  CatchesUp'
  <2>1. Unsettled' /\ UNCHANGED <<sess, rebuilds, behind>>
    BY <1>1, <1>6 DEF ReloadStart, ReloadRead, sessionVars
  <2> QED BY <2>1, AdminCatchesUp
<1>7. ASSUME NEW v \in Servers, NEW C \in SUBSET Connectors, AssignConnectors(v, C)
      PROVE  CatchesUp'
  <2>1. Unsettled' /\ UNCHANGED <<sess, rebuilds, behind>>
    BY <1>7 DEF AssignConnectors, Unsettled
  <2> QED BY <2>1, AdminCatchesUp
<1>8. ASSUME NEW v \in Servers, NEW state \in {"active", "inactive"}, SwitchServer(v, state)
      PROVE  CatchesUp'
  <2>1. Unsettled' = Unsettled /\ UNCHANGED <<sess, rebuilds, behind, byId, assigned, allowed>>
    BY <1>8 DEF SwitchServer, Unsettled, registryVars
  <2> QED BY <2>1, AdminCatchesUp
<1> QED BY <1>3, <1>4, <1>5, <1>6, <1>7, <1>8 DEF AdminReload

\* The steps of the admins that notify the sessions, and those that should.
LEMMA AnnounceStep ==
  ASSUME SessionsTyped, CatchesUp,
         \/ AdminReloadFail \/ AdminReloadFinish
         \/ \E v \in Servers : AnnounceAssignment(v) \/ DeleteServer(v)
         \/ \E p \in Principals, T \in SUBSET Tools : SetToolAccess(p, T)
  PROVE  CatchesUp'
<1>1. CASE AdminReloadFinish \/ \E v \in Servers : AnnounceAssignment(v)
  BY <1>1, NotifyCatchesUp DEF AdminReloadFinish, AnnounceAssignment
<1>2. CASE AdminReloadFail
  BY <1>2, UnannouncedCatchesUp DEF AdminReloadFail
<1>3. \A s \in Live \union HasRead : sess[s].server \in Servers /\ sess[s].owner \in Principals
  BY DEF SessionsTyped, SessTyped, SessionRecords, Bound, Live, HasRead, Opening
<1>4. ASSUME NEW v \in Servers, DeleteServer(v) PROVE CatchesUp'
  <2> DEFINE S == {s \in Sessions : sess[s].server = v}
  <2>1. Unannounced(S) /\ sess' = sess /\ (Unsettled' <=> Unsettled)
    BY <1>4 DEF DeleteServer, Unsettled, registryVars
  <2>2. \A s \in Sessions \ S : s \in Live \union HasRead => SameSources(s)
    BY <1>3, <1>4 DEF DeleteServer, SameSources, registryVars, SessionsTyped, TableTyped
  <2> HIDE DEF S
  <2> QED BY <2>1, <2>2, UnannouncedCatchesUp
<1>5. ASSUME NEW p \in Principals, NEW T \in SUBSET Tools, SetToolAccess(p, T)
      PROVE  CatchesUp'
  <2>1. Unannounced(OwnedBy(p)) /\ sess' = sess /\ (Unsettled' <=> Unsettled)
    BY <1>5 DEF SetToolAccess, Unsettled, registryVars
  <2>2. \A s \in Sessions \ OwnedBy(p) : s \in Live \union HasRead => SameSources(s)
    BY <1>3, <1>5 DEF SetToolAccess, SameSources, registryVars, OwnedBy, SessionsTyped,
                      TableTyped
  <2> QED BY <2>1, <2>2, UnannouncedCatchesUp
<1> QED BY <1>1, <1>2, <1>4, <1>5

\* The steps of a session that opens.
LEMMA OpenStep ==
  ASSUME SessionsTyped, CatchesUp, NEW s \in Sessions,
         \/ \E v \in Servers, p \in Principals : OpenAsk(s, v, p)
         \/ OpenConns(s) \/ OpenTools(s) \/ OpenPlan(s) \/ OpenFail(s)
  PROVE  CatchesUp'
<1>0. sess \in [Sessions -> SessionRecords] /\ sess[s] \in SessionRecords
  BY DEF SessionsTyped, SessTyped
<1>1. /\ UNCHANGED <<registryVars, tableOnly, rebuilds>> /\ behind' \subseteq behind
      /\ sess[s].pc \notin {"live", "closed"} /\ SameSources(s)
      /\ OpenFail(s) \/ behind' = behind
  BY DEF OpenAsk, OpenConns, OpenTools, OpenPlan, OpenFail, Opening, SameSources,
         registryVars, tableOnly
<1>2. \A u \in Sessions \ {s} : sess'[u] = sess[u] /\ (u \in behind' <=> u \in behind)
  BY <1>0 DEF OpenAsk, OpenConns, OpenTools, OpenPlan, OpenFail
<1>3. ASSUME sess'[s].pc \notin {"live", "conns", "tools", "planned"}
      PROVE  (s \notin Live \union HasRead)'
  BY <1>3 DEF Live, HasRead, Opening
<1>4. ASSUME (s \notin Live)', Current(s) => Current(s)' PROVE CatchesUp'
  <2>1. RacesAreBehind(s)'
    BY <1>1, <1>4, UntouchedRaces DEF CatchesUp
  <2> QED BY <1>1, <1>2, <1>4, <2>1, SessionCatchesUp
<1>5. ASSUME NEW v \in Servers, NEW p \in Principals, OpenAsk(s, v, p) PROVE CatchesUp'
  <2>1. sess'[s].pc = "asked"
    BY <1>0, <1>5 DEF OpenAsk, SessionRecords
  <2> QED BY <1>3, <1>4, <2>1, GoneCurrent
<1>6. ASSUME OpenFail(s) PROVE CatchesUp'
  <2>1. sess'[s].pc = "failed"
    BY <1>0, <1>6 DEF OpenFail, Unused
  <2> QED BY <1>3, <1>4, <2>1, GoneCurrent
<1>7. ASSUME OpenConns(s) PROVE CatchesUp'
  <2>1. /\ sess'[s].pc = "conns" /\ sess'[s].conns = assigned[sess[s].server]
        /\ sess'[s].server = sess[s].server
    BY <1>0, <1>7 DEF OpenConns, SessionRecords
  <2>2. (s \notin Live)' /\ SessionAgrees(s)'
    BY <1>1, <2>1 DEF Live, SessionAgrees, Agrees, tableOnly
  <2> QED BY <1>4, <2>2 DEF Current
<1>8. ASSUME OpenTools(s) PROVE CatchesUp'
  <2>1. /\ sess'[s].pc = "tools" /\ sess'[s].rows = RegisteredRows(sess[s].conns)
        /\ sess'[s].server = sess[s].server /\ sess'[s].owner = sess[s].owner
    BY <1>0, <1>8 DEF OpenTools, SessionRecords
  <2>2. (s \notin Live)' /\ s \in HasRead /\ behind' = behind
    BY <1>8, <2>1 DEF OpenTools, Live, HasRead, Opening
  <2>3. SessionAgrees(s) => SessionAgrees(s)'
    BY <1>1, <1>8, <2>1, SurfaceKept DEF OpenTools, SessionAgrees, Agrees
  <2> QED BY <1>4, <2>2, <2>3 DEF Current
<1>9. ASSUME OpenPlan(s) PROVE CatchesUp'
  <2>1. /\ sess'[s].pc = "planned"
        /\ sess'[s].shown = Plan(sess[s].rows, allowed[sess[s].owner])
        /\ sess'[s].server = sess[s].server /\ sess'[s].owner = sess[s].owner
    BY <1>0, <1>9 DEF OpenPlan, SessionRecords
  <2>2. (s \notin Live)' /\ s \in HasRead /\ behind' = behind
    BY <1>9, <2>1 DEF OpenPlan, Live, HasRead, Opening
  <2>3. SessionAgrees(s) => SessionAgrees(s)'
    <3>1. SessionAgrees(s) => sess'[s].shown = Surface(s)
      BY <1>9, <2>1 DEF OpenPlan, SessionAgrees, Agrees, Surface
    <3> QED BY <1>1, <2>1, <3>1, SurfaceKept DEF SessionAgrees, Agrees
  <2> QED BY <1>4, <2>2, <2>3 DEF Current
<1> QED BY <1>5, <1>6, <1>7, <1>8, <1>9

\* A session enters the table with what it agreed on; those that leave are out.
LEMMA TableStep ==
  ASSUME SessionsTyped, CatchesUp,
         \/ \E s \in Sessions : OpenAdd(s)
         \/ \E s \in Sessions, v \in Servers, p \in Principals : CloseByClient(s, v, p)
         \/ \E out \in SUBSET Live : SweepIdle(out)
  PROVE  CatchesUp'
<1>0. SessTyped /\ RebuildsTyped
  BY DEF SessionsTyped
<1>1. ASSUME UNCHANGED <<registryVars, tableOnly, rebuilds>>, NEW out \in SUBSET Live,
             behind' = behind \ out, NEW s \in Sessions, s \in out, sess'[s] = Closed(out)[s]
      PROVE  RacesAreBehind(s)' /\ Current(s)'
  <2>1. sess'[s].pc = "closed"
    BY <1>0, <1>1, ClosedTyped
  <2>2. (s \notin Live \union HasRead)'
    BY <2>1 DEF Live, HasRead, Opening
  <2>3. RacesAreBehind(s)'
    BY <1>1, <2>2, UntouchedRaces DEF CatchesUp
  <2> QED BY <2>2, <2>3, GoneCurrent
<1>2. ASSUME UNCHANGED <<registryVars, tableOnly, rebuilds>>, NEW out \in SUBSET Live,
             behind' = behind \ out, NEW s \in Sessions, s \notin out, sess'[s] = sess[s]
      PROVE  RacesAreBehind(s)' /\ (Current(s) => Current(s)')
  <2>1. Untouched(s)
    BY <1>2 DEF Untouched, SameSources, registryVars, tableOnly
  <2>2. RacesAreBehind(s)'
    BY <1>2, UntouchedRaces DEF CatchesUp, Live
  <2> QED BY <2>1, <2>2, UntouchedCurrent
<1>3. UNCHANGED <<registryVars, tableOnly>> => Unsettled' = Unsettled
  BY DEF Unsettled, registryVars, tableOnly
<1>4. ASSUME NEW out \in SUBSET Live, Remove(out),
             UNCHANGED <<registryVars, tableOnly, rebuilds>>
      PROVE  CatchesUp'
  <2>1. \A s \in Sessions : IF s \in out THEN sess'[s] = Closed(out)[s] ELSE sess'[s] = sess[s]
    BY <1>0, <1>4, ClosedTyped DEF Remove
  <2>2. \A s \in Sessions : RacesAreBehind(s)' /\ (Current(s) => Current(s)')
    BY <1>1, <1>2, <1>4, <2>1 DEF Remove
  <2> QED BY <1>3, <1>4, <2>2 DEF CatchesUp
<1>5. ASSUME NEW s \in Sessions, OpenAdd(s) PROVE CatchesUp'
  <2>1. PICK out \in SUBSET Live : /\ sess' = [Closed(out) EXCEPT ![s].pc = "live"]
                                   /\ behind' = behind \ out
    BY <1>5 DEF OpenAdd, Evicted
  <2>2. sess[s].pc = "planned" /\ UNCHANGED <<registryVars, tableOnly, rebuilds>>
    BY <1>5 DEF OpenAdd
  <2>3. s \notin out /\ s \in HasRead /\ Busy(s) = {}
    BY <1>0, <2>1, <2>2 DEF Live, HasRead, Opening, Busy, RebuildsTyped
  <2>4. /\ sess'[s].pc = "live" /\ sess'[s].shown = sess[s].shown
        /\ sess'[s].server = sess[s].server /\ sess'[s].owner = sess[s].owner
    BY <1>0, <2>1, <2>3, ClosedTyped DEF SessTyped, SessionRecords
  <2>5. \A u \in Sessions \ {s} :
          IF u \in out THEN sess'[u] = Closed(out)[u] ELSE sess'[u] = sess[u]
    BY <1>0, <2>1, ClosedTyped
  <2>6. \A u \in Sessions \ {s} : RacesAreBehind(u)' /\ (Current(u) => Current(u)')
    BY <1>1, <1>2, <2>1, <2>2, <2>5
  <2>7. Busy(s)' = {} /\ \A k \in Slots : ~ rebuilds'[s][k].alone
    BY <2>2, <2>3 DEF CatchesUp, RacesAreBehind, Busy
  <2>8. RacesAreBehind(s)'
    BY <2>7 DEF RacesAreBehind
  <2>9. Current(s) => Current(s)'
    <3>1. (s \notin HasRead)'
      BY <2>4 DEF HasRead, Opening
    <3>2. Surface(s)' = Surface(s)
      BY <2>2, <2>4, SurfaceKept DEF SameSources, registryVars, tableOnly
    <3>3. Current(s) /\ (s \notin behind)' => sess[s].shown = Surface(s)
      BY <2>1, <2>2, <2>3 DEF Current, SessionAgrees, Agrees
    <3> QED BY <2>4, <2>7, <3>1, <3>2, <3>3 DEF Current
  <2> QED BY <1>3, <2>2, <2>6, <2>8, <2>9 DEF CatchesUp
<1> QED BY <1>4, <1>5 DEF CloseByClient, SweepIdle

\* The steps of a rebuild.
LEMMA RebuildsStep ==
  ASSUME SessionsTyped, CatchesUp, NEW s \in Sessions, NEW k \in Slots,
         \/ RebuildConns(s, k) \/ RebuildTools(s, k) \/ RebuildPlan(s, k)
         \/ RebuildCommit(s, k) \/ RebuildFail(s, k)
  PROVE  CatchesUp'
<1> DEFINE rb == rebuilds[s][k]
<1>0. /\ sess \in [Sessions -> SessionRecords] /\ sess[s] \in SessionRecords
      /\ rebuilds \in [Sessions -> [Slots -> RebuildRecords]] /\ rb \in RebuildRecords
      /\ RacesAreBehind(s)
  BY DEF SessionsTyped, SessTyped, RebuildsTyped, CatchesUp
<1>1. UNCHANGED <<registryVars, tableOnly>> /\ SameSources(s)
  BY DEF RebuildConns, RebuildTools, RebuildPlan, RebuildCommit, RebuildFail, SameSources,
         registryVars, tableOnly
<1>2. k \in Busy(s)
  BY DEF RebuildConns, RebuildTools, RebuildPlan, RebuildCommit, RebuildFail, Busy
<1>3. \A u \in Sessions \ {s} : /\ sess'[u] = sess[u] /\ rebuilds'[u] = rebuilds[u]
                                /\ u \in behind' <=> u \in behind
  BY <1>0 DEF RebuildConns, RebuildTools, RebuildPlan, RebuildCommit, RebuildFail, RebuildStep
<1>4. ASSUME NEW r, RebuildStep(s, k, r)
      PROVE  rebuilds'[s][k] = r /\ \A j \in Slots \ {k} : rebuilds'[s][j] = rebuilds[s][j]
  BY <1>0, <1>4 DEF RebuildStep
<1>5. /\ sess'[s].pc = sess[s].pc
      /\ sess'[s].server = sess[s].server /\ sess'[s].owner = sess[s].owner
  BY <1>0 DEF RebuildConns, RebuildTools, RebuildPlan, RebuildCommit, RebuildFail,
              SessionRecords
<1>6. ((s \in Live)' <=> s \in Live) /\ ((s \in HasRead)' <=> s \in HasRead)
  BY <1>5 DEF Live, HasRead, Opening
<1>7. s \notin HasRead
  BY <1>0, <1>2 DEF Busy, HasRead, Opening, SessionsTyped, RebuildsTyped
\* A rebuild that goes on stays a lone one if it was.
<1>8. ASSUME NEW r, RebuildStep(s, k, r), r.pc # "idle", r.alone = rb.alone,
             UNCHANGED <<sess, behind>>,
             rb.alone /\ RebuildAgrees(s, rb) => RebuildAgrees(s, rebuilds[s][k])'
      PROVE  CatchesUp'
  <2>1. Busy(s)' = Busy(s)
    BY <1>2, <1>4, <1>8 DEF Busy
  <2>2. \A j \in Slots : rebuilds'[s][j].alone = rebuilds[s][j].alone
    BY <1>4, <1>8
  <2>3. RacesAreBehind(s)'
    <3>1. (s \in Live \ behind)' <=> s \in Live \ behind
      BY <1>6, <1>8
    <3> QED BY <1>0, <2>1, <2>2, <3>1 DEF RacesAreBehind, Busy
  <2>4. Current(s) => Current(s)'
    <3>1. ASSUME NEW j \in Slots, rebuilds[s][j].alone PROVE j = k
      BY <1>0, <1>2, <3>1 DEF RacesAreBehind
    <3>2. Busy(s)' # {}
      BY <1>2, <2>1
    <3> QED BY <1>4, <1>6, <1>7, <1>8, <2>2, <3>1, <3>2 DEF Current
  <2> QED BY <1>1, <1>3, <2>3, <2>4, SessionCatchesUp
<1>9. CASE RebuildConns(s, k)
  <2> DEFINE r == [rb EXCEPT !.pc = "conns", !.conns = assigned[sess[s].server]]
  <2>1. RebuildStep(s, k, r) /\ UNCHANGED <<sess, behind>>
    BY <1>9 DEF RebuildConns
  <2>2. r.pc = "conns" /\ r.alone = rb.alone /\ r.conns = assigned[sess[s].server]
    BY <1>0 DEF RebuildRecords
  <2> HIDE DEF r
  <2>3. RebuildAgrees(s, rebuilds[s][k])'
    BY <1>1, <1>4, <2>1, <2>2 DEF RebuildAgrees, Agrees, tableOnly
  <2>4. rebuilds'[s][k] = r
    BY <1>4, <2>1
  <2> QED BY <1>8, <2>1, <2>2, <2>3, <2>4 DEF RebuildAgrees
<1>10. CASE RebuildTools(s, k)
  <2> DEFINE r == [rb EXCEPT !.pc = "tools", !.conns = {},
                             !.rows = RegisteredRows(rb.conns)]
  <2>1. RebuildStep(s, k, r) /\ UNCHANGED <<sess, behind>> /\ rb.pc = "conns"
    BY <1>10 DEF RebuildTools
  <2>2. r.pc = "tools" /\ r.alone = rb.alone /\ r.rows = RegisteredRows(rb.conns)
    BY <1>0 DEF RebuildRecords
  <2> HIDE DEF r
  <2>3. rebuilds'[s][k] = r
    BY <1>4, <2>1
  <2>4. RebuildAgrees(s, rb) => RebuildAgrees(s, rebuilds[s][k])'
    <3>1. RebuildAgrees(s, rb) => r.rows = RegisteredRows(assigned[sess[s].server])
      BY <2>1, <2>2 DEF RebuildAgrees, Agrees
    <3> QED BY <1>1, <1>5, <2>2, <2>3, <3>1, SurfaceKept DEF RebuildAgrees, Agrees
  <2> QED BY <1>8, <2>1, <2>2, <2>4
<1>11. CASE RebuildPlan(s, k)
  <2> DEFINE r == [rb EXCEPT !.pc = "planned", !.rows = NoRows,
                             !.plan = Plan(rb.rows, allowed[sess[s].owner])]
  <2>1. RebuildStep(s, k, r) /\ UNCHANGED <<sess, behind>> /\ rb.pc = "tools"
    BY <1>11 DEF RebuildPlan
  <2>2. /\ r.pc = "planned" /\ r.alone = rb.alone
        /\ r.plan = Plan(rb.rows, allowed[sess[s].owner])
    BY <1>0 DEF RebuildRecords
  <2> HIDE DEF r
  <2>3. rebuilds'[s][k] = r
    BY <1>4, <2>1
  <2>4. RebuildAgrees(s, rb) => RebuildAgrees(s, rebuilds[s][k])'
    <3>1. RebuildAgrees(s, rb) => r.plan = Surface(s)
      BY <2>1, <2>2 DEF RebuildAgrees, Agrees, Surface
    <3> QED BY <1>1, <1>5, <2>2, <2>3, <3>1, SurfaceKept DEF RebuildAgrees, Agrees
  <2> QED BY <1>8, <2>1, <2>2, <2>4
\* A rebuild that ends: a lone one leaves its session idle and up to date, any
\* other leaves it behind.
<1>12. CASE RebuildCommit(s, k) \/ RebuildFail(s, k)
  <2>1. RebuildStep(s, k, NoRebuild)
    BY <1>12 DEF RebuildCommit, RebuildFail
  <2>2. /\ rebuilds'[s][k].pc = "idle" /\ ~ rebuilds'[s][k].alone
        /\ \A j \in Slots \ {k} : rebuilds'[s][j] = rebuilds[s][j]
    BY <1>4, <2>1 DEF NoRebuild
  <2>3. Busy(s)' = Busy(s) \ {k}
    BY <2>2 DEF Busy
  <2>4. \A j \in Slots : ~ rebuilds'[s][j].alone
    BY <1>0, <1>2, <2>2 DEF RacesAreBehind
  <2>5. (s \in Live \ behind)' => s \in Live /\ rb.alone /\ RebuildCommit(s, k)
    <3>1. s \in Live \ behind => rb.alone
      BY <1>0, <1>2 DEF RacesAreBehind
    <3> QED BY <1>6, <1>12, <3>1 DEF RebuildCommit, RebuildFail
  <2>6. rb.alone => Busy(s)' = {}
    BY <1>0, <2>3 DEF RacesAreBehind
  <2>7. RacesAreBehind(s)'
    BY <2>4, <2>5, <2>6 DEF RacesAreBehind
  <2>8. ASSUME Current(s), (s \in Live \ behind)' PROVE sess'[s].shown = Surface(s)'
    <3>1. s \in Live /\ rb.alone /\ RebuildCommit(s, k)
      BY <2>5, <2>8
    <3>2. rb.plan = Surface(s)
      BY <2>8, <3>1 DEF Current, RebuildAgrees, Agrees, RebuildCommit
    <3>3. sess'[s].shown = Reconciled(sess[s].shown, rb.plan)
      BY <1>0, <3>1 DEF RebuildCommit, SessionRecords
    <3>4. sess'[s].shown = Surface(s)
      BY <3>2, <3>3 DEF Reconciled
    <3> QED BY <1>1, <1>5, <3>4, SurfaceKept
  <2>9. Current(s) => Current(s)'
    BY <1>6, <1>7, <2>4, <2>8 DEF Current
  <2> QED BY <1>1, <1>3, <2>7, <2>9, SessionCatchesUp
<1> QED BY <1>9, <1>10, <1>11, <1>12

\* After a restart no session is left.
LEMMA RestartCatchesUp ==
  ASSUME SessionsTyped, RestartProcess
  PROVE  CatchesUp'
<1>1. ASSUME NEW s \in Sessions PROVE sess'[s].pc \notin {"live", "conns", "tools", "planned"}
  <2>1. SessTyped /\ sess[s].pc \in {"unused", "asked", "conns", "tools", "planned", "live",
                                     "closed", "failed"}
    BY DEF SessionsTyped, SessTyped, SessionRecords
  <2>2. CASE s \in Live
    <3>1. Closed(Live)[s].pc = "closed"
      BY <2>1, <2>2, ClosedTyped
    <3> QED BY <2>2, <3>1 DEF RestartProcess
  <2>3. CASE s \in Opening
    BY <2>3 DEF RestartProcess, Live, Opening, Unused
  <2>4. CASE s \notin Live \union Opening
    BY <2>1, <2>4 DEF RestartProcess, Live, Opening
  <2> QED BY <2>2, <2>3, <2>4
<1>2. ASSUME NEW s \in Sessions PROVE RacesAreBehind(s)' /\ Current(s)'
  <2>1. (s \notin Live \union HasRead)'
    BY <1>1 DEF Live, HasRead, Opening
  <2>2. \A k \in Slots : ~ rebuilds'[s][k].alone
    BY DEF RestartProcess, NoRebuild
  <2> QED BY <2>1, <2>2, GoneCurrent DEF RacesAreBehind
<1> QED BY <1>2 DEF CatchesUp

LEMMA CatchesUpStep == SessionsTyped /\ CatchesUp /\ [Next]_vars => CatchesUp'
<1> SUFFICES ASSUME SessionsTyped, CatchesUp, [Next]_vars PROVE CatchesUp'
  OBVIOUS
<1>1. CASE UNCHANGED vars
  <2>1. UNCHANGED <<sess, rebuilds, behind, byId, assigned, allowed, assigning, req>>
    BY <1>1 DEF vars, registryVars, sessionVars
  <2>2. Unsettled' = Unsettled
    BY <2>1 DEF Unsettled
  <2> QED BY <2>1, <2>2, AdminCatchesUp
<1>2. CASE Next
  BY <1>2, AdminStep, AnnounceStep, OpenStep, TableStep, RebuildsStep, RestartCatchesUp
     DEF Next
<1> QED BY <1>1, <1>2

\* Once every request and rebuild is over, a session shows exactly what a new
\* one would, unless its rebuilds raced or a change that nobody announces fell
\* on it: overlapping reloads, evictions and restarts are no other excuse.
THEOREM SettledAreCurrent == Spec => []SettledSessionsCurrent
BY SessionsTypedInit, SessionsTypedStep, CatchesUpInit, CatchesUpStep, CaughtUp, PTL DEF Spec
=============================================================================
