---------------------------- MODULE McpSessions -----------------------------
(***************************************************************************)
(* Stateful MCP sessions (mcp-server/mcp-endpoint.controller.ts with       *)
(* mcp-servers/mcp-session.manager.ts), over the tool registry and the     *)
(* assignment of connectors to servers (mcp-servers.service.ts).           *)
(*                                                                         *)
(* Opening a session and rebuilding one are chains of awaits that read the *)
(* same four things:                                                       *)
(*    connector ids ; tools in the registry ; role of the principal ; use  *)
(* A change of connectors or assignments notifies the live sessions, and   *)
(* each starts a rebuild of its own: rebuilds of one session may overlap,  *)
(* and a session that is still opening is not notified.                    *)
(***************************************************************************)
EXTENDS ToolRegistry

CONSTANTS
  Servers,       \* MCP server rows
  Principals,    \* who connects: a user, an api key, a static credential
  Sessions,      \* session ids
  NoServer, NoPrincipal,  \* of a session id that was not used yet
  MaxSessions,   \* MCP_MAX_SESSIONS
  MaxRebuilds,   \* bound: rebuilds of one session in flight
  MaxChanges     \* bound: changes made by admins in a behaviour

ASSUME SessionsAssumption ==
  /\ NoServer \notin Servers
  /\ NoPrincipal \notin Principals
  /\ MaxSessions \in Nat \ {0}
  /\ MaxRebuilds \in Nat
  /\ MaxChanges \in Nat
  /\ IsFiniteSet(Sessions)

VARIABLES
  server,      \* server rows: "active", "inactive" or "deleted"
  assigned,    \* mcp_server_connectors: the connectors of a server
  assigning,   \* servers with an assignment stored and not yet announced
  allowed,     \* tools the role of a principal allows (all of them: no role)
  sess,        \* the sessions: those being opened, live and closed
  byServer,    \* byServer of the manager: live sessions of a server
  rebuilds,    \* the rebuilds of a session in flight
  behind,      \* history: sessions whose surface the code does not promise,
               \* because rebuilds raced or a change was never announced
  changes      \* bound: number of changes so far

sessionVars == <<server, assigned, assigning, allowed, sess, byServer, rebuilds,
                 behind, changes>>
tableOnly   == <<server, assigned, assigning, allowed, changes>>
vars        == <<registryVars, sessionVars>>

Slots == 1 .. MaxRebuilds

Unused == [pc |-> "unused", server |-> NoServer, owner |-> NoPrincipal,
           conns |-> {}, rows |-> NoRows, shown |-> {}]
NoRebuild == [pc |-> "idle", conns |-> {}, rows |-> NoRows, plan |-> {},
              alone |-> FALSE]

Live      == {s \in Sessions : sess[s].pc = "live"}
Opening   == {s \in Sessions : sess[s].pc \in {"asked", "conns", "tools", "planned"}}
HasRead   == Opening \ {s \in Sessions : sess[s].pc = "asked"}
Busy(s)   == {k \in Slots : rebuilds[s][k].pc # "idle"}
OwnedBy(p) == {s \in Sessions : sess[s].owner = p}

-----------------------------------------------------------------------------
(* Faulty variants of definitions below: bugs the properties must catch.   *)

\* The diff of a rebuild registers what is new and removes nothing.
OnlyAdded(shown, plan) == shown \union plan

\* The cap is tested after the new session is in the table.
EvictedTooLate(s) ==
  {out \in SUBSET Live :
     Cardinality(out) = IF Cardinality(Live) > MaxSessions THEN 1 ELSE 0}

\* remove() forgets the secondary index.
IndexKept(out) == byServer

\* A request that failed keeps the binding of the session it did not open.
FailKeepsBinding(s) ==
  /\ s \in Opening
  /\ sess' = [sess EXCEPT ![s].pc = "failed"]
  /\ behind' = behind \ {s}
  /\ UNCHANGED <<registryVars, tableOnly, byServer, rebuilds>>

\* A closed session leaves no trace and its id is used again.
ClosedForgotten(out) ==
  [s \in Sessions |-> IF s \in out THEN Unused ELSE sess[s]]

-----------------------------------------------------------------------------
(* planToolSet, the diff of a rebuild, and the session table.              *)

\* The registered tools of some connectors (getAllTools, filtered).
RegisteredRows(conns) ==
  [t \in Tools |-> IF OwnerOf[t] \in conns THEN byId[t] ELSE NoName]

\* Names planned for a principal: allowed by the role, one entry per name.
Plan(rows, allow) == {n \in Names : \E t \in allow : rows[t] = n}

\* The names a session shows after a rebuild: those no longer planned are
\* removed, those missing are registered, the others are left alone.
Reconciled(shown, plan) == (shown \intersect plan) \union (plan \ shown)

\* The session that add() evicts.  The least recently active one in the code;
\* which one that is depends on the traffic, so any live session may be it.
Evicted(s) ==
  {out \in SUBSET Live :
     Cardinality(out) = IF Cardinality(Live) >= MaxSessions THEN 1 ELSE 0}

\* The sessions out are removed from the table and from its index.
Closed(out) ==
  [s \in Sessions |->
     IF s \in out THEN [sess[s] EXCEPT !.pc = "closed", !.conns = {}, !.shown = {}]
     ELSE sess[s]]
IndexWithoutClosed(out) == [v \in Servers |-> byServer[v] \ out]

Remove(out) ==
  /\ sess' = Closed(out)
  /\ byServer' = IndexWithoutClosed(out)
  /\ behind' = behind \ out

-----------------------------------------------------------------------------
(* Announcements.                                                          *)

\* A new rebuild of session s in a free slot.  It is alone if no other
\* rebuild of s runs, and the ones that run are not alone any more.
WithRebuild(s) ==
  LET free == CHOOSE k \in Slots : k \notin Busy(s) IN
  [k \in Slots |->
     IF k = free THEN [NoRebuild EXCEPT !.pc = "asked", !.alone = (Busy(s) = {})]
     ELSE [rebuilds[s][k] EXCEPT !.alone = FALSE]]

\* notifyToolsChanged: every live session starts a rebuild.
Notify ==
  /\ \A s \in Live : Busy(s) # Slots
  /\ rebuilds' = [s \in Sessions |-> IF s \in Live THEN WithRebuild(s) ELSE rebuilds[s]]
  /\ behind' = behind \union HasRead \union {s \in Live : Busy(s) # {}}

\* A change the code announces to nobody: the sessions in S may fall behind.
Unannounced(S) ==
  /\ behind' = behind \union (S \intersect (Live \union HasRead))
  /\ rebuilds' = [s \in Sessions |->
       IF s \in S THEN [k \in Slots |-> [rebuilds[s][k] EXCEPT !.alone = FALSE]]
       ELSE rebuilds[s]]

Change == changes < MaxChanges /\ changes' = changes + 1

-----------------------------------------------------------------------------
(* Sessions start empty, on a server process that has just loaded its      *)
(* tools: rows and assignments are whatever the admins left before.        *)
SessionsInit ==
  /\ dbConn \in [Connectors -> {"none", "active"}]
  /\ dbName \in Rows
  /\ \A t, u \in Tools :
       /\ dbName[t] # NoName => dbConn[OwnerOf[t]] = "active"
       /\ OwnerOf[t] = OwnerOf[u] /\ dbName[t] = dbName[u] => t = u \/ dbName[t] = NoName
  /\ byId = dbName
  /\ byName = IndexOfIds(dbName)
  /\ upstream = {n \in Names : byName[n] # {}}
  /\ req = [r \in Requests |-> Idle]
  /\ unreloaded = {}
  /\ server = [v \in Servers |-> "active"]
  /\ assigned \in [Servers -> SUBSET {c \in Connectors : dbConn[c] = "active"}]
  /\ assigning = {}
  /\ allowed = [p \in Principals |-> Tools]
  /\ sess = [s \in Sessions |-> Unused]
  /\ byServer = [v \in Servers |-> {}]
  /\ rebuilds = [s \in Sessions |-> [k \in Slots |-> NoRebuild]]
  /\ behind = {}
  /\ changes = 0

(* Admin requests on connectors: the actions of ToolRegistry.              *)

\* What changes rows only: a stored change is seen by sessions at a reload.
AdminWrite ==
  /\ \/ \E c \in Connectors : CreateConnector(c)
     \/ \E c \in Connectors, state \in Existing : UpdateConnector(c, state)
     \/ \E r \in Requests, t \in Tools, n \in NamesOrNone : WriteTool(r, t, n)
  /\ Change
  /\ UNCHANGED <<server, assigned, assigning, allowed, sess, byServer, rebuilds, behind>>

\* The cascade of a deleted connector also takes its assignments.
AdminRemove ==
  /\ \E r \in Requests, c \in Connectors :
       /\ RemoveConnector(r, c)
       /\ assigned' = [v \in Servers |-> assigned[v] \ {c}]
  /\ Change
  /\ UNCHANGED <<server, assigning, allowed, sess, byServer, rebuilds, behind>>

AdminReload ==
  /\ \E r \in Requests : FailWrite(r) \/ ReloadStart(r) \/ ReloadRead(r)
  /\ UNCHANGED sessionVars

\* A failed reload leaves the tools cleared and notifies nobody.
AdminReloadFail ==
  /\ \E r \in Requests : ReloadFail(r)
  /\ Unannounced(Sessions)
  /\ UNCHANGED <<tableOnly, sess, byServer>>

\* The last step of a reload registers the tools and notifies the sessions.
AdminReloadFinish ==
  /\ \E r \in Requests : ReloadFinish(r)
  /\ Notify
  /\ UNCHANGED <<tableOnly, sess, byServer>>

(* Admin requests on servers and roles.                                    *)

\* assignConnectors: one transaction replaces the rows.
AssignConnectors(v, C) ==
  /\ server[v] # "deleted" /\ v \notin assigning
  /\ \A c \in C : dbConn[c] \in Existing
  /\ assigned' = [assigned EXCEPT ![v] = C]
  /\ assigning' = assigning \union {v}
  /\ Change
  /\ UNCHANGED <<registryVars, server, allowed, sess, byServer, rebuilds, behind>>

\* Then the sessions are notified.
AnnounceAssignment(v) ==
  /\ v \in assigning
  /\ assigning' = assigning \ {v}
  /\ Notify
  /\ UNCHANGED <<registryVars, server, assigned, allowed, sess, byServer, changes>>

\* PUT /mcp-servers/:id switches a server; its sessions are not touched.
SwitchServer(v, state) ==
  /\ server[v] # "deleted"
  /\ server' = [server EXCEPT ![v] = state]
  /\ Change
  /\ UNCHANGED <<registryVars, assigned, assigning, allowed, sess, byServer, rebuilds, behind>>

\* DELETE /mcp-servers/:id takes the assignments along, by cascade.
DeleteServer(v) ==
  /\ server[v] # "deleted"
  /\ server' = [server EXCEPT ![v] = "deleted"]
  /\ assigned' = [assigned EXCEPT ![v] = {}]
  /\ Unannounced({s \in Sessions : sess[s].server = v})
  /\ Change
  /\ UNCHANGED <<registryVars, assigning, allowed, sess, byServer>>

\* The role of a principal, or what its role allows, changes.
SetToolAccess(p, T) ==
  /\ allowed' = [allowed EXCEPT ![p] = T]
  /\ Unannounced(OwnedBy(p))
  /\ Change
  /\ UNCHANGED <<registryVars, server, assigned, assigning, sess, byServer>>

(* Opening a session: handleMcpRequest and handleStatefulRequest.          *)

OpenAsk(s, v, p) ==
  /\ sess[s].pc = "unused"
  /\ server[v] = "active"
  /\ sess' = [sess EXCEPT ![s].pc = "asked", ![s].server = v, ![s].owner = p]
  /\ UNCHANGED <<registryVars, tableOnly, byServer, rebuilds, behind>>

\* The database answers getConnectorIds.
OpenConns(s) ==
  /\ sess[s].pc = "asked"
  /\ sess' = [sess EXCEPT ![s].pc = "conns", ![s].conns = assigned[sess[s].server]]
  /\ UNCHANGED <<registryVars, tableOnly, byServer, rebuilds, behind>>

\* The registry is read and filtered.
OpenTools(s) ==
  /\ sess[s].pc = "conns"
  /\ sess' = [sess EXCEPT ![s].pc = "tools", ![s].conns = {},
                 ![s].rows = RegisteredRows(sess[s].conns)]
  /\ UNCHANGED <<registryVars, tableOnly, byServer, rebuilds, behind>>

\* The database answers getAllowedToolIds; the tools are planned from it.
OpenPlan(s) ==
  /\ sess[s].pc = "tools"
  /\ sess' = [sess EXCEPT ![s].pc = "planned", ![s].rows = NoRows,
                 ![s].shown = Plan(sess[s].rows, allowed[sess[s].owner])]
  /\ UNCHANGED <<registryVars, tableOnly, byServer, rebuilds, behind>>

\* The client's initialize arrives: the session gets its id and is added.
OpenAdd(s) ==
  /\ sess[s].pc = "planned"
  /\ \E out \in Evicted(s) :
       /\ sess' = [Closed(out) EXCEPT ![s].pc = "live"]
       /\ byServer' = [IndexWithoutClosed(out) EXCEPT ![sess[s].server] = @ \union {s}]
       /\ behind' = behind \ out
  /\ UNCHANGED <<registryVars, tableOnly, rebuilds>>

\* The request fails, or is no initialize: no session is registered.
OpenFail(s) ==
  /\ s \in Opening
  /\ sess' = [sess EXCEPT ![s] = [Unused EXCEPT !.pc = "failed"]]
  /\ behind' = behind \ {s}
  /\ UNCHANGED <<registryVars, tableOnly, byServer, rebuilds>>

(* The end of a session.                                                   *)

\* DELETE /mcp/:serverId with the session id: only its own principal, at its
\* own server, reaches the session; anybody else is answered 404.
CloseByClient(s, v, p) ==
  /\ s \in Live /\ sess[s].server = v /\ sess[s].owner = p
  /\ Remove({s})
  /\ UNCHANGED <<registryVars, tableOnly, rebuilds>>

\* sweepIdle: the sessions that were idle for MCP_SESSION_IDLE_MIN.
SweepIdle(out) ==
  /\ out # {}
  /\ Remove(out)
  /\ UNCHANGED <<registryVars, tableOnly, rebuilds>>

(* A rebuild of a session: the closure of makeRebuild.                     *)

RebuildStep(s, k, rebuild) ==
  rebuilds' = [rebuilds EXCEPT ![s][k] = rebuild]

RebuildConns(s, k) ==
  LET rb == rebuilds[s][k] IN
  /\ rb.pc = "asked"
  /\ RebuildStep(s, k, [rb EXCEPT !.pc = "conns", !.conns = assigned[sess[s].server]])
  /\ UNCHANGED <<registryVars, tableOnly, sess, byServer, behind>>

RebuildTools(s, k) ==
  LET rb == rebuilds[s][k] IN
  /\ rb.pc = "conns"
  /\ RebuildStep(s, k, [rb EXCEPT !.pc = "tools", !.conns = {},
                                  !.rows = RegisteredRows(rb.conns)])
  /\ UNCHANGED <<registryVars, tableOnly, sess, byServer, behind>>

RebuildPlan(s, k) ==
  LET rb == rebuilds[s][k] IN
  /\ rb.pc = "tools"
  /\ RebuildStep(s, k, [rb EXCEPT !.pc = "planned", !.rows = NoRows,
                                  !.plan = Plan(rb.rows, allowed[sess[s].owner])])
  /\ UNCHANGED <<registryVars, tableOnly, sess, byServer, behind>>

\* The handles are reconciled; those of a closed session are beyond reach.
RebuildCommit(s, k) ==
  LET rb == rebuilds[s][k] IN
  /\ rb.pc = "planned"
  /\ sess' = IF s \in Live
             THEN [sess EXCEPT ![s].shown = Reconciled(@, rb.plan)] ELSE sess
  /\ behind' = IF rb.alone THEN behind \ {s} ELSE behind
  /\ RebuildStep(s, k, NoRebuild)
  /\ UNCHANGED <<registryVars, tableOnly, byServer>>

\* A query of the rebuild rejects: notifyToolsChanged logs it and goes on.
RebuildFail(s, k) ==
  /\ rebuilds[s][k].pc \in {"asked", "tools"}
  /\ behind' = behind \union ({s} \intersect Live)
  /\ RebuildStep(s, k, NoRebuild)
  /\ UNCHANGED <<registryVars, tableOnly, sess, byServer>>

\* The process stops and starts again: its sessions and rebuilds are gone.
RestartProcess ==
  /\ Restart
  /\ sess' = [s \in Sessions |->
       IF s \in Live THEN Closed(Live)[s]
       ELSE IF s \in Opening THEN [Unused EXCEPT !.pc = "failed"] ELSE sess[s]]
  /\ byServer' = [v \in Servers |-> {}]
  /\ rebuilds' = [s \in Sessions |-> [k \in Slots |-> NoRebuild]]
  /\ behind' = {}
  /\ assigning' = {}
  /\ UNCHANGED <<server, assigned, allowed, changes>>

Next ==
  \/ AdminWrite
  \/ AdminRemove
  \/ AdminReload
  \/ AdminReloadFail
  \/ AdminReloadFinish
  \/ \E v \in Servers, C \in SUBSET Connectors : AssignConnectors(v, C)
  \/ \E v \in Servers : AnnounceAssignment(v)
  \/ \E v \in Servers, state \in {"active", "inactive"} : SwitchServer(v, state)
  \/ \E v \in Servers : DeleteServer(v)
  \/ \E p \in Principals, T \in SUBSET Tools : SetToolAccess(p, T)
  \/ \E s \in Sessions, v \in Servers, p \in Principals : OpenAsk(s, v, p)
  \/ \E s \in Sessions : OpenConns(s)
  \/ \E s \in Sessions : OpenTools(s)
  \/ \E s \in Sessions : OpenPlan(s)
  \/ \E s \in Sessions : OpenAdd(s)
  \/ \E s \in Sessions : OpenFail(s)
  \/ \E s \in Sessions, v \in Servers, p \in Principals : CloseByClient(s, v, p)
  \/ \E out \in SUBSET Live : SweepIdle(out)
  \/ \E s \in Sessions, k \in Slots : RebuildConns(s, k)
  \/ \E s \in Sessions, k \in Slots : RebuildTools(s, k)
  \/ \E s \in Sessions, k \in Slots : RebuildPlan(s, k)
  \/ \E s \in Sessions, k \in Slots : RebuildCommit(s, k)
  \/ \E s \in Sessions, k \in Slots : RebuildFail(s, k)
  \/ RestartProcess

Spec == SessionsInit /\ [][Next]_vars

-----------------------------------------------------------------------------
(* Properties.                                                             *)

\* Types, and: a session is bound to a server and a principal from its first
\* request on, in every state but unused and failed.
SessionsTypeOK ==
  /\ RegistryTypeOK
  /\ server \in [Servers -> {"active", "inactive", "deleted"}]
  /\ assigned \in [Servers -> SUBSET Connectors]
  /\ assigning \subseteq Servers
  /\ allowed \in [Principals -> SUBSET Tools]
  /\ sess \in [Sessions ->
       [pc : {"unused", "asked", "conns", "tools", "planned", "live", "closed", "failed"},
        server : Servers \union {NoServer},
        owner : Principals \union {NoPrincipal},
        conns : SUBSET Connectors, rows : Rows, shown : SUBSET Names]]
  /\ \A s \in Sessions :
       /\ sess[s].pc \in {"unused", "failed"} <=> sess[s].server = NoServer
       /\ sess[s].pc \in {"unused", "failed"} <=> sess[s].owner = NoPrincipal
  /\ byServer \in [Servers -> SUBSET Sessions]
  /\ rebuilds \in [Sessions -> [Slots ->
       [pc : {"idle", "asked", "conns", "tools", "planned"},
        conns : SUBSET Connectors, rows : Rows, plan : SUBSET Names,
        alone : BOOLEAN]]]
  /\ behind \subseteq Sessions
  /\ changes \in 0 .. MaxChanges

\* The table never holds more sessions than MCP_MAX_SESSIONS, however many
\* requests are between planning their tools and adding their session.
SessionCap == Cardinality(Live) <= MaxSessions

\* The secondary index is the table: the sessions of a server are exactly the
\* live ones bound to it, after any mix of adds, evictions and removals.
IndexIsTable ==
  \A v \in Servers : byServer[v] = {s \in Live : sess[s].server = v}

\* The names a session should show, were it opened now.
Surface(s) == Plan(RegisteredRows(assigned[sess[s].server]), allowed[sess[s].owner])

\* No change is on its way to the sessions.
Quiet == assigning = {} /\ \A r \in Requests : req[r] = Idle

\* Once every request and rebuild is over, a session shows exactly the tools a
\* new session would, unless its rebuilds raced or a change that nobody
\* announces fell on it; gaps in the registry during reloads leave no trace.
SettledSessionsCurrent ==
  Quiet => \A s \in Live \ behind : Busy(s) = {} => sess[s].shown = Surface(s)

\* What assignConnectors says ("live stateful sessions must pick up
\* added/removed tools"): when all is over, a session shows no tool that no
\* connector assigned to its server provides.
RemovedToolsAreGone ==
  Quiet => \A s \in Live : Busy(s) = {} =>
    \A n \in sess[s].shown :
      \E c \in assigned[sess[s].server] : \E t \in ToolsOf(c) : byId[t] = n

\* The table of sessions implements the abstract one: ids are bound once and
\* never reopen, even by a rebuild that ends after its session was closed.
Table == INSTANCE SessionTable WITH
  Bindings <- Servers \X Principals,
  Unbound  <- <<NoServer, NoPrincipal>>,
  Capacity <- MaxSessions,
  live     <- Live,
  closed   <- {s \in Sessions : sess[s].pc = "closed"},
  binding  <- [s \in Sessions |->
                 IF sess[s].pc \in {"live", "closed"}
                 THEN <<sess[s].server, sess[s].owner>> ELSE <<NoServer, NoPrincipal>>]

ImplementsTable == Table!TableSpec
=============================================================================
