---------------------------- MODULE ToolRegistry ----------------------------
(***************************************************************************)
(* The runtime registry of dynamic MCP tools and its reload protocol       *)
(* (mcp-server/tool-registry.ts, mcp-server/mcp-server.service.ts), driven *)
(* by the admin requests of connectors/connectors.controller.ts and        *)
(* connectors/tools.controller.ts.                                         *)
(*                                                                         *)
(* A request writes rows and then reloads its connector:                   *)
(*    write ; clear the connector's tools ; read its rows ; register them  *)
(* Each `;' is an await, so the steps of two requests interleave.  The     *)
(* process is single threaded: what lies between two awaits is one step.   *)
(***************************************************************************)
EXTENDS Naturals, FiniteSets

CONSTANTS
  Connectors,       \* ids of connector rows, never reused (uuid)
  Tools,            \* ids of mcp_tools rows
  OwnerOf,          \* the connector a tool row belongs to
  Names,            \* tool names
  NoName,           \* a tool with no enabled row, or not in the registry
  Requests,         \* slots for admin requests in flight
  NoConnector,      \* the connector of an idle slot
  MaxPerConnector   \* bound: requests in flight on one connector

ASSUME RegistryAssumption ==
  /\ OwnerOf \in [Tools -> Connectors]
  /\ NoName \notin Names
  /\ NoConnector \notin Connectors
  /\ MaxPerConnector \in Nat
  /\ IsFiniteSet(Requests)

VARIABLES
  dbConn,      \* connector rows: "none", "active", "inactive" or "deleted"
  dbName,      \* name of each enabled tool row, NoName when disabled or absent
  byId,        \* toolsById: the name under which a tool id is registered
  byName,      \* toolsByName: the tools filed under a name; a set, so a second
               \* copy of a tool under its name is not told from the first
  upstream,    \* names registered with the upstream McpRegistryService
  req,         \* the admin requests in flight
  unreloaded   \* history: connectors whose last change was not followed by a
               \* read of its rows, by design (PUT) or because a call failed

dbVars       == <<dbConn, dbName>>
memoryVars   == <<byId, byName, upstream>>
registryVars == <<dbConn, dbName, byId, byName, upstream, req, unreloaded>>

Existing   == {"active", "inactive"}
NamesOrNone == Names \union {NoName}
Rows       == [Tools -> NamesOrNone]
NoRows     == [t \in Tools |-> NoName]
Idle       == [pc |-> "idle", conn |-> NoConnector, rows |-> NoRows]

ToolsOf(c)  == {t \in Tools : OwnerOf[t] = c}
InFlight(c) == {r \in Requests : req[r].conn = c}

-----------------------------------------------------------------------------
(* Faulty variants of definitions below: bugs the properties must catch.   *)

\* The whole id map is cleared, as the name index is.
IdsEmptied(c) == NoRows

\* The name index is rebuilt before the tools are dropped from toolsById.
IndexOfOldIds(ids) == [n \in Names |-> {t \in Tools : byId[t] = n}]

\* The upstream registry loses an old name even if another connector needs it.
AllOldNames(c, index) == {n \in Names : \E t \in ToolsOf(c) : byId[t] = n}

\* Nothing is removed from the upstream registry.
NoOldNames(c, index) == {}

\* registerTool replaces the list of a name instead of extending it.
IndexReplaced(index, rows) ==
  [n \in Names |-> LET new == {t \in Tools : rows[t] = n}
                   IN IF new = {} THEN index[n] ELSE new]

\* A failed reload leaves its slot bound.
SlotKept(r) ==
  /\ req[r].pc = "cleared"
  /\ req' = [req EXCEPT ![r].pc = "idle"]
  /\ unreloaded' = unreloaded \union {req[r].conn}
  /\ UNCHANGED <<dbVars, memoryVars>>

\* DELETE /connectors/:id ends after the delete.
RemoveWithoutReload(r, c) ==
  /\ dbConn[c] \in Existing
  /\ req[r] = Idle /\ Cardinality(InFlight(c)) < MaxPerConnector
  /\ dbConn' = [dbConn EXCEPT ![c] = "deleted"]
  /\ dbName' = [t \in Tools |-> IF OwnerOf[t] = c THEN NoName ELSE dbName[t]]
  /\ UNCHANGED <<memoryVars, req, unreloaded>>

-----------------------------------------------------------------------------
(* The maps of ToolRegistry.                                               *)

\* toolsById without the tools of connector c.
IdsWithout(c) == [t \in Tools |-> IF OwnerOf[t] = c THEN NoName ELSE byId[t]]

\* toolsByName as unregisterConnectorTools rebuilds it from toolsById.
IndexOfIds(ids) == [n \in Names |-> {t \in Tools : ids[t] = n}]

\* Names of c's old tools that no tool uses any more (countByName = 0): the
\* ones reloadConnectorTools removes from the upstream registry.
OrphanedNames(c, index) ==
  {n \in Names : index[n] = {} /\ \E t \in ToolsOf(c) : byId[t] = n}

\* registerTool over the rows a reload read.
IdsWith(ids, rows) ==
  [t \in Tools |-> IF rows[t] = NoName THEN ids[t] ELSE rows[t]]
IndexWith(index, rows) ==
  [n \in Names |-> index[n] \union {t \in Tools : rows[t] = n}]

\* The names seen for the first time (countByName = 1 after the push).
FirstSeen(index, rows) ==
  {n \in Names : index[n] = {} /\ \E t \in Tools : rows[t] = n}

\* The enabled rows of an active connector, what a reload should serve.
EnabledRows(c) ==
  [t \in Tools |->
     IF OwnerOf[t] = c /\ dbConn[c] = "active" THEN dbName[t] ELSE NoName]

\* The enabled rows of every active connector (loadAllTools).
AllEnabledRows == [t \in Tools |-> EnabledRows(OwnerOf[t])[t]]

-----------------------------------------------------------------------------
RegistryInit ==
  /\ dbConn = [c \in Connectors |-> "none"]
  /\ dbName = NoRows
  /\ byId = NoRows
  /\ byName = IndexOfIds(NoRows)
  /\ upstream = {}
  /\ req = [r \in Requests |-> Idle]
  /\ unreloaded = {}

\* Request r may write to connector c: it starts on c, or is already there
\* (bulk creation, imports and catalog resyncs write many rows, one by one).
MayWrite(r, c) ==
  \/ req[r] = Idle /\ Cardinality(InFlight(c)) < MaxPerConnector
  \/ req[r].pc = "written" /\ req[r].conn = c

\* Request r stands at pc in its work on c, holding rows.
Goes(r, c, pc, rows) ==
  req' = [req EXCEPT ![r] = [pc |-> pc, conn |-> c, rows |-> rows]]

\* POST /connectors: a new active connector without tools.
CreateConnector(c) ==
  /\ dbConn[c] = "none"
  /\ dbConn' = [dbConn EXCEPT ![c] = "active"]
  /\ UNCHANGED <<dbName, memoryVars, req, unreloaded>>

\* One row written by request r: created or renamed (n a name), disabled or
\* deleted (n = NoName).  The database keeps (connectorId, name) unique.
WriteTool(r, t, n) ==
  LET c == OwnerOf[t] IN
  /\ dbConn[c] \in Existing
  /\ MayWrite(r, c)
  /\ \A u \in ToolsOf(c) \ {t} : dbName[u] = n => n = NoName
  /\ dbName' = [dbName EXCEPT ![t] = n]
  /\ Goes(r, c, "written", NoRows)
  /\ UNCHANGED <<dbConn, memoryVars, unreloaded>>

\* PUT /connectors/:id: the row changes and nothing is reloaded.
UpdateConnector(c, state) ==
  /\ dbConn[c] \in Existing
  /\ dbConn' = [dbConn EXCEPT ![c] = state]
  /\ unreloaded' = unreloaded \union {c}
  /\ UNCHANGED <<dbName, memoryVars, req>>

\* DELETE /connectors/:id: the row and, by cascade, its tools are deleted.
RemoveConnector(r, c) ==
  /\ dbConn[c] \in Existing
  /\ req[r] = Idle /\ Cardinality(InFlight(c)) < MaxPerConnector
  /\ dbConn' = [dbConn EXCEPT ![c] = "deleted"]
  /\ dbName' = [t \in Tools |-> IF OwnerOf[t] = c THEN NoName ELSE dbName[t]]
  /\ Goes(r, c, "removed", NoRows)
  /\ UNCHANGED <<memoryVars, unreloaded>>

\* A later write of a bulk request throws: the rows already written stay and
\* the handler ends before the reload.
FailWrite(r) ==
  /\ req[r].pc = "written"
  /\ req' = [req EXCEPT ![r] = Idle]
  /\ unreloaded' = unreloaded \union {req[r].conn}
  /\ UNCHANGED <<dbVars, memoryVars>>

\* First part of reloadConnectorTools, up to the await of findUnique.
ReloadStart(r) ==
  LET c == req[r].conn
      ids == IdsWithout(c)
      index == IndexOfIds(ids)
  IN
  /\ req[r].pc \in {"written", "removed"}
  /\ byId' = ids
  /\ byName' = index
  /\ upstream' = upstream \ OrphanedNames(c, index)
  /\ Goes(r, c, "cleared", NoRows)
  /\ UNCHANGED <<dbVars, unreloaded>>

\* The database answers findUnique.
ReloadRead(r) ==
  LET c == req[r].conn IN
  /\ req[r].pc = "cleared"
  /\ Goes(r, c, "read", EnabledRows(c))
  /\ unreloaded' = unreloaded \ {c}
  /\ UNCHANGED <<dbVars, memoryVars>>

\* findUnique rejects: the handler ends with the connector's tools cleared.
ReloadFail(r) ==
  /\ req[r].pc = "cleared"
  /\ req' = [req EXCEPT ![r] = Idle]
  /\ unreloaded' = unreloaded \union {req[r].conn}
  /\ UNCHANGED <<dbVars, memoryVars>>

\* Second part of reloadConnectorTools: register what was read.
ReloadFinish(r) ==
  LET rows == req[r].rows IN
  /\ req[r].pc = "read"
  /\ byId' = IdsWith(byId, rows)
  /\ byName' = IndexWith(byName, rows)
  /\ upstream' = upstream \union FirstSeen(byName, rows)
  /\ req' = [req EXCEPT ![r] = Idle]
  /\ UNCHANGED <<dbVars, unreloaded>>

\* The process stops anywhere and starts again; loadAllTools runs before the
\* first request is served.
Restart ==
  /\ byId' = AllEnabledRows
  /\ byName' = IndexOfIds(AllEnabledRows)
  /\ upstream' = {n \in Names : \E t \in Tools : AllEnabledRows[t] = n}
  /\ req' = [r \in Requests |-> Idle]
  /\ unreloaded' = {}
  /\ UNCHANGED dbVars

Reload(r) == ReloadStart(r) \/ ReloadRead(r) \/ ReloadFail(r) \/ ReloadFinish(r)

RegistryNext ==
  \/ \E c \in Connectors : CreateConnector(c)
  \/ \E c \in Connectors, state \in Existing : UpdateConnector(c, state)
  \/ \E r \in Requests, t \in Tools, n \in NamesOrNone : WriteTool(r, t, n)
  \/ \E r \in Requests, c \in Connectors : RemoveConnector(r, c)
  \/ \E r \in Requests : FailWrite(r)
  \/ \E r \in Requests : ReloadStart(r)
  \/ \E r \in Requests : ReloadRead(r)
  \/ \E r \in Requests : ReloadFail(r)
  \/ \E r \in Requests : ReloadFinish(r)
  \/ Restart

\* A handler that is running goes on: the event loop runs every continuation
\* and the database answers or rejects.  Nothing makes an admin act.
RegistryFairness == \A r \in Requests : WF_registryVars(Reload(r))

RegistrySpec == RegistryInit /\ [][RegistryNext]_registryVars /\ RegistryFairness

-----------------------------------------------------------------------------
(* Properties.                                                             *)

\* Types, and: a slot is bound to a connector exactly while its handler runs,
\* and holds rows only between the read and the registration.
RegistryTypeOK ==
  /\ dbConn \in [Connectors -> Existing \union {"none", "deleted"}]
  /\ dbName \in Rows
  /\ byId \in Rows
  /\ byName \in [Names -> SUBSET Tools]
  /\ upstream \subseteq Names
  /\ req \in [Requests -> [pc : {"idle", "written", "removed", "cleared", "read"},
                           conn : Connectors \union {NoConnector},
                           rows : Rows]]
  /\ \A r \in Requests :
       /\ req[r].pc = "idle" <=> req[r].conn = NoConnector
       /\ req[r].pc # "read" => req[r].rows = NoRows
       /\ \A t \in Tools : req[r].rows[t] # NoName => OwnerOf[t] = req[r].conn
  /\ unreloaded \subseteq Connectors

\* A tool that listing finds by id is found by the name it is listed under, so
\* every tool a client sees can be called (getAllTools against getTool).
ListedIsCallable ==
  \A t \in Tools : byId[t] # NoName => t \in byName[byId[t]]

\* A call by name never reaches a tool that is in no listing: an entry of
\* toolsByName always belongs to a registered tool, whatever reloads overlap.
CallableIsListed ==
  \A n \in Names : \A t \in byName[n] : byId[t] # NoName

\* Listing and calling agree, whatever reloads overlap.
IndexAgrees == ListedIsCallable /\ CallableIsListed

\* A reload never tears down a name that another connector still needs: the
\* upstream registry has every callable name (the comment in
\* reloadConnectorTools, "tear down a name that another tenant still needs").
UpstreamCovers == \A n \in Names : byName[n] # {} => n \in upstream

\* No name is left behind in the upstream registry once no tool has it.
UpstreamExact == \A n \in upstream : byName[n] # {}

\* The upstream registry has the callable names and no other.
UpstreamAgrees == UpstreamCovers /\ UpstreamExact

\* Between reloads the registry serves exactly the stored rows: no handler is
\* working on the connector and no change is waiting, so each of its tools is
\* registered, by id and by name, as its row says and under no other name.
ServesRows(c) ==
  \A t \in ToolsOf(c) :
    /\ byId[t] = EnabledRows(c)[t]
    /\ \A n \in Names : t \in byName[n] <=> n = byId[t]
SettledServesRows ==
  \A c \in Connectors :
    InFlight(c) = {} /\ c \notin unreloaded => ServesRows(c)

\* What the comment in the DELETE handler says ("Unregister tools from
\* in-memory MCP registries after DB cascade delete"): once the connector is
\* deleted and its requests are over, none of its tools is registered.
DeletedIsUnregistered ==
  \A c \in Connectors :
    dbConn[c] = "deleted" /\ InFlight(c) = {} =>
      \A t \in ToolsOf(c) : byId[t] = NoName

\* A step changes the registration of a connector's tools only inside a reload
\* of that connector or at a restart: one tenant's edits leave the tools and
\* the names of the others alone.
RegistrationChanges(t) ==
  byId'[t] # byId[t] \/ \E n \in Names : (t \in byName[n]) # (t \in byName'[n])
OnlyOwnReloadChanges ==
  \A t \in Tools : RegistrationChanges(t) =>
    Restart \/ \E r \in InFlight(OwnerOf[t]) : req[r].pc # req'[r].pc
OthersUntouched == [][OnlyOwnReloadChanges]_registryVars

\* When the admins stop writing, the registry comes to serve what is stored,
\* except for connectors whose last change was not followed by a reload.
EventuallyServed ==
  <>[](\A r \in Requests : req[r].pc \notin {"written", "removed"})
    => <>[](\A c \in Connectors : c \in unreloaded \/ ServesRows(c))
=============================================================================
