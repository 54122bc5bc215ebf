----------------------------- MODULE CatalogSync -----------------------------
(***************************************************************************)
(* A connector installed from the adapter catalog, and what keeps it up to *)
(* date:                                                                   *)
(*   adapters/adapters.service.ts               the installation           *)
(*   adapters/catalog-fingerprint.ts            versions and hashes        *)
(*   connectors/catalog-resync.service.ts       the diff and its application *)
(*   connectors/catalog-reconciler.service.ts   the scan at start          *)
(*   connectors/connectors.controller.ts, tools.controller.ts   the operator *)
(*                                                                         *)
(* The catalog is part of the program: a deployment restarts the process   *)
(* with another release.  Hashes are taken as injective, so a version is   *)
(* the release itself and a hash of instructions the instructions.         *)
(***************************************************************************)
EXTENDS Naturals, FiniteSets

CONSTANTS
  Names,            \* names of tools
  Releases,         \* states of the catalog's adapter: its tools and instructions
  OwnText,          \* instructions written by the operator
  Absent,           \* no tool, no row, no hash
  MaxDeploys,       \* bound: restarts of the process
  MaxEdits,         \* bound: edits by the operator
  MaxSyncFaults     \* bound: writes that fail

Contents == (UNION {{r.tools[n] : n \in Names} : r \in Releases}) \ {Absent}
Texts    == {OwnText} \union {r.instructions : r \in Releases}

\* A row of a tool, the fields of config that are read, what a resync reads.
RowRecords    == [content : Contents, enabled : BOOLEAN, deprecated : BOOLEAN]
RowsOrAbsent  == RowRecords \union {Absent}
Configs       == [baseline : Texts \union {Absent}, version : Releases]
StoredRecords == [rows : [Names -> RowsOrAbsent], texts : Texts, config : Configs]

ASSUME CatalogAssumption ==
  /\ \A r \in Releases : DOMAIN r.tools = Names /\ r.instructions # OwnText
  /\ {MaxDeploys, MaxEdits, MaxSyncFaults} \subseteq Nat
  /\ Absent \notin RowRecords /\ Absent \notin StoredRecords

VARIABLES
  catalog,      \* the release of the running program
  rowOf,        \* mcp_tools of the connector, by name
  texts,        \* connector.instructions
  config,       \* connector.config: instructionsBaseline and adapterVersion
  served,       \* what the registry serves of each tool
  job,          \* the request of the operator and the scan at start
  deploys, edits, syncFaults,   \* counters of the bounds
  kept,         \* history: tools switched off by hand and not touched by a deprecation
  trusted,      \* history: no edit since the diff behind adapterVersion
  own           \* history: the operator wrote the instructions while no resync ran

catalogVars == <<catalog, rowOf, texts, config, served, job, deploys, edits,
                 syncFaults, kept, trusted, own>>

Jobs == {"admin", "boot"}
Idle == [pc |-> "idle", mode |-> "full", diff |-> Absent, seen |-> Absent,
         disturbed |-> FALSE]
Row(content) == [content |-> content, enabled |-> TRUE, deprecated |-> FALSE]
At(j, pc)    == job[j].pc = pc
Ends(j)      == job' = [job EXCEPT ![j] = Idle]
SyncFault    == syncFaults < MaxSyncFaults /\ syncFaults' = syncFaults + 1
Served(rs)   == [n \in Names |-> IF rs[n] # Absent /\ rs[n].enabled
                                 THEN rs[n].content ELSE Absent]
Stored       == [rows |-> rowOf, texts |-> texts, config |-> config]

-----------------------------------------------------------------------------
(* Faulty variants of definitions below: bugs the properties must catch.   *)

\* A tool is enabled by every resync.
TouchedEnabling(r, content) ==
  [content |-> content, enabled |-> TRUE, deprecated |-> FALSE]

\* A tool that left the catalog keeps its switch.
LeftEnabled(r, now) == [now EXCEPT !.deprecated = TRUE]

\* The diff looks at the catalog's tools only.
NoneRemoved == {}

-----------------------------------------------------------------------------
(* computeDiff.                                                            *)

AddedNames   == {n \in Names : catalog.tools[n] # Absent /\ rowOf[n] = Absent}
RemovedNames == {n \in Names : catalog.tools[n] = Absent /\ rowOf[n] # Absent
                               /\ ~rowOf[n].deprecated}
BothNames    == {n \in Names : catalog.tools[n] # Absent /\ rowOf[n] # Absent}
Structural   == {n \in BothNames :
                   rowOf[n].content.endpoint # catalog.tools[n].endpoint}
Safe         == {n \in BothNames \ Structural :
                   rowOf[n].content # catalog.tools[n]}

\* Instructions follow the catalog while they are what the baseline recorded.
Refreshable ==
  /\ catalog.instructions # texts
  /\ config.baseline \in {Absent, texts}

Diff ==
  LET same == AddedNames \union RemovedNames \union Structural \union Safe = {}
              /\ ~Refreshable
  IN [refresh  |-> Refreshable,
      upToDate |-> same,
      safe     |-> ~same /\ AddedNames \union RemovedNames \union Structural = {}]

-----------------------------------------------------------------------------
(* resync.                                                                 *)

\* An existing tool takes the catalog's content; a tool that was deprecated is
\* enabled again, any other keeps its switch.
Touched(r, content) ==
  [content |-> content, enabled |-> r.deprecated \/ r.enabled, deprecated |-> FALSE]

\* A tool that left the catalog, as it was read and as it is.
Left(r, now) ==
  IF r.deprecated THEN now ELSE [now EXCEPT !.enabled = FALSE, !.deprecated = TRUE]

\* What the transaction makes of the row it has read.  The safe mode leaves a
\* tool alone whose endpoint differs and creates and deprecates none.
Applied(r, n, mode) ==
  LET c == catalog.tools[n]
  IN CASE c # Absent /\ r # Absent ->
            IF mode = "safe" /\ r.content.endpoint # c.endpoint
            THEN rowOf[n] ELSE Touched(r, c)
       [] c # Absent /\ r = Absent -> IF mode = "full" THEN Row(c) ELSE rowOf[n]
       [] c = Absent /\ r # Absent -> IF mode = "full" THEN Left(r, rowOf[n]) ELSE rowOf[n]
       [] OTHER -> rowOf[n]

\* The diff ends the resync.
Stops(d, mode) == d.upToDate \/ (mode = "safe" /\ ~d.safe)

ResyncDiff(j) ==
  /\ At(j, "diff")
  /\ IF Stops(Diff, job[j].mode) THEN Ends(j)
     ELSE job' = [job EXCEPT ![j].pc = "read", ![j].diff = Diff]
  /\ UNCHANGED <<catalog, rowOf, texts, config, served, deploys, edits,
                 syncFaults, kept, trusted, own>>

\* The transaction reads the connector and its tools.
ResyncRead(j) ==
  /\ At(j, "read")
  /\ job' = [job EXCEPT ![j].pc = "write", ![j].seen = Stored]
  /\ UNCHANGED <<catalog, rowOf, texts, config, served, deploys, edits,
                 syncFaults, kept, trusted, own>>

\* A row read is gone, or one to be created is there.
Conflicts(seen) == \E n \in Names : (seen[n] = Absent) # (rowOf[n] = Absent)

ResyncWrite(j) ==
  /\ At(j, "write") /\ ~Conflicts(job[j].seen.rows)
  /\ LET s == job[j].seen
         d == job[j].diff
         m == job[j].mode
     IN /\ rowOf' = [n \in Names |-> Applied(s.rows[n], n, m)]
        /\ texts' = IF d.refresh THEN catalog.instructions ELSE s.texts
        /\ config' = [baseline |-> texts',
                      version  |-> IF m = "full" \/ d.safe THEN catalog
                                   ELSE s.config.version]
        /\ trusted' = ~job[j].disturbed
        /\ kept' = {n \in kept : /\ s.rows[n] # Absent /\ ~s.rows[n].enabled
                                 /\ ~s.rows[n].deprecated /\ ~rowOf'[n].deprecated}
        /\ own' = (own /\ s.texts = OwnText)
  /\ IF j = "admin" THEN job' = [job EXCEPT ![j].pc = "reload"] ELSE Ends(j)
  /\ UNCHANGED <<catalog, served, deploys, edits, syncFaults>>

\* The transaction fails or is rolled back; the scan goes on without it.
ResyncFails(j) ==
  /\ At(j, "write")
  /\ \/ Conflicts(job[j].seen.rows) /\ UNCHANGED syncFaults
     \/ SyncFault
  /\ Ends(j)
  /\ UNCHANGED <<catalog, rowOf, texts, config, served, deploys, edits,
                 kept, trusted, own>>

\* POST /connectors/:id/resync-catalog, and the reload after it.
ResyncCatalog ==
  /\ At("admin", "idle")
  /\ job' = [job EXCEPT !["admin"] = [Idle EXCEPT !.pc = "diff"]]
  /\ UNCHANGED <<catalog, rowOf, texts, config, served, deploys, edits,
                 syncFaults, kept, trusted, own>>

ResyncReload ==
  /\ At("admin", "reload")
  /\ served' = Served(rowOf) /\ Ends("admin")
  /\ UNCHANGED <<catalog, rowOf, texts, config, deploys, edits, syncFaults,
                 kept, trusted, own>>

-----------------------------------------------------------------------------
(* reconcile.  It reads every config first and comes to this connector later. *)

Scan ==
  /\ At("boot", "scan")
  /\ IF config.version = catalog THEN Ends("boot")
     ELSE job' = [job EXCEPT !["boot"].pc = "compare", !["boot"].seen = Stored]
  /\ UNCHANGED <<catalog, rowOf, texts, config, served, deploys, edits,
                 syncFaults, kept, trusted, own>>

Compare ==
  /\ At("boot", "compare")
  /\ job' = [job EXCEPT !["boot"] =
       IF Diff.upToDate THEN [@ EXCEPT !.pc = "stamp"]
       ELSE IF Diff.safe THEN [@ EXCEPT !.pc = "diff", !.mode = "safe", !.seen = Absent]
       ELSE Idle]
  /\ UNCHANGED <<catalog, rowOf, texts, config, served, deploys, edits,
                 syncFaults, kept, trusted, own>>

\* stampVersion writes back the config of the scan.
StampVersion ==
  /\ At("boot", "stamp")
  /\ config' = [job["boot"].seen.config EXCEPT !.version = catalog]
  /\ trusted' = ~job["boot"].disturbed
  /\ Ends("boot")
  /\ UNCHANGED <<catalog, rowOf, texts, served, deploys, edits, syncFaults,
                 kept, own>>

-----------------------------------------------------------------------------
(* The operator and the process.                                           *)

Edit ==
  /\ edits < MaxEdits /\ edits' = edits + 1
  /\ trusted' = FALSE
  /\ job' = [j \in Jobs |-> IF At(j, "idle") THEN job[j]
                            ELSE [job[j] EXCEPT !.disturbed = TRUE]]
  /\ UNCHANGED <<catalog, config, deploys, syncFaults>>

\* PUT of a tool: its content or its switch.
EditTool(n) ==
  /\ Edit /\ rowOf[n] # Absent
  /\ \/ \E c \in Contents : rowOf' = [rowOf EXCEPT ![n].content = c] /\ UNCHANGED kept
     \/ /\ rowOf' = [rowOf EXCEPT ![n].enabled = ~@]
        /\ kept' = IF rowOf[n].enabled THEN kept \union {n} ELSE kept \ {n}
  /\ served' = Served(rowOf')
  /\ UNCHANGED <<texts, own>>

DeleteTool(n) ==
  /\ Edit /\ rowOf[n] # Absent
  /\ rowOf' = [rowOf EXCEPT ![n] = Absent] /\ kept' = kept \ {n}
  /\ served' = Served(rowOf')
  /\ UNCHANGED <<texts, own>>

\* PUT of the connector.
EditInstructions ==
  /\ Edit /\ texts' = OwnText
  /\ own' = (own \/ \A j \in Jobs : At(j, "idle"))
  /\ UNCHANGED <<rowOf, served, kept>>

\* importAdapter, at the first start: the connector with its stamp, then its
\* tools; one that fails is skipped.
Install(made) ==
  /\ rowOf = [n \in Names |-> IF n \in made THEN Row(catalog.tools[n]) ELSE Absent]
  /\ texts = catalog.instructions
  /\ config = [baseline |-> catalog.instructions, version |-> catalog]
  /\ trusted = (made = {n \in Names : catalog.tools[n] # Absent})

\* The process restarts, with this release or another: the registry is loaded,
\* then the scan starts beside the requests.
Deploy ==
  /\ deploys < MaxDeploys /\ deploys' = deploys + 1
  /\ catalog' \in Releases
  /\ served' = Served(rowOf)
  /\ job' = [j \in Jobs |-> IF j = "boot" THEN [Idle EXCEPT !.pc = "scan"] ELSE Idle]
  /\ UNCHANGED <<rowOf, texts, config, edits, syncFaults, kept, trusted, own>>

CatalogInit ==
  /\ catalog \in Releases
  /\ \E made \in SUBSET {n \in Names : catalog.tools[n] # Absent} : Install(made)
  /\ served = Served(rowOf)
  /\ job = [j \in Jobs |-> Idle]
  /\ deploys = 0 /\ edits = 0 /\ syncFaults = 0
  /\ kept = {} /\ own = FALSE

CatalogNext ==
  \/ \E j \in Jobs : ResyncDiff(j) \/ ResyncRead(j) \/ ResyncWrite(j) \/ ResyncFails(j)
  \/ ResyncCatalog \/ ResyncReload
  \/ Scan \/ Compare \/ StampVersion
  \/ \E n \in Names : EditTool(n) \/ DeleteTool(n)
  \/ EditInstructions \/ Deploy

CatalogSpec == CatalogInit /\ [][CatalogNext]_catalogVars

-----------------------------------------------------------------------------
(* Properties.                                                             *)

\* Every variable has its type; a deprecated tool that no operator has switched
\* on is disabled.
CatalogTypeOK ==
  /\ catalog \in Releases
  /\ rowOf \in [Names -> RowsOrAbsent]
  /\ texts \in Texts /\ config \in Configs
  /\ served \in [Names -> Contents \union {Absent}]
  /\ \A j \in Jobs :
       /\ job[j].pc \in {"idle", "scan", "compare", "stamp", "diff", "read",
                         "write", "reload"}
       /\ job[j].pc \in {"compare", "stamp", "write"} => job[j].seen # Absent
       /\ job[j].pc \in {"read", "write"} => ~Stops(job[j].diff, job[j].mode)
  /\ edits = 0 => \A n \in Names :
       rowOf[n] # Absent => rowOf[n].enabled = ~rowOf[n].deprecated
  /\ kept \subseteq Names /\ trusted \in BOOLEAN /\ own \in BOOLEAN

\* The version on a connector means what the scan at start takes it for: as
\* long as nobody edited the tools since the diff it stands for, they have the
\* catalog's content, and those that left the catalog are deprecated.  Without
\* it the scan would skip a connector that needs an update.
StampIsTrue ==
  trusted /\ config.version = catalog =>
    \A n \in Names :
      IF catalog.tools[n] # Absent
      THEN rowOf[n] # Absent /\ rowOf[n].content = catalog.tools[n]
      ELSE rowOf[n] = Absent \/ rowOf[n].deprecated

\* The switch of the operator survives every resync: a tool switched off by hand
\* stays off.  The exceptions are a tool that was deprecated and came back, and a
\* switch moved while a transaction had already read it.
ManualDisableKept == \A n \in kept : ~rowOf[n].enabled

\* "Refresh instructions only if the user hasn't edited them."
EditedInstructionsKept == own => texts = OwnText
=============================================================================
