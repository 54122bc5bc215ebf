----------------------------- MODULE SpecImport -----------------------------
(***************************************************************************)
(* POST /connectors/:id/import, /import-spec and /discover-tools: the tools *)
(* of a parsed document are merged into the rows of a connector            *)
(* (connectors/connectors.controller.ts, createToolsFromParsed), one write *)
(* after the other and without a transaction, beside other requests on the *)
(* same connector.                                                         *)
(***************************************************************************)
EXTENDS Naturals, Sequences, FiniteSets

CONSTANTS
  Imports,        \* import requests
  RowIds,         \* ids of rows
  Specs,          \* parsed documents: sequences of tools
  NoRow,          \* no row, no operationId
  InitialTools,   \* the tools the connector may already have
  MaxTouches,     \* bound: edits by the operator
  MaxImports,     \* bound: imports started
  MaxImportFaults \* bound: restarts and writes that fail

ParsedTools == UNION {{s[k] : k \in DOMAIN s} : s \in Specs}
KnownTools  == ParsedTools \union ((UNION {{ts[r] : r \in RowIds} : ts \in InitialTools}) \ {NoRow})
ToolNames   == {t.name : t \in KnownTools}
Operations  == {t.op : t \in KnownTools} \union {NoRow}
Endpoints   == {t.endpoint : t \in KnownTools}

StoredTools == [name : ToolNames, op : Operations, endpoint : Endpoints,
                enabled : BOOLEAN, deprecated : BOOLEAN]
Present(ts) == {r \in RowIds : ts[r] # NoRow}

\* The index unique(connectorId, name).
ASSUME ImportAssumption ==
  /\ {MaxTouches, MaxImports, MaxImportFaults} \subseteq Nat
  /\ NoRow \notin StoredTools
  /\ \A s \in Specs : s \in Seq(ParsedTools)
  /\ \A ts \in InitialTools :
       /\ ts \in [RowIds -> StoredTools \union {NoRow}]
       /\ \A r, q \in Present(ts) : r # q => ts[r].name # ts[q].name

VARIABLES
  tools,         \* mcp_tools of the connector, by id
  offered,       \* ids the registry has registered
  imp,           \* the requests
  touches, imports, importFaults   \* counters of the bounds

importVars == <<tools, offered, imp, touches, imports, importFaults>>

NoImport == [pc |-> "idle", spec |-> <<>>, k |-> 1, snap |-> [r \in RowIds |-> NoRow],
             matched |-> {}, disturbed |-> FALSE]
Enabled        == {r \in Present(tools) : tools[r].enabled}
Others(r)      == Present(tools) \ {r}

\* The index unique(connectorId, name).
NameTaken(n, rs) == \E q \in rs : tools[q].name = n

ImportFault    == importFaults < MaxImportFaults /\ importFaults' = importFaults + 1

\* Import i goes on; the other imports under way do not see its write.
Written(i, next) ==
  imp' = [j \in Imports |->
            IF j = i THEN next
            ELSE [imp[j] EXCEPT !.disturbed = @ \/ imp[j].pc # "idle"]]

-----------------------------------------------------------------------------
(* Faulty variant of a definition below: a bug the properties must catch.  *)

\* A tool that is found again stays deprecated.
MergedDeprecated(old, t) ==
  [name |-> t.name, op |-> IF t.op = NoRow THEN old.op ELSE t.op,
   endpoint |-> t.endpoint, enabled |-> old.deprecated \/ old.enabled,
   deprecated |-> old.deprecated]

-----------------------------------------------------------------------------
\* The row of a parsed tool: by operationId, else by method and path.  Both maps
\* were built from the rows as they were read.
Matches(snap, t) ==
  LET byOp  == {r \in Present(snap) : snap[r].op = t.op /\ t.op # NoRow}
      byEnd == {r \in Present(snap) : snap[r].endpoint = t.endpoint}
  IN IF byOp # {} THEN byOp ELSE byEnd

Merged(old, t) ==
  [name |-> t.name, op |-> IF t.op = NoRow THEN old.op ELSE t.op,
   endpoint |-> t.endpoint, enabled |-> old.deprecated \/ old.enabled,
   deprecated |-> FALSE]

\* A document is parsed: an error of a parser ends the request before any write.
ImportStart(i, spec) ==
  /\ imp[i].pc = "idle" /\ imports < MaxImports /\ imports' = imports + 1
  /\ imp' = [imp EXCEPT ![i] = [NoImport EXCEPT !.pc = "read", !.spec = spec]]
  /\ UNCHANGED <<tools, offered, touches, importFaults>>

ImportRead(i) ==
  /\ imp[i].pc = "read"
  /\ imp' = [imp EXCEPT ![i].pc = "merge", ![i].snap = tools, ![i].disturbed = FALSE]
  /\ UNCHANGED <<tools, offered, touches, imports, importFaults>>

Merging(i) == imp[i].pc = "merge" /\ imp[i].k <= Len(imp[i].spec)
Advanced(i) == [imp[i] EXCEPT !.k = @ + 1]

\* The update throws when the row is gone or another row has the name.
MergeUpdate(i, r) ==
  /\ Merging(i)
  /\ LET t == imp[i].spec[imp[i].k]
     IN /\ r \in Matches(imp[i].snap, t)
        /\ IF tools[r] = NoRow \/ NameTaken(t.name, Others(r))
           THEN /\ imp' = [imp EXCEPT ![i].pc = "failed"]
                /\ UNCHANGED tools
           ELSE /\ tools' = [tools EXCEPT ![r] = Merged(imp[i].snap[r], t)]
                /\ Written(i, [Advanced(i) EXCEPT !.matched = @ \union {r}])
  /\ UNCHANGED <<offered, touches, imports, importFaults>>

\* A tool without a row is created; if its name is taken it is skipped.
MergeCreate(i, r) ==
  /\ Merging(i)
  /\ LET t == imp[i].spec[imp[i].k]
     IN /\ Matches(imp[i].snap, t) = {}
        /\ IF NameTaken(t.name, Present(tools))
           THEN imp' = [imp EXCEPT ![i] = Advanced(i)] /\ UNCHANGED tools
           ELSE /\ tools[r] = NoRow /\ imp[i].snap[r] = NoRow
                /\ tools' = [tools EXCEPT ![r] =
                     [name |-> t.name, op |-> t.op, endpoint |-> t.endpoint,
                      enabled |-> TRUE, deprecated |-> FALSE]]
                /\ Written(i, Advanced(i))
  /\ UNCHANGED <<offered, touches, imports, importFaults>>

\* Rows that no parsed tool matched and that were not deprecated when read.
Unmatched(i) ==
  {r \in Present(imp[i].snap) \ imp[i].matched : ~imp[i].snap[r].deprecated}

DeprecateUnmatched(i, r) ==
  /\ imp[i].pc = "merge" /\ ~Merging(i) /\ r \in Unmatched(i)
  /\ IF tools[r] = NoRow
     THEN imp' = [imp EXCEPT ![i].pc = "failed"] /\ UNCHANGED tools
     ELSE /\ tools' = [tools EXCEPT ![r].deprecated = TRUE, ![r].enabled = FALSE]
          /\ Written(i, [imp[i] EXCEPT !.matched = @ \union {r}])
  /\ UNCHANGED <<offered, touches, imports, importFaults>>

ImportReload(i) ==
  /\ imp[i].pc = "merge" /\ ~Merging(i) /\ Unmatched(i) = {}
  /\ offered' = Enabled
  /\ imp' = [imp EXCEPT ![i].pc = "done"]
  /\ UNCHANGED <<tools, touches, imports, importFaults>>

\* A write fails otherwise: what was written stays, nothing is reloaded.
ImportFails(i) ==
  /\ imp[i].pc \in {"read", "merge"} /\ ImportFault
  /\ imp' = [imp EXCEPT ![i].pc = "failed"]
  /\ UNCHANGED <<tools, offered, touches, imports>>

ImportAnswer(i) ==
  /\ imp[i].pc \in {"done", "failed"}
  /\ imp' = [imp EXCEPT ![i] = NoImport]
  /\ UNCHANGED <<tools, offered, touches, imports, importFaults>>

\* The operator switches or deletes a tool, with the reload that follows.
Touch(r) ==
  /\ touches < MaxTouches /\ touches' = touches + 1 /\ r \in Present(tools)
  /\ \/ tools' = [tools EXCEPT ![r].enabled = ~@]
     \/ tools' = [tools EXCEPT ![r] = NoRow]
  /\ offered' = {q \in Present(tools') : tools'[q].enabled}
  /\ imp' = [i \in Imports |-> [imp[i] EXCEPT !.disturbed = imp[i].pc # "idle"]]
  /\ UNCHANGED <<imports, importFaults>>

ImportCrash ==
  /\ ImportFault
  /\ imp' = [i \in Imports |-> NoImport] /\ offered' = Enabled
  /\ UNCHANGED <<tools, touches, imports>>

ImportInit ==
  /\ tools \in InitialTools /\ offered = Enabled
  /\ imp = [i \in Imports |-> NoImport]
  /\ touches = 0 /\ imports = 0 /\ importFaults = 0

ImportNext ==
  \/ \E i \in Imports :
       \/ \E s \in Specs : ImportStart(i, s)
       \/ ImportRead(i) \/ ImportReload(i) \/ ImportFails(i) \/ ImportAnswer(i)
       \/ \E r \in RowIds :
            MergeUpdate(i, r) \/ MergeCreate(i, r) \/ DeprecateUnmatched(i, r)
  \/ \E r \in RowIds : Touch(r)
  \/ ImportCrash

ImportSpec == ImportInit /\ [][ImportNext]_importVars

-----------------------------------------------------------------------------
(* Properties.                                                             *)

\* Every variable has its type, and a connector has one tool of a name.
ImportTypeOK ==
  /\ \A r \in Present(tools) :
       tools[r] \in StoredTools /\ \A q \in Others(r) : tools[q].name # tools[r].name
  /\ offered \subseteq RowIds
  /\ \A i \in Imports :
       /\ imp[i].pc \in {"idle", "read", "merge", "done", "failed"}
       /\ imp[i].k \in 1..Len(imp[i].spec) + 1 /\ imp[i].matched \subseteq RowIds
  /\ touches \in 0..MaxTouches /\ imports \in 0..MaxImports

\* Another tool of the document has the row or the name of the k-th.
Shadowed(spec, k) ==
  \E j \in DOMAIN spec \ {k} :
    \/ spec[j].name = spec[k].name
    \/ spec[j].endpoint = spec[k].endpoint
    \/ spec[j].op = spec[k].op /\ spec[k].op # NoRow

\* The rows tell the document: after an import that nothing disturbed, every
\* tool of the document that no other shadows has a row that is not deprecated,
\* every other row is deprecated, and the registry serves the enabled ones.  The
\* exceptions are a name held by a row the document does not match, and two
\* tools of the document that match one row, of which the second wins.
ImportIsComplete ==
  \A i \in Imports :
    imp[i].pc = "done" /\ ~imp[i].disturbed =>
      LET spec == imp[i].spec
          live == {r \in Present(tools) : ~tools[r].deprecated}
      IN /\ \A k \in DOMAIN spec :
              \/ \E r \in live : /\ tools[r].name = spec[k].name
                                 /\ tools[r].endpoint = spec[k].endpoint
              \/ Shadowed(spec, k)
              \/ /\ Matches(imp[i].snap, spec[k]) = {}
                 /\ \E r \in Present(imp[i].snap) : imp[i].snap[r].name = spec[k].name
              \/ \E j \in DOMAIN spec \ {k} :
                   Matches(imp[i].snap, spec[j]) \intersect
                     Matches(imp[i].snap, spec[k]) # {}
         /\ \A r \in live : \E k \in DOMAIN spec : tools[r].name = spec[k].name
         /\ offered = Enabled
=============================================================================
