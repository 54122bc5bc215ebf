----------------------------- MODULE GraphEdges -----------------------------
(***************************************************************************)
(* The nodes and edges of the knowledge graph and those who write them:    *)
(*   knowledge-graph/kg-static.service.ts         the tools of a connector *)
(*   knowledge-graph/kg-observational.service.ts  bumpEdge, nodeId         *)
(*   knowledge-graph/kg-llm.service.ts            upsertLlmEdge            *)
(*   knowledge-graph/kg.service.ts                the people of the        *)
(*                                                workspace                *)
(* The writers read an edge, wait, and write what they made of it; a sync  *)
(* is one transaction.  Labels, fields, confidence and the count of        *)
(* observations are left out, and so are the change of an edge's kind (a   *)
(* link is a pair of entities and a kind) and the update by which a flow   *)
(* of values confirms a STATIC reference.                                  *)
(***************************************************************************)
EXTENDS Naturals, FiniteSets

CONSTANTS
  Entities,     \* of all connectors
  Own,          \* the entities of the connector that is synced
  Links,        \* the edges there may be
  FromOf, ToOf, \* the ends of a link
  Suggesting,   \* kinds bumped as 'suggested': same_identity and related
  Surfaces,     \* static graphs the tools may imply: sets of entities and links
  Writers,      \* observations and enrichments at a time
  Syncs,        \* syncs at a time
  MaxCurations,     \* bound: requests of people
  NoNode, NoEdge, NotBusy

EndsOf(l) == {FromOf[l], ToOf[l]}
Edge(status, source, manual) == [status |-> status, source |-> source, manual |-> manual]
Statuses  == {"active", "suggested", "rejected"}
NodeKinds == {"STATIC", "OBSERVED", "MANUAL"}
EdgeRows  == [status : Statuses, source : NodeKinds \union {"LLM"}, manual : BOOLEAN]
SyncRuns  == [graph : Surfaces, pc : {"persist", "stamp"}]
WriterRuns == [does : {"bump", "enrich"}, link : Links, found : EdgeRows \union {NoEdge},
               gone : BOOLEAN]

ASSUME EdgesAssumption ==
  /\ MaxCurations \in Nat
  /\ NoNode \notin NodeKinds /\ NoEdge \notin EdgeRows
  /\ NotBusy \notin SyncRuns /\ NotBusy \notin WriterRuns
  /\ Own \subseteq Entities
  /\ FromOf \in [Links -> Entities] /\ ToOf \in [Links -> Entities]
  /\ Suggesting \subseteq Links
  /\ \A s \in Surfaces : \A l \in s \intersect Links : {FromOf[l], ToOf[l]} \subseteq s \intersect Own

VARIABLES
  implied,      \* what the tools of the connector imply
  node,       \* source of a kg_nodes row
  edge,       \* kg_edges row of a link
  staticHash, \* what kg_connector_state says was persisted
  sync,       \* running syncConnector calls
  writer,     \* running bumpEdge and upsertLlmEdge calls
  curated       \* requests of people, bounded by MaxCurations

edgesVars == <<implied, node, edge, staticHash, sync, writer, curated>>

-----------------------------------------------------------------------------
(* Faulty variants of definitions below: bugs the properties must catch.   *)

\* Only a manual edge is spared, a rejected one is not.
SparedIfManual(found) == found.manual

-----------------------------------------------------------------------------
(* Deletion.                                                               *)

\* A writer that has read one of these edges will not find its id again.
Orphaned(ls) ==
  [w \in Writers |-> IF writer[w] # NotBusy /\ writer[w].link \in ls
                     THEN [writer[w] EXCEPT !.gone = writer[w].found # NoEdge \/ @]
                     ELSE writer[w]]

Without(ls) == [l \in Links |-> IF l \in ls THEN NoEdge ELSE edge[l]]

-----------------------------------------------------------------------------
(* The people of the workspace.                                            *)

Curate == curated < MaxCurations /\ curated' = curated + 1

\* PATCH edges/:id.  Only a note makes the edge manual.
updateEdge(l, status, noted) ==
  /\ Curate /\ edge[l] # NoEdge
  /\ edge' = [edge EXCEPT ![l].status = status, ![l].manual = @ \/ noted]
  /\ UNCHANGED <<implied, node, staticHash, sync, writer>>

createManualEdge(l) ==
  /\ Curate /\ \A e \in EndsOf(l) : node[e] # NoNode
  /\ edge' = [edge EXCEPT ![l] = Edge("active", "MANUAL", TRUE)]
  /\ UNCHANGED <<implied, node, staticHash, sync, writer>>

deleteEdge(l) ==
  /\ Curate /\ edge[l] # NoEdge
  /\ edge' = Without({l}) /\ writer' = Orphaned({l})
  /\ UNCHANGED <<implied, node, staticHash, sync>>

createNode(e) ==
  /\ Curate /\ node[e] = NoNode
  /\ node' = [node EXCEPT ![e] = "MANUAL"]
  /\ UNCHANGED <<implied, edge, staticHash, sync, writer>>

\* The edges of a node go with it.
deleteNode(e) ==
  /\ Curate /\ node[e] # NoNode
  /\ node' = [node EXCEPT ![e] = NoNode]
  /\ LET ls == {l \in Links : e \in EndsOf(l)}
     IN edge' = Without(ls) /\ writer' = Orphaned(ls)
  /\ UNCHANGED <<implied, staticHash, sync>>

\* The rows of the connector's tools change.
ChangeTools ==
  /\ Curate /\ implied' \in Surfaces
  /\ UNCHANGED <<node, edge, staticHash, sync, writer>>

-----------------------------------------------------------------------------
(* syncConnector.                                                          *)

\* The tools are read, the hash of their graph is compared unless forced.
ReadTools(s, force) ==
  /\ sync[s] = NotBusy
  /\ force \/ implied # staticHash
  /\ sync' = [sync EXCEPT ![s] = [graph |-> implied, pc |-> "persist"]]
  /\ UNCHANGED <<implied, node, edge, staticHash, writer, curated>>

\* STATIC nodes and edges the graph no longer has are deleted, the edges of a
\* deleted node with it; those it has are created, or kept as they are.
persist(s) ==
  LET g      == sync[s].graph
      swept  == {e \in Own \ g : node[e] = "STATIC"}
      sweptLinks ==
        {l \in Links : edge[l] # NoEdge /\
           \/ EndsOf(l) \intersect swept # {}
           \/ edge[l].source = "STATIC" /\ FromOf[l] \in Own /\ l \notin g}
  IN /\ sync[s] # NotBusy /\ sync[s].pc = "persist"
     /\ node' = [e \in Entities |->
                   IF e \in swept THEN NoNode
                   ELSE IF e \in g /\ node[e] = NoNode THEN "STATIC" ELSE node[e]]
     /\ edge' = [l \in Links |->
                   IF l \in sweptLinks THEN NoEdge
                   ELSE IF l \in g /\ edge[l] = NoEdge
                        THEN Edge("active", "STATIC", FALSE) ELSE edge[l]]
     /\ writer' = Orphaned(sweptLinks)
     /\ sync' = [sync EXCEPT ![s].pc = "stamp"]
     /\ UNCHANGED <<implied, staticHash, curated>>

StampHash(s) ==
  /\ sync[s] # NotBusy /\ sync[s].pc = "stamp"
  /\ staticHash' = sync[s].graph
  /\ sync' = [sync EXCEPT ![s] = NotBusy]
  /\ UNCHANGED <<implied, node, edge, writer, curated>>

-----------------------------------------------------------------------------
(* bumpEdge and upsertLlmEdge.                                             *)

Reading(w, does, l) ==
  writer' = [writer EXCEPT ![w] = [does |-> does, link |-> l, found |-> edge[l], gone |-> FALSE]]

\* nodeId creates the ends that are missing; then the edge is read.
ReadToBump(w, l) ==
  /\ writer[w] = NotBusy
  /\ node' = [e \in Entities |-> IF e \in EndsOf(l) /\ node[e] = NoNode THEN "OBSERVED" ELSE node[e]]
  /\ Reading(w, "bump", l)
  /\ UNCHANGED <<implied, edge, staticHash, sync, curated>>

\* The ends are those the model was shown, which may be gone since.
ReadToEnrich(w, l) ==
  /\ writer[w] = NotBusy
  /\ Reading(w, "enrich", l)
  /\ UNCHANGED <<implied, node, edge, staticHash, sync, curated>>

\* An insert fails on a row that is there or an end that is not, an update on a
\* row that is gone: an ingest ends there, an enrichment goes on.
WriteFails(w) ==
  IF writer[w].found = NoEdge
  THEN edge[writer[w].link] # NoEdge \/ \E e \in EndsOf(writer[w].link) : node[e] = NoNode
  ELSE writer[w].gone

Done(w) == writer' = [writer EXCEPT ![w] = NotBusy]

GiveUp(w) ==
  /\ writer[w] # NotBusy /\ WriteFails(w)
  /\ Done(w)
  /\ UNCHANGED <<implied, node, edge, staticHash, sync, curated>>

Writes(w, does) == writer[w] # NotBusy /\ writer[w].does = does /\ ~WriteFails(w) /\ Done(w)

StatusSeen(l) == IF l \in Suggesting THEN "suggested" ELSE "active"

\* The edges whose status a writer leaves alone, as it found them.
Spared(found) == found.manual \/ found.status = "rejected"

Bumped(w) ==
  LET l == writer[w].link
      f == writer[w].found
  IN IF f = NoEdge THEN Edge(StatusSeen(l), "OBSERVED", FALSE)
     ELSE [edge[l] EXCEPT !.source = "OBSERVED",
             !.status = IF Spared(f) THEN @ ELSE StatusSeen(l)]

bumpEdge(w) ==
  /\ Writes(w, "bump")
  /\ edge' = [edge EXCEPT ![writer[w].link] = Bumped(w)]
  /\ UNCHANGED <<implied, node, staticHash, sync, curated>>

\* applied: the workspace applies links of high confidence by itself.
upsertLlmEdge(w, applied) ==
  /\ Writes(w, "enrich")
  /\ LET l == writer[w].link
         f == writer[w].found
     IN edge' =
          IF f = NoEdge
          THEN [edge EXCEPT ![l] = Edge(IF applied THEN "active" ELSE "suggested", "LLM", FALSE)]
          ELSE IF ~Spared(f) /\ applied /\ f.status = "suggested"
          THEN [edge EXCEPT ![l].status = "active"]
          ELSE edge
  /\ UNCHANGED <<implied, node, staticHash, sync, curated>>

\* The process stops: what was read is forgotten.
EdgesCrash ==
  /\ sync' = [s \in Syncs |-> NotBusy] /\ writer' = [w \in Writers |-> NotBusy]
  /\ <<sync', writer'>> # <<sync, writer>>
  /\ UNCHANGED <<implied, node, edge, staticHash, curated>>

-----------------------------------------------------------------------------
EdgesInit ==
  /\ implied \in Surfaces /\ staticHash = {}
  /\ node = [e \in Entities |-> NoNode]
  /\ edge = [l \in Links |-> NoEdge]
  /\ sync = [s \in Syncs |-> NotBusy]
  /\ writer = [w \in Writers |-> NotBusy] /\ curated = 0

\* A person decides on the status of an edge.
Decides(l) ==
  \/ createManualEdge(l)
  \/ \E status \in Statuses, noted \in BOOLEAN : updateEdge(l, status, noted)

EdgesNext ==
  \/ ChangeTools \/ EdgesCrash
  \/ \E l \in Links : Decides(l) \/ deleteEdge(l)
  \/ \E e \in Entities : createNode(e) \/ deleteNode(e)
  \/ \E s \in Syncs :
       (\E force \in BOOLEAN : ReadTools(s, force)) \/ persist(s) \/ StampHash(s)
  \/ \E w \in Writers :
       \/ \E l \in Links : ReadToBump(w, l) \/ ReadToEnrich(w, l)
       \/ GiveUp(w) \/ bumpEdge(w) \/ \E applied \in BOOLEAN : upsertLlmEdge(w, applied)

EdgesSpec == EdgesInit /\ [][EdgesNext]_edgesVars

-----------------------------------------------------------------------------
(* Properties.                                                             *)

\* Every variable has its type, and an edge has both its nodes.
EdgesTypeOK ==
  /\ implied \in Surfaces /\ staticHash \in Surfaces \union {{}}
  /\ node \in [Entities -> NodeKinds \union {NoNode}]
  /\ edge \in [Links -> EdgeRows \union {NoEdge}]
  /\ sync \in [Syncs -> SyncRuns \union {NotBusy}]
  /\ writer \in [Writers -> WriterRuns \union {NotBusy}]
  /\ curated \in 0..MaxCurations
  /\ \A l \in Links : edge[l] # NoEdge => \A e \in EndsOf(l) : node[e] # NoNode

\* What a writer is told to leave alone: an edge with a note of a person, or a
\* rejected one.
Decided(e) == e # NoEdge /\ (e.manual \/ e.status = "rejected")

\* The status of an edge, a person's verdict on it among them, is changed by a
\* person or by a writer that found the edge neither noted nor rejected; and no
\* writer takes back what is active, but on the kinds that are bumped as suggested.
\* So a verdict is lost in three ways only: to a writer that had read the edge
\* before it; to a bump of such a kind, when the edge was confirmed without a note,
\* which the code does not tell from one nobody looked at, though the comments say
\* that an edited edge is manual and a confirmed one not downgraded; and with the
\* edge, that a sync sweeps whoever has edited it and a later one creates anew.
VerdictKept ==
  [][\A l \in Links :
       edge[l] # NoEdge /\ edge'[l] # NoEdge /\ edge'[l].status # edge[l].status =>
         \/ Decides(l)
         \/ /\ edge[l].status = "active" => l \in Suggesting
            /\ \E w \in Writers :
                 /\ writer[w] # NotBusy /\ writer'[w] = NotBusy
                 /\ writer[w].link = l /\ ~Decided(writer[w].found)]_edgesVars
=============================================================================
