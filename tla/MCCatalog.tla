----------------------------- MODULE MCCatalog -----------------------------
(***************************************************************************)
(* A connector has its tools from the adapter catalog (CatalogSync) or from *)
(* an imported document (SpecImport), its page shows them (ConnectorPage), *)
(* the page of a server and a modal assign it (ServerPage) and the          *)
(* knowledge graph has its entities from it (GraphEdges): a behaviour is   *)
(* one of the five.                                                        *)
(* The releases change a description, an endpoint, the                     *)
(* instructions, drop a tool and bring it back; the documents rename an    *)
(* operation, move it, exchange two names and drop a tool.                 *)
(***************************************************************************)
EXTENDS CatalogSync, SpecImport, GraphEdges, ConnectorPage,
        ServerPage, TLC

CONSTANTS n1, n2, r1, r2, r3, e1, e2, l1, l2, c1, c2, v1

VARIABLE part   \* which of the five

Tool(t, e) == [text |-> t, endpoint |-> e]
Release(a, b, i) == [tools |-> (n1 :> a @@ n2 :> b), instructions |-> i]

MCReleases ==
  { Release(Tool(1, 1), Tool(1, 1), 1),
    Release(Tool(2, 1), Tool(1, 1), 1),
    Release(Tool(1, 2), Tool(1, 1), 2),
    Release(Tool(1, 1), Absent, 2) }

Parsed(n, o, e) == [name |-> n, op |-> o, endpoint |-> e]

MCSpecs ==
  { <<Parsed(n1, NoRow, 1), Parsed(n2, NoRow, 2)>>,
    <<Parsed(n2, NoRow, 1)>>,
    <<Parsed(n1, 1, 3), Parsed(n2, 2, 1)>> }

\* A new connector, and one that lost a tool at an earlier import.
MCInitialTools ==
  { [r \in {r1, r2, r3} |-> NoRow],
    [r \in {r1, r2, r3} |->
       CASE r = r1 -> [name |-> n1, op |-> NoRow, endpoint |-> 1,
                       enabled |-> TRUE, deprecated |-> FALSE]
         [] r = r2 -> [name |-> n2, op |-> NoRow, endpoint |-> 2,
                       enabled |-> FALSE, deprecated |-> TRUE]
         [] OTHER  -> NoRow] }

\* A reference the tools imply, and a link that is only suggested.
MCFromOf   == [l \in {l1, l2} |-> e1]
MCToOf     == [l \in {l1, l2} |-> e2]
MCSurfaces == {{e1}, {e1, e2, l1}}

MCSymmetry == Permutations(PageTools) \union Permutations(PageTexts)

catalogRunVars == <<catalogVars, importVars, edgesVars, connectorPageVars,
                    serverPageVars, part>>

\* Of the starts that only differ in which connector or which text is named, one;
\* a second server is there when a modal has created it.
CatalogRunInit ==
  /\ part \in {"catalog", "document", "graph", "page", "server"}
  /\ CatalogInit /\ ImportInit /\ EdgesInit /\ ConnectorPageInit
  /\ ServerPageInit
  /\ part # "catalog" => trusted /\ catalog = Release(Tool(1, 1), Tool(1, 1), 1)
  /\ part # "document" => tools[r1] = NoRow
  /\ part # "graph" => implied = {e1}
  /\ part # "page" => row.assigned /\ There(row.tools) = {}
  /\ \A s \in Servers \ {Home} : servers[s] = Deleted
  /\ servers[Home].words = v1 /\ servers[Home].links # {c2}
  /\ part # "server" => servers[Home].links = Linkable

CatalogRunNext ==
  /\ UNCHANGED part
  /\ \/ /\ part = "catalog" /\ CatalogNext
        /\ UNCHANGED <<importVars, edgesVars, connectorPageVars, serverPageVars>>
     \/ /\ part = "document" /\ ImportNext
        /\ UNCHANGED <<catalogVars, edgesVars, connectorPageVars, serverPageVars>>
     \/ /\ part = "graph" /\ EdgesNext
        /\ UNCHANGED <<catalogVars, importVars, connectorPageVars, serverPageVars>>
     \/ /\ part = "page" /\ ConnectorPageNext
        /\ UNCHANGED <<catalogVars, importVars, edgesVars, serverPageVars>>
     \/ /\ part = "server" /\ ServerPageNext
        /\ UNCHANGED <<catalogVars, importVars, edgesVars, connectorPageVars>>

CatalogRunSpec == CatalogRunInit /\ [][CatalogRunNext]_catalogRunVars

\* Every variable of the five parts has its type.
CatalogRunTypeOK ==
  CatalogTypeOK /\ ImportTypeOK /\ EdgesTypeOK /\ ConnectorPageTypeOK /\ ServerPageTypeOK

\* What the pages show is true: the list and the playground of a connector
\* (PageShowsRows, ResultIsOfTool), and a server with its keys.
PageIsTrue == PageShowsRows /\ ResultIsOfTool /\ ServerPageShowsRow
=============================================================================
