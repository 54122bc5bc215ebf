------------------------- MODULE ToolRegistryProofs --------------------------
(***************************************************************************)
(* Theorems about ToolRegistry, for every set of connectors, tools, names  *)
(* and requests.                                                           *)
(*                                                                         *)
(* First part: what holds however many requests overlap on one connector   *)
(* (any MaxPerConnector): types, ListedIsCallable, CallableIsListed and    *)
(* UpstreamCovers.  The second and third are inductive with the types; the *)
(* last needs ListedIsCallable.                                            *)
(*                                                                         *)
(* Second part: what it keeps when the requests on one connector do not    *)
(* overlap (MaxPerConnector = 1), while requests on different connectors   *)
(* interleave freely: SettledServesRows, UpstreamExact, OthersUntouched.   *)
(* The inductive invariant Serial adds to the types that at most one       *)
(* handler works on a connector (Alone), that the index is the inverse of  *)
(* the ids (IndexExact), and what a handler has established at each await. *)
(***************************************************************************)
EXTENDS ToolRegistry, FiniteSetTheorems, TLAPS

USE DEF NamesOrNone, Rows, NoRows, Existing, ToolsOf, dbVars, memoryVars

-----------------------------------------------------------------------------
(* The maps of the registry stay maps of their type.                       *)

\* Clearing a connector and registering rows both give a map of tools to names.
LEMMA RowsTyped ==
  ASSUME RegistryAssumption, RegistryTypeOK
  PROVE  /\ NoRows \in Rows
         /\ \A c : EnabledRows(c) \in Rows
         /\ AllEnabledRows \in Rows
         /\ \A c : IdsWithout(c) \in Rows
         /\ \A rows \in Rows : IdsWith(byId, rows) \in Rows
BY DEF RegistryAssumption, RegistryTypeOK, EnabledRows, AllEnabledRows, IdsWithout, IdsWith

LEMMA IndexTyped ==
  ASSUME RegistryTypeOK
  PROVE  /\ \A ids : IndexOfIds(ids) \in [Names -> SUBSET Tools]
         /\ \A rows \in Rows : IndexWith(byName, rows) \in [Names -> SUBSET Tools]
BY DEF RegistryTypeOK, IndexOfIds, IndexWith

\* The rows of a connector are those of its own tools only.
LEMMA EnabledRowsOwned ==
  ASSUME RegistryAssumption, NEW c, NEW t \in Tools, EnabledRows(c)[t] # NoName
  PROVE  OwnerOf[t] = c
BY DEF EnabledRows

\* RegistryTypeOK: types, and a slot is bound to a connector exactly while its
\* handler runs, whatever requests, failures and restarts interleave.
LEMMA TypeInit == ASSUME RegistryAssumption, RegistryInit PROVE RegistryTypeOK
BY DEF RegistryAssumption, RegistryInit, RegistryTypeOK, Idle, IndexOfIds

LEMMA TypeStep ==
  ASSUME RegistryAssumption, RegistryTypeOK, [RegistryNext]_registryVars
  PROVE  RegistryTypeOK'
<1> USE DEF RegistryAssumption, RegistryTypeOK
<1>1. ASSUME NEW c \in Connectors, CreateConnector(c) PROVE RegistryTypeOK'
  BY <1>1 DEF CreateConnector
<1>2. ASSUME NEW c \in Connectors, NEW state \in Existing, UpdateConnector(c, state)
      PROVE RegistryTypeOK'
  BY <1>2 DEF UpdateConnector
<1>3. ASSUME NEW r \in Requests, NEW t \in Tools, NEW n \in NamesOrNone, WriteTool(r, t, n)
      PROVE RegistryTypeOK'
  BY <1>3 DEF WriteTool, Goes
<1>4. ASSUME NEW r \in Requests, NEW c \in Connectors, RemoveConnector(r, c)
      PROVE RegistryTypeOK'
  BY <1>4 DEF RemoveConnector, Goes
<1>5. ASSUME NEW r \in Requests, FailWrite(r) PROVE RegistryTypeOK'
  BY <1>5 DEF FailWrite, Idle
<1>6. ASSUME NEW r \in Requests, ReloadStart(r) PROVE RegistryTypeOK'
  <2>1. byId' \in Rows /\ byName' \in [Names -> SUBSET Tools]
    BY <1>6, RowsTyped, IndexTyped DEF ReloadStart
  <2>2. upstream' \subseteq Names
    BY <1>6 DEF ReloadStart
  <2> QED BY <1>6, <2>1, <2>2 DEF ReloadStart, Goes
<1>7. ASSUME NEW r \in Requests, ReloadRead(r) PROVE RegistryTypeOK'
  <2>1. EnabledRows(req[r].conn) \in Rows
    BY RowsTyped
  <2>2. \A t \in Tools : EnabledRows(req[r].conn)[t] # NoName => OwnerOf[t] = req[r].conn
    BY EnabledRowsOwned
  <2>3. req[r].conn \in Connectors
    BY <1>7 DEF ReloadRead
  <2> QED BY <1>7, <2>1, <2>2, <2>3 DEF ReloadRead, Goes
<1>8. ASSUME NEW r \in Requests, ReloadFail(r) PROVE RegistryTypeOK'
  BY <1>8 DEF ReloadFail, Idle
<1>9. ASSUME NEW r \in Requests, ReloadFinish(r) PROVE RegistryTypeOK'
  <2>1. byId' \in Rows /\ byName' \in [Names -> SUBSET Tools]
    BY <1>9, RowsTyped, IndexTyped DEF ReloadFinish
  <2>2. upstream' \subseteq Names
    BY <1>9 DEF ReloadFinish, FirstSeen
  <2> QED BY <1>9, <2>1, <2>2 DEF ReloadFinish, Idle
<1>10. CASE Restart
  BY <1>10, RowsTyped, IndexTyped DEF Restart, Idle
<1>11. CASE UNCHANGED registryVars
  BY <1>11 DEF registryVars
<1> QED
  BY <1>1, <1>2, <1>3, <1>4, <1>5, <1>6, <1>7, <1>8, <1>9, <1>10, <1>11 DEF RegistryNext

THEOREM TypeCorrect == ASSUME RegistryAssumption PROVE RegistrySpec => []RegistryTypeOK
BY TypeInit, TypeStep, PTL DEF RegistrySpec

-----------------------------------------------------------------------------
(* Listing, calling and the upstream registry.                             *)

Maps == ListedIsCallable /\ CallableIsListed /\ UpstreamCovers

\* The three say nothing of anything but the maps.
LEMMA MapsFrame ==
  ASSUME Maps, UNCHANGED memoryVars
  PROVE  Maps'
BY DEF Maps, ListedIsCallable, CallableIsListed, UpstreamCovers

LEMMA MapsInit == ASSUME RegistryAssumption, RegistryInit PROVE Maps
BY DEF RegistryAssumption, RegistryInit, Maps, ListedIsCallable, CallableIsListed,
       UpstreamCovers, IndexOfIds

\* Clearing a connector: the index is rebuilt from the ids, and a name that
\* some tool still has is not torn down.
LEMMA MapsReloadStart ==
  ASSUME RegistryAssumption, RegistryTypeOK, Maps,
         NEW r \in Requests, ReloadStart(r)
  PROVE  Maps'
<1> DEFINE c == req[r].conn
           ids == IdsWithout(c)
           index == IndexOfIds(ids)
<1>1. /\ byId' = ids
      /\ byName' = index
      /\ upstream' = upstream \ OrphanedNames(c, index)
  BY DEF ReloadStart
<1>2. ids \in Rows
  BY RowsTyped
<1>3. \A n \in Names : index[n] = {t \in Tools : ids[t] = n}
  BY DEF IndexOfIds
<1>4. NoName \notin Names
  BY DEF RegistryAssumption
<1>5. ListedIsCallable'
  BY <1>1, <1>2, <1>3 DEF ListedIsCallable
<1>6. CallableIsListed'
  BY <1>1, <1>3, <1>4 DEF CallableIsListed
<1>7. UpstreamCovers'
  <2> SUFFICES ASSUME NEW n \in Names, index[n] # {}
               PROVE  n \in upstream \ OrphanedNames(c, index)
    BY <1>1 DEF UpstreamCovers
  <2>1. PICK t \in Tools : ids[t] = n
    BY <1>3
  <2>2. byId[t] = n
    BY <2>1, <1>4 DEF IdsWithout
  <2>3. byName[n] # {}
    BY <2>2, <1>4 DEF Maps, ListedIsCallable
  <2> QED BY <2>3 DEF Maps, UpstreamCovers, OrphanedNames
<1> QED BY <1>5, <1>6, <1>7 DEF Maps

\* Registering rows: a tool enters the ids and the index under the same name,
\* and a name that is new to the index goes upstream.
LEMMA MapsReloadFinish ==
  ASSUME RegistryAssumption, RegistryTypeOK, Maps,
         NEW r \in Requests, ReloadFinish(r)
  PROVE  Maps'
<1> DEFINE rows == req[r].rows
<1>1. /\ byId' = IdsWith(byId, rows)
      /\ byName' = IndexWith(byName, rows)
      /\ upstream' = upstream \union FirstSeen(byName, rows)
  BY DEF ReloadFinish
<1>2. rows \in Rows /\ byId \in Rows
  BY DEF RegistryTypeOK
<1>3. \A t \in Tools : IdsWith(byId, rows)[t] = IF rows[t] = NoName THEN byId[t] ELSE rows[t]
  BY DEF IdsWith
<1>4. \A n \in Names : IndexWith(byName, rows)[n] = byName[n] \union {t \in Tools : rows[t] = n}
  BY DEF IndexWith
<1>5. NoName \notin Names
  BY DEF RegistryAssumption
<1>6. ListedIsCallable'
  BY <1>1, <1>2, <1>3, <1>4 DEF Maps, ListedIsCallable
<1>7. CallableIsListed'
  <2> SUFFICES ASSUME NEW n \in Names, NEW t \in IndexWith(byName, rows)[n]
               PROVE  IdsWith(byId, rows)[t] # NoName
    BY <1>1 DEF CallableIsListed
  <2>1. t \in Tools
    BY <1>4 DEF RegistryTypeOK
  <2>2. CASE t \in byName[n]
    BY <2>1, <2>2, <1>3 DEF Maps, CallableIsListed
  <2>3. CASE rows[t] = n
    BY <2>1, <2>3, <1>3, <1>5
  <2> QED BY <2>2, <2>3, <1>4
<1>8. UpstreamCovers'
  BY <1>1, <1>4 DEF Maps, UpstreamCovers, FirstSeen
<1> QED BY <1>6, <1>7, <1>8 DEF Maps

LEMMA MapsRestart ==
  ASSUME RegistryAssumption, RegistryTypeOK, Restart
  PROVE  Maps'
<1>1. /\ byId' = AllEnabledRows
      /\ \A n \in Names : byName'[n] = {t \in Tools : AllEnabledRows[t] = n}
      /\ upstream' = {n \in Names : \E t \in Tools : AllEnabledRows[t] = n}
  BY DEF Restart, IndexOfIds
<1>2. AllEnabledRows \in Rows
  BY RowsTyped
<1>3. NoName \notin Names
  BY DEF RegistryAssumption
<1> QED BY <1>1, <1>2, <1>3 DEF Maps, ListedIsCallable, CallableIsListed, UpstreamCovers

LEMMA MapsStep ==
  ASSUME RegistryAssumption, RegistryTypeOK, Maps, [RegistryNext]_registryVars
  PROVE  Maps'
<1>1. CASE UNCHANGED memoryVars
  BY <1>1, MapsFrame
<1>2. ASSUME NEW r \in Requests, ReloadStart(r) PROVE Maps'
  BY <1>2, MapsReloadStart
<1>3. ASSUME NEW r \in Requests, ReloadFinish(r) PROVE Maps'
  BY <1>3, MapsReloadFinish
<1>4. CASE Restart
  BY <1>4, MapsRestart
<1> QED
  BY <1>1, <1>2, <1>3, <1>4
  DEF RegistryNext, registryVars, CreateConnector, UpdateConnector, WriteTool,
      RemoveConnector, FailWrite, ReloadRead, ReloadFail

LEMMA MapsHold == ASSUME RegistryAssumption PROVE RegistrySpec => []Maps
BY TypeInit, TypeStep, MapsInit, MapsStep, PTL DEF RegistrySpec

\* Every listed tool is found under the name it is listed with, and a call by
\* name only ever finds tools that are listed.
THEOREM IndexAgreesWithListing ==
  ASSUME RegistryAssumption PROVE RegistrySpec => []IndexAgrees
<1>1. Maps => IndexAgrees
  BY DEF Maps, IndexAgrees
<1> QED BY <1>1, MapsHold, PTL

\* A reload of one connector never tears down a name another one still needs.
THEOREM UpstreamIsNeverShort ==
  ASSUME RegistryAssumption PROVE RegistrySpec => []UpstreamCovers
<1>1. Maps => UpstreamCovers
  BY DEF Maps
<1> QED BY <1>1, MapsHold, PTL

-----------------------------------------------------------------------------
(* Requests that do not overlap on one connector.                          *)

Alone ==
  \A r, q \in Requests : req[r].pc # "idle" /\ req[r].conn = req[q].conn => r = q

IndexExact == \A n \in Names : byName[n] = {t \in Tools : byId[t] = n}

\* A handler that waits for its rows, or has them, has cleared its connector.
Cleared ==
  \A r \in Requests : req[r].pc \in {"cleared", "read"} =>
    \A t \in ToolsOf(req[r].conn) : byId[t] = NoName

\* The rows a handler has read are still the stored ones.
ReadIsCurrent ==
  \A r \in Requests, c \in Connectors :
    req[r].pc = "read" /\ req[r].conn = c /\ c \notin unreloaded =>
      req[r].rows = EnabledRows(c)

IdsServed ==
  \A c \in Connectors : InFlight(c) = {} /\ c \notin unreloaded =>
    \A t \in ToolsOf(c) : byId[t] = EnabledRows(c)[t]

NoRowsYet ==
  \A c \in Connectors : dbConn[c] = "none" => \A t \in ToolsOf(c) : dbName[t] = NoName

Serial ==
  Alone /\ IndexExact /\ Cleared /\ ReadIsCurrent /\ IdsServed /\ NoRowsYet /\ UpstreamExact

-----------------------------------------------------------------------------
\* A slot that may start on a connector is the first one there.
LEMMA StartsAlone ==
  ASSUME RegistryAssumption, MaxPerConnector = 1, NEW c,
         Cardinality(InFlight(c)) < MaxPerConnector
  PROVE  InFlight(c) = {}
<1>1. IsFiniteSet(InFlight(c))
  BY FS_Subset DEF RegistryAssumption, InFlight
<1>2. Cardinality(InFlight(c)) \in Nat
  BY <1>1, FS_CardinalityType
<1>3. Cardinality(InFlight(c)) = 0
  BY <1>2
<1> QED BY <1>1, <1>3, FS_EmptySet

LEMMA AloneStep ==
  ASSUME RegistryAssumption, MaxPerConnector = 1, RegistryTypeOK, Alone,
         [RegistryNext]_registryVars
  PROVE  Alone'
<1> USE DEF RegistryAssumption, RegistryTypeOK, Alone
<1>1. ASSUME NEW r \in Requests, NEW c \in Connectors, NEW pc, NEW rows,
             Goes(r, c, pc, rows), req[r].conn = c \/ InFlight(c) = {}, req[r].conn = c => req[r].pc # "idle"
      PROVE  Alone'
  BY <1>1 DEF Goes, InFlight
<1>2. ASSUME NEW r \in Requests, NEW t \in Tools, NEW n \in NamesOrNone, WriteTool(r, t, n)
      PROVE  Alone'
  BY <1>2, <1>1, StartsAlone DEF WriteTool, MayWrite, Idle
<1>3. ASSUME NEW r \in Requests, NEW c \in Connectors, RemoveConnector(r, c)
      PROVE  Alone'
  BY <1>3, <1>1, StartsAlone DEF RemoveConnector
<1>4. ASSUME NEW r \in Requests, ReloadStart(r) PROVE Alone'
  BY <1>4, <1>1 DEF ReloadStart
<1>5. ASSUME NEW r \in Requests, ReloadRead(r) PROVE Alone'
  BY <1>5, <1>1 DEF ReloadRead
<1>6. ASSUME NEW r \in Requests, req' = [req EXCEPT ![r] = Idle] PROVE Alone'
  BY <1>6 DEF Idle
<1>7. CASE Restart
  BY <1>7 DEF Restart, Idle
<1>8. CASE UNCHANGED req
  BY <1>8
<1> QED
  BY <1>2, <1>3, <1>4, <1>5, <1>6, <1>7, <1>8
  DEF RegistryNext, registryVars, CreateConnector, UpdateConnector, FailWrite,
      ReloadFail, ReloadFinish

-----------------------------------------------------------------------------
(* The maps under the steps that change them.                              *)

LEMMA IndexExactStep ==
  ASSUME RegistryAssumption, RegistryTypeOK, IndexExact, Cleared, [RegistryNext]_registryVars
  PROVE  IndexExact'
<1> USE DEF RegistryAssumption, RegistryTypeOK, IndexExact
<1>1. CASE UNCHANGED memoryVars
  BY <1>1
<1>2. ASSUME NEW r \in Requests, ReloadStart(r) PROVE IndexExact'
  BY <1>2 DEF ReloadStart, IndexOfIds
<1>3. ASSUME NEW r \in Requests, ReloadFinish(r) PROVE IndexExact'
  <2> DEFINE rows == req[r].rows
  <2>1. \A t \in Tools : rows[t] # NoName => byId[t] = NoName
    BY <1>3 DEF ReloadFinish, Cleared
  <2>2. \A t \in Tools : byId'[t] = IF rows[t] = NoName THEN byId[t] ELSE rows[t]
    BY <1>3 DEF ReloadFinish, IdsWith
  <2>3. \A n \in Names : byName'[n] = byName[n] \union {t \in Tools : rows[t] = n}
    BY <1>3 DEF ReloadFinish, IndexWith
  <2> QED BY <2>1, <2>2, <2>3
<1>4. CASE Restart
  BY <1>4 DEF Restart, IndexOfIds
<1> QED
  BY <1>1, <1>2, <1>3, <1>4
  DEF RegistryNext, registryVars, CreateConnector, UpdateConnector, WriteTool,
      RemoveConnector, FailWrite, ReloadRead, ReloadFail

LEMMA ClearedStep ==
  ASSUME RegistryAssumption, RegistryTypeOK, Alone, Cleared, [RegistryNext]_registryVars
  PROVE  Cleared'
<1> USE DEF RegistryAssumption, RegistryTypeOK, Cleared
<1>1. ASSUME UNCHANGED byId, NEW r \in Requests,
             \A q \in Requests \ {r} : req'[q] = req[q],
             req'[r].pc \in {"cleared", "read"} =>
               req[r].pc \in {"cleared", "read"} /\ req'[r].conn = req[r].conn
      PROVE  Cleared'
  <2>1. \A q \in Requests : req'[q].pc \in {"cleared", "read"} =>
          req[q].pc \in {"cleared", "read"} /\ req'[q].conn = req[q].conn
    BY <1>1
  <2>2. byId' = byId
    BY <1>1
  <2> QED BY <2>1, <2>2
<1>2. ASSUME NEW r \in Requests, NEW t \in Tools, NEW n \in NamesOrNone, WriteTool(r, t, n)
      PROVE  Cleared'
  BY <1>2, <1>1 DEF WriteTool, Goes
<1>3. ASSUME NEW r \in Requests, NEW c \in Connectors, RemoveConnector(r, c)
      PROVE  Cleared'
  BY <1>3, <1>1 DEF RemoveConnector, Goes
<1>4. ASSUME NEW r \in Requests, FailWrite(r) \/ ReloadFail(r) PROVE Cleared'
  BY <1>4, <1>1 DEF FailWrite, ReloadFail, Idle
<1>5. ASSUME NEW r \in Requests, ReloadRead(r) PROVE Cleared'
  BY <1>5, <1>1 DEF ReloadRead, Goes
<1>6. ASSUME NEW r \in Requests, ReloadStart(r) PROVE Cleared'
  <2>1. \A t \in Tools : byId'[t] = IF OwnerOf[t] = req[r].conn THEN NoName ELSE byId[t]
    BY <1>6 DEF ReloadStart, IdsWithout
  <2>2. \A q \in Requests : req'[q].pc \in {"cleared", "read"} =>
          req'[q].conn = req[q].conn /\ (q = r \/ req[q].pc \in {"cleared", "read"})
    BY <1>6 DEF ReloadStart, Goes
  <2> QED BY <2>1, <2>2
<1>7. ASSUME NEW r \in Requests, ReloadFinish(r) PROVE Cleared'
  <2>1. \A t \in Tools : OwnerOf[t] # req[r].conn => byId'[t] = byId[t]
    BY <1>7 DEF ReloadFinish, IdsWith
  <2>2. \A q \in Requests : req'[q].pc \in {"cleared", "read"} => q # r /\ req'[q] = req[q]
    BY <1>7 DEF ReloadFinish, Idle
  <2>3. \A q \in Requests : req'[q].pc \in {"cleared", "read"} => req[q].conn # req[r].conn
    BY <1>7, <2>2 DEF ReloadFinish, Alone
  <2> QED BY <2>1, <2>2, <2>3
<1>8. CASE Restart
  BY <1>8 DEF Restart, Idle
<1>9. CASE UNCHANGED <<byId, req>>
  BY <1>9
<1> QED
  BY <1>2, <1>3, <1>4, <1>5, <1>6, <1>7, <1>8, <1>9
  DEF RegistryNext, registryVars, CreateConnector, UpdateConnector

LEMMA UpstreamExactStep ==
  ASSUME RegistryAssumption, RegistryTypeOK, IndexExact, UpstreamExact,
         [RegistryNext]_registryVars
  PROVE  UpstreamExact'
<1> USE DEF RegistryAssumption, RegistryTypeOK, UpstreamExact
<1>1. CASE UNCHANGED memoryVars
  BY <1>1
<1>2. ASSUME NEW r \in Requests, ReloadStart(r) PROVE UpstreamExact'
  <2> DEFINE c == req[r].conn
             index == IndexOfIds(IdsWithout(c))
  <2>1. byName' = index /\ upstream' = upstream \ OrphanedNames(c, index)
    BY <1>2 DEF ReloadStart
  <2> SUFFICES ASSUME NEW n \in upstream, index[n] = {}
               PROVE  n \in OrphanedNames(c, index)
    BY <2>1
  <2>2. PICK t \in Tools : byId[t] = n
    BY DEF IndexExact
  <2>3. OwnerOf[t] = c
    BY <2>2 DEF IndexOfIds, IdsWithout
  <2> QED BY <2>2, <2>3 DEF OrphanedNames
<1>3. ASSUME NEW r \in Requests, ReloadFinish(r) PROVE UpstreamExact'
  BY <1>3 DEF ReloadFinish, IndexWith, FirstSeen
<1>4. CASE Restart
  <2>1. /\ byName' = IndexOfIds(AllEnabledRows)
        /\ upstream' = {n \in Names : \E t \in Tools : AllEnabledRows[t] = n}
    BY <1>4 DEF Restart
  <2> QED BY <2>1 DEF IndexOfIds
<1> QED
  BY <1>1, <1>2, <1>3, <1>4
  DEF RegistryNext, registryVars, CreateConnector, UpdateConnector, WriteTool,
      RemoveConnector, FailWrite, ReloadRead, ReloadFail

-----------------------------------------------------------------------------
(* The rows under the steps that change them.                              *)

LEMMA RowsFrame ==
  ASSUME NEW c, dbConn'[c] = dbConn[c], \A t \in ToolsOf(c) : dbName'[t] = dbName[t]
  PROVE  EnabledRows(c)' = EnabledRows(c)
BY DEF EnabledRows

LEMMA NoRowsYetStep ==
  ASSUME RegistryAssumption, RegistryTypeOK, NoRowsYet, [RegistryNext]_registryVars
  PROVE  NoRowsYet'
<1> USE DEF RegistryAssumption, RegistryTypeOK, NoRowsYet
<1>1. ASSUME NEW c \in Connectors, CreateConnector(c) PROVE NoRowsYet'
  BY <1>1 DEF CreateConnector
<1>2. ASSUME NEW c \in Connectors, NEW state \in Existing, UpdateConnector(c, state)
      PROVE NoRowsYet'
  BY <1>2 DEF UpdateConnector
<1>3. ASSUME NEW r \in Requests, NEW t \in Tools, NEW n \in NamesOrNone, WriteTool(r, t, n)
      PROVE NoRowsYet'
  BY <1>3 DEF WriteTool
<1>4. ASSUME NEW r \in Requests, NEW c \in Connectors, RemoveConnector(r, c)
      PROVE NoRowsYet'
  BY <1>4 DEF RemoveConnector
<1>5. CASE UNCHANGED dbVars
  BY <1>5
<1> QED
  BY <1>1, <1>2, <1>3, <1>4, <1>5
  DEF RegistryNext, registryVars, FailWrite, ReloadStart, ReloadRead, ReloadFail,
      ReloadFinish, Restart

\* When the rows of a connector change, a reload of them is still to come or
\* the change is on record as not reloaded.
LEMMA ChangeIsPending ==
  ASSUME RegistryAssumption, RegistryTypeOK, NoRowsYet, [RegistryNext]_registryVars,
         NEW c \in Connectors, c \notin unreloaded',
         \A r \in Requests : req'[r].pc \in {"written", "removed"} => req'[r].conn # c
  PROVE  EnabledRows(c)' = EnabledRows(c)
<1> USE DEF RegistryAssumption, RegistryTypeOK
<1>1. ASSUME NEW d \in Connectors, CreateConnector(d) PROVE EnabledRows(c)' = EnabledRows(c)
  <2>1. CASE c = d
    <3>1. \A t \in ToolsOf(c) : dbName[t] = NoName /\ dbName'[t] = NoName
      BY <1>1, <2>1 DEF CreateConnector, NoRowsYet
    <3> QED BY <3>1 DEF EnabledRows
  <2>2. CASE c # d
    BY <1>1, <2>2, RowsFrame DEF CreateConnector
  <2> QED BY <2>1, <2>2
<1>2. ASSUME NEW d \in Connectors, NEW state \in Existing, UpdateConnector(d, state)
      PROVE EnabledRows(c)' = EnabledRows(c)
  BY <1>2, RowsFrame DEF UpdateConnector
<1>3. ASSUME NEW r \in Requests, NEW t \in Tools, NEW n \in NamesOrNone, WriteTool(r, t, n)
      PROVE EnabledRows(c)' = EnabledRows(c)
  <2>1. OwnerOf[t] # c
    BY <1>3 DEF WriteTool, Goes
  <2> QED BY <1>3, <2>1, RowsFrame DEF WriteTool
<1>4. ASSUME NEW r \in Requests, NEW d \in Connectors, RemoveConnector(r, d)
      PROVE EnabledRows(c)' = EnabledRows(c)
  <2>1. c # d
    BY <1>4 DEF RemoveConnector, Goes
  <2> QED BY <1>4, <2>1, RowsFrame DEF RemoveConnector
<1>5. CASE UNCHANGED dbVars
  BY <1>5, RowsFrame
<1> QED
  BY <1>1, <1>2, <1>3, <1>4, <1>5
  DEF RegistryNext, registryVars, FailWrite, ReloadStart, ReloadRead, ReloadFail,
      ReloadFinish, Restart

LEMMA ReadIsCurrentStep ==
  ASSUME RegistryAssumption, RegistryTypeOK, Alone, Alone', NoRowsYet, ReadIsCurrent,
         [RegistryNext]_registryVars
  PROVE  ReadIsCurrent'
<1> USE DEF RegistryAssumption, RegistryTypeOK
<1> SUFFICES ASSUME NEW q \in Requests, NEW c \in Connectors,
                    req'[q].pc = "read", req'[q].conn = c, c \notin unreloaded'
             PROVE  req'[q].rows = EnabledRows(c)'
  BY DEF ReadIsCurrent
<1>3. EnabledRows(c)' = EnabledRows(c)
  <2>1. \A r \in Requests : req'[r].pc \in {"written", "removed"} => req'[r].conn # c
    BY DEF Alone
  <2> QED BY <2>1, ChangeIsPending
<1>4. CASE ReloadRead(q)
  BY <1>3, <1>4 DEF ReloadRead, Goes
<1>5. CASE ~ ReloadRead(q)
  <2>1. req'[q] = req[q]
    BY <1>5
    DEF RegistryNext, registryVars, CreateConnector, UpdateConnector, WriteTool,
        RemoveConnector, FailWrite, ReloadStart, ReloadRead, ReloadFail, ReloadFinish,
        Restart, Goes, Idle
  <2>2. \A r \in Requests \ {q} : req[r].conn # c
    BY <2>1 DEF Alone
  <2>3. c \notin unreloaded
    BY <1>5, <2>1, <2>2
    DEF RegistryNext, registryVars, CreateConnector, UpdateConnector, WriteTool,
        RemoveConnector, FailWrite, ReloadStart, ReloadRead, ReloadFail, ReloadFinish,
        Restart, Goes, Idle
  <2> QED BY <1>3, <2>1, <2>3 DEF ReadIsCurrent
<1> QED BY <1>4, <1>5

-----------------------------------------------------------------------------
(* The ids served, and the invariant as a whole.                           *)

\* The registration of a tool changes only in a reload of its connector or at
\* a restart.
LEMMA OnlyOwnReloads ==
  ASSUME RegistryAssumption, RegistryTypeOK, IndexExact, [RegistryNext]_registryVars,
         ~ Restart, NEW t \in Tools,
         \A r \in Requests : req[r].conn = OwnerOf[t] => req'[r].pc = req[r].pc
  PROVE  byId'[t] = byId[t] /\ \A n \in Names : t \in byName'[n] <=> t \in byName[n]
<1> USE DEF RegistryAssumption, RegistryTypeOK
<1>1. CASE UNCHANGED memoryVars
  BY <1>1
<1>2. ASSUME NEW r \in Requests, ReloadStart(r)
      PROVE  byId'[t] = byId[t] /\ \A n \in Names : t \in byName'[n] <=> t \in byName[n]
  <2>1. OwnerOf[t] # req[r].conn
    BY <1>2 DEF ReloadStart, Goes
  <2>2. byId'[t] = byId[t]
    BY <1>2, <2>1 DEF ReloadStart, IdsWithout
  <2>3. \A n \in Names : byName'[n] = {u \in Tools : byId'[u] = n}
    BY <1>2 DEF ReloadStart, IndexOfIds
  <2> QED BY <2>2, <2>3 DEF IndexExact
<1>3. ASSUME NEW r \in Requests, ReloadFinish(r)
      PROVE  byId'[t] = byId[t] /\ \A n \in Names : t \in byName'[n] <=> t \in byName[n]
  <2>1. OwnerOf[t] # req[r].conn
    BY <1>3 DEF ReloadFinish, Idle
  <2>2. req[r].rows[t] = NoName
    BY <2>1
  <2>3. byId'[t] = byId[t]
    BY <1>3, <2>2 DEF ReloadFinish, IdsWith
  <2>4. \A n \in Names : byName'[n] = byName[n] \union {u \in Tools : req[r].rows[u] = n}
    BY <1>3 DEF ReloadFinish, IndexWith
  <2> QED BY <2>2, <2>3, <2>4
<1> QED
  BY <1>1, <1>2, <1>3
  DEF RegistryNext, registryVars, CreateConnector, UpdateConnector, WriteTool,
      RemoveConnector, FailWrite, ReloadRead, ReloadFail

LEMMA IdsServedStep ==
  ASSUME RegistryAssumption, RegistryTypeOK, Alone, IndexExact, Cleared, ReadIsCurrent,
         NoRowsYet, IdsServed, [RegistryNext]_registryVars
  PROVE  IdsServed'
<1> USE DEF RegistryAssumption, RegistryTypeOK
<1> SUFFICES ASSUME NEW c \in Connectors, InFlight(c)' = {}, c \notin unreloaded',
                    NEW t \in Tools, OwnerOf[t] = c
             PROVE  byId'[t] = EnabledRows(c)'[t]
  BY DEF IdsServed
<1>1. \A r \in Requests : req'[r].conn # c
  BY DEF InFlight
<1>2. EnabledRows(c)' = EnabledRows(c)
  BY <1>1, ChangeIsPending
<1>3. CASE Restart
  BY <1>3 DEF Restart, AllEnabledRows, EnabledRows
<1>4. ASSUME NEW r \in Requests, ReloadFinish(r), req[r].conn = c
      PROVE  byId'[t] = EnabledRows(c)'[t]
  <2>1. c \notin unreloaded
    BY <1>4 DEF ReloadFinish
  <2>2. req[r].rows = EnabledRows(c)
    BY <1>4, <2>1 DEF ReloadFinish, ReadIsCurrent
  <2>3. byId[t] = NoName
    BY <1>4 DEF ReloadFinish, Cleared
  <2>4. byId'[t] = EnabledRows(c)[t]
    BY <1>4, <2>2, <2>3 DEF ReloadFinish, IdsWith
  <2> QED BY <2>4, <1>2
<1>5. CASE ~ Restart /\ ~ \E r \in Requests : ReloadFinish(r) /\ req[r].conn = c
  <2>1. \A r \in Requests : req[r].conn # c
    BY <1>1, <1>5
    DEF RegistryNext, registryVars, CreateConnector, UpdateConnector, WriteTool,
        RemoveConnector, FailWrite, ReloadStart, ReloadRead, ReloadFail, ReloadFinish,
        MayWrite, Goes, Idle
  <2>2. c \notin unreloaded
    BY <1>5, <2>1
    DEF RegistryNext, registryVars, CreateConnector, UpdateConnector, WriteTool,
        RemoveConnector, FailWrite, ReloadStart, ReloadRead, ReloadFail, ReloadFinish
  <2>3. byId'[t] = byId[t]
    BY <1>5, <2>1, OnlyOwnReloads
  <2>4. byId[t] = EnabledRows(c)[t]
    BY <2>1, <2>2 DEF IdsServed, InFlight
  <2> QED BY <1>2, <2>3, <2>4
<1> QED BY <1>3, <1>4, <1>5

LEMMA SerialInit == ASSUME RegistryAssumption, RegistryInit PROVE Serial
BY DEF RegistryAssumption, RegistryInit, Serial, Alone, IndexExact, Cleared, ReadIsCurrent,
       IdsServed, NoRowsYet, UpstreamExact, EnabledRows, IndexOfIds, Idle

LEMMA SerialStep ==
  ASSUME RegistryAssumption, MaxPerConnector = 1, RegistryTypeOK, Serial,
         [RegistryNext]_registryVars
  PROVE  Serial'
<1>1. Alone'
  BY AloneStep DEF Serial
<1>2. IndexExact'
  BY IndexExactStep DEF Serial
<1>3. Cleared'
  BY ClearedStep DEF Serial
<1>4. ReadIsCurrent'
  BY <1>1, ReadIsCurrentStep DEF Serial
<1>5. IdsServed'
  BY IdsServedStep DEF Serial
<1>6. NoRowsYet'
  BY NoRowsYetStep DEF Serial
<1>7. UpstreamExact'
  BY UpstreamExactStep DEF Serial
<1> QED BY <1>1, <1>2, <1>3, <1>4, <1>5, <1>6, <1>7 DEF Serial

LEMMA SerialHolds ==
  ASSUME RegistryAssumption, MaxPerConnector = 1
  PROVE  RegistrySpec => [](RegistryTypeOK /\ Serial)
BY TypeInit, TypeStep, SerialInit, SerialStep, PTL DEF RegistrySpec

\* Between reloads the registry serves exactly the stored rows of a connector,
\* by id and by name, whatever happens on other connectors meanwhile.
THEOREM SettledRegistryServesRows ==
  ASSUME RegistryAssumption, MaxPerConnector = 1
  PROVE  RegistrySpec => []SettledServesRows
<1>1. RegistryTypeOK /\ Serial => SettledServesRows
  <2> SUFFICES ASSUME RegistryTypeOK, Serial,
                      NEW c \in Connectors, InFlight(c) = {}, c \notin unreloaded,
                      NEW t \in ToolsOf(c)
               PROVE  /\ byId[t] = EnabledRows(c)[t]
                      /\ \A n \in Names : t \in byName[n] <=> n = byId[t]
    BY DEF SettledServesRows, ServesRows
  <2>1. byId[t] = EnabledRows(c)[t]
    BY DEF Serial, IdsServed
  <2>2. \A n \in Names : t \in byName[n] <=> n = byId[t]
    BY DEF Serial, IndexExact
  <2> QED BY <2>1, <2>2
<1> QED BY <1>1, SerialHolds, PTL

\* The upstream registry has every callable name, and a name that no tool has
\* any more is gone from it.
THEOREM UpstreamKeepsNoOldName ==
  ASSUME RegistryAssumption, MaxPerConnector = 1
  PROVE  RegistrySpec => []UpstreamAgrees
<1>1. RegistryTypeOK /\ Serial /\ UpstreamCovers => UpstreamAgrees
  BY DEF Serial, UpstreamAgrees
<1> QED BY <1>1, SerialHolds, UpstreamIsNeverShort, PTL

\* One connector's requests never change how the tools of another one are
\* registered.
THEOREM OtherConnectorsAreUntouched ==
  ASSUME RegistryAssumption, MaxPerConnector = 1
  PROVE  RegistrySpec => OthersUntouched
<1>1. ASSUME RegistryTypeOK, Serial, [RegistryNext]_registryVars
      PROVE  OnlyOwnReloadChanges
  <2> SUFFICES ASSUME NEW t \in Tools, ~ Restart,
                      \A r \in InFlight(OwnerOf[t]) : req[r].pc = req'[r].pc
               PROVE  ~ RegistrationChanges(t)
    BY DEF OnlyOwnReloadChanges
  <2>1. \A r \in Requests : req[r].conn = OwnerOf[t] => req'[r].pc = req[r].pc
    BY DEF InFlight
  <2>2. byId'[t] = byId[t] /\ \A n \in Names : t \in byName'[n] <=> t \in byName[n]
    BY <1>1, <2>1, OnlyOwnReloads DEF Serial
  <2> QED BY <2>2 DEF RegistrationChanges
<1> QED BY <1>1, SerialHolds, PTL DEF OthersUntouched, RegistrySpec
=============================================================================
