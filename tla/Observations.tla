---------------------------- MODULE Observations ----------------------------
(***************************************************************************)
(* How the knowledge graph of an organization consumes its audit rows:     *)
(*   knowledge-graph/kg-observational.service.ts  ingestOrganization       *)
(*   knowledge-graph/kg.service.ts                the cooldown and the lock *)
(*   ee/cloud/kg-cron.service.ts                  the cron and retention   *)
(*                                                                         *)
(* Three callers start an ingest: the cooldown after a tool call, a rebuild *)
(* under its lock, the cron under nothing.  What an ingest makes of a row  *)
(* (GraphEdges) is here only a step that may throw.  Rows are numbered as  *)
(* createdAt and id order them; rows of one millisecond share their time.  *)
(***************************************************************************)
EXTENDS Naturals, Sequences, FiniteSets

CONSTANTS
  Ingests,          \* ingestOrganization calls that may run at a time
  Sources,          \* connectors of the organization
  Chunk,            \* rows of a page (CHUNK)
  MaxPerIngest,     \* rows of an ingest (MAX_INVOCATIONS_PER_RUN)
  MaxRows,          \* bound: audit rows written
  MaxUnnamed,       \* bound: rows of a tool whose name has no entity
  MaxStarts,        \* bound: ingests started
  Idling            \* an ingest that is not running

ASSUME ObservationsAssumption ==
  /\ {Chunk, MaxPerIngest} \subseteq Nat \ {0}
  /\ {MaxRows, MaxUnnamed, MaxStarts} \subseteq Nat

\* A running ingest.
Running == [by : {"call", "rebuild", "cron"}, pc : {"open", "page", "advance"},
            seen : [Sources -> Nat], floor : Nat, skip : 0..MaxPerIngest,
            high : [Sources -> Nat]]

ASSUME IdlingAssumption == Idling \notin Running

VARIABLES
  log,        \* tool_invocations of the organization, in order
  purged,     \* how many of the oldest rows retention has deleted
  mark,       \* kg_connector_state.lastObservedAt of a connector, 0 for none
  ingest,     \* the running ingests
  cooling,    \* kg_observe_cooldown:<org> exists
  locked,     \* kg_rebuild_lock:<org> exists
  starts,     \* ingests started, bounded by MaxStarts
  counted,    \* history: how often a row was taken into the graph
  overlapped, \* history: two ingests ran at a time
  cutOff,     \* history: an ingest did not reach its end
  shifted     \* history: rows were deleted between two pages of an ingest

keysVars         == <<cooling, locked>>
historyVars      == <<overlapped, cutOff, shifted>>
observationsVars == <<log, purged, mark, ingest, keysVars, starts, counted, historyVars>>

Runs(i)   == ingest[i] # Idling
At(i, pc) == Runs(i) /\ ingest[i].pc = pc
Lowest(S) == CHOOSE n \in S : \A m \in S : n <= m
Smaller(m, n) == IF m <= n THEN m ELSE n

-----------------------------------------------------------------------------
(* Faulty variants of definitions below: bugs the properties must catch.   *)

\* The watermark of a connector is set to the present, not to what was read.
UpToNow(high, page, new) ==
  [k \in Sources |-> IF \E n \in new : log[n].of = k THEN log[Len(log)].at ELSE high[k]]

-----------------------------------------------------------------------------
(* logInvocation, and retention of the cron.                               *)

\* A row of a connector; extractEntity may find nothing in the tool's name.
Log(k, named) ==
  /\ Len(log) < MaxRows
  /\ named \/ Cardinality({n \in DOMAIN log : ~log[n].named}) < MaxUnnamed
  /\ \E at \in IF log = <<>> THEN {1} ELSE {log[Len(log)].at, log[Len(log)].at + 1} :
       log' = Append(log, [of |-> k, at |-> at, named |-> named])
  /\ counted' = Append(counted, 0)
  /\ UNCHANGED <<purged, mark, ingest, keysVars, starts, historyVars>>

\* The rows of earlier milliseconds than some row's are past their retention.
Retention ==
  /\ \E n \in (purged + 1)..Len(log) :
       purged' = Cardinality({m \in DOMAIN log : log[m].at < log[n].at})
  /\ purged' > purged
  /\ shifted' = (shifted \/ \E i \in Ingests : At(i, "page") /\ ingest[i].skip > 0)
  /\ UNCHANGED <<log, mark, ingest, keysVars, starts, counted, overlapped, cutOff>>

-----------------------------------------------------------------------------
(* The starts of an ingest.                                                *)

Start(i, by) ==
  /\ ~Runs(i) /\ starts < MaxStarts /\ starts' = starts + 1
  /\ ingest' = [ingest EXCEPT ![i] =
       [by |-> by, pc |-> "open", seen |-> [k \in Sources |-> 0], floor |-> 0, skip |-> 0,
        high |-> [k \in Sources |-> 0]]]
  /\ overlapped' = (overlapped \/ \E j \in Ingests : Runs(j))
  /\ UNCHANGED <<log, purged, mark, counted, cutOff, shifted>>

\* After a tool call, detached: one per window of the cooldown.
scheduleObservationalIngest(i) ==
  /\ ~cooling /\ cooling' = TRUE /\ UNCHANGED locked
  /\ Start(i, "call")

CooldownEnds ==
  /\ cooling /\ cooling' = FALSE
  /\ starts < MaxStarts   \* bound: a start is left that asks for the key
  /\ UNCHANGED <<log, purged, mark, ingest, locked, starts, counted, historyVars>>

\* The lock has an expiry of two minutes, whether or not the rebuild is over.
rebuild(i) ==
  /\ ~locked /\ locked' = TRUE /\ UNCHANGED cooling
  /\ Start(i, "rebuild")

LockExpires ==
  /\ locked /\ locked' = FALSE
  /\ starts < MaxStarts   \* bound: a start is left that asks for the key
  /\ UNCHANGED <<log, purged, mark, ingest, cooling, starts, counted, historyVars>>

CronIngest(i) == Start(i, "cron") /\ UNCHANGED keysVars

\* The finally of a rebuild deletes the key, its own or a later rebuild's.
Released(i) == locked' = (locked /\ ingest[i].by # "rebuild") /\ UNCHANGED cooling

-----------------------------------------------------------------------------
(* ingestOrganization.                                                     *)

\* From the oldest row while a connector has no watermark.
Floor(seen) == IF Sources = {} THEN 0 ELSE Lowest({seen[k] : k \in Sources})

Open(i) ==
  /\ At(i, "open")
  /\ ingest' = [ingest EXCEPT ![i].pc = "page", ![i].seen = mark, ![i].floor = Floor(mark)]
  /\ UNCHANGED <<log, purged, mark, keysVars, starts, counted, historyVars>>

\* The rows a page query returns: by offset, of the rows there are now.
PageRows(i) ==
  LET g     == ingest[i]
      there == {n \in (purged + 1)..Len(log) : log[n].at > g.floor}
      first == Cardinality(there)
      from  == Len(log) - first + 1 + g.skip
      take  == Smaller(Chunk, MaxPerIngest - g.skip)
  IN [n \in 1..Smaller(take, IF first > g.skip THEN first - g.skip ELSE 0) |-> from + n - 1]

\* The rows of it the connector's watermark does not cover.
NewRows(i, page) ==
  {page[n] : n \in {m \in DOMAIN page :
     /\ log[page[m]].named
     /\ log[page[m]].at > ingest[i].seen[log[page[m]].of]}}

Highest(high, page, new) ==
  [k \in Sources |->
     LET of == {log[n].at : n \in {m \in new : log[m].of = k}} \union {high[k]}
     IN CHOOSE t \in of : \A u \in of : u <= t]

\* The pages are done: what they were read with is forgotten.
ReadThrough(i) ==
  [ingest[i] EXCEPT !.pc = "advance", !.seen = [k \in Sources |-> 0], !.floor = 0, !.skip = 0]

\* A page is read, its values are stored and correlated.
Page(i) ==
  /\ At(i, "page")
  /\ LET page == PageRows(i)
         new  == NewRows(i, page)
         high == Highest(ingest[i].high, page, new)
         skip == ingest[i].skip + Len(page)
         over == Len(page) < Chunk \/ skip >= MaxPerIngest
     IN /\ counted' = [n \in DOMAIN counted |->
                         IF n \in new THEN Smaller(counted[n] + 1, 2) ELSE counted[n]]
        /\ ingest' = [ingest EXCEPT ![i] =
             IF over THEN [ReadThrough(i) EXCEPT !.high = high]
             ELSE [ingest[i] EXCEPT !.skip = skip, !.high = high]]
  /\ UNCHANGED <<log, purged, mark, keysVars, starts, historyVars>>

\* The watermark of one connector after the other, to what this ingest saw.
Advance(i, k) ==
  /\ At(i, "advance") /\ ingest[i].high[k] # 0
  /\ mark' = [mark EXCEPT ![k] = ingest[i].high[k]]
  /\ ingest' = [ingest EXCEPT ![i].high[k] = 0]
  /\ UNCHANGED <<log, purged, keysVars, starts, counted, historyVars>>

Finish(i) ==
  /\ At(i, "advance") /\ \A k \in Sources : ingest[i].high[k] = 0
  /\ ingest' = [ingest EXCEPT ![i] = Idling]
  /\ Released(i)
  /\ UNCHANGED <<log, purged, mark, starts, counted, historyVars>>

\* A query of it throws: the caller logs it, the watermarks stay as they are.
Throws(i) ==
  /\ Runs(i)
  /\ ingest' = [ingest EXCEPT ![i] = Idling]
  /\ cutOff' = TRUE
  /\ Released(i)
  /\ UNCHANGED <<log, purged, mark, starts, counted, overlapped, shifted>>

\* The process stops; the keys of Redis stay until their time has come.
ObservationsCrash ==
  /\ \E i \in Ingests : Runs(i)
  /\ ingest' = [i \in Ingests |-> Idling]
  /\ cutOff' = TRUE
  /\ UNCHANGED <<log, purged, mark, keysVars, starts, counted, overlapped, shifted>>

-----------------------------------------------------------------------------
ObservationsInit ==
  /\ log = <<>> /\ purged = 0 /\ counted = <<>>
  /\ mark = [k \in Sources |-> 0]
  /\ ingest = [i \in Ingests |-> Idling]
  /\ cooling = FALSE /\ locked = FALSE /\ starts = 0
  /\ overlapped = FALSE /\ cutOff = FALSE /\ shifted = FALSE

ObservationsNext ==
  \/ \E k \in Sources, named \in BOOLEAN : Log(k, named)
  \/ Retention \/ CooldownEnds \/ LockExpires \/ ObservationsCrash
  \/ \E i \in Ingests :
       \/ scheduleObservationalIngest(i) \/ rebuild(i) \/ CronIngest(i)
       \/ Open(i) \/ Page(i) \/ Finish(i) \/ Throws(i)
       \/ \E k \in Sources : Advance(i, k)

ObservationsSpec == ObservationsInit /\ [][ObservationsNext]_observationsVars

-----------------------------------------------------------------------------
(* Properties.                                                             *)

\* Every variable has its type.
ObservationsTypeOK ==
  /\ log \in Seq([of : Sources, at : Nat, named : BOOLEAN])
  /\ purged \in 0..Len(log)
  /\ mark \in [Sources -> Nat]
  /\ ingest \in [Ingests -> Running \union {Idling}]
  /\ {cooling, locked, overlapped, cutOff, shifted} \subseteq BOOLEAN
  /\ starts \in 0..MaxStarts
  /\ counted \in [DOMAIN log -> 0..2]

\* A row of the same connector and millisecond was there before the row n.
Tied(n) == \E m \in 1..(n - 1) : log[m].of = log[n].of /\ log[m].at = log[n].at

\* The watermark of a connector tells which of its rows the graph has taken:
\* every row it covers was taken, but for rows of one millisecond that were
\* written around an ingest, and for rows an ingest stepped over because
\* retention deleted others between two of its pages; and a row is taken twice
\* only after two ingests ran at a time or one did not reach its end.
RowsCountedOnce ==
  \A n \in DOMAIN log :
    /\ log[n].named /\ log[n].at <= mark[log[n].of] /\ n > purged =>
         counted[n] > 0 \/ Tied(n) \/ shifted
    /\ counted[n] > 1 => overlapped \/ cutOff
=============================================================================
