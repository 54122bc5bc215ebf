---------------------------- MODULE SessionTable ----------------------------
(***************************************************************************)
(* What the table of stateful MCP sessions promises, told without tools,   *)
(* rebuilds or requests: a session is bound, once, to the server and the   *)
(* principal that opened it; the table never outgrows its capacity, making *)
(* room by closing one session; a closed id never comes back.              *)
(***************************************************************************)
EXTENDS Naturals, FiniteSets

CONSTANTS Sessions,   \* session ids (uuid, drawn fresh by the transport)
          Bindings,   \* pairs of a server and a principal
          Unbound,    \* the binding of an id that was never used
          Capacity

VARIABLES live, closed, binding

tableVars == <<live, closed, binding>>

TableInit ==
  /\ live = {}
  /\ closed = {}
  /\ binding = [s \in Sessions |-> Unbound]

\* A fresh id enters the table; if the table is full another session leaves.
Enter(s, b) ==
  /\ s \notin live \union closed
  /\ \E out \in SUBSET live :
       /\ Cardinality(out) = IF Cardinality(live) = Capacity THEN 1 ELSE 0
       /\ live' = (live \ out) \union {s}
       /\ closed' = closed \union out
  /\ binding' = [binding EXCEPT ![s] = b]

\* Sessions leave the table: closed by their client, idle, or at a shutdown.
Leave(out) ==
  /\ out \subseteq live
  /\ live' = live \ out
  /\ closed' = closed \union out
  /\ UNCHANGED binding

TableNext ==
  \/ \E s \in Sessions, b \in Bindings : Enter(s, b)
  \/ \E out \in SUBSET live : Leave(out)

TableSpec == TableInit /\ [][TableNext]_tableVars
=============================================================================
