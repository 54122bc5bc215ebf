---------------------------- MODULE MCMcpSessions ---------------------------
(* Instances of McpSessions for TLC: two connectors with a tool each, both  *)
(* of the same name, and one admin request slot.                            *)
EXTENDS McpSessions, TLC

CONSTANTS c1, c2, t1, t2, a, r1, v1, v2, p1, s1, s2

MCOwnerOf == (t1 :> c1) @@ (t2 :> c2)

MCSymmetry == Permutations(Sessions) \union Permutations(Servers)

\* The admins left every tool of an active connector enabled, and every active
\* connector assigned to every server.
MCInit ==
  /\ SessionsInit
  /\ dbConn[c1] = "active"
  /\ \A t \in Tools : dbConn[OwnerOf[t]] = "active" => dbName[t] # NoName
  /\ \A v \in Servers : assigned[v] = {c \in Connectors : dbConn[c] = "active"}

MCSpec == MCInit /\ [][Next]_vars

\* The same without failed queries, deleted servers and announcements that
\* miss a session still opening: what is left to go wrong is a rebuild of a
\* live session overtaken by the next one.
OnlyRebuildsRace ==
  /\ ~ AdminReloadFail
  /\ ~ \E s \in Sessions, k \in Slots : RebuildFail(s, k)
  /\ ~ \E v \in Servers : DeleteServer(v)
  /\ HasRead # {} =>
       ~ (AdminReloadFinish \/ \E v \in Servers : AnnounceAssignment(v))

MCSpecRace == MCInit /\ [][Next /\ OnlyRebuildsRace]_vars
=============================================================================
