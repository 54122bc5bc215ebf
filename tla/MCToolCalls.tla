---------------------------- MODULE MCToolCalls ----------------------------
(***************************************************************************)
(* Tool calls: the chain of checks and what is written about them          *)
(* (ToolCalls), the engine that makes one (EngineCalls), and what the      *)
(* knowledge graph makes of their audit rows (Observations).  The parts    *)
(* share no state that is modelled: a behaviour is one of the three.       *)
(* Calls: two tools of one name in different organizations, clients of both *)
(* endpoints.  Observations: three rows of two connectors.                 *)
(***************************************************************************)
EXTENDS ToolCalls, Observations, EngineCalls, TLC

CONSTANTS t1, t2, k1, k2, o1, o2, u1, u2, p1, p2, s1, s2

VARIABLE part   \* which of the three

MCConnectorOf == [t \in {t1, t2} |-> IF t = t1 THEN k1 ELSE k2]
MCOrgOf       == [k \in {k1, k2} |-> IF k = k1 THEN o1 ELSE o2]
MCCallerOrg   == [u \in {u1, u2} |-> o1]
MCCallerScope == [u \in {u1, u2} |-> IF u = u1 THEN {k1} ELSE {}]
MCCallerTools == [u \in {u1, u2} |-> {t1, t2}]
MCDigest      == [p \in Params |-> p1]
MCSymmetry    == Permutations(Calls) \union Permutations({s1, s2})

runVars == <<callsVars, observationsVars, engineVars, part>>

RunInit ==
  /\ part \in {"calls", "observations", "engine"}
  /\ CallsInit /\ ObservationsInit /\ EngineInit
  /\ part # "calls" => registered = <<t1, t2>>
  /\ part # "engine" => setup.engine = "once"

RunNext ==
  /\ UNCHANGED part
  /\ \/ /\ part = "calls" /\ CallsNext
        /\ UNCHANGED <<observationsVars, engineVars>>
     \/ /\ part = "observations" /\ ObservationsNext
        /\ UNCHANGED <<callsVars, engineVars>>
     \/ /\ part = "engine" /\ EngineNext
        /\ UNCHANGED <<callsVars, observationsVars>>

RunSpec == RunInit /\ [][RunNext]_runVars

\* Every variable of the three parts has its type.
RunTypeOK == CallsTypeOK /\ ObservationsTypeOK /\ EngineTypeOK

\* A call is made once: a request of a client is one call of the engine, and the
\* requests of the engine are one act of the origin, where it can know.
CallsActOnce == ExecutedOnce /\ ActsOnce
=============================================================================
