--------------------------- MODULE MCToolRegistry ---------------------------
(* Instances of ToolRegistry for TLC: two connectors that can expose the    *)
(* same name, one of them with two tools.                                   *)
EXTENDS ToolRegistry, TLC

CONSTANTS c1, c2, t1, t2, t3, a, b, r1, r2

MCOwnerOf == (t1 :> c1) @@ (t2 :> c1) @@ (t3 :> c2)
=============================================================================
