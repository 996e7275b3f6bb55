------------------------------- MODULE MCView -------------------------------
(* Small instances of one view for TLC: l1 and l2 run in process d1, l3 in *)
(* process d2; l1 exposes t1, the others t2.                               *)
EXTENDS ViewProps, TLC

CONSTANTS l1, l2, l3, t1, t2, d1, d2

MCWants == [l \in Linkers |-> IF l = l1 THEN t1 ELSE t2]
MCPid == [l \in Linkers |-> IF l = l3 THEN d2 ELSE d1]
=============================================================================
