-------------------------- MODULE MCRemoteAcquire --------------------------
(* Two representations of different lengths for TLC.                       *)
EXTENDS RemoteAcquireProps

CONSTANTS r1, r2

MCSize == [r \in Reps |-> IF r = r1 THEN 3 ELSE 2]
=============================================================================
