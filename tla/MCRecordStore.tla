--------------------------- MODULE MCRecordStore ---------------------------
(* Small instances of the record store for TLC.                            *)
EXTENDS RecordStoreProps, TLC

CONSTANTS empty, small, big    \* payloads: no byte, one, two

MCSize == [d \in Payloads |-> CASE d = empty -> 0 [] d = small -> 1 [] OTHER -> 2]

MCSymmetry == Permutations(Procs)
=============================================================================
