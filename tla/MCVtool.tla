------------------------------ MODULE MCVtool ------------------------------
(* Small instances of vtool for TLC.                                       *)
EXTENDS VtoolProps, TLC

MCFailing == {"target", "view", "attempt", "read", "publish", "observe", "create",
              "switch", "check", "withdraw", "unlink", "lock", "write"}
MCSymmetry == Permutations(Procs)
=============================================================================
