----------------------------- MODULE MCService -----------------------------
(* Two releases for TLC; which is which does not matter.                   *)
EXTENDS ServiceProps, TLC

MCSymmetry == Permutations(Releases)
=============================================================================
