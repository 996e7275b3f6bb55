--------------------------- MODULE MCPublication ---------------------------
(* Small instances of publication for TLC: p1 stages a tree beside the     *)
(* target, p2 a tree elsewhere, p3 one file, p0 an empty directory beside  *)
(* the target and p4 one elsewhere.                                        *)
EXTENDS PublicationProps, TLC

CONSTANTS p0, p1, p2, p3, p4, a, b

MCSource == [p \in Publishers |-> CASE p \in {p0, p4} -> {} [] p = p3 -> {a} [] OTHER -> {a, b}]

MCSymmetry == Permutations(Removers)
=============================================================================
