----------------------------- MODULE MCProcess -----------------------------
(* A child, its descendants and what callers declare, for TLC.             *)
EXTENDS ProcessProps

CONSTANTS c, k1

File(n) == [name |-> n, kind |-> "file"]
MCDeclared == {<<>>, <<File("a"), File("b")>>, <<File("a"), File("a")>>,
               <<File("a"), [name |-> "b", kind |-> "missing"]>>,
               <<[name |-> "a", kind |-> "symlink"], File("a")>>}
=============================================================================
