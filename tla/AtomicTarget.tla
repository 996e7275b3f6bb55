---------------------------- MODULE AtomicTarget ----------------------------
(***************************************************************************)
(* What src/local/apply.rs promises of one target path: a tree is          *)
(* published in one step, whole, where there is none; a removal may take   *)
(* it apart, and says what it did only of moments of its own call.  Stages,*)
(* copies, workspaces and the entries of a tree have no place here.        *)
(***************************************************************************)
EXTENDS FiniteSets

CONSTANTS Publishers, Removers, None

VARIABLES
    shown, whole,   \* whose tree is at the target, and whether all of it is
    told,           \* what each publisher was told
    calling,        \* the removers whose call has found the target there
    missed,         \* the removers whose call met a moment without a target
    took,           \* the removers that took something away
    answer          \* what each remover was told

avars == <<shown, whole, told, calling, missed, took, answer>>

Init ==
    /\ shown = None /\ whole = FALSE
    /\ told = [p \in Publishers |-> "none"]
    /\ calling = {} /\ missed = {} /\ took = {}
    /\ answer = [r \in Removers |-> "none"]

Tell(p, outcome) ==
    /\ told[p] = "none"
    /\ told' = [told EXCEPT ![p] = outcome]
    /\ UNCHANGED <<calling, missed, took, answer>>

Publish(p) ==
    /\ shown = None
    /\ shown' = p /\ whole' = TRUE
    /\ Tell(p, "Published")

Lose(p) ==
    /\ shown # None
    /\ Tell(p, "AlreadyPublished")
    /\ UNCHANGED <<shown, whole>>

Refuse(p) ==
    /\ \E outcome \in {"NoTree", "Failed"} : Tell(p, outcome)
    /\ UNCHANGED <<shown, whole>>

New(r) == r \notin calling /\ answer[r] = "none"

RemoveNothing(r) ==
    /\ New(r) /\ shown = None
    /\ missed' = missed \cup {r}
    /\ answer' = [answer EXCEPT ![r] = "Unchanged"]
    /\ UNCHANGED <<shown, whole, told, calling, took>>

Begin(r) ==
    /\ New(r) /\ shown # None
    /\ calling' = calling \cup {r}
    /\ UNCHANGED <<shown, whole, told, missed, took, answer>>

(* Of the tree that is shown, or of one that no longer is.                 *)
TakeApart(r) ==
    /\ r \in calling
    /\ took' = took \cup {r} /\ whole' \in {whole, FALSE}
    /\ UNCHANGED <<shown, told, calling, missed, answer>>

End(r, a) ==
    /\ r \in calling
    /\ calling' = calling \ {r}
    /\ answer' = [answer EXCEPT ![r] = a]

Remove(r) ==
    /\ shown # None
    /\ shown' = None /\ whole' = FALSE
    /\ missed' = missed \cup calling /\ took' = took \cup {r}
    /\ End(r, "Removed")
    /\ UNCHANGED told

Return(r) ==
    /\ \/ r \in missed /\ End(r, "Removed")
       \/ r \in missed /\ r \notin took /\ End(r, "Unchanged")
       \/ End(r, "Failed")
    /\ UNCHANGED <<shown, whole, told, missed, took>>

Next ==
    \/ \E p \in Publishers : Publish(p) \/ Lose(p) \/ Refuse(p)
    \/ \E r \in Removers :
         RemoveNothing(r) \/ Begin(r) \/ TakeApart(r) \/ Remove(r) \/ Return(r)

Spec == Init /\ [][Next]_avars
=============================================================================
