-------------------------- MODULE PublicationProps --------------------------
(***************************************************************************)
(* What publication and removal guarantee.                                 *)
(***************************************************************************)
EXTENDS Publication

(* A reader of the target never finds a tree that is still being put       *)
(* together: it is whole from the moment it appears until a removal takes  *)
(* an entry from it (apply.rs:121-131, the rename is the only step that    *)
(* makes anything visible, and a copy is complete before it).              *)
WholeUntilRemoved ==
    target # None => tree[target] = Source[target] \/ target \in touched

(* Publication never takes the place of a predecessor: racing publishers   *)
(* lose to the first, and only a removal makes room (apply.rs:253-268).    *)
NeverReplaces == [][target' = target \/ target = None \/ target' = None]_vars

(* The outcome is that of the rename: success if and only if this call     *)
(* made its tree visible, whatever the clean-up after it met; a lost race  *)
(* has a winner; a stage without a root is never published                 *)
(* (apply.rs:121-131 and 134-144).                                         *)
PublishTruthful ==
    \A p \in Publishers : pc[p] = "done" =>
        /\ outcome[p] = "Published" <=> p \in renamed
        /\ outcome[p] = "AlreadyPublished" => renamed \ {p} # {}
        /\ outcome[p] = "NoTree" <=> Source[p] = {} /\ outcome[p] # "Failed"

(* No workspace outlives its call, on any path out of it, unless its       *)
(* removal failed or the process died (apply.rs:117-143).                  *)
NoResidue ==
    \A s \in spaces : pc[s[1]] = "done" => s \in litter

(* A removal that returned evidence leaves no doubt that the target was    *)
(* missing at a moment of its call, however many publishers and removers   *)
(* ran beside it, and one that says Unchanged took nothing from anybody    *)
(* (apply.rs:303-312, 350-358).                                            *)
RemovalTruthful ==
    \A r \in Removers :
        /\ removal[r] \in {"Removed", "Unchanged"} => r \in absent
        /\ removal[r] = "Unchanged" => r \notin changed

(* Publication and removal implement the atomic target: the rename is the  *)
(* moment a tree is published, the removal of its last entry and of its    *)
(* path the moment it is gone, everything else is invisible or takes       *)
(* entries away (apply.rs:109-145, 296-313).                               *)
Atomic == INSTANCE AtomicTarget WITH
    shown <- target,
    whole <- target # None /\ tree[target] = Source[target],
    told <- outcome,
    calling <- Removing,
    missed <- absent,
    took <- changed,
    answer <- removal

AtomicTargetSpec == Atomic!Spec
=============================================================================
