----------------------------- MODULE ViewProps -----------------------------
(***************************************************************************)
(* What linking and unlinking guarantee.                                   *)
(***************************************************************************)
EXTENDS View

(* A switch has no gap: a program that resolves the view while it is       *)
(* switched finds the old tree or the new one; only an unlink makes a view *)
(* disappear (view.rs:74-76, one rename).                                  *)
NoGap ==
    [][(view \in Trees /\ view' = Missing) =>
         \E u \in Unlinkers : upc[u] = "removing" /\ upc'[u] = "idle"]_vars

(* A file or directory that is not a view is neither replaced nor removed  *)
(* by any caller (view.rs:248-252, 203-209; tests/local/switch.rs:48, 77). *)
ForeignStays == [][(view \in {File, Dir}) => view' = view]_vars

(* The link a switch is about to rename is its own: no other thread, nor a *)
(* later process with the same id, put its source under that name          *)
(* (view.rs:48-71).                                                        *)
StagedIsOwn ==
    \A l \in Linkers : pc[l] \in {"staged", "cleaning"} =>
        /\ stages[Staged(l)] = Wants[l]
        /\ \A k \in Linkers \ {l} :
             pc[k] \in {"staged", "cleaning"} => Staged(k) # Staged(l)

(* A staged link outlives its call only where the process died with it or  *)
(* its removal failed (view.rs:306-316).                                   *)
StagesReclaimed ==
    \A n \in Name : stages[n] # Missing =>
        \/ n \in litter
        \/ \E l \in Linkers : pc[l] \in {"staged", "cleaning"} /\ Staged(l) = n

(* The search for a name gives up only when as many names are littered or  *)
(* at hand to other threads of the process as there are attempts: the      *)
(* threads of a live process never use up the names by calling again       *)
(* (view.rs:49-70).                                                        *)
Litter(d) == {n \in litter : n[1] = d}
Threads(d) == {l \in Linkers : Pid[l] = d}

NamesSuffice ==
    \A l \in Linkers :
        LET taken == Cardinality(Litter(Pid[l])) + Cardinality(Threads(Pid[l])) - 1 IN
        /\ attempt[l] <= taken
        /\ change[l] = "NoName" => Attempts <= taken

(* While nobody else changes the view and no tree is removed, the answer   *)
(* of a link is what its documentation says: Replaced, an existing valid   *)
(* view was replaced (local.rs:33); Created or Replaced, the view leads to *)
(* the source that was asked for, and it is there; a conflict, nothing was *)
(* replaced (local.rs:106), nor by the other refusals.  That takes each of *)
(* the three observations (view.rs:215, 234, 327) to be the right one and  *)
(* in its place; what a disturbed call may answer is left open here.       *)
LinkTruthful ==
    \A l \in Linkers \ disturbed :
        /\ change[l] = "Replaced" => replaced[l] \in exists
        /\ change[l] = "Created" => replaced[l] = "nothing"
        /\ change[l] \in {"Created", "Replaced"} => view = Wants[l] /\ view \in exists
        /\ change[l] \in {"NotDirectory", "ViewConflict", "NoName"} => replaced[l] = "nothing"

(* Linking and unlinking implement the atomic view: the symlink or the     *)
(* rename is the moment a link takes effect, the unlink that of a          *)
(* withdrawal, and neither touches an entry that is no view                *)
(* (view.rs:74-76, 190-209, 214-342).                                      *)
Atomic == INSTANCE AtomicView WITH
    calling <- {l \in Linkers : pc[l] \in Live},
    turned <- replaced,
    told <- change

AtomicViewSpec == Atomic!Spec
=============================================================================
