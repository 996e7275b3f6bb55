---------------------------- MODULE Publication ----------------------------
(***************************************************************************)
(* Publication and removal of one target, src/local/apply.rs: a private    *)
(* stage is populated, then moved onto the target by a rename that never   *)
(* replaces; a removal empties whatever directory it finds there, entry by *)
(* entry.  Each publisher and each remover is one call (or chain of calls  *)
(* on one StagedTree), so any number of calls on the target is a larger    *)
(* Publishers or Removers.                                                 *)
(*                                                                         *)
(* Covered: stages beside the target and elsewhere (copied into a second   *)
(* stage first), every interleaving of publishers and removers at system   *)
(* call granularity, the failure of any fallible call, the death of a      *)
(* publisher.  A remover that fails or dies stops where it is.             *)
(*                                                                         *)
(* Assumed: renameat2(RENAME_NOREPLACE) is atomic; remove_dir_all is the   *)
(* standard library's: open the directory, unlink what it lists, remove    *)
(* the directory by path, entries already gone ignored.  Programs do not   *)
(* write below the private stages.  Power loss is not modelled: the code   *)
(* syncs nothing here and promises nothing.                                *)
(***************************************************************************)
EXTENDS FiniteSets

CONSTANTS
    Publishers, Removers,
    Items,      \* first-level entries a tree may have
    Source,     \* what each publisher populates; {} is the copy of an empty directory
    Flat,       \* publishers whose root is one regular file
    Elsewhere,  \* publishers whose stage was placed beside another target
    None        \* nothing at the target

ASSUME ConstantsOK ==
    /\ Source \in [Publishers -> SUBSET Items]
    /\ Flat \subseteq Publishers /\ Elsewhere \subseteq Publishers
    /\ \A p \in Flat : Source[p] # {}
    /\ None \notin Publishers

VARIABLES
    target,     \* the publisher whose tree is at the target path
    tree,       \* for each publisher, the entries of the tree it publishes
    origin,     \* the entries it staged elsewhere, before they are copied
    spaces,     \* the workspaces on disk: <<publisher, "beside" or "origin">>
    pc, outcome,
    rpc, held,  \* where each remover is, and the tree it opened
    removal,    \* what its call returned
    renamed,    \* history: publishers whose rename succeeded
    touched,    \* history: trees a remover took an entry from
    absent,     \* history: removers during whose call the target was missing
    changed,    \* history: removers that changed the file system
    litter      \* history: workspaces whose removal failed

trees == <<tree, origin, spaces, litter>>
publishers == <<pc, outcome, renamed>>
removers == <<rpc, held, removal, changed>>
vars == <<target, trees, publishers, removers, touched, absent>>

Space == Publishers \X {"beside", "origin"}
Outcome == {"none", "Published", "AlreadyPublished", "NoTree", "Failed"}

TypeOK ==
    /\ target \in Publishers \cup {None}
    /\ tree \in [Publishers -> SUBSET Items]
    /\ origin \in [Publishers -> SUBSET Items]
    /\ spaces \subseteq Space /\ litter \subseteq Space
    /\ pc \in [Publishers -> {"idle", "building", "restaging", "copying", "admitting",
                              "renaming", "dropping", "done", "dead"}]
    /\ outcome \in [Publishers -> Outcome]
    /\ rpc \in [Removers -> {"idle", "file", "directory", "emptying", "done"}]
    /\ held \in [Removers -> Publishers \cup {None}]
    /\ removal \in [Removers -> {"none", "Removed", "Unchanged", "Failed"}]
    /\ renamed \subseteq Publishers /\ touched \subseteq Publishers
    /\ absent \subseteq Removers /\ changed \subseteq Removers

Init ==
    /\ target = None
    /\ tree = [p \in Publishers |-> {}]
    /\ origin = [p \in Publishers |-> {}]
    /\ spaces = {} /\ litter = {}
    /\ pc = [p \in Publishers |-> "idle"]
    /\ outcome = [p \in Publishers |-> "none"]
    /\ rpc = [r \in Removers |-> "idle"]
    /\ held = [r \in Removers |-> None]
    /\ removal = [r \in Removers |-> "none"]
    /\ renamed = {} /\ touched = {} /\ absent = {} /\ changed = {}

Removing == {r \in Removers : rpc[r] \notin {"idle", "done"}}

(* The target path now holds t; every removal under way saw that moment.   *)
Target(t) ==
    /\ target' = t
    /\ absent' = IF t = None THEN absent \cup Removing ELSE absent
SameTarget == UNCHANGED <<target, absent>>

Goto(p, step) == pc' = [pc EXCEPT ![p] = step]

(* The call's result is decided; its workspaces are dropped on the way out.*)
Conclude(p, o) ==
    /\ Goto(p, "dropping")
    /\ outcome' = [outcome EXCEPT ![p] = o]

(***************************************************************************)
(* Publishers                                                              *)
(***************************************************************************)

Home(p) == IF p \in Elsewhere THEN "origin" ELSE "beside"
Staged(p) == IF p \in Elsewhere THEN origin[p] ELSE tree[p]

(* stage: an empty private workspace; its root does not exist yet.         *)
Stage(p) ==
    /\ pc[p] = "idle"
    /\ spaces' = spaces \cup {<<p, Home(p)>>}
    /\ Goto(p, "building")
    /\ UNCHANGED <<tree, origin, litter, outcome, renamed, removers, touched>>
    /\ SameTarget

(* write_file, copy_file, or one entry of copy_tree.                       *)
Put(p) ==
    /\ pc[p] = "building"
    /\ \E i \in Source[p] \ Staged(p) :
         IF p \in Elsewhere
         THEN origin' = [origin EXCEPT ![p] = @ \cup {i}] /\ UNCHANGED tree
         ELSE tree' = [tree EXCEPT ![p] = @ \cup {i}] /\ UNCHANGED origin
    /\ UNCHANGED <<spaces, litter, publishers, removers, touched>>
    /\ SameTarget

(* publish: a stage beside the target is inspected at once, another one is *)
(* first copied into a stage beside the target.                            *)
Publish(p) ==
    /\ pc[p] = "building" /\ Staged(p) = Source[p]
    /\ Goto(p, IF p \in Elsewhere THEN "restaging" ELSE "admitting")
    /\ UNCHANGED <<trees, outcome, renamed, removers, touched>>
    /\ SameTarget

(* The second workspace exists before the first one's root is looked at.   *)
Restage(p) ==
    /\ pc[p] = "restaging"
    /\ spaces' = spaces \cup {<<p, "beside">>}
    /\ IF origin[p] = {}
       THEN Conclude(p, "NoTree")
       ELSE Goto(p, "copying") /\ UNCHANGED outcome
    /\ UNCHANGED <<tree, origin, litter, renamed, removers, touched>>
    /\ SameTarget

CopyItem(p) ==
    /\ pc[p] = "copying"
    /\ \E i \in origin[p] \ tree[p] : tree' = [tree EXCEPT ![p] = @ \cup {i}]
    /\ UNCHANGED <<origin, spaces, litter, publishers, removers, touched>>
    /\ SameTarget

(* The removal of a workspace is best effort: what stays is litter.        *)
Discard(gone) ==
    \/ spaces' = spaces \ gone /\ UNCHANGED litter
    \/ litter' = litter \cup (spaces \cap gone) /\ UNCHANGED spaces

(* A copy that stops at the first entry, as an early return would leave it.*)
CopyEnds_AnyTime(p) ==
    /\ pc[p] = "copying" /\ tree[p] # {}
    /\ Discard({<<p, "origin">>})
    /\ Goto(p, "admitting")
    /\ UNCHANGED <<tree, origin, outcome, renamed, removers, touched>>
    /\ SameTarget

(* The copy is complete: drop(workspace), then publish the copy.           *)
CopyEnds(p) ==
    /\ pc[p] = "copying" /\ tree[p] = origin[p]
    /\ Discard({<<p, "origin">>})
    /\ Goto(p, "admitting")
    /\ UNCHANGED <<tree, origin, outcome, renamed, removers, touched>>
    /\ SameTarget

(* inspect_regular_tree: a stage nothing was put in has no root.           *)
Inspect(p) ==
    /\ pc[p] = "admitting"
    /\ IF tree[p] = {}
       THEN Conclude(p, "NoTree")
       ELSE Goto(p, "renaming") /\ UNCHANGED outcome
    /\ UNCHANGED <<trees, renamed, removers, touched>>
    /\ SameTarget

(* A rename that replaces what it finds.                                   *)
Rename_Replaces(p) ==
    /\ pc[p] = "renaming"
    /\ Target(p) /\ renamed' = renamed \cup {p} /\ Conclude(p, "Published")
    /\ UNCHANGED <<trees, removers, touched>>

(* A caller that takes a predecessor for its own publication.              *)
Rename_TakesPredecessor(p) ==
    /\ pc[p] = "renaming"
    /\ IF target = None
       THEN Target(p) /\ renamed' = renamed \cup {p}
       ELSE SameTarget /\ UNCHANGED renamed
    /\ Conclude(p, "Published")
    /\ UNCHANGED <<trees, removers, touched>>

(* An early return before the workspace is dropped.                        *)
Rename_KeepsSpace(p) ==
    /\ pc[p] = "renaming"
    /\ IF target = None
       THEN Target(p) /\ renamed' = renamed \cup {p} /\ Conclude(p, "Published")
       ELSE /\ Goto(p, "done") /\ outcome' = [outcome EXCEPT ![p] = "AlreadyPublished"]
            /\ SameTarget /\ UNCHANGED renamed
    /\ UNCHANGED <<trees, removers, touched>>

(* rename_no_replace, the commit: the whole tree appears, or nothing does. *)
Rename(p) ==
    /\ pc[p] = "renaming"
    /\ IF target = None
       THEN Target(p) /\ renamed' = renamed \cup {p} /\ Conclude(p, "Published")
       ELSE Conclude(p, "AlreadyPublished") /\ SameTarget /\ UNCHANGED renamed
    /\ UNCHANGED <<trees, removers, touched>>

(* Any fallible call before the commit fails: the stage is consumed.       *)
PublishFails(p) ==
    /\ pc[p] \in {"building", "restaging", "copying", "admitting", "renaming"}
    /\ Conclude(p, "Failed")
    /\ UNCHANGED <<trees, renamed, removers, touched>>
    /\ SameTarget

(* TempDir's destructor: its errors are ignored, the outcome stands.       *)
Drop(p) ==
    /\ pc[p] = "dropping"
    /\ Discard({<<p, "beside">>, <<p, "origin">>})
    /\ Goto(p, "done")
    /\ UNCHANGED <<tree, origin, outcome, renamed, removers, touched>>
    /\ SameTarget

(* The publishing process dies: no destructor runs.                        *)
Die(p) ==
    /\ pc[p] \notin {"idle", "done", "dead"}
    /\ Goto(p, "dead")
    /\ UNCHANGED <<trees, outcome, renamed, removers, touched>>
    /\ SameTarget

PublisherStep(p) ==
    \/ Stage(p) \/ Put(p) \/ Publish(p) \/ Restage(p) \/ CopyItem(p) \/ CopyEnds(p)
    \/ Inspect(p) \/ Rename(p) \/ PublishFails(p) \/ Drop(p) \/ Die(p)

(***************************************************************************)
(* Removers: Remove for LocalTarget, remove_existing, remove_dir_all.      *)
(***************************************************************************)
Answer(r, a) ==
    /\ rpc' = [rpc EXCEPT ![r] = "done"]
    /\ removal' = [removal EXCEPT ![r] = a]

RemoveStat(r) ==
    /\ rpc[r] = "idle"
    /\ IF target = None
       THEN /\ Answer(r, "Unchanged")
            /\ absent' = absent \cup {r}
       ELSE /\ rpc' = [rpc EXCEPT ![r] = IF target \in Flat THEN "file" ELSE "directory"]
            /\ UNCHANGED <<removal, absent>>
    /\ UNCHANGED <<target, trees, publishers, held, changed, touched>>

(* remove_file on whatever is at the path by now.                          *)
RemoveFile(r) ==
    /\ rpc[r] = "file"
    /\ IF target \in Flat
       THEN /\ Target(None) /\ Answer(r, "Removed")
            /\ changed' = changed \cup {r} /\ touched' = touched \cup {target}
       ELSE /\ Answer(r, IF target = None THEN "Unchanged" ELSE "Failed")
            /\ SameTarget /\ UNCHANGED <<changed, touched>>
    /\ UNCHANGED <<trees, publishers, held>>

(* remove_dir_all opens whatever directory is at the path by now.          *)
RemoveOpen(r) ==
    /\ rpc[r] = "directory"
    /\ IF target \in Publishers \ Flat
       THEN /\ rpc' = [rpc EXCEPT ![r] = "emptying"]
            /\ held' = [held EXCEPT ![r] = target]
            /\ UNCHANGED removal
       ELSE /\ Answer(r, IF target = None THEN "Unchanged" ELSE "Failed")
            /\ UNCHANGED held
    /\ UNCHANGED <<trees, publishers, changed, touched>>
    /\ SameTarget

(* One entry of the opened directory, wherever that directory is by now.   *)
RemoveItem(r) ==
    /\ rpc[r] = "emptying"
    /\ \E i \in tree[held[r]] : tree' = [tree EXCEPT ![held[r]] = @ \ {i}]
    /\ touched' = touched \cup {held[r]} /\ changed' = changed \cup {r}
    /\ UNCHANGED <<origin, spaces, litter, publishers, rpc, held, removal>>
    /\ SameTarget

(* The opened directory is empty: rmdir by path, ENOENT ignored, any other *)
(* entry (a file, a directory with entries) an error.                      *)
RemoveDir(r) ==
    /\ rpc[r] = "emptying" /\ tree[held[r]] = {}
    /\ IF target \in Publishers \ Flat /\ tree[target] = {}
       THEN Target(None) /\ Answer(r, "Removed") /\ changed' = changed \cup {r}
       ELSE /\ Answer(r, IF target = None THEN "Removed" ELSE "Failed")
            /\ SameTarget /\ UNCHANGED changed
    /\ UNCHANGED <<trees, publishers, held, touched>>

(* An answer that takes every error for a missing target.                  *)
RemoveFails_Unchanged(r) ==
    /\ r \in Removing
    /\ Answer(r, "Unchanged")
    /\ UNCHANGED <<trees, publishers, held, changed, touched>>
    /\ SameTarget

(* Any call but a lookup of nothing fails.                                 *)
RemoveFails(r) ==
    /\ r \in Removing
    /\ Answer(r, "Failed")
    /\ UNCHANGED <<trees, publishers, held, changed, touched>>
    /\ SameTarget

RemoverStep(r) ==
    \/ RemoveStat(r) \/ RemoveFile(r) \/ RemoveOpen(r)
    \/ RemoveItem(r) \/ RemoveDir(r) \/ RemoveFails(r)

Next ==
    \/ \E p \in Publishers : PublisherStep(p)
    \/ \E r \in Removers : RemoverStep(r)

Spec == Init /\ [][Next]_vars
=============================================================================
