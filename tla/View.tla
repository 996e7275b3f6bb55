------------------------------- MODULE View -------------------------------
(***************************************************************************)
(* One consumer view: the directory symlink that Link creates or switches  *)
(* and Unlink withdraws (src/local/view.rs), and the observation both rest *)
(* on (observe_path and classify_symlink in src/local.rs).                 *)
(*                                                                         *)
(* Covered: any number of concurrent callers, as threads of one process or *)
(* of several, each calling again and again, interleaved between system    *)
(* calls; published trees that appear and disappear beneath; the failure   *)
(* of any fallible call; a process that dies with its threads and leaves   *)
(* its staged links; the reuse of its process id, which names them.  An    *)
(* observation (lstat, read_link and stat of one path) is one step here: a *)
(* change between them can only turn its answer into an error.             *)
(* The Unix mechanics are modelled (symlink, rename, unlink); foreign      *)
(* entries may be at the view from the start, but no other program writes  *)
(* the path afterwards.                                                    *)
(***************************************************************************)
EXTENDS Naturals, FiniteSets

CONSTANTS
    Trees,      \* exposed directories a view can point to
    Linkers, Unlinkers,
    Wants,      \* the tree each linker exposes
    Pids, Pid,  \* processes, and the one each linker runs in
    Attempts,   \* staged names per process id: 128 in the code
    Missing, File, Dir   \* no entry, a foreign file, a foreign directory

ASSUME ConstantsOK ==
    /\ IsFiniteSet(Linkers)
    /\ Wants \in [Linkers -> Trees]
    /\ Pid \in [Linkers -> Pids]
    /\ Attempts \in Nat \ {0}
    /\ Missing \notin Trees /\ File \notin Trees /\ Dir \notin Trees
    /\ Missing # File /\ Missing # Dir /\ File # Dir
    /\ "nothing" \notin Trees \cup {Missing}     \* the mark of "nothing replaced"

VARIABLES
    view,       \* the entry at the view path; a tree means a symlink to it
    exists,     \* the trees that are there
    stages,     \* the entries .pulith-switch-{pid}-{attempt} beside the view
    pc, attempt, change,    \* each linker: where it is, the staged name, its answer
    upc, withdrawal,        \* each unlinker: where it is, its answer
    replaced,   \* history: linkers whose rename succeeded, with what it replaced
    litter,     \* history: staged links left by a death or a failed clean-up
    disturbed   \* history: linkers since whose call somebody else changed the
                \* view, or a tree was removed

linkers == <<pc, attempt, change, replaced>>
unlinkers == <<upc, withdrawal>>
history == <<litter, disturbed>>
vars == <<view, exists, stages, linkers, unlinkers, history>>

Name == Pids \X (0 .. Attempts - 1)
Change == {"none", "Created", "Replaced", "NotDirectory", "ViewConflict", "BeforeLink",
           "NoName"}

TypeOK ==
    /\ view \in Trees \cup {Missing, File, Dir}
    /\ exists \subseteq Trees
    /\ stages \in [Name -> Trees \cup {Missing}]
    /\ pc \in [Linkers -> {"idle", "source", "view", "creating", "reading", "staging",
                           "staged", "cleaning", "checking", "dead"}]
    /\ attempt \in [Linkers -> 0 .. Attempts - 1]
    /\ change \in [Linkers -> Change]
    /\ upc \in [Unlinkers -> {"idle", "removing"}]
    /\ withdrawal \in [Unlinkers -> {"none", "Removed", "Unchanged", "NotActiveView", "Remove"}]
    /\ replaced \in [Linkers -> Trees \cup {Missing, File, "nothing"}]
    /\ litter \subseteq Name
    /\ disturbed \subseteq Linkers

Init ==
    /\ view \in Trees \cup {Missing, File, Dir}
    /\ exists \in SUBSET Trees
    /\ stages = [n \in Name |-> Missing]
    /\ pc = [l \in Linkers |-> "idle"]
    /\ attempt = [l \in Linkers |-> 0]
    /\ change = [l \in Linkers |-> "none"]
    /\ upc = [u \in Unlinkers |-> "idle"]
    /\ withdrawal = [u \in Unlinkers |-> "none"]
    /\ replaced = [l \in Linkers |-> "nothing"]
    /\ litter = {}
    /\ disturbed = {}

(* observe_path on the view: a symlink counts as a view only while the     *)
(* tree it points to is there; a dangling one is a SymlinkToFile.          *)
Observed ==
    CASE view = Missing -> "Missing"
      [] view \in exists -> "SymlinkToDirectory"
      [] view \in Trees \ exists -> "SymlinkToFile"
      [] OTHER -> "Foreign"

(* Somebody else changes what a call may have observed.                    *)
Disturb(others) == disturbed' = disturbed \cup others

Goto(l, step) == pc' = [pc EXCEPT ![l] = step]
Return(l, answer) ==
    /\ Goto(l, "idle")
    /\ change' = [change EXCEPT ![l] = answer]
Stay(l, step) == Goto(l, step) /\ UNCHANGED change

(***************************************************************************)
(* link_view                                                               *)
(***************************************************************************)
LinkCall(l) ==
    /\ pc[l] = "idle" /\ ~(\E k \in Linkers : Pid[k] = Pid[l] /\ pc[k] = "dead")
    /\ Goto(l, "source")
    /\ change' = [change EXCEPT ![l] = "none"]
    /\ attempt' = [attempt EXCEPT ![l] = 0]
    /\ replaced' = [replaced EXCEPT ![l] = "nothing"]
    /\ disturbed' = disturbed \ {l}
    /\ UNCHANGED <<view, exists, stages, unlinkers, litter>>

ObserveSource(l) ==
    /\ pc[l] = "source"
    /\ IF Wants[l] \in exists THEN Stay(l, "view") ELSE Return(l, "NotDirectory")
    /\ UNCHANGED <<view, exists, stages, attempt, replaced, unlinkers, history>>

(* A check that sends any entry but a directory to the switch.             *)
ObserveView_AnyEntry(l) ==
    /\ pc[l] = "view"
    /\ CASE Observed = "Missing" -> Stay(l, "creating")
         [] Observed # "Missing" /\ view # Dir -> Stay(l, "staging")
         [] OTHER -> Return(l, "ViewConflict")
    /\ UNCHANGED <<view, exists, stages, attempt, replaced, unlinkers, history>>

ObserveView(l) ==
    /\ pc[l] = "view"
    /\ CASE Observed = "Missing" -> Stay(l, "creating")
         [] Observed = "SymlinkToDirectory" -> Stay(l, "reading")
         [] OTHER -> Return(l, "ViewConflict")
    /\ UNCHANGED <<view, exists, stages, attempt, replaced, unlinkers, history>>

(* symlink(2) refuses to replace whatever appeared since the observation.  *)
Create(l) ==
    /\ pc[l] = "creating"
    /\ IF view = Missing
       THEN view' = Wants[l] /\ Return(l, "Created") /\ Disturb(Linkers \ {l})
       ELSE Return(l, "BeforeLink") /\ UNCHANGED <<view, disturbed>>
    /\ UNCHANGED <<exists, stages, attempt, replaced, unlinkers, litter>>

(* read_link: the view must still be a symlink, whatever it points to.     *)
ReadPrevious(l) ==
    /\ pc[l] = "reading"
    /\ IF view \in Trees THEN Stay(l, "staging") ELSE Return(l, "BeforeLink")
    /\ UNCHANGED <<view, exists, stages, attempt, replaced, unlinkers, history>>

Staged(l) == <<Pid[l], attempt[l]>>

(* A staged name that is taken over when it exists.                        *)
StageLink_Overwrites(l) ==
    /\ pc[l] = "staging"
    /\ stages' = [stages EXCEPT ![Staged(l)] = Wants[l]]
    /\ Stay(l, "staged")
    /\ UNCHANGED <<view, exists, attempt, replaced, unlinkers, history>>

(* A search that keeps its bound one name short.                           *)
StageLink_OneTry(l) ==
    /\ pc[l] = "staging"
    /\ IF stages[Staged(l)] = Missing
       THEN stages' = [stages EXCEPT ![Staged(l)] = Wants[l]] /\ Stay(l, "staged")
       ELSE Return(l, "NoName") /\ UNCHANGED stages
    /\ UNCHANGED <<view, exists, attempt, replaced, unlinkers, history>>

(* unique_switch_stage: one exclusive symlink(2) per attempt.              *)
StageLink(l) ==
    /\ pc[l] = "staging"
    /\ IF stages[Staged(l)] = Missing
       THEN /\ stages' = [stages EXCEPT ![Staged(l)] = Wants[l]]
            /\ Stay(l, "staged") /\ UNCHANGED attempt
       ELSE /\ IF attempt[l] + 1 < Attempts
               THEN attempt' = [attempt EXCEPT ![l] = @ + 1] /\ Stay(l, "staging")
               ELSE Return(l, "NoName") /\ UNCHANGED attempt
            /\ UNCHANGED stages
    /\ UNCHANGED <<view, exists, replaced, unlinkers, history>>

(* A replacement in two calls: unlink the view, link the new source.       *)
Replace_UnlinksFirst(l) ==
    /\ pc[l] = "staged"
    /\ IF view \in Trees
       THEN view' = Missing /\ UNCHANGED <<stages, pc, change, replaced>>
       ELSE /\ view' = stages[Staged(l)] /\ stages' = [stages EXCEPT ![Staged(l)] = Missing]
            /\ replaced' = [replaced EXCEPT ![l] = view] /\ Stay(l, "checking")
    /\ Disturb(Linkers \ {l})
    /\ UNCHANGED <<exists, attempt, unlinkers, litter>>

(* rename(2) of the staged link over anything but a directory.             *)
Replace(l) ==
    /\ pc[l] = "staged"
    /\ IF view # Dir
       THEN /\ view' = stages[Staged(l)]
            /\ stages' = [stages EXCEPT ![Staged(l)] = Missing]
            /\ replaced' = [replaced EXCEPT ![l] = view]
            /\ Stay(l, "checking")
            /\ Disturb(Linkers \ {l})
       ELSE Stay(l, "cleaning") /\ UNCHANGED <<view, stages, replaced, disturbed>>
    /\ UNCHANGED <<exists, attempt, unlinkers, litter>>

ReplaceFails(l) ==
    /\ pc[l] = "staged"
    /\ Stay(l, "cleaning")
    /\ UNCHANGED <<view, exists, stages, attempt, replaced, unlinkers, history>>

(* A failed replacement that leaves its staged link.                       *)
CleanUp_Skipped(l) ==
    /\ pc[l] = "cleaning"
    /\ UNCHANGED <<stages, litter>>
    /\ Return(l, "BeforeLink")
    /\ UNCHANGED <<view, exists, attempt, replaced, unlinkers, disturbed>>

(* remove_staged_active_view, best effort.                                 *)
CleanUp(l) ==
    /\ pc[l] = "cleaning"
    /\ \/ stages' = [stages EXCEPT ![Staged(l)] = Missing] /\ UNCHANGED litter
       \/ litter' = litter \cup {Staged(l)} /\ UNCHANGED stages
    /\ Return(l, "BeforeLink")
    /\ UNCHANGED <<view, exists, attempt, replaced, unlinkers, disturbed>>

(* The view is observed again, after the replacement.                      *)
PostObserve(l) ==
    /\ pc[l] = "checking"
    /\ Return(l, IF Observed = "SymlinkToDirectory" THEN "Replaced" ELSE "ViewConflict")
    /\ UNCHANGED <<view, exists, stages, attempt, replaced, unlinkers, history>>

(* Any other fallible call of link_view fails.                             *)
LinkFails(l) ==
    /\ pc[l] \in {"source", "view", "creating", "reading", "staging", "checking"}
    /\ Return(l, "BeforeLink")
    /\ UNCHANGED <<view, exists, stages, attempt, replaced, unlinkers, history>>

LinkerStep(l) ==
    \/ LinkCall(l) \/ ObserveSource(l) \/ ObserveView(l) \/ Create(l) \/ ReadPrevious(l)
    \/ StageLink(l) \/ Replace(l) \/ ReplaceFails(l) \/ CleanUp(l) \/ PostObserve(l)
    \/ LinkFails(l)

(***************************************************************************)
(* Unlink for LocalTarget                                                  *)
(***************************************************************************)
Withdraw(u, answer) ==
    /\ upc' = [upc EXCEPT ![u] = "idle"]
    /\ withdrawal' = [withdrawal EXCEPT ![u] = answer]

UnlinkObserve(u) ==
    /\ upc[u] = "idle"
    /\ CASE Observed = "Missing" -> Withdraw(u, "Unchanged")
         [] Observed = "SymlinkToDirectory" ->
              upc' = [upc EXCEPT ![u] = "removing"] /\ UNCHANGED withdrawal
         [] OTHER -> Withdraw(u, "NotActiveView")
    /\ UNCHANGED <<view, exists, stages, linkers, history>>

(* remove_file on whatever is at the view by now.                          *)
UnlinkRemove(u) ==
    /\ upc[u] = "removing"
    /\ IF view \notin {Missing, Dir}
       THEN view' = Missing /\ Withdraw(u, "Removed") /\ Disturb(Linkers)
       ELSE Withdraw(u, "Remove") /\ UNCHANGED <<view, disturbed>>
    /\ UNCHANGED <<exists, stages, linkers, litter>>

UnlinkFails(u) ==
    /\ upc[u] \in {"idle", "removing"}
    /\ Withdraw(u, "Remove")
    /\ UNCHANGED <<view, exists, stages, linkers, history>>

UnlinkerStep(u) == UnlinkObserve(u) \/ UnlinkRemove(u) \/ UnlinkFails(u)

(***************************************************************************)
(* The surroundings                                                        *)
(***************************************************************************)
Live == {"source", "view", "creating", "reading", "staging", "staged", "cleaning", "checking"}

(* A process dies with all its threads; its staged links stay.             *)
Die(d) ==
    /\ \E l \in Linkers : Pid[l] = d /\ pc[l] \in Live
    /\ pc' = [l \in Linkers |-> IF Pid[l] = d /\ pc[l] \in Live THEN "dead" ELSE pc[l]]
    /\ litter' = litter \cup {Staged(l) : l \in {k \in Linkers :
                                  Pid[k] = d /\ pc[k] \in {"staged", "cleaning"}}}
    /\ UNCHANGED <<view, exists, stages, attempt, change, replaced, unlinkers, disturbed>>

(* A later process gets the process id of a dead one.                      *)
Reuse(d) ==
    /\ \E l \in Linkers : Pid[l] = d /\ pc[l] = "dead"
    /\ pc' = [l \in Linkers |-> IF Pid[l] = d /\ pc[l] = "dead" THEN "idle" ELSE pc[l]]
    /\ UNCHANGED <<view, exists, stages, attempt, change, replaced, unlinkers, history>>

(* A tree is published (again) or removed by other callers.                *)
PublishTree(t) ==
    /\ t \notin exists /\ exists' = exists \cup {t}
    /\ UNCHANGED <<view, stages, linkers, unlinkers, history>>
RemoveTree(t) ==
    /\ t \in exists /\ exists' = exists \ {t} /\ Disturb(Linkers)
    /\ UNCHANGED <<view, stages, linkers, unlinkers, litter>>

Next ==
    \/ \E l \in Linkers : LinkerStep(l)
    \/ \E u \in Unlinkers : UnlinkerStep(u)
    \/ \E d \in Pids : Die(d) \/ Reuse(d)
    \/ \E t \in Trees : PublishTree(t) \/ RemoveTree(t)

Spec == Init /\ [][Next]_vars
=============================================================================
