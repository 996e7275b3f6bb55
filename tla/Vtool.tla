------------------------------- MODULE Vtool -------------------------------
(***************************************************************************)
(* The vtool example (src/examples/vtool): versions are published below    *)
(* one root, exposed through one view, and their state is kept in one      *)
(* record, snapshot.json.  Any number of vtool processes run install,      *)
(* activate, deactivate and repair beside each other.                      *)
(*                                                                         *)
(* This module composes the library's parts at the level they promise:     *)
(* publication is one step that never replaces (Publication), the record   *)
(* is read and replaced atomically under a non-blocking lock (RecordStore) *)
(* and the view is observed in one step and changed in another (View).     *)
(*                                                                         *)
(* Covered: every interleaving of the commands between those steps, a      *)
(* failing step (Failing), the death of a process at any point, versions   *)
(* and views that disappear outside of vtool.  All manifests that declare  *)
(* a view declare the same one.                                            *)
(***************************************************************************)
EXTENDS Naturals

CONSTANTS
    Versions,       \* the addresses name@version
    FileVersions,   \* versions whose artifact is one plain file, not a tree
    Viewless,       \* versions whose manifest declares no view
    Procs,
    Attempts,       \* repair's bound on its attempts
    Failing,        \* the steps whose calls may fail
    MaxRuns,        \* bound: commands started in a behaviour
    None            \* no view; nobody holds the lock

ASSUME ConstantsOK ==
    /\ FileVersions \subseteq Versions /\ Viewless \subseteq Versions
    /\ Attempts \in Nat \ {0} /\ MaxRuns \in Nat
    /\ None \notin Versions /\ None \notin Procs

VARIABLES
    published,  \* the versions that are at their target path
    view,       \* the version the view points to
    records,    \* snapshot.json: phase and generation of each version
    lock,       \* the holder of the record store's lock
    pc, cmd,    \* each process: its step and its command
    tries,      \* a repair's failed attempts
    copy,       \* the records a commit has read
    result,     \* what the last command reported
    runs,       \* commands started (bounded by MaxRuns)
    commits,    \* history: the writes of each version's record
    lost        \* history: the versions that disappeared outside of vtool

shared == <<published, view, records, lock, commits, lost>>
procs == <<pc, cmd, tries, copy, result, runs>>
vars == <<shared, procs>>

Verb == {"install", "activate", "deactivate", "repair"}
Step == {"idle", "read", "target", "view", "attempt", "publish", "observe", "create",
         "switch", "check", "withdraw", "unlink", "lock", "write"}
Record == [phase : {"none", "Installed", "Deactivated"}, generation : Nat]
Fresh == [v \in Versions |-> [phase |-> "none", generation |-> 0]]

TypeOK ==
    /\ published \subseteq Versions /\ lost \subseteq Versions
    /\ view \in Versions \cup {None}
    /\ records \in [Versions -> Record]
    /\ lock \in Procs \cup {None}
    /\ pc \in [Procs -> Step]
    /\ cmd \in [Procs -> [verb : Verb, version : Versions]]
    /\ tries \in [Procs -> 0 .. Attempts - 1]
    /\ copy \in [Procs -> [Versions -> Record]]
    /\ result \in [Procs -> {"none", "ok", "failed", "satisfied", "nothing"}]
    /\ runs \in 0 .. MaxRuns
    /\ commits \in [Versions -> Nat]

Init ==
    /\ published = {} /\ view = None /\ lock = None /\ lost = {} /\ runs = 0
    /\ records = Fresh
    /\ pc = [p \in Procs |-> "idle"]
    /\ cmd \in [Procs -> {[verb |-> "install", version |-> v] : v \in Versions}]
    /\ tries = [p \in Procs |-> 0]
    /\ copy = [p \in Procs |-> Fresh]
    /\ result = [p \in Procs |-> "none"]
    /\ commits = [v \in Versions |-> 0]

Version(p) == cmd[p].version
Repairing(p) == cmd[p].verb = "repair"
HasView(p) == Version(p) \notin Viewless

(* LocalTarget::inspect: a version that is a directory at its target.      *)
Ready(v) == v \in published \ FileVersions
(* observe_path of the view: a symlink to a directory that is there.       *)
Dangling == view \in Versions /\ ~Ready(view)

Goto(p, step) == pc' = [pc EXCEPT ![p] = step]
On(p, step) == Goto(p, step) /\ UNCHANGED <<cmd, tries, copy, result, runs>>
Report(p, answer) ==
    /\ Goto(p, "idle")
    /\ result' = [result EXCEPT ![p] = answer]
    /\ UNCHANGED <<cmd, tries, copy, runs>>

(* A retry that does not count.                                            *)
Fail_Uncounted(p) ==
    IF Repairing(p) /\ pc[p] # "read"
    THEN On(p, "attempt")
    ELSE Report(p, "failed")

(* A step of the command failed.  A repair counts the attempt and starts   *)
(* another, up to its bound; the state errors of a repair without a view   *)
(* and of its first read end it.                                           *)
Fail(p) ==
    IF /\ Repairing(p) /\ pc[p] # "read" /\ tries[p] + 1 < Attempts
       /\ pc[p] \in {"lock", "write"} => HasView(p)
    THEN /\ Goto(p, "attempt") /\ tries' = [tries EXCEPT ![p] = @ + 1]
         /\ UNCHANGED <<cmd, copy, result, runs>>
    ELSE Report(p, "failed")

(***************************************************************************)
(* Commands                                                                *)
(***************************************************************************)
Run(p) ==
    /\ pc[p] = "idle" /\ runs < MaxRuns
    /\ \E verb \in Verb, v \in Versions :
         /\ cmd' = [cmd EXCEPT ![p] = [verb |-> verb, version |-> v]]
         /\ IF verb \in {"activate", "deactivate"} /\ v \in Viewless
            THEN /\ UNCHANGED pc
                 /\ result' = [result EXCEPT ![p] =
                                 IF verb = "deactivate" THEN "ok" ELSE "failed"]
            ELSE /\ Goto(p, CASE verb = "install" -> "publish"
                              [] verb = "activate" -> "observe"
                              [] verb = "deactivate" -> "withdraw"
                              [] verb = "repair" -> "read")
                 /\ result' = [result EXCEPT ![p] = "none"]
    /\ tries' = [tries EXCEPT ![p] = 0]
    /\ runs' = runs + 1
    /\ UNCHANGED <<shared, copy>>

(* repair: the state is read once, without the lock.                       *)
ReadRecord(p) ==
    /\ pc[p] = "read"
    /\ IF records[Version(p)].phase = "Installed"
       THEN On(p, "target")
       ELSE Report(p, "nothing")
    /\ UNCHANGED shared

(* is_satisfied: the target is a directory, then the view is any symlink;  *)
(* an observation that fails does not satisfy.                             *)
CheckTarget(p) ==
    /\ pc[p] = "target"
    /\ \/ IF ~Ready(Version(p)) THEN On(p, "attempt")
          ELSE IF HasView(p) THEN On(p, "view") ELSE Report(p, "satisfied")
       \/ "target" \in Failing /\ On(p, "attempt")
    /\ UNCHANGED shared

CheckView(p) ==
    /\ pc[p] = "view"
    /\ \/ IF view # None THEN Report(p, "satisfied") ELSE On(p, "attempt")
       \/ "view" \in Failing /\ On(p, "attempt")
    /\ UNCHANGED shared

(* What follows once the version is there.                                 *)
Realized(p) == On(p, IF Repairing(p) /\ HasView(p) THEN "observe" ELSE "lock")

(* One attempt: an existing directory is not realized again.               *)
Attempt(p) ==
    /\ pc[p] = "attempt"
    /\ \/ IF Ready(Version(p)) THEN Realized(p) ELSE On(p, "publish")
       \/ "attempt" \in Failing /\ On(p, "publish")
    /\ UNCHANGED shared

(* A realization that returns before it publishes.                         *)
Publish_Skipped(p) ==
    /\ pc[p] = "publish"
    /\ IF Version(p) \in published THEN Fail(p) ELSE Realized(p)
    /\ UNCHANGED shared

(* realize: acquire, verify, prepare, publish; only the last is visible.   *)
Publish(p) ==
    /\ pc[p] = "publish"
    /\ IF Version(p) \in published
       THEN Fail(p) /\ UNCHANGED <<published, lost>>
       ELSE /\ published' = published \cup {Version(p)} /\ lost' = lost \ {Version(p)}
            /\ Realized(p)
    /\ UNCHANGED <<view, records, lock, commits>>

(* A link that does not look at its source.                                *)
LinkObserve_AnySource(p) ==
    /\ pc[p] = "observe"
    /\ IF Dangling THEN Fail(p) ELSE On(p, IF view = None THEN "create" ELSE "switch")
    /\ UNCHANGED shared

(* link_view: the source must be a directory and the view absent or a      *)
(* symlink to one.                                                         *)
LinkObserve(p) ==
    /\ pc[p] = "observe"
    /\ IF ~Ready(Version(p)) \/ Dangling
       THEN Fail(p)
       ELSE On(p, IF view = None THEN "create" ELSE "switch")
    /\ UNCHANGED shared

LinkCreate(p) ==
    /\ pc[p] = "create"
    /\ IF view = None
       THEN view' = Version(p) /\ On(p, "lock")
       ELSE Fail(p) /\ UNCHANGED view
    /\ UNCHANGED <<published, records, lock, commits, lost>>

LinkSwitch(p) ==
    /\ pc[p] = "switch"
    /\ view' = Version(p)
    /\ On(p, "check")
    /\ UNCHANGED <<published, records, lock, commits, lost>>

LinkCheck(p) ==
    /\ pc[p] = "check"
    /\ IF view = None \/ Dangling THEN Fail(p) ELSE On(p, "lock")
    /\ UNCHANGED shared

(* deactivate: unlink, whichever version the view points to.               *)
UnlinkObserve(p) ==
    /\ pc[p] = "withdraw"
    /\ IF view = None THEN On(p, "lock")
       ELSE IF Dangling THEN Fail(p) ELSE On(p, "unlink")
    /\ UNCHANGED shared

UnlinkRemove(p) ==
    /\ pc[p] = "unlink"
    /\ IF view = None
       THEN Fail(p) /\ UNCHANGED view
       ELSE view' = None /\ On(p, "lock")
    /\ UNCHANGED <<published, records, lock, commits, lost>>

(***************************************************************************)
(* commit: RecordStore::edit, inspect, then replace from the copy.         *)
(***************************************************************************)
Phase(p) == IF cmd[p].verb = "deactivate" THEN "Deactivated" ELSE "Installed"

(* A snapshot that is read before the lock is taken, if it ever is.        *)
CommitLock_NoLock(p) ==
    /\ pc[p] = "lock"
    /\ copy' = [copy EXCEPT ![p] = records]
    /\ Goto(p, "write")
    /\ UNCHANGED <<shared, cmd, tries, result, runs>>

(* The lock is tried once; a holder makes the command fail after all it    *)
(* has done so far.                                                        *)
CommitLock(p) ==
    /\ pc[p] = "lock"
    /\ IF lock = None
       THEN /\ lock' = p
            /\ copy' = [copy EXCEPT ![p] = records]
            /\ Goto(p, "write") /\ UNCHANGED <<cmd, tries, result, runs>>
       ELSE Fail(p) /\ UNCHANGED lock
    /\ UNCHANGED <<published, view, records, commits, lost>>

Written(p) ==
    LET v == Version(p) IN
    [copy[p] EXCEPT ![v] = [phase |-> Phase(p), generation |-> @.generation + 1]]

Release(p) == lock' = IF lock = p THEN None ELSE lock

CommitWrite(p) ==
    /\ pc[p] = "write"
    /\ records' = Written(p)
    /\ commits' = [commits EXCEPT ![Version(p)] = @ + 1]
    /\ Release(p)
    /\ Report(p, "ok")
    /\ UNCHANGED <<published, view, lost>>

(* The store reports an error, before or after the replacement.            *)
CommitFails(p) ==
    /\ pc[p] = "write" /\ "write" \in Failing
    /\ \/ UNCHANGED <<records, commits>>
       \/ /\ records' = Written(p)
          /\ commits' = [commits EXCEPT ![Version(p)] = @ + 1]
    /\ Release(p)
    /\ Fail(p)
    /\ UNCHANGED <<published, view, lost>>

(* Any other fallible call fails, with no effect.                          *)
StepFails(p) ==
    /\ pc[p] \in Failing \cap {"read", "publish", "observe", "create", "switch", "check",
                               "withdraw", "unlink", "lock"}
    /\ Fail(p)
    /\ UNCHANGED shared

(* The process dies: the kernel releases its lock, its effects stay.       *)
Die(p) ==
    /\ pc[p] # "idle"
    /\ Release(p)
    /\ Report(p, "none")
    /\ UNCHANGED <<published, view, records, commits, lost>>

(* A version or the view disappears outside of vtool.                      *)
LoseVersion(v) ==
    /\ v \in published
    /\ published' = published \ {v} /\ lost' = lost \cup {v}
    /\ UNCHANGED <<view, records, lock, commits, procs>>
LoseView ==
    /\ view # None /\ view' = None
    /\ UNCHANGED <<published, records, lock, commits, lost, procs>>

Advance(p) ==
    \/ ReadRecord(p) \/ CheckTarget(p) \/ CheckView(p) \/ Attempt(p) \/ Publish(p)
    \/ LinkObserve(p) \/ LinkCreate(p) \/ LinkSwitch(p) \/ LinkCheck(p)
    \/ UnlinkObserve(p) \/ UnlinkRemove(p) \/ CommitLock(p) \/ CommitWrite(p)

Next ==
    \/ \E p \in Procs : Run(p) \/ Advance(p) \/ CommitFails(p) \/ StepFails(p) \/ Die(p)
    \/ \E v \in Versions : LoseVersion(v)
    \/ LoseView

Spec == Init /\ [][Next]_vars

(* A process that runs a command keeps running: nothing in it waits.       *)
FairSpec == Spec /\ \A p \in Procs : WF_vars(Advance(p))
=============================================================================
