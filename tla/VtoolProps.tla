----------------------------- MODULE VtoolProps -----------------------------
(***************************************************************************)
(* What the vtool commands guarantee when they run beside each other.      *)
(***************************************************************************)
EXTENDS Vtool

(* An Installed record is never ahead of the tree: through crashes, failed *)
(* and racing commands, the version is at its target, unless it was taken  *)
(* away from outside (realize.rs:33-42 and 44-61, effects, then commit).   *)
InstalledIsPublished ==
    \A v \in Versions :
        records[v].phase = "Installed" /\ v \notin lost => v \in published

(* The view only ever exposes a version that is there, unless it was taken *)
(* away from outside (view.rs:215-224, the source is observed first).      *)
ViewIsPublished == view # None /\ view \notin lost => Ready(view)

(* No commit is lost: a version's generation counts the commits for it,    *)
(* whichever process made them (manifest.rs:251-279 under the lock).       *)
NoLostCommit == \A v \in Versions : records[v].generation = commits[v]

(* Nothing appears that nobody installed: a version is published by an     *)
(* install, or again by a repair of what an install or an activation has   *)
(* recorded (realize.rs:102-115).                                          *)
NothingUninvited ==
    [][\A v \in published' \ published :
         \/ \E p \in Procs : cmd[p] = [verb |-> "install", version |-> v] /\ pc[p] = "publish"
         \/ records[v].phase # "none"]_vars

(* Every command returns, a repair after its declared attempts             *)
(* (realize.rs:121-163).                                                   *)
CommandsReturn == \A p \in Procs : pc[p] # "idle" ~> pc[p] = "idle"

(* "explicitly deactivated: repair does not resurrect" (realize.rs:114):   *)
(* a deactivated version becomes Installed again only by an install or an  *)
(* activation.                                                             *)
RepairDoesNotResurrect ==
    [][\A v \in Versions :
         records[v].phase = "Deactivated" /\ records'[v].phase = "Installed" =>
           \E p \in Procs : pc[p] = "write" /\ Version(p) = v /\ ~Repairing(p)
                            /\ pc'[p] # "write"]_vars

(* What makes the difference: no deactivation of a version is committed    *)
(* while a repair of it is between its first read and its own commit.      *)
Past(p) == Repairing(p) /\ pc[p] \notin {"idle", "read"}
NotOvertaken ==
    [][\A p \in Procs :
         Past(p) /\ records[Version(p)].phase = "Installed" =>
           records'[Version(p)].phase = "Installed"]_vars

(* No command runs in circles: each of its steps, a failed one too, is a   *)
(* later one of the command or begins the next of a repair's attempts, and *)
(* no other process sets it back (realize.rs:121-163).                     *)
Rank(step) ==
    CASE step = "read" -> 12 [] step = "target" -> 11 [] step = "view" -> 10
      [] step = "attempt" -> 9 [] step = "publish" -> 8 [] step = "observe" -> 7
      [] step \in {"create", "switch"} -> 6 [] step = "check" -> 5
      [] step = "withdraw" -> 4 [] step = "unlink" -> 3
      [] step = "lock" -> 2 [] step = "write" -> 1 [] OTHER -> 0

Nearer(p) ==
    \/ tries'[p] > tries[p]
    \/ tries'[p] = tries[p] /\ Rank(pc'[p]) < Rank(pc[p])

NoCircles ==
    [][\A p \in Procs :
         /\ Advance(p) \/ CommitFails(p) \/ StepFails(p) \/ Die(p) => Nearer(p)
         /\ pc[p] # "idle" => Nearer(p) \/ UNCHANGED <<pc[p], tries[p], cmd[p]>>]_vars
=============================================================================
