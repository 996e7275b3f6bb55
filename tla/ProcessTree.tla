---------------------------- MODULE ProcessTree ----------------------------
(***************************************************************************)
(* What src/process.rs asks of the operating system: one child started as  *)
(* the leader of a process group of its own, the descendants it forks, the *)
(* exit status it leaves until it is waited for, the signal that reaches   *)
(* its whole group, and the file or pipe its output goes to.  This is the  *)
(* Unix half; on Windows a Job Object plays the group, and is not reused.  *)
(*                                                                         *)
(* A killed process is doomed: it does nothing more, and dies when the     *)
(* kernel lets it.  A descendant may detach from the group.  The number of *)
(* the child, once waited for, may be given to an unrelated group as soon  *)
(* as its own group is empty.  A host that reaps children behind the       *)
(* adapter's back (SIGCHLD ignored, a reaper thread) makes waiting fail.   *)
(***************************************************************************)
EXTENDS Naturals, FiniteSets

CONSTANTS
    Child,      \* the direct child
    Kids,       \* the descendants it may come to have
    MaxBytes,   \* bound: bytes the tree writes
    PipeSize    \* bytes a pipe holds before a writer blocks

ASSUME TreeConstants ==
    /\ Child \notin Kids
    /\ MaxBytes \in Nat /\ PipeSize \in Nat \ {0}

Procs == Kids \cup {Child}

VARIABLES
    hostReaps,  \* somebody else in this program reaps children
    child,      \* "none", "running", "zombie", "reaped"
    status,     \* how it ended: "none", "ok", "fail", "killed"
    born, alive, doomed,
    loose,      \* descendants outside the group
    open,       \* processes holding the output stream
    wrote,      \* bytes written to it
    atExit,     \* bytes written by the time the child ended
    reused,     \* the child's number now names another group
    struck,     \* that other group was killed
    signalled   \* the tree's group was killed

tree == <<hostReaps, child, status, born, alive, doomed, loose, open, wrote, atExit,
          reused, struck, signalled>>

Group == alive \ loose      \* "the admitted process tree"

TreeTypeOK ==
    /\ hostReaps \in BOOLEAN
    /\ child \in {"none", "running", "zombie", "reaped"}
    /\ status \in {"none", "ok", "fail", "killed"}
    /\ born \subseteq Procs
    /\ alive \subseteq born /\ doomed \subseteq alive
    /\ loose \subseteq Kids /\ open \subseteq alive
    /\ wrote \in Nat /\ atExit \in Nat
    /\ reused \in BOOLEAN /\ struck \in BOOLEAN /\ signalled \in BOOLEAN

TreeInit ==
    /\ hostReaps \in BOOLEAN
    /\ child = "none" /\ status = "none"
    /\ born = {} /\ alive = {} /\ doomed = {} /\ loose = {} /\ open = {}
    /\ wrote = 0 /\ atExit = 0
    /\ reused = FALSE /\ struck = FALSE /\ signalled = FALSE

(***************************************************************************)
(* What the tree does                                                      *)
(***************************************************************************)

Free(p) == p \in alive \ doomed

(* A descendant shares its parent's group, and its output unless redirected*)
Fork(p, k) ==
    /\ Free(p) /\ k \in Kids \ born
    /\ born' = born \cup {k} /\ alive' = alive \cup {k}
    /\ loose' = IF p \in loose THEN loose \cup {k} ELSE loose
    /\ open' \in {open, IF p \in open THEN open \cup {k} ELSE open}
    /\ UNCHANGED <<hostReaps, child, status, doomed, wrote, atExit, reused, struck, signalled>>

(* setsid: the leader of a group cannot.                                   *)
Detach(k) ==
    /\ Free(k) /\ k \in Kids \ loose
    /\ loose' = loose \cup {k}
    /\ UNCHANGED <<hostReaps, child, status, born, alive, doomed, open, wrote, atExit,
                   reused, struck, signalled>>

Write(p, room) ==
    /\ Free(p) /\ p \in open
    /\ room /\ wrote < MaxBytes
    /\ wrote' = wrote + 1
    /\ UNCHANGED <<hostReaps, child, status, born, alive, doomed, loose, open, atExit,
                   reused, struck, signalled>>

(* A process ends by itself, or of the signal it was sent.                 *)
Exit(p, s) ==
    /\ p \in alive
    /\ s = "killed" <=> p \in doomed
    /\ alive' = alive \ {p} /\ doomed' = doomed \ {p} /\ open' = open \ {p}
    /\ IF p = Child
       THEN /\ child' = IF hostReaps THEN "reaped" ELSE "zombie"
            /\ status' = s /\ atExit' = wrote
       ELSE UNCHANGED <<child, status, atExit>>
    /\ UNCHANGED <<hostReaps, born, loose, wrote, reused, struck, signalled>>

Reuse ==
    /\ child = "reaped" /\ Group = {} /\ ~reused
    /\ reused' = TRUE
    /\ UNCHANGED <<hostReaps, child, status, born, alive, doomed, loose, open, wrote, atExit,
                   struck, signalled>>

(***************************************************************************)
(* What the adapter does to it                                             *)
(***************************************************************************)

Start(stream) ==
    /\ child' = "running"
    /\ born' = {Child} /\ alive' = {Child}
    /\ open' = IF stream THEN {Child} ELSE {}
    /\ UNCHANGED <<hostReaps, status, doomed, loose, wrote, atExit, reused, struck, signalled>>

(* A stop that reaches the direct child only.                              *)
KillGroup_ChildOnly ==
    /\ doomed' = doomed \cup (Group \cap {Child})
    /\ struck' = (struck \/ reused)
    /\ signalled' = TRUE
    /\ UNCHANGED <<hostReaps, child, status, born, alive, loose, open, wrote, atExit, reused>>

(* killpg(SIGKILL): every member at once, or whoever has the number now.   *)
KillGroup ==
    /\ doomed' = doomed \cup Group
    /\ struck' = (struck \/ reused)
    /\ signalled' = TRUE
    /\ UNCHANGED <<hostReaps, child, status, born, alive, loose, open, wrote, atExit, reused>>

Ended == child \in {"zombie", "reaped"}

(* waitpid hands over the status of an ended child, once.                  *)
Reap ==
    /\ child = "zombie"
    /\ child' = "reaped"
    /\ UNCHANGED <<hostReaps, status, born, alive, doomed, loose, open, wrote, atExit,
                   reused, struck, signalled>>
============================================================================
