------------------------------ MODULE Process ------------------------------
(***************************************************************************)
(* src/process.rs: bounded runs and managed sessions over a process tree.  *)
(* A behaviour is one call: a program realized in a private workspace,     *)
(* synchronously or on tokio, a program run in the caller's worktree, or a *)
(* session that is started, observed, and waited for, stopped or dropped.  *)
(*                                                                         *)
(* Covered: the child and its descendants run, fork, detach, write and end *)
(* at any moment; the timeout, a cancellation and the exit race; the       *)
(* asynchronous call is dropped at any await; every local call may fail.   *)
(* Of the two output streams one is modelled, the other is alike.  On      *)
(* Windows, refusing the Job Object is one more failure to start.          *)
(***************************************************************************)
EXTENDS ProcessTree, Sequences

CONSTANTS
    Caps,       \* capture caps; 0 disables capturing
    Declared    \* lists of inputs [name, kind] that callers declare

ASSUME CapsOK == Caps \subseteq Nat

VARIABLES
    api,        \* "private", "async", "worktree", "session"
    token,      \* the caller passed a CancelToken
    cancelled, expired,
    cap,
    pc,
    kind,       \* the outcome: decided before it is returned
    unclean,    \* WorkspaceCleanup: the outcome is wrapped, its workspace left
    workspace,  \* "none", "held", "handed", "removed", "left"
    output,     \* what is at the selected output path
    seen,       \* what the adapter saw there
    drained, retained, truncated,
    reader,     \* "off", "reading", "ended", "failed"; "short" is "ended" to
                \* the caller, who is not told that the file was not all read
    armed,      \* AsyncTreeGuard
    resolved    \* ProcessSession

call == <<api, token, cap>>
capture == <<drained, retained, truncated, reader>>
run == <<pc, kind, unclean, workspace, seen, armed, resolved>>
vars == <<tree, call, cancelled, expired, output, capture, run>>

Private == api \in {"private", "async"}
InputError == {"InputCollision", "InputMissing", "InputWrongKind", "InputStaging"}
WorktreeError == {"WorktreeMissing", "WorktreeWrongKind", "WorktreeInspect"}
RunError == InputError \cup WorktreeError
    \cup {"Workspace", "Spawn", "Wait", "TimedOut", "Cancelled", "ExitedNonZero",
          "OutputMissing", "OutputWrongKind", "OutputInspect"}
Session == {"Exited", "Stopped", "StopTimedOut", "Dropped"}

Min(a, b) == IF a < b THEN a ELSE b

TypeOK ==
    /\ TreeTypeOK
    /\ api \in {"private", "async", "worktree", "session"}
    /\ token \in BOOLEAN /\ cancelled \in BOOLEAN /\ expired \in BOOLEAN
    /\ cap \in Caps
    /\ pc \in {"new", "prepared", "starting", "spawning", "loop", "poll", "await", "stop",
               "reaping", "draining", "finishing", "failing", "unwinding", "session",
               "waiting", "stopping", "dropping", "burying", "done"}
    /\ kind \in {"none", "Success"} \cup RunError \cup Session
    /\ unclean \in BOOLEAN /\ armed \in BOOLEAN /\ resolved \in BOOLEAN
    /\ workspace \in {"none", "held", "handed", "removed", "left"}
    /\ output \in {"missing", "dir", "other"} /\ seen \in {"none", "missing", "dir", "other"}
    /\ drained \in Nat /\ retained \in Nat /\ truncated \in BOOLEAN
    /\ reader \in {"off", "reading", "ended", "failed", "short"}

Init ==
    /\ TreeInit
    /\ api \in {"private", "async", "worktree", "session"}
    /\ token \in BOOLEAN /\ (api = "session" => ~token)
    /\ cap \in Caps /\ (api = "session" => cap = 0)
    /\ cancelled = FALSE /\ expired = FALSE
    /\ pc = IF Private THEN "new" ELSE "prepared"
    /\ kind = "none" /\ unclean = FALSE /\ workspace = "none"
    /\ output = "missing" /\ seen = "none"
    /\ drained = 0 /\ retained = 0 /\ truncated = FALSE /\ reader = "off"
    /\ armed = FALSE /\ resolved = FALSE

(***************************************************************************)
(* How a call ends                                                         *)
(***************************************************************************)

Fail(error) == pc' = "failing" /\ kind' = error /\ UNCHANGED <<unclean, workspace>>

(* A TempDir that is dropped is removed, and a failure to is not told.     *)
DropDir == workspace' \in IF workspace = "held" THEN {"removed", "left"} ELSE {workspace}

Return(outcome) == pc' = "done" /\ kind' = outcome /\ UNCHANGED unclean

(* A failure to remove the workspace that is forgotten.                    *)
Clean_Quiet ==
    /\ pc = "failing"
    /\ pc' = IF armed THEN "unwinding" ELSE "done"
    /\ DropDir /\ UNCHANGED unclean
    /\ UNCHANGED <<tree, call, cancelled, expired, output, capture, kind, seen, armed, resolved>>

(* fail_cleanup closes a private workspace; a capture directory is dropped.*)
Clean ==
    /\ pc = "failing"
    /\ pc' = IF armed THEN "unwinding" ELSE "done"
    /\ IF Private
       THEN \/ workspace' = "removed" /\ UNCHANGED unclean
            \/ workspace' = "left" /\ unclean' = TRUE
       ELSE DropDir /\ UNCHANGED unclean
    /\ UNCHANGED <<tree, call, cancelled, expired, output, capture, kind, seen, armed, resolved>>

(* The guard of a failed asynchronous run is dropped armed.                *)
Unwind ==
    /\ pc = "unwinding"
    /\ KillGroup
    /\ pc' = "done"
    /\ UNCHANGED <<call, cancelled, expired, output, capture, kind, unclean, workspace, seen,
                   armed, resolved>>

(***************************************************************************)
(* Preparation and start                                                   *)
(***************************************************************************)

Defect(inputs, i) ==
    IF \E j \in 1 .. i - 1 : inputs[j].name = inputs[i].name THEN "InputCollision"
    ELSE IF inputs[i].kind = "missing" THEN "InputMissing"
    ELSE IF inputs[i].kind \in {"dir", "symlink"} THEN "InputWrongKind"
    ELSE "none"

(* Inputs are admitted and copied one by one: the first defect decides,    *)
(* unless a copy before it failed.  Without its output directory a         *)
(* workspace is closed again; without a workspace nothing is.              *)
Prepare(inputs) ==
    /\ pc = "new"
    /\ \/ /\ \A i \in DOMAIN inputs : Defect(inputs, i) = "none"
          /\ pc' = "prepared" /\ workspace' = "held"
          /\ UNCHANGED <<kind, unclean>>
       \/ \E i \in DOMAIN inputs :
          /\ \A j \in 1 .. i - 1 : Defect(inputs, j) = "none"
          /\ pc' = "failing" /\ workspace' = "held" /\ UNCHANGED unclean
          /\ kind' = IF Defect(inputs, i) = "none" THEN "InputStaging" ELSE Defect(inputs, i)
       \/ pc' = "failing" /\ kind' = "Workspace" /\ workspace' = "held" /\ UNCHANGED unclean
       \/ Return("Workspace") /\ UNCHANGED workspace
    /\ UNCHANGED <<tree, call, cancelled, expired, output, capture, seen, armed, resolved>>

(* A token cancelled at entry: nothing is started.                         *)
Precancelled ==
    /\ pc = "prepared"
    /\ token /\ cancelled
    /\ Return("Cancelled") /\ DropDir
    /\ UNCHANGED <<tree, call, cancelled, expired, output, capture, seen, armed, resolved>>

Enter ==
    /\ pc = "prepared"
    /\ ~(token /\ cancelled)
    /\ pc' = "starting"
    /\ UNCHANGED <<tree, call, cancelled, expired, output, capture, kind, unclean, workspace,
                   seen, armed, resolved>>

(* No such worktree, or no capture directory.                              *)
WorktreeRefused ==
    /\ pc = "starting" /\ api = "worktree"
    /\ \E e \in WorktreeError \cup {"Workspace"} : Return(e)
    /\ UNCHANGED <<tree, call, cancelled, expired, output, capture, workspace, seen, armed, resolved>>

(* Output goes to a file, or to a pipe that is read from now on.           *)
Spawn ==
    /\ pc = "starting" /\ api # "session"
    /\ Start(cap > 0)
    /\ pc' = IF api = "async" THEN "await" ELSE "loop"
    /\ workspace' = "held"
    /\ armed' = (api = "async")
    /\ reader' = IF api = "async" /\ cap > 0 THEN "reading" ELSE "off"
    /\ UNCHANGED <<call, cancelled, expired, output, drained, retained, truncated, kind,
                   unclean, seen, resolved>>

(* The output of a session goes nowhere.                                   *)
SpawnSession ==
    /\ pc = "starting" /\ api = "session"
    /\ Start(FALSE)
    /\ pc' = "session"
    /\ UNCHANGED <<call, cancelled, expired, output, capture, kind, unclean, workspace, seen,
                   armed, resolved>>

(* The capture files or the process cannot be created.                     *)
SpawnFails ==
    /\ pc = "starting"
    /\ \/ Private /\ Fail("Spawn")
       \/ /\ ~Private /\ Return("Spawn")
          /\ workspace' \in IF api = "worktree" THEN {"removed", "left"} ELSE {workspace}
    /\ UNCHANGED <<tree, call, cancelled, expired, output, capture, seen, armed, resolved>>

(***************************************************************************)
(* The synchronous wait loop                                               *)
(***************************************************************************)

(* A stream that just fits the cap, taken for one that was cut.            *)
ReadBack_Inclusive ==
    /\ IF cap = 0 THEN UNCHANGED <<retained, truncated, reader>>
       ELSE retained' = Min(cap, wrote) /\ truncated' = (wrote >= cap) /\ reader' = "ended"
    /\ UNCHANGED drained

(* The diagnostic file is read up to the cap.  Only a file that cannot be  *)
(* opened is None; one without metadata counts as empty, and the one read  *)
(* may be short or fail: what it left in the buffer is the capture.        *)
ReadBack ==
    /\ \/ cap = 0 /\ UNCHANGED <<retained, truncated, reader>>
       \/ cap > 0 /\ reader' = "failed" /\ UNCHANGED <<retained, truncated>>
       \/ cap > 0 /\ reader' = "short" /\ retained' = 0 /\ truncated' = FALSE
       \/ /\ cap > 0 /\ truncated' = (wrote > cap)
          /\ \/ reader' = "ended" /\ retained' = Min(cap, wrote)
             \/ reader' = "short" /\ retained' \in 0 .. Min(cap, wrote)
    /\ UNCHANGED drained

Still == UNCHANGED <<call, cancelled, expired, output, unclean, workspace, seen, armed, resolved>>

CheckCancel ==
    /\ pc = "loop"
    /\ IF token /\ cancelled THEN pc' = "stop" /\ kind' = "Cancelled"
                             ELSE pc' = "poll" /\ UNCHANGED kind
    /\ UNCHANGED <<tree, capture>> /\ Still

PollExited ==
    /\ pc = "poll"
    /\ Reap /\ ReadBack
    /\ pc' = "finishing" /\ UNCHANGED kind
    /\ Still

(* The child was reaped by somebody else: the tree is left as it is.       *)
PollFails ==
    /\ pc = "poll" /\ child = "reaped"
    /\ ReadBack
    /\ pc' = "failing" /\ kind' = "Wait"
    /\ UNCHANGED tree /\ Still

PollRunning ==
    /\ pc = "poll" /\ child = "running"
    /\ IF expired THEN pc' = "stop" /\ kind' = "TimedOut"
                  ELSE pc' = "loop" /\ UNCHANGED kind
    /\ UNCHANGED <<tree, capture>> /\ Still

(* stop kills the group, and waits for the child however long that takes.  *)
Stop ==
    /\ pc = "stop"
    /\ KillGroup
    /\ pc' = "reaping"
    /\ UNCHANGED <<capture, kind>> /\ Still

(* child.wait() returns, with the status or because somebody else has it.  *)
Waited == Reap \/ (child = "reaped" /\ UNCHANGED tree)

Stopped ==
    /\ pc = "reaping" /\ api # "async"
    /\ Waited /\ ReadBack
    /\ pc' = "failing" /\ UNCHANGED kind
    /\ Still

(***************************************************************************)
(* The asynchronous wait                                                   *)
(***************************************************************************)

(* select! takes any branch that is ready.                                 *)
AwaitExit ==
    /\ pc = "await"
    /\ Reap
    /\ pc' = "draining" /\ UNCHANGED <<kind, capture>>
    /\ Still

Interrupted(outcome) ==
    /\ pc = "await"
    /\ pc' = "stop" /\ kind' = outcome
    /\ UNCHANGED <<tree, capture>> /\ Still

AwaitFails == child = "reaped" /\ Interrupted("Wait")
AwaitTimeout == expired /\ Interrupted("TimedOut")
AwaitCancel == token /\ cancelled /\ Interrupted("Cancelled")

Buried ==
    /\ pc = "reaping" /\ api = "async"
    /\ Waited
    /\ pc' = "draining" /\ UNCHANGED <<kind, capture>>
    /\ Still

(* A reader that leaves in the pipe what exceeds the cap.                  *)
ReadChunk_UpToCap(n) ==
    /\ reader = "reading" /\ pc \in {"await", "stop", "reaping", "draining"}
    /\ n \in 1 .. Min(wrote - drained, cap - retained)
    /\ drained' = drained + n
    /\ retained' = retained + n
    /\ UNCHANGED <<tree, call, cancelled, expired, output, truncated, reader, run>>

(* capture_pipe keeps what fits the cap, and drains the rest.              *)
ReadChunk(n) ==
    /\ reader = "reading" /\ pc \in {"await", "stop", "reaping", "draining"}
    /\ n \in 1 .. wrote - drained
    /\ drained' = drained + n
    /\ retained' = retained + Min(n, cap - retained)
    /\ truncated' = (truncated \/ Min(n, cap - retained) < n)
    /\ UNCHANGED <<tree, call, cancelled, expired, output, reader, run>>

(* The end of a pipe is read once nobody holds it open.                    *)
ReaderEnds ==
    /\ reader = "reading" /\ pc \in {"await", "stop", "reaping", "draining"}
    /\ open = {} /\ drained = wrote
    /\ reader' = "ended"
    /\ UNCHANGED <<tree, call, cancelled, expired, output, drained, retained, truncated, run>>

ReaderFails ==
    /\ reader = "reading" /\ pc \in {"await", "stop", "reaping", "draining"}
    /\ reader' = "failed"
    /\ UNCHANGED <<tree, call, cancelled, expired, output, drained, retained, truncated, run>>

(* A guard that is never disarmed.                                         *)
Drained_Armed ==
    /\ pc = "draining" /\ reader # "reading"
    /\ pc' = IF kind = "none" THEN "finishing" ELSE "failing"
    /\ UNCHANGED <<tree, call, cancelled, expired, output, capture, kind, unclean, workspace,
                   seen, armed, resolved>>

(* join! has both halves: a natural exit disarms the guard.                *)
Drained ==
    /\ pc = "draining" /\ reader # "reading"
    /\ IF kind = "none" THEN pc' = "finishing" /\ armed' = FALSE
                        ELSE pc' = "failing" /\ UNCHANGED armed
    /\ UNCHANGED <<tree, call, cancelled, expired, output, capture, kind, unclean, workspace,
                   seen, resolved>>

(* The future is dropped at an await: its armed guard stops the tree, then *)
(* the workspace goes.                                                     *)
DropFuture ==
    /\ api = "async" /\ pc \in {"await", "reaping", "draining"}
    /\ KillGroup
    /\ Return("Dropped") /\ DropDir
    /\ UNCHANGED <<call, cancelled, expired, output, capture, seen, armed, resolved>>

(***************************************************************************)
(* The end of a bounded run                                                *)
(***************************************************************************)

Finish ==
    /\ pc = "finishing"
    /\ \/ status # "ok" /\ Fail("ExitedNonZero") /\ UNCHANGED seen
       \/ status = "ok" /\ api = "worktree" /\ Return("Success") /\ DropDir /\ UNCHANGED seen
       \/ /\ status = "ok" /\ Private
          /\ seen' = output
          /\ CASE output = "dir" -> Return("Success") /\ workspace' = "handed"
               [] output = "missing" -> Fail("OutputMissing")
               [] OTHER -> Fail("OutputWrongKind")
       \/ status = "ok" /\ Private /\ Fail("OutputInspect") /\ UNCHANGED seen
    /\ UNCHANGED <<tree, call, cancelled, expired, output, capture, armed, resolved>>

(***************************************************************************)
(* Managed sessions                                                        *)
(***************************************************************************)

Idle == UNCHANGED <<call, cancelled, output, capture, unclean, workspace, seen, armed>>

(* observe: a status is remembered, and resolves the session.              *)
Observe ==
    /\ pc = "session"
    /\ Reap
    /\ resolved' = TRUE
    /\ UNCHANGED <<expired, pc, kind>> /\ Idle

Wait ==
    /\ pc = "session"
    /\ pc' = "waiting"
    /\ UNCHANGED <<tree, expired, kind, resolved>> /\ Idle

WaitEnds ==
    /\ pc = "waiting"
    /\ \/ /\ Reap \/ (resolved /\ UNCHANGED tree)
          /\ pc' = "done" /\ kind' = "Exited" /\ resolved' = TRUE
       \/ /\ child = "reaped" /\ ~resolved
          /\ pc' = "dropping" /\ kind' = "Wait" /\ UNCHANGED <<tree, resolved>>
    /\ UNCHANGED expired /\ Idle

(* stop_within: the group is killed before the status is asked for.        *)
StopWithin ==
    /\ pc = "session"
    /\ KillGroup
    /\ pc' = "stopping" /\ expired' = FALSE
    /\ UNCHANGED <<kind, resolved>> /\ Idle

StopPoll ==
    /\ pc = "stopping"
    /\ \/ /\ Reap \/ (resolved /\ UNCHANGED tree)
          /\ pc' = "done" /\ kind' = "Stopped" /\ resolved' = TRUE
       \/ /\ child = "running" /\ expired
          /\ pc' = "dropping" /\ kind' = "StopTimedOut" /\ UNCHANGED <<tree, resolved>>
       \/ /\ child = "reaped" /\ ~resolved
          /\ pc' = "dropping" /\ kind' = "Wait" /\ UNCHANGED <<tree, resolved>>
    /\ UNCHANGED expired /\ Idle

(* A session that is stopped by every drop.                                *)
DropSession_Always ==
    /\ pc = "session"
    /\ pc' = "dropping" /\ kind' = "Dropped"
    /\ UNCHANGED <<tree, expired, resolved>> /\ Idle

(* The caller lets go of the session.                                      *)
DropSession ==
    /\ pc = "session"
    /\ pc' = (IF resolved THEN "done" ELSE "dropping") /\ kind' = "Dropped"
    /\ UNCHANGED <<tree, expired, resolved>> /\ Idle

(* Drop: an unresolved session is killed, and waited for without bound.    *)
Drop ==
    /\ pc = "dropping"
    /\ KillGroup
    /\ pc' = "burying"
    /\ UNCHANGED <<expired, kind, resolved>> /\ Idle

DropWaited ==
    /\ pc = "burying"
    /\ Waited
    /\ pc' = "done" /\ resolved' = TRUE
    /\ UNCHANGED <<expired, kind>> /\ Idle

(***************************************************************************)
(* Around the call                                                         *)
(***************************************************************************)

Cancel ==
    /\ token /\ ~cancelled /\ pc # "done"
    /\ cancelled' = TRUE
    /\ UNCHANGED <<tree, call, expired, output, capture, run>>

(* The timeout of a run, or the deadline of stop_within, has passed.       *)
Elapse ==
    /\ ~expired /\ pc \in {"loop", "poll", "await", "stopping"}
    /\ expired' = TRUE
    /\ UNCHANGED <<tree, call, cancelled, output, capture, run>>

(* A pipe that is full, or that nobody reads, blocks its writers.          *)
Room == api # "async" \/ wrote - drained < PipeSize

Around == UNCHANGED <<call, cancelled, expired, capture, run>>

LeaveOutput(o) ==
    /\ Private /\ \E p \in Procs : Free(p)
    /\ output # o /\ output' = o
    /\ UNCHANGED tree /\ Around

(* Bound: the tree is followed until the call has returned.                *)
Tree ==
    /\ pc # "done"
    /\ \/ /\ UNCHANGED output /\ Around
          /\ \/ \E p \in Procs, k \in Kids : Fork(p, k)
             \/ \E k \in Kids : Detach(k)
             \/ \E p \in Procs : Write(p, Room)
             \/ \E p \in Procs, s \in {"ok", "fail", "killed"} : Exit(p, s)
             \/ Reuse
       \/ \E o \in {"missing", "dir", "other"} : LeaveOutput(o)

BoundedRun ==
    \/ \E inputs \in Declared : Prepare(inputs)
    \/ Precancelled \/ Enter \/ WorktreeRefused \/ Spawn \/ SpawnSession \/ SpawnFails
    \/ CheckCancel \/ PollExited \/ PollFails \/ PollRunning \/ Stop \/ Stopped
    \/ AwaitExit \/ AwaitFails \/ AwaitTimeout \/ AwaitCancel \/ Buried
    \/ Drained \/ Finish \/ Clean \/ Unwind

Reader == ReaderEnds \/ \E n \in 1 .. MaxBytes : ReadChunk(n)

ManagedSession ==
    \/ Observe \/ Wait \/ WaitEnds \/ StopWithin \/ StopPoll \/ DropSession \/ Drop \/ DropWaited

Next == BoundedRun \/ Reader \/ ReaderFails \/ DropFuture \/ ManagedSession \/ Cancel \/ Elapse \/ Tree

Spec == Init /\ [][Next]_vars

(***************************************************************************)
(* The adapter's thread or task runs; time passes; a doomed process dies.  *)
(* Nothing makes a program end by itself.                                  *)
(***************************************************************************)
Dies == pc # "done" /\ UNCHANGED output /\ Around /\ \E p \in Procs : Exit(p, "killed")

Fairness ==
    /\ WF_vars(BoundedRun) /\ WF_vars(Reader)
    /\ WF_vars(WaitEnds \/ StopPoll \/ Drop \/ DropWaited)
    /\ WF_vars(Elapse)
    /\ WF_vars(Dies)

FairSpec == Spec /\ Fairness
============================================================================
