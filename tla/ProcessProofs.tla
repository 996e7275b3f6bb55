--------------------------- MODULE ProcessProofs ---------------------------
(***************************************************************************)
(* Proofs about bounded runs and sessions, for any number of descendants,  *)
(* any caps, pipe and inputs.                                              *)
(*                                                                         *)
(* The argument: a group that was killed stays doomed, because its members *)
(* can no longer fork and those outside never come back (TreeInv); the     *)
(* place of a call decides who it is for, whether the child is gone and    *)
(* what outcome is pending (PlaceInv, KindInv); every stop goes through a  *)
(* kill and a wait (StopInv), every natural end through neither            *)
(* (OutcomeInv); what is retained is a function of what was read, and a    *)
(* pipe ends only when all that was written is (CaptureInv).               *)
(***************************************************************************)
EXTENDS ProcessProps, TLAPS

(***************************************************************************)
(* The tree, whatever the adapter does.                                    *)
(***************************************************************************)

TreeInv ==
    /\ child = "running" <=> Child \in alive
    /\ child = "none" => born = {} /\ loose = {} /\ ~signalled
    /\ child = "none" => wrote = 0 /\ open = {}
    /\ child \in {"none", "running"} => status = "none"
    /\ child = "zombie" => ~hostReaps
    /\ atExit <= wrote
    /\ ~Ended => atExit = 0
    /\ signalled => Group \subseteq doomed
    /\ reused => child = "reaped" /\ Group = {}
    /\ struck => reused

(***************************************************************************)
(* Where the call is.                                                      *)
(***************************************************************************)

Before == {"new", "prepared", "starting"}
SyncWait == {"loop", "poll"}
OnSession == {"session", "waiting", "stopping", "dropping", "burying"}
Interrupt == {"Wait", "TimedOut", "Cancelled"}

PlaceInv ==
    /\ pc \in Before => child = "none" /\ ~armed /\ ~resolved /\ reader = "off" /\ seen = "none"
    /\ pc \notin Before \cup {"failing", "done"} => child # "none"
    /\ pc = "new" => Private
    /\ pc \in SyncWait => api \in {"private", "worktree"}
    /\ pc \in {"await", "draining", "unwinding"} => api = "async"
    /\ pc \in {"stop", "reaping", "finishing", "failing"} => api # "session"
    /\ pc \in OnSession => api = "session"
    /\ api = "session" => ~token
    /\ armed => api = "async" /\ pc \notin Before \cup {"finishing"}
    /\ resolved => api = "session" /\ child = "reaped"
    /\ api = "async" /\ pc \in {"await", "stop", "reaping", "draining"} => armed
    /\ pc \in {"finishing", "draining", "unwinding"} => child = "reaped"
    /\ pc = "failing" /\ child # "none" => child = "reaped"
    /\ child = "reaped" /\ ~hostReaps
         => resolved \/ pc \in {"draining", "finishing", "failing", "unwinding", "done"}

KindInv ==
    /\ pc \in Before \cup SyncWait \cup {"await", "finishing", "session", "waiting", "stopping"}
         => kind = "none"
    /\ pc \in {"stop", "reaping", "unwinding"} => kind \in Interrupt
    /\ pc = "draining" => kind \in Interrupt \cup {"none"}
    /\ pc = "failing" => kind \in RunError
    /\ pc \in {"failing", "done"} /\ child # "none" /\ api # "session" => kind \notin InputError \cup {"none"}
    /\ pc = "failing" /\ armed => kind \in Interrupt /\ child = "reaped"
    /\ pc \in {"dropping", "burying"} => kind \in {"Wait", "StopTimedOut", "Dropped"}

(* What an outcome that is decided says of the tree.                       *)
OutcomeInv ==
    /\ kind = "none" /\ pc # "stopping" => ~signalled
    /\ pc = "stop" => ~signalled
    /\ kind \in Natural => ~signalled /\ Ended /\ pc \in {"failing", "done"} /\ ~armed
    /\ kind = "Success" => status = "ok" /\ pc = "done" /\ (Private => seen = "dir")
    /\ kind = "ExitedNonZero" => status # "ok"
    /\ kind = "TimedOut" => expired
    /\ kind = "Cancelled" => token /\ cancelled
    /\ kind = "Wait" => hostReaps
    /\ kind \in Session \ {"Dropped"} => api = "session"
    /\ kind = "Dropped" => api \in {"async", "session"}

(* A stop leaves nothing of the group undoomed, and waits for the child.   *)
StopInv ==
    /\ pc \in {"reaping", "stopping", "burying"} => signalled
    /\ pc \in {"draining", "failing", "unwinding", "done"} /\ child # "none"
         /\ kind \in {"TimedOut", "Cancelled"} => signalled
    /\ pc = "draining" /\ kind # "none" => signalled
    /\ pc = "done" /\ kind \in {"Stopped", "StopTimedOut", "Dropped"}
         => signalled \/ (kind = "Dropped" /\ resolved)
    /\ pc = "done" /\ child # "none" /\ kind \in Stopping
         => child = "reaped" \/ (api = "async" /\ kind = "Dropped")
    /\ pc \in {"dropping", "burying"} => ~resolved


CustodyInv ==
    /\ pc = "new" => workspace = "none"
    /\ Private /\ pc \notin {"new", "unwinding", "done"} => workspace = "held"
    /\ workspace = "handed" => pc = "done" /\ kind = "Success"
    /\ Private /\ pc = "done" /\ kind = "Success" => workspace = "handed"
    /\ unclean => Private /\ workspace = "left" /\ pc \in {"unwinding", "done"}
    /\ Private /\ pc \in {"unwinding", "done"} /\ workspace = "left" /\ ~unclean
         => kind = "Dropped" \/ (kind = "Cancelled" /\ child = "none")

CaptureInv ==
    /\ drained <= wrote
    /\ api = "async" => retained = Min(cap, drained) /\ truncated = (drained > cap)
    /\ api = "async" /\ reader = "ended" => open = {} /\ drained = wrote
    /\ api # "async" => reader # "reading"
    /\ api = "async" => reader # "short"
    /\ reader = "short" => retained <= cap /\ (truncated => wrote > cap)
    /\ api # "async" /\ reader = "ended" =>
         /\ Ended
         /\ retained <= cap
         /\ retained >= Min(cap, atExit)
         /\ atExit > cap => truncated
         /\ truncated => retained = cap /\ wrote > cap

Inv ==
    /\ TypeOK /\ TreeInv /\ PlaceInv /\ KindInv /\ OutcomeInv
    /\ StopInv /\ SignalsOwnTree /\ CustodyInv /\ CaptureInv

(***************************************************************************)
(* The tree                                                                *)
(***************************************************************************)

(* All that a step of the call or of the tree does to the tree.            *)
TreeMove ==
    \/ \E p \in Procs, k \in Kids : Fork(p, k)
    \/ \E k \in Kids : Detach(k)
    \/ \E p \in Procs : \E room \in BOOLEAN : Write(p, room)
    \/ \E p \in Procs, s \in {"ok", "fail", "killed"} : Exit(p, s)
    \/ Reuse
    \/ child = "none" /\ \E stream \in BOOLEAN : Start(stream)
    \/ child # "none" /\ KillGroup
    \/ Reap
    \/ UNCHANGED tree

LEMMA TreeStep == TreeTypeOK /\ TreeInv /\ TreeMove => TreeTypeOK' /\ TreeInv'
<1> SUFFICES ASSUME TreeTypeOK, TreeInv, TreeMove PROVE TreeTypeOK' /\ TreeInv'
  OBVIOUS
<1> USE TreeConstants DEF TreeTypeOK, TreeInv, Group, Ended, Procs
<1>1. ASSUME NEW p \in Procs, NEW k \in Kids, Fork(p, k) PROVE TreeTypeOK' /\ TreeInv'
  BY <1>1 DEF Fork, Free
<1>2. ASSUME NEW k \in Kids, Detach(k) PROVE TreeTypeOK' /\ TreeInv'
  BY <1>2 DEF Detach, Free
<1>3. ASSUME NEW p \in Procs, NEW room \in BOOLEAN, Write(p, room) PROVE TreeTypeOK' /\ TreeInv'
  BY <1>3 DEF Write, Free
<1>4. ASSUME NEW p \in Procs, NEW s \in {"ok", "fail", "killed"}, Exit(p, s)
      PROVE TreeTypeOK' /\ TreeInv'
  <2>1. CASE p = Child
    BY <1>4, <2>1 DEF Exit
  <2>2. CASE p # Child
    BY <1>4, <2>2 DEF Exit
  <2> QED BY <2>1, <2>2
<1>5. CASE Reuse
  BY <1>5 DEF Reuse
<1>6. ASSUME child = "none", NEW stream \in BOOLEAN, Start(stream) PROVE TreeTypeOK' /\ TreeInv'
  BY <1>6 DEF Start
<1>7. CASE child # "none" /\ KillGroup
  BY <1>7 DEF KillGroup
<1>8. CASE Reap
  BY <1>8 DEF Reap
<1>9. CASE UNCHANGED tree
  BY <1>9 DEF tree
<1> QED BY <1>1, <1>2, <1>3, <1>4, <1>5, <1>6, <1>7, <1>8, <1>9 DEF TreeMove

(* What the tree does by itself never concerns the call.                   *)
TreeOnly ==
    /\ TreeMove
    /\ UNCHANGED <<hostReaps, struck, signalled, call, cancelled, expired, capture, run>>
    /\ pc # "done" /\ child # "none"
    /\ \/ child' = child /\ status' = status
       \/ child = "running" /\ child' = IF hostReaps THEN "reaped" ELSE "zombie"
    /\ output' \in {"missing", "dir", "other"}
    /\ wrote' >= wrote
    /\ open = {} => open' = {} /\ wrote' = wrote
    /\ Ended => atExit' = atExit

LEMMA TreeFacts == TypeOK /\ TreeInv /\ Tree => TreeOnly
<1> SUFFICES ASSUME TypeOK, TreeInv, Tree PROVE TreeOnly
  OBVIOUS
<1> USE DEF TypeOK, TreeTypeOK, TreeInv, TreeOnly, Around, Free, Ended, call, capture, run, tree
<1>1. pc # "done"
  BY DEF Tree
<1>2. ASSUME NEW p \in Procs, NEW k \in Kids, Fork(p, k), UNCHANGED output, Around PROVE TreeOnly
  <2>1. TreeMove
    BY <1>2 DEF TreeMove
  <2> QED BY <1>1, <1>2, <2>1 DEF Fork
<1>3. ASSUME NEW k \in Kids, Detach(k), UNCHANGED output, Around PROVE TreeOnly
  <2>1. TreeMove
    BY <1>3 DEF TreeMove
  <2> QED BY <1>1, <1>3, <2>1 DEF Detach
<1>4. ASSUME NEW p \in Procs, Write(p, Room), UNCHANGED output, Around PROVE TreeOnly
  <2>1. Room \in BOOLEAN
    BY DEF Room
  <2>2. TreeMove
    BY <1>4, <2>1 DEF TreeMove
  <2> QED BY <1>1, <1>4, <2>2 DEF Write
<1>5. ASSUME NEW p \in Procs, NEW s \in {"ok", "fail", "killed"}, Exit(p, s),
             UNCHANGED output, Around
      PROVE TreeOnly
  <2>1. TreeMove
    BY <1>5 DEF TreeMove
  <2>2. open = {} => open' = {}
    BY <1>5 DEF Exit
  <2>3. CASE p = Child
    BY <1>1, <1>5, <2>1, <2>2, <2>3 DEF Exit
  <2>4. CASE p # Child
    BY <1>1, <1>5, <2>1, <2>2, <2>4 DEF Exit
  <2> QED BY <2>3, <2>4
<1>6. ASSUME Reuse, UNCHANGED output, Around PROVE TreeOnly
  <2>1. TreeMove
    BY <1>6 DEF TreeMove
  <2> QED BY <1>1, <1>6, <2>1 DEF Reuse
<1>7. ASSUME NEW o \in {"missing", "dir", "other"}, LeaveOutput(o) PROVE TreeOnly
  <2>1. TreeMove
    BY <1>7 DEF TreeMove, LeaveOutput
  <2> QED BY <1>1, <1>7, <2>1 DEF LeaveOutput
<1> QED BY <1>2, <1>3, <1>4, <1>5, <1>6, <1>7 DEF Tree

LEMMA StepMoves == Inv /\ [Next]_vars => TreeMove
<1> SUFFICES ASSUME Inv, [Next]_vars PROVE TreeMove
  OBVIOUS
<1> USE DEF Inv, TypeOK, PlaceInv, TreeMove, tree, Before, OnSession, SyncWait
<1>1. ASSUME NEW inputs \in Declared, Prepare(inputs) PROVE TreeMove
  BY <1>1 DEF Prepare, Return, Defect
<1>2. CASE Precancelled
  BY <1>2 DEF Precancelled, Return, DropDir
<1>3. CASE Enter
  BY <1>3 DEF Enter
<1>4. CASE WorktreeRefused
  BY <1>4 DEF WorktreeRefused, Return
<1>5. CASE Spawn
  BY <1>5 DEF Spawn, Start
<1>6. CASE SpawnSession
  BY <1>6 DEF SpawnSession, Start
<1>7. CASE SpawnFails
  BY <1>7 DEF SpawnFails, Fail, Return
<1>8. CASE CheckCancel
  BY <1>8 DEF CheckCancel, Still
<1>9. CASE PollExited
  BY <1>9 DEF PollExited, ReadBack, Still, Reap
<1>10. CASE PollFails
  BY <1>10 DEF PollFails, ReadBack, Still
<1>11. CASE PollRunning
  BY <1>11 DEF PollRunning, Still
<1>12. CASE Stop
  BY <1>12 DEF Stop, Still, KillGroup
<1>13. CASE Stopped
  BY <1>13 DEF Stopped, ReadBack, Waited, Still, Reap
<1>14. CASE AwaitExit
  BY <1>14 DEF AwaitExit, Still, Reap
<1>15. CASE AwaitFails
  BY <1>15 DEF AwaitFails, Interrupted, Still
<1>16. CASE AwaitTimeout
  BY <1>16 DEF AwaitTimeout, Interrupted, Still
<1>17. CASE AwaitCancel
  BY <1>17 DEF AwaitCancel, Interrupted, Still
<1>18. CASE Buried
  BY <1>18 DEF Buried, Waited, Still, Reap
<1>19. ASSUME NEW n \in 1 .. MaxBytes, ReadChunk(n) PROVE TreeMove
  BY <1>19 DEF ReadChunk
<1>20. CASE ReaderEnds
  BY <1>20 DEF ReaderEnds
<1>21. CASE ReaderFails
  BY <1>21 DEF ReaderFails
<1>22. CASE Drained
  BY <1>22 DEF Drained
<1>23. CASE Finish
  BY <1>23 DEF Finish, Fail, Return, DropDir
<1>24. CASE Clean
  BY <1>24 DEF Clean, DropDir
<1>25. CASE Unwind
  BY <1>25 DEF Unwind, KillGroup
<1>26. CASE DropFuture
  BY <1>26 DEF DropFuture, Return, DropDir, KillGroup
<1>27. CASE Observe
  BY <1>27 DEF Observe, Idle, Reap
<1>28. CASE Wait
  BY <1>28 DEF Wait, Idle
<1>29. CASE WaitEnds
  BY <1>29 DEF WaitEnds, Idle, Reap
<1>30. CASE StopWithin
  BY <1>30 DEF StopWithin, Idle, KillGroup
<1>31. CASE StopPoll
  BY <1>31 DEF StopPoll, Idle, Reap
<1>32. CASE DropSession
  BY <1>32 DEF DropSession, Idle
<1>33. CASE Drop
  BY <1>33 DEF Drop, Idle, KillGroup
<1>34. CASE DropWaited
  BY <1>34 DEF DropWaited, Idle, Waited, Reap
<1>35. CASE Cancel
  BY <1>35 DEF Cancel
<1>36. CASE Elapse
  BY <1>36 DEF Elapse
<1>37. CASE Tree
  BY <1>37, TreeFacts DEF TreeOnly
<1>38. CASE UNCHANGED vars
  BY <1>38 DEF vars
<1> QED BY <1>1, <1>2, <1>3, <1>4, <1>5, <1>6, <1>7, <1>8, <1>9, <1>10, <1>11, <1>12, <1>13,
  <1>14, <1>15, <1>16, <1>17, <1>18, <1>19, <1>20, <1>21, <1>22, <1>23, <1>24, <1>25, <1>26,
  <1>27, <1>28, <1>29, <1>30, <1>31, <1>32, <1>33, <1>34, <1>35, <1>36, <1>37, <1>38 DEF Next,
  BoundedRun, Reader, ManagedSession

LEMMA KindsOK ==
    /\ {"Workspace", "Spawn", "Wait", "TimedOut", "Cancelled", "ExitedNonZero",
        "OutputMissing", "OutputWrongKind", "OutputInspect"} \subseteq RunError
    /\ InputError \subseteq RunError /\ WorktreeError \subseteq RunError
    /\ {"InputCollision", "InputMissing", "InputWrongKind", "InputStaging"} \subseteq InputError
    /\ {"Exited", "Stopped", "StopTimedOut", "Dropped"} \subseteq Session
BY DEF RunError, InputError, WorktreeError, Session

LEMMA MinNat == \A a, b \in Nat : Min(a, b) \in Nat
BY DEF Min

LEMMA ReadBackTells ==
    ASSUME ReadBack
    PROVE  truncated' = truncated \/ truncated' = FALSE \/ truncated' = (wrote > cap)
<1>1. CASE cap = 0 /\ UNCHANGED <<retained, truncated, reader>>
  BY <1>1
<1>2. CASE cap > 0 /\ reader' = "failed" /\ UNCHANGED <<retained, truncated>>
  BY <1>2
<1>3. CASE cap > 0 /\ reader' = "short" /\ retained' = 0 /\ truncated' = FALSE
  BY <1>3
<1>4. CASE cap > 0 /\ truncated' = (wrote > cap)
  BY <1>4, Zenon
<1> QED BY <1>1, <1>2, <1>3, <1>4, Zenon DEF ReadBack

LEMMA ReadBackTyped ==
    ASSUME cap \in Nat, wrote \in Nat, retained \in Nat, truncated \in BOOLEAN,
           reader \in {"off", "reading", "ended", "failed", "short"}, ReadBack
    PROVE  /\ retained' \in Nat /\ reader' \in {"off", "reading", "ended", "failed", "short"}
           /\ drained' = drained /\ truncated' \in BOOLEAN
<1>1. reader' \in {"off", "reading", "ended", "failed", "short"} /\ drained' = drained
  BY DEF ReadBack
<1>5. retained' \in Nat
  <2>1. Min(cap, wrote) \in Nat
    BY MinNat
  <2>2. \/ retained' = retained \/ retained' = 0 \/ retained' = Min(cap, wrote)
        \/ retained' \in 0 .. Min(cap, wrote)
    BY DEF ReadBack
  <2> QED BY <2>1, <2>2
<1>2. (wrote > cap) \in BOOLEAN
  OBVIOUS
<1>3. truncated' = truncated \/ truncated' = FALSE \/ truncated' = (wrote > cap)
  <2>1. \/ truncated' = truncated
        \/ truncated' = FALSE
        \/ truncated' = (wrote > cap)
    BY ReadBackTells
  <2> QED BY <2>1
<1>4. truncated' \in BOOLEAN
  BY <1>2, <1>3, Zenon
<1> QED BY <1>1, <1>4, <1>5

LEMMA TypeStep == Inv /\ TreeTypeOK' /\ [Next]_vars => TypeOK'
<1> SUFFICES ASSUME Inv, TreeTypeOK', [Next]_vars PROVE TypeOK'
  OBVIOUS
<1> USE CapsOK DEF Inv, TypeOK, call, capture, run, tree
<1>1. ASSUME NEW inputs \in Declared, Prepare(inputs) PROVE TypeOK'
  BY <1>1, KindsOK DEF Prepare, Return, Defect
<1>2. CASE Precancelled
  BY <1>2, KindsOK DEF Precancelled, Return, DropDir
<1>3. CASE Enter
  BY <1>3 DEF Enter
<1>4. CASE WorktreeRefused
  BY <1>4, KindsOK DEF WorktreeRefused, Return
<1>5. CASE Spawn
  BY <1>5 DEF Spawn
<1>6. CASE SpawnSession
  BY <1>6 DEF SpawnSession
<1>7. CASE SpawnFails
  BY <1>7, KindsOK DEF SpawnFails, Fail, Return
<1>8. CASE CheckCancel
  BY <1>8, KindsOK DEF CheckCancel, Still
<1>9. CASE PollExited
  <2>1. ReadBack
    BY <1>9 DEF PollExited
  <2>2. /\ retained' \in Nat /\ reader' \in {"off", "reading", "ended", "failed", "short"}
        /\ drained' = drained /\ truncated' \in BOOLEAN
    BY <2>1, ReadBackTyped DEF TreeTypeOK
  <2> QED BY <1>9, <2>2 DEF PollExited, Still
<1>10. CASE PollFails
  <2>1. ReadBack
    BY <1>10 DEF PollFails
  <2>2. /\ retained' \in Nat /\ reader' \in {"off", "reading", "ended", "failed", "short"}
        /\ drained' = drained /\ truncated' \in BOOLEAN
    BY <2>1, ReadBackTyped DEF TreeTypeOK
  <2> QED BY <1>10, <2>2, KindsOK DEF PollFails, Still
<1>11. CASE PollRunning
  BY <1>11, KindsOK DEF PollRunning, Still
<1>12. CASE Stop
  BY <1>12 DEF Stop, Still
<1>13. CASE Stopped
  <2>1. ReadBack
    BY <1>13 DEF Stopped
  <2>2. /\ retained' \in Nat /\ reader' \in {"off", "reading", "ended", "failed", "short"}
        /\ drained' = drained /\ truncated' \in BOOLEAN
    BY <2>1, ReadBackTyped DEF TreeTypeOK
  <2> QED BY <1>13, <2>2 DEF Stopped, Still
<1>14. CASE AwaitExit
  BY <1>14 DEF AwaitExit, Still
<1>15. CASE AwaitFails
  BY <1>15, KindsOK DEF AwaitFails, Interrupted, Still
<1>16. CASE AwaitTimeout
  BY <1>16, KindsOK DEF AwaitTimeout, Interrupted, Still
<1>17. CASE AwaitCancel
  BY <1>17, KindsOK DEF AwaitCancel, Interrupted, Still
<1>18. CASE Buried
  BY <1>18 DEF Buried, Still
<1>19. ASSUME NEW n \in 1 .. MaxBytes, ReadChunk(n) PROVE TypeOK'
  <2>1. wrote \in Nat /\ n \in Nat /\ cap \in Nat
    BY <1>19 DEF ReadChunk, TreeTypeOK
  <2>2. retained' \in Nat /\ truncated' \in BOOLEAN /\ drained' \in Nat
    BY <1>19, <2>1 DEF ReadChunk, Min
  <2> QED BY <1>19, <2>2 DEF ReadChunk
<1>20. CASE ReaderEnds
  BY <1>20 DEF ReaderEnds
<1>21. CASE ReaderFails
  BY <1>21 DEF ReaderFails
<1>22. CASE Drained
  <2>1. pc' \in {"finishing", "failing"} /\ armed' \in BOOLEAN
    BY <1>22 DEF Drained
  <2> QED BY <1>22, <2>1 DEF Drained
<1>23. CASE Finish
  BY <1>23, KindsOK DEF Finish, Fail, Return, DropDir
<1>24. CASE Clean
  <2>1. workspace' \in {"none", "held", "handed", "removed", "left"}
    BY <1>24 DEF Clean, DropDir
  <2>2. pc' \in {"unwinding", "done"} /\ unclean' \in BOOLEAN
    BY <1>24 DEF Clean
  <2> QED BY <1>24, <2>1, <2>2 DEF Clean
<1>25. CASE Unwind
  BY <1>25 DEF Unwind
<1>26. CASE DropFuture
  BY <1>26, KindsOK DEF DropFuture, Return, DropDir
<1>27. CASE Observe
  BY <1>27 DEF Observe, Idle
<1>28. CASE Wait
  BY <1>28 DEF Wait, Idle
<1>29. CASE WaitEnds
  <2>1. pc' \in {"done", "dropping"} /\ kind' \in RunError \cup Session /\ resolved' \in BOOLEAN
    BY <1>29, KindsOK DEF WaitEnds
  <2> QED BY <1>29, <2>1 DEF WaitEnds, Idle
<1>30. CASE StopWithin
  <2>1. pc' = "stopping" /\ expired' \in BOOLEAN
    BY <1>30 DEF StopWithin
  <2> QED BY <1>30, <2>1 DEF StopWithin, Idle
<1>31. CASE StopPoll
  <2>1. pc' \in {"done", "dropping"} /\ kind' \in RunError \cup Session /\ resolved' \in BOOLEAN
    BY <1>31, KindsOK DEF StopPoll
  <2> QED BY <1>31, <2>1 DEF StopPoll, Idle
<1>32. CASE DropSession
  BY <1>32, KindsOK DEF DropSession, Idle
<1>33. CASE Drop
  BY <1>33 DEF Drop, Idle
<1>34. CASE DropWaited
  BY <1>34 DEF DropWaited, Idle
<1>35. CASE Cancel
  BY <1>35 DEF Cancel
<1>36. CASE Elapse
  BY <1>36 DEF Elapse
<1>37. CASE Tree
  BY <1>37, TreeFacts DEF TreeOnly
<1>38. CASE UNCHANGED vars
  BY <1>38 DEF vars
<1> QED BY <1>1, <1>2, <1>3, <1>4, <1>5, <1>6, <1>7, <1>8, <1>9, <1>10, <1>11, <1>12, <1>13,
  <1>14, <1>15, <1>16, <1>17, <1>18, <1>19, <1>20, <1>21, <1>22, <1>23, <1>24, <1>25, <1>26,
  <1>27, <1>28, <1>29, <1>30, <1>31, <1>32, <1>33, <1>34, <1>35, <1>36, <1>37, <1>38 DEF Next,
  BoundedRun, Reader, ManagedSession

LEMMA PlaceStep == Inv /\ TypeOK' /\ TreeInv' /\ [Next]_vars => PlaceInv'
<1> SUFFICES ASSUME Inv, TypeOK', TreeInv', [Next]_vars PROVE PlaceInv'
  OBVIOUS
<1> USE CapsOK DEF Inv, TypeOK, TreeTypeOK, TreeInv, Ended, tree, call, capture, run, PlaceInv,
                   Before, SyncWait, OnSession, Private
<1>1. ASSUME NEW inputs \in Declared, Prepare(inputs) PROVE PlaceInv'
  BY <1>1 DEF Prepare, Return, Defect
<1>2. CASE Precancelled
  BY <1>2 DEF Precancelled, Return, DropDir
<1>3. CASE Enter
  BY <1>3 DEF Enter
<1>4. CASE WorktreeRefused
  BY <1>4 DEF WorktreeRefused, Return
<1>5. CASE Spawn
  BY <1>5 DEF Spawn, Start
<1>6. CASE SpawnSession
  BY <1>6 DEF SpawnSession, Start
<1>7. CASE SpawnFails
  BY <1>7 DEF SpawnFails, Fail, Return
<1>8. CASE CheckCancel
  BY <1>8 DEF CheckCancel, Still
<1>9. CASE PollExited
  BY <1>9 DEF PollExited, ReadBack, Still, Reap
<1>10. CASE PollFails
  BY <1>10 DEF PollFails, ReadBack, Still
<1>11. CASE PollRunning
  BY <1>11 DEF PollRunning, Still
<1>12. CASE Stop
  BY <1>12 DEF Stop, Still, KillGroup
<1>13. CASE Stopped
  BY <1>13 DEF Stopped, ReadBack, Waited, Still, Reap
<1>14. CASE AwaitExit
  BY <1>14 DEF AwaitExit, Still, Reap
<1>15. CASE AwaitFails
  BY <1>15 DEF AwaitFails, Interrupted, Still
<1>16. CASE AwaitTimeout
  BY <1>16 DEF AwaitTimeout, Interrupted, Still
<1>17. CASE AwaitCancel
  BY <1>17 DEF AwaitCancel, Interrupted, Still
<1>18. CASE Buried
  BY <1>18 DEF Buried, Waited, Still, Reap
<1>19. ASSUME NEW n \in 1 .. MaxBytes, ReadChunk(n) PROVE PlaceInv'
  BY <1>19 DEF ReadChunk
<1>20. CASE ReaderEnds
  BY <1>20 DEF ReaderEnds
<1>21. CASE ReaderFails
  BY <1>21 DEF ReaderFails
<1>22. CASE Drained
  BY <1>22 DEF Drained
<1>23. CASE Finish
  BY <1>23 DEF Finish, Fail, Return, DropDir
<1>24. CASE Clean
  <2>1. armed => child = "reaped"
    BY <1>24 DEF Clean, KindInv
  <2> QED BY <1>24, <2>1 DEF Clean
<1>25. CASE Unwind
  BY <1>25 DEF Unwind, KillGroup
<1>26. CASE DropFuture
  BY <1>26 DEF DropFuture, Return, DropDir, KillGroup
<1>27. CASE Observe
  BY <1>27 DEF Observe, Idle, Reap
<1>28. CASE Wait
  BY <1>28 DEF Wait, Idle
<1>29. CASE WaitEnds
  BY <1>29 DEF WaitEnds, Idle, Reap
<1>30. CASE StopWithin
  BY <1>30 DEF StopWithin, Idle, KillGroup
<1>31. CASE StopPoll
  BY <1>31 DEF StopPoll, Idle, Reap
<1>32. CASE DropSession
  BY <1>32 DEF DropSession, Idle
<1>33. CASE Drop
  BY <1>33 DEF Drop, Idle, KillGroup
<1>34. CASE DropWaited
  BY <1>34 DEF DropWaited, Idle, Waited, Reap
<1>35. CASE Cancel
  BY <1>35 DEF Cancel
<1>36. CASE Elapse
  BY <1>36 DEF Elapse
<1>37. CASE Tree
  BY <1>37, TreeFacts DEF TreeOnly
<1>38. CASE UNCHANGED vars
  BY <1>38 DEF vars
<1> QED BY <1>1, <1>2, <1>3, <1>4, <1>5, <1>6, <1>7, <1>8, <1>9, <1>10, <1>11, <1>12, <1>13,
  <1>14, <1>15, <1>16, <1>17, <1>18, <1>19, <1>20, <1>21, <1>22, <1>23, <1>24, <1>25, <1>26,
  <1>27, <1>28, <1>29, <1>30, <1>31, <1>32, <1>33, <1>34, <1>35, <1>36, <1>37, <1>38 DEF Next,
  BoundedRun, Reader, ManagedSession

LEMMA KindStep == Inv /\ TypeOK' /\ TreeInv' /\ [Next]_vars => KindInv'
<1> SUFFICES ASSUME Inv, TypeOK', TreeInv', [Next]_vars PROVE KindInv'
  OBVIOUS
<1> USE CapsOK DEF Inv, TypeOK, TreeTypeOK, TreeInv, Ended, tree, call, capture, run, KindInv,
                   PlaceInv, Before, SyncWait, OnSession, Interrupt, RunError, InputError,
                   WorktreeError, Private
<1>1. ASSUME NEW inputs \in Declared, Prepare(inputs) PROVE KindInv'
  BY <1>1 DEF Prepare, Return, Defect
<1>2. CASE Precancelled
  BY <1>2 DEF Precancelled, Return, DropDir
<1>3. CASE Enter
  BY <1>3 DEF Enter
<1>4. CASE WorktreeRefused
  BY <1>4 DEF WorktreeRefused, Return
<1>5. CASE Spawn
  BY <1>5 DEF Spawn, Start
<1>6. CASE SpawnSession
  BY <1>6 DEF SpawnSession, Start
<1>7. CASE SpawnFails
  BY <1>7 DEF SpawnFails, Fail, Return
<1>8. CASE CheckCancel
  BY <1>8 DEF CheckCancel, Still
<1>9. CASE PollExited
  BY <1>9 DEF PollExited, ReadBack, Still, Reap
<1>10. CASE PollFails
  BY <1>10 DEF PollFails, ReadBack, Still
<1>11. CASE PollRunning
  BY <1>11 DEF PollRunning, Still
<1>12. CASE Stop
  BY <1>12 DEF Stop, Still, KillGroup
<1>13. CASE Stopped
  BY <1>13 DEF Stopped, ReadBack, Waited, Still, Reap
<1>14. CASE AwaitExit
  BY <1>14 DEF AwaitExit, Still, Reap
<1>15. CASE AwaitFails
  BY <1>15 DEF AwaitFails, Interrupted, Still
<1>16. CASE AwaitTimeout
  BY <1>16 DEF AwaitTimeout, Interrupted, Still
<1>17. CASE AwaitCancel
  BY <1>17 DEF AwaitCancel, Interrupted, Still
<1>18. CASE Buried
  BY <1>18 DEF Buried, Waited, Still, Reap
<1>19. ASSUME NEW n \in 1 .. MaxBytes, ReadChunk(n) PROVE KindInv'
  BY <1>19 DEF ReadChunk
<1>20. CASE ReaderEnds
  BY <1>20 DEF ReaderEnds
<1>21. CASE ReaderFails
  BY <1>21 DEF ReaderFails
<1>22. CASE Drained
  BY <1>22 DEF Drained
<1>23. CASE Finish
  BY <1>23 DEF Finish, Fail, Return, DropDir
<1>24. CASE Clean
  BY <1>24 DEF Clean, DropDir
<1>25. CASE Unwind
  BY <1>25 DEF Unwind, KillGroup
<1>26. CASE DropFuture
  BY <1>26 DEF DropFuture, Return, DropDir, KillGroup
<1>27. CASE Observe
  BY <1>27 DEF Observe, Idle, Reap
<1>28. CASE Wait
  BY <1>28 DEF Wait, Idle
<1>29. CASE WaitEnds
  BY <1>29 DEF WaitEnds, Idle, Reap
<1>30. CASE StopWithin
  BY <1>30 DEF StopWithin, Idle, KillGroup
<1>31. CASE StopPoll
  BY <1>31 DEF StopPoll, Idle, Reap
<1>32. CASE DropSession
  BY <1>32 DEF DropSession, Idle
<1>33. CASE Drop
  BY <1>33 DEF Drop, Idle, KillGroup
<1>34. CASE DropWaited
  BY <1>34 DEF DropWaited, Idle, Waited, Reap
<1>35. CASE Cancel
  BY <1>35 DEF Cancel
<1>36. CASE Elapse
  BY <1>36 DEF Elapse
<1>37. CASE Tree
  BY <1>37, TreeFacts DEF TreeOnly
<1>38. CASE UNCHANGED vars
  BY <1>38 DEF vars
<1> QED BY <1>1, <1>2, <1>3, <1>4, <1>5, <1>6, <1>7, <1>8, <1>9, <1>10, <1>11, <1>12, <1>13,
  <1>14, <1>15, <1>16, <1>17, <1>18, <1>19, <1>20, <1>21, <1>22, <1>23, <1>24, <1>25, <1>26,
  <1>27, <1>28, <1>29, <1>30, <1>31, <1>32, <1>33, <1>34, <1>35, <1>36, <1>37, <1>38 DEF Next,
  BoundedRun, Reader, ManagedSession

LEMMA OutcomeStep == Inv /\ TypeOK' /\ TreeInv' /\ [Next]_vars => OutcomeInv'
<1> SUFFICES ASSUME Inv, TypeOK', TreeInv', [Next]_vars PROVE OutcomeInv'
  OBVIOUS
<1> USE CapsOK DEF Inv, TypeOK, TreeTypeOK, TreeInv, Ended, tree, call, capture, run, OutcomeInv,
                   KindInv, PlaceInv, Before, SyncWait, OnSession, Interrupt, Natural, RunError,
                   InputError, WorktreeError, Session, Private
<1>1. ASSUME NEW inputs \in Declared, Prepare(inputs) PROVE OutcomeInv'
  BY <1>1 DEF Prepare, Return, Defect
<1>2. CASE Precancelled
  BY <1>2 DEF Precancelled, Return, DropDir
<1>3. CASE Enter
  BY <1>3 DEF Enter
<1>4. CASE WorktreeRefused
  BY <1>4 DEF WorktreeRefused, Return
<1>5. CASE Spawn
  BY <1>5 DEF Spawn, Start
<1>6. CASE SpawnSession
  BY <1>6 DEF SpawnSession, Start
<1>7. CASE SpawnFails
  BY <1>7 DEF SpawnFails, Fail, Return
<1>8. CASE CheckCancel
  BY <1>8 DEF CheckCancel, Still
<1>9. CASE PollExited
  BY <1>9 DEF PollExited, ReadBack, Still, Reap
<1>10. CASE PollFails
  BY <1>10 DEF PollFails, ReadBack, Still
<1>11. CASE PollRunning
  BY <1>11 DEF PollRunning, Still
<1>12. CASE Stop
  BY <1>12 DEF Stop, Still, KillGroup
<1>13. CASE Stopped
  BY <1>13 DEF Stopped, ReadBack, Waited, Still, Reap
<1>14. CASE AwaitExit
  BY <1>14 DEF AwaitExit, Still, Reap
<1>15. CASE AwaitFails
  BY <1>15 DEF AwaitFails, Interrupted, Still
<1>16. CASE AwaitTimeout
  BY <1>16 DEF AwaitTimeout, Interrupted, Still
<1>17. CASE AwaitCancel
  BY <1>17 DEF AwaitCancel, Interrupted, Still
<1>18. CASE Buried
  BY <1>18 DEF Buried, Waited, Still, Reap
<1>19. ASSUME NEW n \in 1 .. MaxBytes, ReadChunk(n) PROVE OutcomeInv'
  BY <1>19 DEF ReadChunk
<1>20. CASE ReaderEnds
  BY <1>20 DEF ReaderEnds
<1>21. CASE ReaderFails
  BY <1>21 DEF ReaderFails
<1>22. CASE Drained
  <2>1. pc = "draining" /\ UNCHANGED <<tree, call, cancelled, expired, seen, kind>>
    BY <1>22 DEF Drained
  <2>2. pc' \in {"finishing", "failing"} /\ kind \notin Natural \cup {"Success"} \cup Session
    BY <1>22 DEF Drained
  <2> QED BY <2>1, <2>2
<1>23. CASE Finish
  BY <1>23 DEF Finish, Fail, Return, DropDir
<1>24. CASE Clean
  BY <1>24 DEF Clean, DropDir
<1>25. CASE Unwind
  BY <1>25 DEF Unwind, KillGroup
<1>26. CASE DropFuture
  BY <1>26 DEF DropFuture, Return, DropDir, KillGroup
<1>27. CASE Observe
  BY <1>27 DEF Observe, Idle, Reap
<1>28. CASE Wait
  BY <1>28 DEF Wait, Idle
<1>29. CASE WaitEnds
  BY <1>29 DEF WaitEnds, Idle, Reap
<1>30. CASE StopWithin
  BY <1>30 DEF StopWithin, Idle, KillGroup
<1>31. CASE StopPoll
  BY <1>31 DEF StopPoll, Idle, Reap
<1>32. CASE DropSession
  BY <1>32 DEF DropSession, Idle
<1>33. CASE Drop
  BY <1>33 DEF Drop, Idle, KillGroup
<1>34. CASE DropWaited
  BY <1>34 DEF DropWaited, Idle, Waited, Reap
<1>35. CASE Cancel
  BY <1>35 DEF Cancel
<1>36. CASE Elapse
  BY <1>36 DEF Elapse
<1>37. CASE Tree
  BY <1>37, TreeFacts DEF TreeOnly
<1>38. CASE UNCHANGED vars
  BY <1>38 DEF vars
<1> QED BY <1>1, <1>2, <1>3, <1>4, <1>5, <1>6, <1>7, <1>8, <1>9, <1>10, <1>11, <1>12, <1>13,
  <1>14, <1>15, <1>16, <1>17, <1>18, <1>19, <1>20, <1>21, <1>22, <1>23, <1>24, <1>25, <1>26,
  <1>27, <1>28, <1>29, <1>30, <1>31, <1>32, <1>33, <1>34, <1>35, <1>36, <1>37, <1>38 DEF Next,
  BoundedRun, Reader, ManagedSession

LEMMA StopStep == Inv /\ TypeOK' /\ TreeInv' /\ [Next]_vars => StopInv'
<1> SUFFICES ASSUME Inv, TypeOK', TreeInv', [Next]_vars PROVE StopInv'
  OBVIOUS
<1> USE CapsOK DEF Inv, TypeOK, TreeTypeOK, TreeInv, Ended, tree, call, capture, run, StopInv,
                   OutcomeInv, KindInv, PlaceInv, Before, SyncWait, OnSession, Interrupt,
                   RunError, InputError, WorktreeError, Session, Private, Stopping, Natural
<1>1. ASSUME NEW inputs \in Declared, Prepare(inputs) PROVE StopInv'
  BY <1>1 DEF Prepare, Return, Defect
<1>2. CASE Precancelled
  BY <1>2 DEF Precancelled, Return, DropDir
<1>3. CASE Enter
  BY <1>3 DEF Enter
<1>4. CASE WorktreeRefused
  BY <1>4 DEF WorktreeRefused, Return
<1>5. CASE Spawn
  BY <1>5 DEF Spawn, Start
<1>6. CASE SpawnSession
  BY <1>6 DEF SpawnSession, Start
<1>7. CASE SpawnFails
  BY <1>7 DEF SpawnFails, Fail, Return
<1>8. CASE CheckCancel
  BY <1>8 DEF CheckCancel, Still
<1>9. CASE PollExited
  BY <1>9 DEF PollExited, ReadBack, Still, Reap
<1>10. CASE PollFails
  BY <1>10 DEF PollFails, ReadBack, Still
<1>11. CASE PollRunning
  BY <1>11 DEF PollRunning, Still
<1>12. CASE Stop
  BY <1>12 DEF Stop, Still, KillGroup
<1>13. CASE Stopped
  <2>1. /\ pc = "reaping" /\ pc' = "failing"
        /\ UNCHANGED <<signalled, resolved, api, kind>>
    BY <1>13 DEF Stopped, Waited, Reap, Still
  <2> QED BY <2>1
<1>14. CASE AwaitExit
  BY <1>14 DEF AwaitExit, Still, Reap
<1>15. CASE AwaitFails
  BY <1>15 DEF AwaitFails, Interrupted, Still
<1>16. CASE AwaitTimeout
  BY <1>16 DEF AwaitTimeout, Interrupted, Still
<1>17. CASE AwaitCancel
  BY <1>17 DEF AwaitCancel, Interrupted, Still
<1>18. CASE Buried
  BY <1>18 DEF Buried, Waited, Still, Reap
<1>19. ASSUME NEW n \in 1 .. MaxBytes, ReadChunk(n) PROVE StopInv'
  BY <1>19 DEF ReadChunk
<1>20. CASE ReaderEnds
  BY <1>20 DEF ReaderEnds
<1>21. CASE ReaderFails
  BY <1>21 DEF ReaderFails
<1>22. CASE Drained
  BY <1>22 DEF Drained
<1>23. CASE Finish
  BY <1>23 DEF Finish, Fail, Return, DropDir
<1>24. CASE Clean
  BY <1>24 DEF Clean, DropDir
<1>25. CASE Unwind
  BY <1>25 DEF Unwind, KillGroup
<1>26. CASE DropFuture
  BY <1>26 DEF DropFuture, Return, DropDir, KillGroup
<1>27. CASE Observe
  BY <1>27 DEF Observe, Idle, Reap
<1>28. CASE Wait
  BY <1>28 DEF Wait, Idle
<1>29. CASE WaitEnds
  BY <1>29 DEF WaitEnds, Idle, Reap
<1>30. CASE StopWithin
  BY <1>30 DEF StopWithin, Idle, KillGroup
<1>31. CASE StopPoll
  BY <1>31 DEF StopPoll, Idle, Reap
<1>32. CASE DropSession
  BY <1>32 DEF DropSession, Idle
<1>33. CASE Drop
  BY <1>33 DEF Drop, Idle, KillGroup
<1>34. CASE DropWaited
  BY <1>34 DEF DropWaited, Idle, Waited, Reap
<1>35. CASE Cancel
  BY <1>35 DEF Cancel
<1>36. CASE Elapse
  BY <1>36 DEF Elapse
<1>37. CASE Tree
  BY <1>37, TreeFacts DEF TreeOnly
<1>38. CASE UNCHANGED vars
  BY <1>38 DEF vars
<1> QED BY <1>1, <1>2, <1>3, <1>4, <1>5, <1>6, <1>7, <1>8, <1>9, <1>10, <1>11, <1>12, <1>13,
  <1>14, <1>15, <1>16, <1>17, <1>18, <1>19, <1>20, <1>21, <1>22, <1>23, <1>24, <1>25, <1>26,
  <1>27, <1>28, <1>29, <1>30, <1>31, <1>32, <1>33, <1>34, <1>35, <1>36, <1>37, <1>38 DEF Next,
  BoundedRun, Reader, ManagedSession

LEMMA SignalStep == Inv /\ TypeOK' /\ TreeInv' /\ [Next]_vars => SignalsOwnTree'
<1> SUFFICES ASSUME Inv, TypeOK', TreeInv', [Next]_vars PROVE SignalsOwnTree'
  OBVIOUS
<1> USE CapsOK DEF Inv, TypeOK, TreeTypeOK, TreeInv, Ended, tree, call, capture, run,
                   SignalsOwnTree, OutcomeInv, StopInv, KindInv, PlaceInv, Before, SyncWait,
                   OnSession, Interrupt, Private, Session
<1>1. ASSUME NEW inputs \in Declared, Prepare(inputs) PROVE SignalsOwnTree'
  BY <1>1 DEF Prepare, Return, Defect
<1>2. CASE Precancelled
  BY <1>2 DEF Precancelled, Return, DropDir
<1>3. CASE Enter
  BY <1>3 DEF Enter
<1>4. CASE WorktreeRefused
  BY <1>4 DEF WorktreeRefused, Return
<1>5. CASE Spawn
  BY <1>5 DEF Spawn, Start
<1>6. CASE SpawnSession
  BY <1>6 DEF SpawnSession, Start
<1>7. CASE SpawnFails
  BY <1>7 DEF SpawnFails, Fail, Return
<1>8. CASE CheckCancel
  BY <1>8 DEF CheckCancel, Still
<1>9. CASE PollExited
  BY <1>9 DEF PollExited, ReadBack, Still, Reap
<1>10. CASE PollFails
  BY <1>10 DEF PollFails, ReadBack, Still
<1>11. CASE PollRunning
  BY <1>11 DEF PollRunning, Still
<1>12. CASE Stop
  BY <1>12 DEF Stop, Still, KillGroup
<1>13. CASE Stopped
  <2>1. pc = "reaping" /\ UNCHANGED <<struck, hostReaps, api, kind>>
    BY <1>13 DEF Stopped, Waited, Reap, Still
  <2> QED BY <2>1
<1>14. CASE AwaitExit
  BY <1>14 DEF AwaitExit, Still, Reap
<1>15. CASE AwaitFails
  BY <1>15 DEF AwaitFails, Interrupted, Still
<1>16. CASE AwaitTimeout
  BY <1>16 DEF AwaitTimeout, Interrupted, Still
<1>17. CASE AwaitCancel
  BY <1>17 DEF AwaitCancel, Interrupted, Still
<1>18. CASE Buried
  BY <1>18 DEF Buried, Waited, Still, Reap
<1>19. ASSUME NEW n \in 1 .. MaxBytes, ReadChunk(n) PROVE SignalsOwnTree'
  BY <1>19 DEF ReadChunk
<1>20. CASE ReaderEnds
  BY <1>20 DEF ReaderEnds
<1>21. CASE ReaderFails
  BY <1>21 DEF ReaderFails
<1>22. CASE Drained
  BY <1>22 DEF Drained
<1>23. CASE Finish
  BY <1>23 DEF Finish, Fail, Return, DropDir
<1>24. CASE Clean
  BY <1>24 DEF Clean, DropDir
<1>25. CASE Unwind
  BY <1>25 DEF Unwind, KillGroup
<1>26. CASE DropFuture
  BY <1>26 DEF DropFuture, Return, DropDir, KillGroup
<1>27. CASE Observe
  BY <1>27 DEF Observe, Idle, Reap
<1>28. CASE Wait
  BY <1>28 DEF Wait, Idle
<1>29. CASE WaitEnds
  BY <1>29 DEF WaitEnds, Idle, Reap
<1>30. CASE StopWithin
  BY <1>30 DEF StopWithin, Idle, KillGroup
<1>31. CASE StopPoll
  BY <1>31 DEF StopPoll, Idle, Reap
<1>32. CASE DropSession
  BY <1>32 DEF DropSession, Idle
<1>33. CASE Drop
  BY <1>33 DEF Drop, Idle, KillGroup
<1>34. CASE DropWaited
  BY <1>34 DEF DropWaited, Idle, Waited, Reap
<1>35. CASE Cancel
  BY <1>35 DEF Cancel
<1>36. CASE Elapse
  BY <1>36 DEF Elapse
<1>37. CASE Tree
  BY <1>37, TreeFacts DEF TreeOnly
<1>38. CASE UNCHANGED vars
  BY <1>38 DEF vars
<1> QED BY <1>1, <1>2, <1>3, <1>4, <1>5, <1>6, <1>7, <1>8, <1>9, <1>10, <1>11, <1>12, <1>13,
  <1>14, <1>15, <1>16, <1>17, <1>18, <1>19, <1>20, <1>21, <1>22, <1>23, <1>24, <1>25, <1>26,
  <1>27, <1>28, <1>29, <1>30, <1>31, <1>32, <1>33, <1>34, <1>35, <1>36, <1>37, <1>38 DEF Next,
  BoundedRun, Reader, ManagedSession

LEMMA CustodyStep == Inv /\ TypeOK' /\ TreeInv' /\ [Next]_vars => CustodyInv'
<1> SUFFICES ASSUME Inv, TypeOK', TreeInv', [Next]_vars PROVE CustodyInv'
  OBVIOUS
<1> USE CapsOK DEF Inv, TypeOK, TreeTypeOK, TreeInv, Ended, tree, call, capture, run, CustodyInv,
                   PlaceInv, KindInv, Before, SyncWait, OnSession, Private, Interrupt, RunError,
                   InputError, WorktreeError
<1>1. ASSUME NEW inputs \in Declared, Prepare(inputs) PROVE CustodyInv'
  BY <1>1 DEF Prepare, Return, Defect
<1>2. CASE Precancelled
  BY <1>2 DEF Precancelled, Return, DropDir
<1>3. CASE Enter
  BY <1>3 DEF Enter
<1>4. CASE WorktreeRefused
  BY <1>4 DEF WorktreeRefused, Return
<1>5. CASE Spawn
  BY <1>5 DEF Spawn, Start
<1>6. CASE SpawnSession
  BY <1>6 DEF SpawnSession, Start
<1>7. CASE SpawnFails
  BY <1>7 DEF SpawnFails, Fail, Return
<1>8. CASE CheckCancel
  BY <1>8 DEF CheckCancel, Still
<1>9. CASE PollExited
  BY <1>9 DEF PollExited, ReadBack, Still, Reap
<1>10. CASE PollFails
  BY <1>10 DEF PollFails, ReadBack, Still
<1>11. CASE PollRunning
  BY <1>11 DEF PollRunning, Still
<1>12. CASE Stop
  BY <1>12 DEF Stop, Still, KillGroup
<1>13. CASE Stopped
  BY <1>13 DEF Stopped, ReadBack, Waited, Still, Reap
<1>14. CASE AwaitExit
  BY <1>14 DEF AwaitExit, Still, Reap
<1>15. CASE AwaitFails
  BY <1>15 DEF AwaitFails, Interrupted, Still
<1>16. CASE AwaitTimeout
  BY <1>16 DEF AwaitTimeout, Interrupted, Still
<1>17. CASE AwaitCancel
  BY <1>17 DEF AwaitCancel, Interrupted, Still
<1>18. CASE Buried
  BY <1>18 DEF Buried, Waited, Still, Reap
<1>19. ASSUME NEW n \in 1 .. MaxBytes, ReadChunk(n) PROVE CustodyInv'
  BY <1>19 DEF ReadChunk
<1>20. CASE ReaderEnds
  BY <1>20 DEF ReaderEnds
<1>21. CASE ReaderFails
  BY <1>21 DEF ReaderFails
<1>22. CASE Drained
  BY <1>22 DEF Drained
<1>23. CASE Finish
  BY <1>23 DEF Finish, Fail, Return, DropDir
<1>24. CASE Clean
  BY <1>24 DEF Clean, DropDir
<1>25. CASE Unwind
  BY <1>25 DEF Unwind, KillGroup
<1>26. CASE DropFuture
  BY <1>26 DEF DropFuture, Return, DropDir, KillGroup
<1>27. CASE Observe
  BY <1>27 DEF Observe, Idle, Reap
<1>28. CASE Wait
  BY <1>28 DEF Wait, Idle
<1>29. CASE WaitEnds
  BY <1>29 DEF WaitEnds, Idle, Reap
<1>30. CASE StopWithin
  BY <1>30 DEF StopWithin, Idle, KillGroup
<1>31. CASE StopPoll
  BY <1>31 DEF StopPoll, Idle, Reap
<1>32. CASE DropSession
  BY <1>32 DEF DropSession, Idle
<1>33. CASE Drop
  BY <1>33 DEF Drop, Idle, KillGroup
<1>34. CASE DropWaited
  BY <1>34 DEF DropWaited, Idle, Waited, Reap
<1>35. CASE Cancel
  BY <1>35 DEF Cancel
<1>36. CASE Elapse
  BY <1>36 DEF Elapse
<1>37. CASE Tree
  BY <1>37, TreeFacts DEF TreeOnly
<1>38. CASE UNCHANGED vars
  BY <1>38 DEF vars
<1> QED BY <1>1, <1>2, <1>3, <1>4, <1>5, <1>6, <1>7, <1>8, <1>9, <1>10, <1>11, <1>12, <1>13,
  <1>14, <1>15, <1>16, <1>17, <1>18, <1>19, <1>20, <1>21, <1>22, <1>23, <1>24, <1>25, <1>26,
  <1>27, <1>28, <1>29, <1>30, <1>31, <1>32, <1>33, <1>34, <1>35, <1>36, <1>37, <1>38 DEF Next,
  BoundedRun, Reader, ManagedSession

LEMMA CaptureStep == Inv /\ TypeOK' /\ TreeInv' /\ [Next]_vars => CaptureInv'
<1> SUFFICES ASSUME Inv, TypeOK', TreeInv', [Next]_vars PROVE CaptureInv'
  OBVIOUS
<1> USE CapsOK DEF Inv, TypeOK, TreeTypeOK, TreeInv, Ended, tree, call, capture, run, CaptureInv,
                   PlaceInv, Before, SyncWait, OnSession, Private, Min
<1>1. ASSUME NEW inputs \in Declared, Prepare(inputs) PROVE CaptureInv'
  BY <1>1 DEF Prepare, Return, Defect
<1>2. CASE Precancelled
  BY <1>2 DEF Precancelled, Return, DropDir
<1>3. CASE Enter
  BY <1>3 DEF Enter
<1>4. CASE WorktreeRefused
  BY <1>4 DEF WorktreeRefused, Return
<1>5. CASE Spawn
  BY <1>5 DEF Spawn, Start
<1>6. CASE SpawnSession
  BY <1>6 DEF SpawnSession, Start
<1>7. CASE SpawnFails
  BY <1>7 DEF SpawnFails, Fail, Return
<1>8. CASE CheckCancel
  BY <1>8 DEF CheckCancel, Still
<1>9. CASE PollExited
  BY <1>9 DEF PollExited, ReadBack, Still, Reap
<1>10. CASE PollFails
  BY <1>10 DEF PollFails, ReadBack, Still
<1>11. CASE PollRunning
  BY <1>11 DEF PollRunning, Still
<1>12. CASE Stop
  BY <1>12 DEF Stop, Still, KillGroup
<1>13. CASE Stopped
  BY <1>13 DEF Stopped, ReadBack, Waited, Still, Reap
<1>14. CASE AwaitExit
  BY <1>14 DEF AwaitExit, Still, Reap
<1>15. CASE AwaitFails
  BY <1>15 DEF AwaitFails, Interrupted, Still
<1>16. CASE AwaitTimeout
  BY <1>16 DEF AwaitTimeout, Interrupted, Still
<1>17. CASE AwaitCancel
  BY <1>17 DEF AwaitCancel, Interrupted, Still
<1>18. CASE Buried
  BY <1>18 DEF Buried, Waited, Still, Reap
<1>19. ASSUME NEW n \in 1 .. MaxBytes, ReadChunk(n) PROVE CaptureInv'
  BY <1>19 DEF ReadChunk
<1>20. CASE ReaderEnds
  BY <1>20 DEF ReaderEnds
<1>21. CASE ReaderFails
  BY <1>21 DEF ReaderFails
<1>22. CASE Drained
  BY <1>22 DEF Drained
<1>23. CASE Finish
  BY <1>23 DEF Finish, Fail, Return, DropDir
<1>24. CASE Clean
  BY <1>24 DEF Clean, DropDir
<1>25. CASE Unwind
  BY <1>25 DEF Unwind, KillGroup
<1>26. CASE DropFuture
  BY <1>26 DEF DropFuture, Return, DropDir, KillGroup
<1>27. CASE Observe
  BY <1>27 DEF Observe, Idle, Reap
<1>28. CASE Wait
  BY <1>28 DEF Wait, Idle
<1>29. CASE WaitEnds
  BY <1>29 DEF WaitEnds, Idle, Reap
<1>30. CASE StopWithin
  BY <1>30 DEF StopWithin, Idle, KillGroup
<1>31. CASE StopPoll
  BY <1>31 DEF StopPoll, Idle, Reap
<1>32. CASE DropSession
  BY <1>32 DEF DropSession, Idle
<1>33. CASE Drop
  BY <1>33 DEF Drop, Idle, KillGroup
<1>34. CASE DropWaited
  BY <1>34 DEF DropWaited, Idle, Waited, Reap
<1>35. CASE Cancel
  BY <1>35 DEF Cancel
<1>36. CASE Elapse
  BY <1>36 DEF Elapse
<1>37. CASE Tree
  BY <1>37, TreeFacts DEF TreeOnly
<1>38. CASE UNCHANGED vars
  BY <1>38 DEF vars
<1> QED BY <1>1, <1>2, <1>3, <1>4, <1>5, <1>6, <1>7, <1>8, <1>9, <1>10, <1>11, <1>12, <1>13,
  <1>14, <1>15, <1>16, <1>17, <1>18, <1>19, <1>20, <1>21, <1>22, <1>23, <1>24, <1>25, <1>26,
  <1>27, <1>28, <1>29, <1>30, <1>31, <1>32, <1>33, <1>34, <1>35, <1>36, <1>37, <1>38 DEF Next,
  BoundedRun, Reader, ManagedSession

LEMMA InitInv == Init => Inv
<1> SUFFICES ASSUME Init PROVE Inv
  OBVIOUS
<1> USE DEF Init, TreeInit
<1>1. TreeTypeOK /\ TreeInv
  <2>1. TreeTypeOK
    BY DEF TreeTypeOK
  <2>2. child = "none" /\ alive = {} /\ ~reused /\ ~struck /\ ~signalled /\ atExit = 0 /\ wrote = 0
    OBVIOUS
  <2>3. TreeInv
    BY <2>2 DEF TreeInv, Ended
  <2> QED BY <2>1, <2>3
<1>2. pc \in {"new", "prepared"} /\ (pc = "new" => Private)
  BY DEF Private
<1>3. TypeOK
  BY <1>1, <1>2 DEF TypeOK
<1>4. PlaceInv /\ KindInv
  BY <1>2 DEF PlaceInv, KindInv, Before, SyncWait, OnSession
<1>5. OutcomeInv /\ StopInv /\ SignalsOwnTree
  BY <1>2 DEF OutcomeInv, StopInv, SignalsOwnTree, Natural, Session, Ended
<1>6. CustodyInv
  BY DEF CustodyInv, Private
<1>7. cap \in Nat
  BY CapsOK
<1>8. CaptureInv
  <2>1. Min(cap, drained) = 0 /\ retained = 0
    BY <1>7 DEF Min
  <2>2. (drained > cap) = FALSE
    BY <1>7
  <2>3. truncated = (drained > cap)
    BY <2>2, Zenon
  <2> QED BY <2>1, <2>3 DEF CaptureInv
<1> QED BY <1>1, <1>3, <1>4, <1>5, <1>6, <1>8 DEF Inv

LEMMA NextInv == Inv /\ [Next]_vars => Inv'
<1> SUFFICES ASSUME Inv, [Next]_vars PROVE Inv'
  OBVIOUS
<1>1. TreeTypeOK' /\ TreeInv'
  BY StepMoves, TreeStep DEF Inv, TypeOK
<1>2. TypeOK'
  BY <1>1, TypeStep
<1> QED BY <1>1, <1>2, PlaceStep, KindStep, OutcomeStep, StopStep, SignalStep, CustodyStep,
           CaptureStep DEF Inv

LEMMA Invariance == Spec => []Inv
BY InitInv, NextInv, PTL DEF Spec

(* Types.                                                                  *)
THEOREM TypeCorrect == Spec => []TypeOK
<1>1. Inv => TypeOK
  BY DEF Inv
<1> QED BY <1>1, Invariance, PTL

(* The outcome of a call tells what happened to its program.               *)
THEOREM RunIsTruthful == Spec => []RunTruthful
<1>1. Inv => RunTruthful
  BY DEF Inv, RunTruthful, OutcomeInv, Done, Private
<1> QED BY <1>1, Invariance, PTL

(* What was stopped is gone: the child, and all that stayed in its group.  *)
THEOREM StopsWholeTree == Spec => []StoppedTreeIsGone
<1>1. Inv => StoppedTreeIsGone
  BY DEF Inv, StoppedTreeIsGone, TreeInv, StopInv, Done, Stopping
<1> QED BY <1>1, Invariance, PTL

(* An interrupted run waits only for the dying, or for what left its group:*)
(* the drain that need not end is the one after a natural end, which is    *)
(* where BoundedRunEnds fails.                                             *)
THEOREM InterruptionsAwaitTheDying == Spec => []InterruptedAwaitsDying
<1>1. Inv => InterruptedAwaitsDying
  <2> SUFFICES ASSUME Inv, pc = "draining", kind # "none"
               PROVE  signalled /\ open \subseteq doomed \cup loose
    BY DEF InterruptedAwaitsDying
  <2>1. signalled
    BY DEF Inv, StopInv
  <2>2. open \subseteq alive /\ alive \ loose \subseteq doomed
    BY <2>1 DEF Inv, TypeOK, TreeTypeOK, TreeInv, Group
  <2> QED BY <2>1, <2>2
<1> QED BY <1>1, Invariance, PTL

(* No workspace is forgotten by a call that returns.                       *)
THEOREM CustodyIsTruthful == Spec => []CustodyTruthful
<1>1. Inv => CustodyTruthful
  BY DEF Inv, CustodyTruthful, CustodyInv, Done
<1> QED BY <1>1, Invariance, PTL

(* Only the admitted tree is signalled, with the exceptions stated.        *)
THEOREM SignalsStayHome == Spec => []SignalsOwnTree
<1>1. Inv => SignalsOwnTree
  BY DEF Inv
<1> QED BY <1>1, Invariance, PTL

(* Diagnostics are bounded and claim no cut that was none; those of an     *)
(* asynchronous run, and of a file that was read as it was, are complete   *)
(* up to the cap and say what was cut.                                     *)
THEOREM DiagnosticsAreTruthful == Spec => []DiagnosticsTruthful
<1>1. Inv => DiagnosticsTruthful
  <2> SUFFICES ASSUME Inv, Done, reader \in {"ended", "short"}
               PROVE  /\ retained <= cap
                      /\ truncated => wrote > cap
                      /\ api = "async" \/ reader = "ended" =>
                           /\ retained >= Min(cap, atExit)
                           /\ atExit > cap => truncated
                           /\ truncated => retained = cap
    BY DEF DiagnosticsTruthful
  <2>1. cap \in Nat /\ wrote \in Nat /\ drained \in Nat /\ atExit \in Nat /\ atExit <= wrote
    BY CapsOK DEF Inv, TypeOK, TreeTypeOK, TreeInv
  <2>2. CASE api = "async"
    <3>1. retained = Min(cap, drained) /\ drained = wrote /\ (truncated <=> drained > cap)
      BY <2>2 DEF Inv, CaptureInv
    <3> QED BY <2>1, <3>1 DEF Min
  <2>3. CASE api # "async"
    BY <2>3 DEF Inv, CaptureInv
  <2> QED BY <2>2, <2>3
<1> QED BY <1>1, Invariance, PTL

=============================================================================
