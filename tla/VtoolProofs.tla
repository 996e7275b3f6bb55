---------------------------- MODULE VtoolProofs ----------------------------
(***************************************************************************)
(* Proofs about vtool, for any number of processes and versions.           *)
(*                                                                         *)
(* The argument: what was published once is there or was lost from outside *)
(* (Known), so a process that has seen its version there may record it     *)
(* later (Supported); between lock and write the snapshot is the writer's  *)
(* copy (Locked); a repair that is past its first read found a record, and *)
(* records are never dropped (Invited).                                    *)
(***************************************************************************)
EXTENDS VtoolProps, TLAPS

Known == published \cup lost

Locked == \A p \in Procs : pc[p] = "write" => lock = p /\ copy[p] = records

Supported ==
    /\ \A v \in Versions : records[v].phase = "Installed" => v \in Known
    /\ view # None => view \in Known \ FileVersions
    /\ \A p \in Procs :
         /\ pc[p] \in {"create", "switch", "check"} => Version(p) \in Known \ FileVersions
         /\ pc[p] \in {"lock", "write"} /\ Phase(p) = "Installed" => Version(p) \in Known
         /\ pc[p] \in {"withdraw", "unlink"} => Phase(p) = "Deactivated"

Invited ==
    \A p \in Procs :
        /\ Repairing(p) /\ pc[p] \notin {"idle", "read"} => records[Version(p)].phase # "none"
        /\ pc[p] = "publish" => cmd[p].verb \in {"install", "repair"}
        /\ pc[p] \in {"read", "target", "view", "attempt"} => Repairing(p)

Inv == TypeOK /\ Locked /\ Supported /\ Invited /\ NoLostCommit

USE ConstantsOK DEF ConstantsOK

LEMMA InitInv == Init => Inv
<1> SUFFICES ASSUME Init PROVE Inv
  OBVIOUS
<1>1. TypeOK
  BY DEF Init, TypeOK, Fresh, Record, Verb, Step
<1>2. Locked /\ Supported /\ Invited /\ NoLostCommit
  BY DEF Init, Fresh, Locked, Supported, Invited, NoLostCommit, Version, Phase
<1> QED BY <1>1, <1>2 DEF Inv

(* A process moves on and changes neither its command nor the records.     *)
LEMMA Moves ==
    ASSUME Inv, NEW p \in Procs, UNCHANGED <<records, commits, cmd, copy, runs>>,
           Known \subseteq Known', TypeOK', pc[p] \notin {"idle", "write"},
           lock' = lock, view' # None => view' \in Known' \ FileVersions,
           NEW step \in Step, Goto(p, step), step # "write",
           step \in {"create", "switch", "check"} => Version(p) \in Known' \ FileVersions,
           step = "lock" /\ Phase(p) = "Installed" => Version(p) \in Known',
           step \in {"withdraw", "unlink"} => Phase(p) = "Deactivated",
           step \notin {"idle", "read"} /\ pc[p] = "read" => records[Version(p)].phase # "none",
           step = "publish" => cmd[p].verb \in {"install", "repair"},
           step \in {"read", "target", "view", "attempt"} => Repairing(p)
    PROVE  Inv'
<1> USE DEF Inv, Goto, Version, Phase, Repairing
<1>1. Locked' /\ NoLostCommit'
  BY DEF Locked, NoLostCommit, TypeOK
<1>2. Supported'
  BY DEF Supported, TypeOK
<1>3. Invited'
  BY DEF Invited, TypeOK
<1> QED BY <1>1, <1>2, <1>3

(* The next step of a failing command.                                     *)
LEMMA Fails ==
    ASSUME TypeOK, NEW p \in Procs, Fail(p)
    PROVE  /\ UNCHANGED <<cmd, copy, runs>>
           /\ tries' \in [Procs -> 0 .. Attempts - 1]
           /\ result' \in [Procs -> {"none", "ok", "failed", "satisfied", "nothing"}]
           /\ \/ Goto(p, "idle")
              \/ Goto(p, "attempt") /\ Repairing(p) /\ pc[p] # "read"
<1>1. CASE Report(p, "failed")
  BY <1>1 DEF Report, TypeOK
<1>2. CASE ~Report(p, "failed")
  <2>1. /\ Goto(p, "attempt") /\ Repairing(p) /\ pc[p] # "read"
        /\ tries[p] + 1 < Attempts /\ tries' = [tries EXCEPT ![p] = @ + 1]
        /\ UNCHANGED <<cmd, copy, result, runs>>
    BY <1>2 DEF Fail
  <2>2. tries[p] + 1 \in 0 .. Attempts - 1
    BY <2>1 DEF TypeOK
  <2> QED BY <2>1, <2>2 DEF TypeOK
<1> QED BY <1>1, <1>2

LEMMA ReadSteps ==
    ASSUME Inv, NEW p \in Procs,
           \/ ReadRecord(p) \/ CheckTarget(p) \/ CheckView(p) \/ Attempt(p)
    PROVE  Inv'
<1> DEFINE step == pc'[p]
<1> USE DEF Inv, ReadRecord, CheckTarget, CheckView, Attempt, On, Report, Realized, Goto,
            shared
<1>1. UNCHANGED <<records, commits, cmd, copy, runs, published, view, lock, lost>>
  OBVIOUS
<1>2. TypeOK'
  BY DEF TypeOK, Step
<1>3. pc[p] \notin {"idle", "write"} /\ step \in Step /\ Goto(p, step) /\ step # "write"
  BY DEF TypeOK, Step
<1>4. Repairing(p)
  BY DEF Invited
<1>5. /\ step \notin {"create", "switch", "check", "withdraw", "unlink"}
      /\ step = "lock" => Version(p) \in published
  BY <1>4 DEF TypeOK, Ready
<1>6. step \notin {"idle", "read"} /\ pc[p] = "read" => records[Version(p)].phase # "none"
  BY DEF TypeOK
<1> HIDE DEF step
<1>7. Known' = Known /\ (view' # None => view' \in Known' \ FileVersions)
  BY <1>1 DEF Known, Supported
<1>8. step = "lock" => Version(p) \in Known'
  BY <1>5, <1>7 DEF Known
<1>9. cmd[p].verb \in {"install", "repair"}
  BY <1>4 DEF Repairing
<1> QED BY ONLY Inv, p \in Procs, <1>1, <1>2, <1>3, <1>4, <1>5, <1>6, <1>7, <1>8, <1>9, Moves

LEMMA PublishStep == ASSUME Inv, NEW p \in Procs, Publish(p) PROVE Inv'
<1>1. CASE Version(p) \in published
  <2>1. Fail(p) /\ UNCHANGED <<published, lost, view, records, lock, commits>> /\ pc[p] = "publish"
    BY <1>1 DEF Publish
  <2>2. /\ UNCHANGED <<cmd, copy, runs>>
        /\ tries' \in [Procs -> 0 .. Attempts - 1]
        /\ result' \in [Procs -> {"none", "ok", "failed", "satisfied", "nothing"}]
    BY <2>1, Fails DEF Inv
  <2>3. PICK step \in {"idle", "attempt"} : Goto(p, step) /\ (step = "attempt" => Repairing(p))
    BY <2>1, Fails DEF Inv
  <2>4. TypeOK'
    BY <2>1, <2>2, <2>3 DEF Inv, TypeOK, Goto, Step
  <2>5. Known' = Known /\ (view' # None => view' \in Known' \ FileVersions)
    BY <2>1 DEF Inv, Known, Supported
  <2>6. step \in Step
    BY DEF Step
  <2> QED BY <2>1, <2>2, <2>3, <2>4, <2>5, <2>6, Moves
<1>2. CASE Version(p) \notin published
  <2> DEFINE step == IF Repairing(p) /\ HasView(p) THEN "observe" ELSE "lock"
  <2>1. /\ UNCHANGED <<view, records, lock, commits, cmd, copy, runs, tries, result>>
        /\ pc[p] = "publish" /\ Goto(p, step)
        /\ published' = published \cup {Version(p)} /\ lost' = lost \ {Version(p)}
    BY <1>2 DEF Publish, Realized, On
  <2>2. TypeOK'
    BY <2>1 DEF Inv, TypeOK, Goto, Step, Version
  <2>3. Known \subseteq Known' /\ Version(p) \in Known'
    BY <2>1 DEF Known
  <2>4. view' # None => view' \in Known' \ FileVersions
    BY <2>1, <2>3 DEF Inv, Supported
  <2>5. step \in Step /\ step \in {"observe", "lock"}
    BY DEF Step
  <2> HIDE DEF step
  <2> QED BY <2>1, <2>2, <2>3, <2>4, <2>5, Moves
<1> QED BY <1>1, <1>2

LEMMA LinkSteps ==
    ASSUME Inv, NEW p \in Procs,
           \/ LinkObserve(p) \/ LinkCreate(p) \/ LinkSwitch(p) \/ LinkCheck(p)
           \/ UnlinkObserve(p) \/ UnlinkRemove(p) \/ StepFails(p)
           \/ CommitLock(p) /\ lock # None
    PROVE  Inv'
<1> USE DEF LinkObserve, LinkCreate, LinkSwitch, LinkCheck, UnlinkObserve, UnlinkRemove,
            StepFails, CommitLock, shared
<1>1. UNCHANGED <<records, commits, published, lost, lock>> /\ pc[p] \notin {"idle", "write"}
  OBVIOUS
<1>2. Known' = Known
  BY <1>1 DEF Known
<1>3. \/ view' = view \/ view' = None
      \/ view' = Version(p) /\ pc[p] \in {"create", "switch"}
  OBVIOUS
<1>4. view' \in Versions \cup {None} /\ (view' # None => view' \in Known' \ FileVersions)
  BY <1>2, <1>3 DEF Inv, TypeOK, Supported, Version
<1>5. CASE Fail(p)
  <2>1. /\ UNCHANGED <<cmd, copy, runs>>
        /\ tries' \in [Procs -> 0 .. Attempts - 1]
        /\ result' \in [Procs -> {"none", "ok", "failed", "satisfied", "nothing"}]
    BY <1>5, Fails DEF Inv
  <2>2. PICK step \in {"idle", "attempt"} :
           Goto(p, step) /\ (step = "attempt" => Repairing(p) /\ pc[p] # "read")
    BY <1>5, Fails DEF Inv
  <2>3. TypeOK'
    BY <1>1, <1>4, <2>1, <2>2 DEF Inv, TypeOK, Goto, Step
  <2>4. step \in Step
    BY DEF Step
  <2> QED BY ONLY Inv, p \in Procs, <1>1, <1>2, <1>4, <2>1, <2>2, <2>3, <2>4, Moves
<1>6. CASE ~Fail(p)
  <2> DEFINE step == pc'[p]
  <2>1. /\ UNCHANGED <<cmd, tries, copy, result, runs>>
        /\ step \in {"create", "switch", "check", "lock", "unlink"}
        /\ Goto(p, step) /\ pc[p] \notin {"read", "lock"}
    BY <1>6 DEF On, Goto, Inv, TypeOK
  <2>2. TypeOK'
    BY <1>1, <1>4, <2>1 DEF Inv, TypeOK, Goto, Step
  <2>3. step \in {"create", "switch", "check"} => Version(p) \in Known' \ FileVersions
    BY <1>2, <1>6 DEF On, Goto, Inv, TypeOK, Supported, Known, Ready
  <2>4. step = "lock" /\ Phase(p) = "Installed" => Version(p) \in Known'
    BY <1>2, <1>6 DEF On, Goto, Inv, TypeOK, Supported
  <2>5. step = "unlink" => Phase(p) = "Deactivated"
    BY <1>6 DEF On, Goto, Inv, TypeOK, Supported
  <2>6. step \in Step
    BY <2>1 DEF Step
  <2> HIDE DEF step
  <2> QED BY ONLY Inv, p \in Procs, <1>1, <1>2, <1>4, <2>1, <2>2, <2>3, <2>4, <2>5, <2>6, Moves
<1> QED BY <1>5, <1>6

LEMMA LockStep == ASSUME Inv, NEW p \in Procs, CommitLock(p), lock = None PROVE Inv'
<1> USE DEF Inv, CommitLock, Goto
<1>1. TypeOK'
  <2>1. /\ lock' \in Procs \cup {None}
        /\ copy' \in [Procs -> [Versions -> Record]]
    BY DEF TypeOK
  <2>2. pc' \in [Procs -> Step]
    BY DEF TypeOK, Step
  <2>3. UNCHANGED <<cmd, tries, result, runs, published, view, records, commits, lost>>
    OBVIOUS
  <2> QED BY ONLY TypeOK, <2>1, <2>2, <2>3 DEF TypeOK
<1>2. Locked' /\ NoLostCommit'
  BY DEF TypeOK, Locked, NoLostCommit
<1>3. Supported'
  BY DEF TypeOK, Supported, Known, Version, Phase
<1>4. Invited'
  BY DEF TypeOK, Invited, Version, Repairing
<1> QED BY <1>1, <1>2, <1>3, <1>4

(* The write itself, whatever the process does next.                       *)
LEMMA Writes ==
    ASSUME Inv, NEW p \in Procs, pc[p] = "write", UNCHANGED <<published, view, lost, cmd, copy, runs>>,
           \/ UNCHANGED <<records, commits>>
           \/ records' = Written(p) /\ commits' = [commits EXCEPT ![Version(p)] = @ + 1],
           Release(p), NEW step \in {"idle", "attempt"}, Goto(p, step),
           step = "attempt" => Repairing(p),
           tries' \in [Procs -> 0 .. Attempts - 1],
           result' \in [Procs -> {"none", "ok", "failed", "satisfied", "nothing"}]
    PROVE  Inv'
<1> USE DEF Inv, Goto, Release
<1>1. /\ lock = p /\ copy[p] = records /\ Version(p) \in Versions
      /\ records \in [Versions -> Record] /\ commits \in [Versions -> Nat]
  BY DEF Locked, TypeOK, Version
<1>2. \/ UNCHANGED <<records, commits>>
      \/ /\ records' = [records EXCEPT ![Version(p)] =
                          [phase |-> Phase(p), generation |-> records[Version(p)].generation + 1]]
         /\ commits' = [commits EXCEPT ![Version(p)] = @ + 1]
  BY <1>1 DEF Written
<1>3. \A v \in Versions :
        /\ v # Version(p) => records'[v] = records[v]
        /\ \/ records'[v] = records[v]
           \/ /\ v = Version(p) /\ records'[v].phase = Phase(p)
              /\ records'[v].phase # "none"
  BY <1>1, <1>2 DEF Phase
<1>4. records' \in [Versions -> Record] /\ commits' \in [Versions -> Nat] /\ NoLostCommit'
  BY <1>1, <1>2 DEF NoLostCommit, Record, Phase
<1>5. TypeOK'
  BY <1>1, <1>4 DEF TypeOK, Step
<1>6. Locked'
  BY <1>1 DEF Locked, TypeOK
<1>7. Supported'
  BY <1>1, <1>3 DEF Supported, TypeOK, Known, Version, Phase
<1>8. Invited'
  <2> SUFFICES ASSUME NEW q \in Procs
      PROVE /\ Repairing(q) /\ pc'[q] \notin {"idle", "read"} => records'[Version(q)].phase # "none"
            /\ pc'[q] = "publish" => cmd[q].verb \in {"install", "repair"}
            /\ pc'[q] \in {"read", "target", "view", "attempt"} => Repairing(q)
    BY DEF Invited, Repairing, Version
  <2>1. Version(q) \in Versions
    BY DEF TypeOK, Version
  <2>2. records[Version(q)].phase # "none" => records'[Version(q)].phase # "none"
    BY <2>1, <1>3
  <2> QED BY <2>2 DEF Invited, TypeOK
<1> QED BY <1>4, <1>5, <1>6, <1>7, <1>8

LEMMA WriteSteps == ASSUME Inv, NEW p \in Procs, CommitWrite(p) \/ CommitFails(p) PROVE Inv'
<1>1. CASE CommitWrite(p)
  <2>1. tries' \in [Procs -> 0 .. Attempts - 1]
           /\ result' \in [Procs -> {"none", "ok", "failed", "satisfied", "nothing"}]
    BY <1>1 DEF CommitWrite, Report, Inv, TypeOK
  <2>2. "idle" \in {"idle", "attempt"} /\ "idle" # "attempt"
    OBVIOUS
  <2> QED BY <1>1, <2>1, <2>2, Writes DEF CommitWrite, Report
<1>2. CASE CommitFails(p)
  <2>1. PICK step \in {"idle", "attempt"} : Goto(p, step) /\ (step = "attempt" => Repairing(p))
    BY <1>2, Fails DEF CommitFails, Inv
  <2>2. /\ tries' \in [Procs -> 0 .. Attempts - 1]
        /\ result' \in [Procs -> {"none", "ok", "failed", "satisfied", "nothing"}]
        /\ UNCHANGED <<cmd, copy, runs>>
    BY <1>2, Fails DEF CommitFails, Inv
  <2> QED BY <1>2, <2>1, <2>2, Writes DEF CommitFails
<1> QED BY <1>1, <1>2

LEMMA RunStep == ASSUME Inv, NEW p \in Procs, Run(p) PROVE Inv'
<1> USE DEF Inv, Run, shared, Goto
<1>1. PICK verb \in Verb, v \in Versions :
        /\ cmd' = [cmd EXCEPT ![p] = [verb |-> verb, version |-> v]]
        /\ \/ UNCHANGED pc
           \/ \E step \in {"publish", "observe", "withdraw", "read"} :
                /\ pc' = [pc EXCEPT ![p] = step]
                /\ step = "publish" => verb = "install"
                /\ step = "withdraw" => verb = "deactivate"
                /\ step = "read" => verb = "repair"
                /\ step = "observe" => verb = "activate"
        /\ result' \in [Procs -> {"none", "ok", "failed", "satisfied", "nothing"}]
  <2>1. PICK verb \in Verb, v \in Versions :
         /\ cmd' = [cmd EXCEPT ![p] = [verb |-> verb, version |-> v]]
         /\ IF verb \in {"activate", "deactivate"} /\ v \in Viewless
            THEN /\ UNCHANGED pc
                 /\ result' = [result EXCEPT ![p] =
                                 IF verb = "deactivate" THEN "ok" ELSE "failed"]
            ELSE /\ Goto(p, CASE verb = "install" -> "publish"
                              [] verb = "activate" -> "observe"
                              [] verb = "deactivate" -> "withdraw"
                              [] verb = "repair" -> "read")
                 /\ result' = [result EXCEPT ![p] = "none"]
    BY DEF Run
  <2>2. result' \in [Procs -> {"none", "ok", "failed", "satisfied", "nothing"}]
    BY <2>1 DEF TypeOK
  <2>3. \/ UNCHANGED pc
        \/ \E step \in {"publish", "observe", "withdraw", "read"} :
                /\ pc' = [pc EXCEPT ![p] = step]
                /\ step = "publish" => verb = "install"
                /\ step = "withdraw" => verb = "deactivate"
                /\ step = "read" => verb = "repair"
                /\ step = "observe" => verb = "activate"
    BY <2>1 DEF Verb
  <2> QED BY <2>1, <2>2, <2>3
<1>2. tries' \in [Procs -> 0 .. Attempts - 1] /\ runs' \in 0 .. MaxRuns
  BY DEF TypeOK
<1>3. /\ UNCHANGED <<published, view, records, lock, commits, lost, copy>> /\ pc[p] = "idle"
  OBVIOUS
<1>4. TypeOK'
  <2>1. cmd' \in [Procs -> [verb : Verb, version : Versions]]
    BY <1>1 DEF TypeOK
  <2>2. pc' \in [Procs -> Step]
    BY <1>1 DEF TypeOK, Step
  <2> QED BY <1>1, <1>2, <1>3, <2>1, <2>2 DEF TypeOK
<1>5. Locked' /\ NoLostCommit'
  BY <1>1, <1>3 DEF Locked, NoLostCommit, TypeOK
<1>6. Supported'
  BY <1>1, <1>3 DEF Supported, TypeOK, Known, Version, Phase
<1>7. Invited'
  BY <1>1, <1>3 DEF Invited, TypeOK, Version, Repairing
<1> QED BY <1>4, <1>5, <1>6, <1>7

LEMMA OutsideStep ==
    ASSUME Inv, (\E p \in Procs : Die(p)) \/ (\E v \in Versions : LoseVersion(v)) \/ LoseView
    PROVE  Inv'
<1> USE DEF Inv, procs
<1>1. ASSUME NEW p \in Procs, Die(p) PROVE Inv'
  <2> USE <1>1 DEF Die, Report, Goto, Release
  <2>1. TypeOK'
    BY DEF TypeOK, Step
  <2>2. Locked' /\ NoLostCommit'
    BY DEF TypeOK, Locked, NoLostCommit
  <2>3. Supported' /\ Invited'
    BY DEF TypeOK, Supported, Known, Invited, Version, Phase, Repairing
  <2> QED BY <2>1, <2>2, <2>3
<1>2. ASSUME NEW v \in Versions, LoseVersion(v) PROVE Inv'
  <2> USE <1>2 DEF LoseVersion
  <2>1. TypeOK' /\ Known' = Known
    BY DEF TypeOK, Known
  <2>2. Locked' /\ NoLostCommit' /\ Invited'
    BY DEF Locked, NoLostCommit, Invited, Version, Repairing
  <2>3. Supported'
    BY <2>1 DEF Supported, Version, Phase
  <2> QED BY <2>1, <2>2, <2>3
<1>3. CASE LoseView
  <2> USE <1>3 DEF LoseView
  <2>1. TypeOK' /\ Known' = Known
    BY DEF TypeOK, Known
  <2>2. Locked' /\ NoLostCommit' /\ Invited'
    BY DEF Locked, NoLostCommit, Invited, Version, Repairing
  <2>3. Supported'
    BY <2>1 DEF Supported, Version, Phase
  <2> QED BY <2>1, <2>2, <2>3
<1> QED BY <1>1, <1>2, <1>3

LEMMA StutterInv == Inv /\ UNCHANGED vars => Inv'
BY DEF vars, shared, procs, Inv, TypeOK, Locked, Supported, Known, Invited, NoLostCommit,
       Version, Phase, Repairing

LEMMA NextInv == Inv /\ [Next]_vars => Inv'
<1> SUFFICES ASSUME Inv, [Next]_vars PROVE Inv'
  OBVIOUS
<1>1. ASSUME NEW p \in Procs, Advance(p) PROVE Inv'
  BY <1>1, ReadSteps, PublishStep, LinkSteps, LockStep, WriteSteps DEF Advance
<1>2. ASSUME NEW p \in Procs, Run(p) \/ CommitFails(p) \/ StepFails(p) PROVE Inv'
  BY <1>2, RunStep, WriteSteps, LinkSteps
<1> QED BY <1>1, <1>2, OutsideStep, StutterInv DEF Next

(* The inductive invariant of vtool, which the theorems below use.         *)
THEOREM VtoolInvariant == Spec => []Inv
BY InitInv, NextInv, PTL DEF Spec

(* realize.rs: the types of the model's state hold in every behaviour.     *)
THEOREM TypeCorrect == Spec => []TypeOK
<1>1. Inv => TypeOK
  BY DEF Inv
<1> QED BY <1>1, VtoolInvariant, PTL

(* A version recorded as Installed is there, or was lost from outside.     *)
THEOREM InstalledVersionsAreThere == Spec => []InstalledIsPublished
<1>1. Inv => InstalledIsPublished
  BY DEF Inv, Supported, Known, InstalledIsPublished
<1> QED BY <1>1, VtoolInvariant, PTL

(* The view exposes a version that is there, or was lost from outside.     *)
THEOREM ViewsAreSupported == Spec => []ViewIsPublished
<1>1. Inv => ViewIsPublished
  BY DEF Inv, Supported, Known, ViewIsPublished, Ready
<1> QED BY <1>1, VtoolInvariant, PTL

(* Concurrent commands lose no commit.                                     *)
THEOREM CommitsAreNotLost == Spec => []NoLostCommit
<1>1. Inv => NoLostCommit
  BY DEF Inv
<1> QED BY <1>1, VtoolInvariant, PTL

(* Only an install, or a repair of what was recorded, publishes a version. *)
THEOREM NothingIsUninvited == Spec => NothingUninvited
<1> DEFINE A == \A v \in published' \ published :
         \/ \E p \in Procs : cmd[p] = [verb |-> "install", version |-> v] /\ pc[p] = "publish"
         \/ records[v].phase # "none"
<1>1. Inv /\ [Next]_vars => [A]_vars
  <2> SUFFICES ASSUME Inv, Next, NEW v \in published' \ published
      PROVE  \/ \E p \in Procs : cmd[p] = [verb |-> "install", version |-> v] /\ pc[p] = "publish"
             \/ records[v].phase # "none"
    OBVIOUS
  <2>1. PICK p \in Procs : Publish(p)
    <3>1. ASSUME NEW p \in Procs, Advance(p), ~Publish(p) PROVE FALSE
      BY <3>1 DEF Advance, ReadRecord, CheckTarget, CheckView, Attempt, LinkObserve,
                  LinkCreate, LinkSwitch, LinkCheck, UnlinkObserve, UnlinkRemove, CommitLock,
                  CommitWrite, shared
    <3>2. ASSUME NEW p \in Procs, Run(p) \/ CommitFails(p) \/ StepFails(p) \/ Die(p) PROVE FALSE
      BY <3>2 DEF Run, CommitFails, StepFails, Die, shared
    <3>3. ASSUME (\E w \in Versions : LoseVersion(w)) \/ LoseView PROVE FALSE
      BY <3>3 DEF LoseVersion, LoseView
    <3> QED BY <3>1, <3>2, <3>3 DEF Next
  <2>2. v = Version(p) /\ pc[p] = "publish"
    BY <2>1 DEF Publish
  <2>3. CASE cmd[p].verb = "install"
    <3>1. cmd[p] = [verb |-> "install", version |-> v]
      BY <2>2, <2>3 DEF Inv, TypeOK, Version
    <3> QED BY <2>2, <3>1
  <2>4. CASE cmd[p].verb # "install"
    BY <2>2, <2>4 DEF Inv, Invited, Repairing
  <2> QED BY <2>3, <2>4
<1> QED BY <1>1, VtoolInvariant, PTL DEF Spec, NothingUninvited

(***************************************************************************)
(* The measure of a command: its step, within its attempt.                 *)
(***************************************************************************)
LEMMA OnNearer ==
    ASSUME TypeOK, NEW p \in Procs, NEW step, On(p, step), Rank(step) < Rank(pc[p])
    PROVE  Nearer(p)
<1>1. pc'[p] = step /\ tries'[p] = tries[p]
  BY DEF On, Goto, TypeOK
<1> QED BY <1>1 DEF Nearer

LEMMA ReportNearer ==
    ASSUME TypeOK, NEW p \in Procs, pc[p] # "idle", NEW answer, Report(p, answer)
    PROVE  Nearer(p)
<1>1. pc'[p] = "idle" /\ tries'[p] = tries[p]
  BY DEF Report, Goto, TypeOK
<1>2. Rank("idle") < Rank(pc[p])
  BY DEF TypeOK, Step, Rank
<1> QED BY <1>1, <1>2 DEF Nearer

LEMMA FailNearer ==
    ASSUME TypeOK, NEW p \in Procs, pc[p] # "idle", Fail(p) PROVE Nearer(p)
<1>1. CASE Report(p, "failed")
  BY <1>1, ReportNearer
<1>2. CASE ~Report(p, "failed")
  <2>1. tries' = [tries EXCEPT ![p] = @ + 1]
    BY <1>2 DEF Fail
  <2>2. tries'[p] = tries[p] + 1 /\ tries[p] \in Nat
    BY <2>1 DEF TypeOK
  <2> QED BY <2>2 DEF Nearer
<1> QED BY <1>1, <1>2

(* The steps that only look, and go on or report.                          *)
LEMMA LooksNearer ==
    ASSUME TypeOK, NEW p \in Procs,
           ReadRecord(p) \/ CheckTarget(p) \/ CheckView(p) \/ Attempt(p)
    PROVE  Nearer(p)
<1>1. CASE ReadRecord(p)
  BY <1>1, OnNearer, ReportNearer DEF ReadRecord, Rank
<1>2. CASE CheckTarget(p)
  BY <1>2, OnNearer, ReportNearer DEF CheckTarget, Rank
<1>3. CASE CheckView(p)
  BY <1>3, OnNearer, ReportNearer DEF CheckView, Rank
<1>4. CASE Attempt(p)
  BY <1>4, OnNearer DEF Attempt, Realized, Rank
<1> QED BY <1>1, <1>2, <1>3, <1>4

(* The steps that change the target, the view or the records.              *)
LEMMA EffectsNearer ==
    ASSUME TypeOK, NEW p \in Procs,
           \/ Publish(p) \/ LinkObserve(p) \/ LinkCreate(p) \/ LinkSwitch(p) \/ LinkCheck(p)
           \/ UnlinkObserve(p) \/ UnlinkRemove(p) \/ CommitLock(p) \/ CommitWrite(p)
    PROVE  Nearer(p)
<1>1. CASE Publish(p)
  BY <1>1, OnNearer, FailNearer DEF Publish, Realized, Rank
<1>2. CASE LinkObserve(p)
  BY <1>2, OnNearer, FailNearer DEF LinkObserve, Rank
<1>3. CASE LinkCreate(p)
  BY <1>3, OnNearer, FailNearer DEF LinkCreate, Rank
<1>4. CASE LinkSwitch(p)
  BY <1>4, OnNearer DEF LinkSwitch, Rank
<1>5. CASE LinkCheck(p)
  BY <1>5, OnNearer, FailNearer DEF LinkCheck, Rank
<1>6. CASE UnlinkObserve(p)
  BY <1>6, OnNearer, FailNearer DEF UnlinkObserve, Rank
<1>7. CASE UnlinkRemove(p)
  BY <1>7, OnNearer, FailNearer DEF UnlinkRemove, Rank
<1>8. CASE CommitLock(p)
  <2>1. CASE lock = None
    <3>1. pc[p] = "lock" /\ pc'[p] = "write" /\ tries'[p] = tries[p]
      BY <1>8, <2>1 DEF CommitLock, Goto, TypeOK
    <3> QED BY <3>1 DEF Nearer, Rank
  <2>2. CASE lock # None
    BY <1>8, <2>2, FailNearer DEF CommitLock
  <2> QED BY <2>1, <2>2
<1>9. CASE CommitWrite(p)
  BY <1>9, ReportNearer DEF CommitWrite
<1> QED BY <1>1, <1>2, <1>3, <1>4, <1>5, <1>6, <1>7, <1>8, <1>9

LEMMA OwnStepNearer ==
    ASSUME TypeOK, NEW p \in Procs, Advance(p) \/ CommitFails(p) \/ StepFails(p) \/ Die(p)
    PROVE  Nearer(p)
<1>1. CASE Advance(p)
  BY <1>1, LooksNearer, EffectsNearer DEF Advance
<1>2. CASE CommitFails(p)
  BY <1>2, FailNearer DEF CommitFails
<1>3. CASE StepFails(p)
  BY <1>3, FailNearer DEF StepFails
<1>4. CASE Die(p)
  BY <1>4, ReportNearer DEF Die
<1> QED BY <1>1, <1>2, <1>3, <1>4

(* A step moves the process that takes it and no other.                    *)
LEMMA OthersStay ==
    ASSUME TypeOK, NEW p \in Procs, NEW q \in Procs \ {p},
           Run(q) \/ Advance(q) \/ CommitFails(q) \/ StepFails(q) \/ Die(q)
    PROVE  UNCHANGED <<pc[p], tries[p], cmd[p]>>
<1> USE DEF On, Report, Fail, Goto
<1>1. CASE Run(q)
  BY <1>1 DEF Run, TypeOK
<1>2. CASE ReadRecord(q) \/ CheckTarget(q) \/ CheckView(q) \/ Attempt(q)
  BY <1>2 DEF ReadRecord, CheckTarget, CheckView, Attempt, Realized, TypeOK
<1>3. CASE Publish(q) \/ LinkObserve(q) \/ LinkCreate(q) \/ LinkSwitch(q) \/ LinkCheck(q)
  BY <1>3 DEF Publish, Realized, LinkObserve, LinkCreate, LinkSwitch, LinkCheck, TypeOK
<1>4. CASE UnlinkObserve(q) \/ UnlinkRemove(q) \/ CommitLock(q) \/ CommitWrite(q)
  BY <1>4 DEF UnlinkObserve, UnlinkRemove, CommitLock, CommitWrite, TypeOK
<1>5. CASE CommitFails(q) \/ StepFails(q) \/ Die(q)
  BY <1>5 DEF CommitFails, StepFails, Die, TypeOK
<1> QED BY <1>1, <1>2, <1>3, <1>4, <1>5 DEF Advance

(* No command runs in circles, for any number of processes and attempts:   *)
(* with the bound on tries (TypeCorrect) it is the core of CommandsReturn. *)
THEOREM CommandsMakeProgress == Spec => NoCircles
<1> DEFINE A == \A p \in Procs :
         /\ Advance(p) \/ CommitFails(p) \/ StepFails(p) \/ Die(p) => Nearer(p)
         /\ pc[p] # "idle" => Nearer(p) \/ UNCHANGED <<pc[p], tries[p], cmd[p]>>
<1>1. TypeOK /\ [Next]_vars => [A]_vars
  <2> SUFFICES ASSUME TypeOK, Next, NEW p \in Procs
               PROVE  /\ Advance(p) \/ CommitFails(p) \/ StepFails(p) \/ Die(p) => Nearer(p)
                      /\ pc[p] # "idle" => Nearer(p) \/ UNCHANGED <<pc[p], tries[p], cmd[p]>>
    OBVIOUS
  <2>1. Advance(p) \/ CommitFails(p) \/ StepFails(p) \/ Die(p) => Nearer(p)
    BY OwnStepNearer
  <2>2. Run(p) => pc[p] = "idle"
    BY DEF Run
  <2>3. ASSUME NEW q \in Procs \ {p},
               Run(q) \/ Advance(q) \/ CommitFails(q) \/ StepFails(q) \/ Die(q)
        PROVE  UNCHANGED <<pc[p], tries[p], cmd[p]>>
    BY <2>3, OthersStay
  <2>4. ASSUME (\E v \in Versions : LoseVersion(v)) \/ LoseView
        PROVE  UNCHANGED <<pc[p], tries[p], cmd[p]>>
    BY <2>4 DEF LoseVersion, LoseView, procs
  <2> QED BY <2>1, <2>2, <2>3, <2>4 DEF Next
<1> QED BY <1>1, TypeCorrect, PTL DEF Spec, NoCircles

(***************************************************************************)
(* How far the disagreement of RepairDoesNotResurrect reaches.             *)
(***************************************************************************)
Current == \A p \in Procs : Past(p) => records[Version(p)].phase = "Installed"

Kept == \A p \in Procs :
    Past(p) /\ records[Version(p)].phase = "Installed" => records'[Version(p)].phase = "Installed"

(* A repair begins with an Installed record, and Kept keeps it so.         *)
LEMMA NextCurrent == Inv /\ Current /\ [Next]_vars /\ [Kept]_vars => Current'
<1> SUFFICES ASSUME Inv, Current, [Next]_vars, [Kept]_vars, NEW p \in Procs, Past(p)'
             PROVE  records'[Version(p)'].phase = "Installed"
  BY DEF Current
<1>1. CASE UNCHANGED vars
  BY <1>1 DEF Current, Past, Repairing, Version, vars, shared, procs
<1>2. CASE Next /\ Kept
  <2>1. CASE Past(p)
    <3>1. cmd'[p] = cmd[p]
      <4>1. pc[p] # "idle"
        BY <2>1 DEF Past
      <4>2. \A q \in Procs : Run(q) => q # p
        BY <4>1 DEF Run
      <4>3. ASSUME NEW q \in Procs, Run(q) PROVE cmd'[p] = cmd[p]
        BY <4>2, <4>3 DEF Run, Inv, TypeOK
      <4>4. ASSUME NEW q \in Procs, Advance(q) \/ CommitFails(q) \/ StepFails(q) \/ Die(q)
            PROVE  cmd'[p] = cmd[p]
        BY <4>4 DEF Advance, ReadRecord, CheckTarget, CheckView, Attempt, Publish, Realized,
           LinkObserve, LinkCreate, LinkSwitch, LinkCheck, UnlinkObserve, UnlinkRemove,
           CommitLock, CommitWrite, CommitFails, StepFails, Die, On, Report, Fail
      <4> QED BY <1>2, <4>3, <4>4 DEF Next, LoseVersion, LoseView, procs
    <3> QED BY <1>2, <2>1, <3>1 DEF Kept, Current, Version
  <2>2. CASE ~Past(p)
    <3>1. pc'[p] \notin {"idle", "read"} /\ cmd'[p].verb = "repair"
      BY DEF Past, Repairing
    <3>2. ASSUME NEW q \in Procs \ {p},
                 Run(q) \/ Advance(q) \/ CommitFails(q) \/ StepFails(q) \/ Die(q)
          PROVE  FALSE
      BY <2>2, <3>1, <3>2, OthersStay DEF Inv, Past, Repairing
    <3>3. ~((\E v \in Versions : LoseVersion(v)) \/ LoseView)
      BY <2>2, <3>1 DEF LoseVersion, LoseView, procs, Past, Repairing
    <3>4. ~Run(p)
      BY <3>1 DEF Run, Goto, Inv, TypeOK
    <3>5. Advance(p) \/ CommitFails(p) \/ StepFails(p) \/ Die(p)
      BY <1>2, <3>2, <3>3, <3>4 DEF Next
    <3>6. cmd'[p] = cmd[p]
      BY <3>5 DEF Advance, ReadRecord, CheckTarget, CheckView, Attempt, Publish, Realized,
         LinkObserve, LinkCreate, LinkSwitch, LinkCheck, UnlinkObserve, UnlinkRemove,
         CommitLock, CommitWrite, CommitFails, StepFails, Die, On, Report, Fail
    <3>7. pc[p] \in {"idle", "read"}
      BY <2>2, <3>1, <3>6 DEF Past, Repairing
    <3>8. pc[p] = "read"
      BY <3>5, <3>7 DEF Advance, ReadRecord, CheckTarget, CheckView, Attempt, Publish,
         LinkObserve, LinkCreate, LinkSwitch, LinkCheck, UnlinkObserve, UnlinkRemove,
         CommitLock, CommitWrite, CommitFails, StepFails, Die
    <3>9. ReadRecord(p) \/ Fail(p) \/ Die(p)
      BY <3>5, <3>8 DEF Advance, CheckTarget, CheckView, Attempt, Publish,
         LinkObserve, LinkCreate, LinkSwitch, LinkCheck, UnlinkObserve, UnlinkRemove,
         CommitLock, CommitWrite, CommitFails, StepFails
    <3>10. ~Fail(p) /\ ~Die(p)
      BY <3>1, <3>8 DEF Fail, Die, Report, Goto, Inv, TypeOK
    <3> QED BY <3>1, <3>6, <3>9, <3>10 DEF ReadRecord, Report, Goto, Inv, TypeOK, shared, Version
  <2> QED BY <2>1, <2>2
<1> QED BY <1>1, <1>2 DEF Kept, vars

(* Only a commit changes a record: the version's own, to its command's     *)
(* phase, in the writer's last step of the attempt.                        *)
LEMMA CommitsRecord ==
    ASSUME Inv, Next, NEW v \in Versions, records'[v].phase # records[v].phase
    PROVE  \E p \in Procs : /\ pc[p] = "write" /\ pc'[p] # "write" /\ Version(p) = v
                            /\ records'[v].phase = Phase(p)
<1>1. PICK p \in Procs : CommitWrite(p) \/ CommitFails(p)
  BY DEF Next, Run, Advance, ReadRecord, CheckTarget, CheckView, Attempt, Publish, LinkObserve,
         LinkCreate, LinkSwitch, LinkCheck, UnlinkObserve, UnlinkRemove, CommitLock, StepFails,
         Die, LoseVersion, LoseView, shared
<1>2. pc[p] = "write" /\ copy[p] = records
  BY <1>1 DEF CommitWrite, CommitFails, Inv, Locked
<1>3. records' = [records EXCEPT ![Version(p)] =
                    [phase |-> Phase(p), generation |-> @.generation + 1]]
  BY <1>1, <1>2 DEF CommitWrite, CommitFails, Written
<1>4. Version(p) = v /\ records'[v].phase = Phase(p)
  BY <1>3 DEF Inv, TypeOK
<1>5. pc'[p] # "write"
  BY <1>1 DEF CommitWrite, CommitFails, Report, Fail, Goto, Inv, TypeOK
<1> QED BY <1>2, <1>4, <1>5

(* A repair resurrects a deactivated version only where it was overtaken:  *)
(* the deactivation was committed after the repair had read its record.    *)
THEOREM OnlyOvertakenRepairsResurrect == Spec /\ NotOvertaken => RepairDoesNotResurrect
<1> DEFINE A == \A v \in Versions :
         records[v].phase = "Deactivated" /\ records'[v].phase = "Installed" =>
           \E p \in Procs : pc[p] = "write" /\ Version(p) = v /\ ~Repairing(p)
                            /\ pc'[p] # "write"
<1>1. Init => Current
  BY DEF Init, Current, Past
<1>2. Inv /\ Current /\ [Next]_vars => [A]_vars
  <2> SUFFICES ASSUME Inv, Current, Next, NEW v \in Versions,
                      records[v].phase = "Deactivated", records'[v].phase = "Installed"
               PROVE  \E p \in Procs : pc[p] = "write" /\ Version(p) = v /\ ~Repairing(p)
                                       /\ pc'[p] # "write"
    OBVIOUS
  <2>1. PICK p \in Procs : pc[p] = "write" /\ pc'[p] # "write" /\ Version(p) = v
    BY CommitsRecord
  <2>2. ~Repairing(p)
    BY <2>1 DEF Current, Past
  <2> QED BY <2>1, <2>2
<1> QED BY <1>1, <1>2, NextCurrent, VtoolInvariant, PTL
        DEF Spec, NotOvertaken, Kept, RepairDoesNotResurrect

(* Run one at a time, the commands keep the promise.                       *)
THEOREM AloneNothingResurrects ==
    ASSUME \A p, q \in Procs : p = q PROVE Spec => RepairDoesNotResurrect
<1>1. Inv /\ [Next]_vars => [Kept]_vars
  <2> SUFFICES ASSUME Inv, Next, NEW p \in Procs, Past(p),
                      records[Version(p)].phase = "Installed"
               PROVE  records'[Version(p)].phase = "Installed"
    BY DEF Kept
  <2> SUFFICES ASSUME records'[Version(p)].phase # records[Version(p)].phase
               PROVE  records'[Version(p)].phase = "Installed"
    OBVIOUS
  <2>1. Version(p) \in Versions
    BY DEF Inv, TypeOK, Version
  <2>2. PICK q \in Procs : records'[Version(p)].phase = Phase(q)
    BY <2>1, CommitsRecord
  <2>3. q = p
    OBVIOUS
  <2> QED BY <2>2, <2>3 DEF Past, Repairing, Phase
<1>2. Spec => NotOvertaken
  BY <1>1, VtoolInvariant, PTL DEF Spec, NotOvertaken, Kept
<1> QED BY <1>2, OnlyOvertakenRepairsResurrect, PTL
=============================================================================
