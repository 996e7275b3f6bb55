---------------------------- MODULE RecordStore ----------------------------
(***************************************************************************)
(* The bounded record store of src/local/record.rs and its native half:    *)
(* one root directory holding a lock file, a stage directory and one       *)
(* regular file per record.  Editors (RecordEdit) hold an advisory lock    *)
(* over a session of operations; readers (RecordStore::inspect) take no    *)
(* lock.                                                                   *)
(*                                                                         *)
(* Covered: every interleaving of editors and lock-free readers at system  *)
(* call granularity, the failure of any fallible call, the death of an     *)
(* editor between two calls (the kernel drops its flock, the files stay),  *)
(* and a power loss that keeps only what was synced.                       *)
(*                                                                         *)
(* Assumed of the file system: rename is atomic, for readers and across a  *)
(* power loss; a directory change that was not synced may or may not       *)
(* survive one; file data that was not synced survives as any prefix.      *)
(* Programs that write below the root without the lock are not modelled    *)
(* beyond the foreign entries (Other) the root may hold from the start.    *)
(***************************************************************************)
EXTENDS Naturals, FiniteSets

CONSTANTS
    Names,      \* admitted record names: one normal component, not lock, not stage
    Payloads,   \* what a source streams
    Size,       \* the length of each payload
    Limits,     \* the RecordLimits callers pass
    Procs,      \* editors
    Readers,    \* lock-free readers
    Missing,    \* no entry at a path
    Other,      \* an entry that is not a plain regular file
    NoProc,     \* nobody holds the lock
    NoData      \* the payload of an operation that has none

File == [data : Payloads, len : Nat, synced : BOOLEAN]

ASSUME ConstantsOK ==
    /\ Size \in [Payloads -> Nat]
    /\ Limits \subseteq Nat \ {0}
    /\ Missing # Other
    /\ Missing \notin File /\ Other \notin File
    /\ NoProc \notin Procs
    /\ NoData \notin Payloads

VARIABLES
    entry,      \* root/name, as every process sees it
    pending,    \* for each name, the entries a power loss now may leave
    stage,      \* root/stage/name
    lockFile,   \* root/lock
    stageDir,   \* root/stage
    lock,       \* the holder of the flock on root/lock
    pc, op,     \* where each editor is, and the operation it runs
    result,     \* what the editor's last call returned
    rpc, read,  \* where each reader is, and its call with its answer
    before,     \* history: the entry when the operation was called
    seen,       \* history: the entries the session has read or written
    confirmed,  \* history: the name's entry was returned as Ok since it changed
    window      \* history: the entries a name had while a reader looked at it

disk == <<entry, pending, stage, lockFile, stageDir, confirmed>>
editors == <<pc, op, result, before, seen>>
readers == <<rpc, read, window>>
vars == <<disk, lock, editors, readers>>

Entry == File \cup {Missing, Other}
Path == {Missing, Other, "own"}
Op == [kind : {"create", "replace", "remove"}, name : Names,
       data : Payloads \cup {NoData}, limit : Limits]
NoOp == [kind |-> "none"]
Read == [name : Names, limit : Limits, file : Entry,
         answer : {"none", "Missing", "Present", "Conflict", "Vanished",
                   "TooLarge", "Failed"}]
NoRead == [answer |-> "none"]
Step == {"idle", "session", "admitted", "reclaimed", "copying", "copied",
         "staged", "renamed", "unlinking", "unlinked", "synced"}
Outcome == {"none", "Created", "Replaced", "Removed", "Unchanged", "Busy",
            "Conflict", "TooLarge", "BeforeCommit", "Committed"}
Nothing == [n \in Names |-> Missing]

Complete(f) == f.len = Size[f.data] /\ f.synced

(* What a power loss may leave of an entry: unsynced data is cut anywhere. *)
Settled(e) ==
    IF e \in File /\ ~e.synced
    THEN {[data |-> e.data, len |-> k, synced |-> TRUE] : k \in 0 .. e.len}
    ELSE {e}

StoreTypeOK ==
    /\ entry \in [Names -> Entry]
    /\ pending \in [Names -> SUBSET Entry]
    /\ stage \in [Names -> Entry]
    /\ \A n \in Names : stage[n] \in File => stage[n].len <= Size[stage[n].data]
    /\ lockFile \in Path /\ stageDir \in Path
    /\ lock \in Procs \cup {NoProc}
    /\ pc \in [Procs -> Step]
    /\ op \in [Procs -> Op \cup {NoOp}]
    /\ result \in [Procs -> Outcome]
    /\ before \in [Procs -> Entry]
    /\ seen \in [Procs -> [Names -> Entry]]
    /\ confirmed \in [Names -> BOOLEAN]

ReaderTypeOK ==
    /\ rpc \in [Readers -> {"idle", "present", "file", "opened"}]
    /\ read \in [Readers -> Read \cup {NoRead}]
    /\ window \in [Readers -> SUBSET Entry]

TypeOK == StoreTypeOK /\ ReaderTypeOK

(***************************************************************************)
(* The root starts with any complete records, foreign entries and stage    *)
(* residue of an editor that died earlier.                                 *)
(***************************************************************************)
Whole(d) == [data |-> d, len |-> Size[d], synced |-> TRUE]

Blank(d) == [data |-> d, len |-> 0, synced |-> FALSE]

Stored == {Whole(d) : d \in {e \in Payloads : \E l \in Limits : Size[e] <= l}}

Init ==
    /\ entry \in [Names -> {Missing, Other} \cup Stored]
    /\ pending = [n \in Names |-> {entry[n]}]
    /\ lockFile \in Path /\ stageDir \in Path
    /\ stage \in [Names -> {Missing, Other} \cup {Blank(d) : d \in Payloads}]
    /\ stageDir # "own" => stage = Nothing
    /\ lock = NoProc
    /\ pc = [p \in Procs |-> "idle"]
    /\ op = [p \in Procs |-> NoOp]
    /\ result = [p \in Procs |-> "none"]
    /\ before = [p \in Procs |-> Missing]
    /\ seen = [p \in Procs |-> Nothing]
    /\ confirmed = [n \in Names |-> FALSE]
    /\ rpc = [r \in Readers |-> "idle"]
    /\ read = [r \in Readers |-> NoRead]
    /\ window = [r \in Readers |-> {}]

-----------------------------------------------------------------------------
(* Session steps shared by the operations.                                 *)

Goto(p, step) ==
    /\ pc' = [pc EXCEPT ![p] = step]
    /\ UNCHANGED <<op, result, before, seen>>

Return(p, outcome) ==
    /\ pc' = [pc EXCEPT ![p] = "session"]
    /\ result' = [result EXCEPT ![p] = outcome]
    /\ UNCHANGED <<op, before, seen>>

(* The call's first step: it reads the entry and is admitted or returns.   *)
Call(p, o, step, outcome) ==
    /\ pc' = [pc EXCEPT ![p] = step]
    /\ op' = [op EXCEPT ![p] = o]
    /\ before' = [before EXCEPT ![p] = entry[o.name]]
    /\ result' = [result EXCEPT ![p] = outcome]
    /\ UNCHANGED seen

(* A directory operation on root/n that every process sees at once.        *)
SetEntry(n, e) ==
    /\ entry' = [entry EXCEPT ![n] = e]
    /\ pending' = [pending EXCEPT ![n] = @ \cup {e}]
    /\ confirmed' = [confirmed EXCEPT ![n] = FALSE]
    /\ window' = [r \in Readers |->
                    IF rpc[r] # "idle" /\ read[r].name = n
                    THEN window[r] \cup {e} ELSE window[r]]

(* The session is gone; whatever it left on disk stays.                    *)
Forget(p) ==
    /\ pc' = [pc EXCEPT ![p] = "idle"]
    /\ op' = [op EXCEPT ![p] = NoOp]
    /\ before' = [before EXCEPT ![p] = Missing]
    /\ seen' = [seen EXCEPT ![p] = Nothing]
    /\ result' = [result EXCEPT ![p] = "none"]
    /\ lock' = IF lock = p THEN NoProc ELSE lock

-----------------------------------------------------------------------------
(* RecordStore::edit: a foreign entry at the lock path is a conflict, a    *)
(* held lock is reported and never waited for, any call may fail.          *)

Refuse(p, outcome) ==
    /\ pc[p] = "idle"
    /\ result' = [result EXCEPT ![p] = outcome]
    /\ UNCHANGED <<disk, lock, pc, op, before, seen, readers>>

EditConflict(p) == lockFile = Other /\ Refuse(p, "Conflict")
EditBusy(p) == lockFile # Other /\ lock # NoProc /\ Refuse(p, "Busy")

(* The call that fails may come after the open that creates the lock file. *)
EditFails(p) ==
    /\ pc[p] = "idle"
    /\ lockFile' \in {lockFile} \cup (IF lockFile = Missing THEN {"own"} ELSE {})
    /\ result' = [result EXCEPT ![p] = "BeforeCommit"]
    /\ UNCHANGED <<entry, pending, stage, stageDir, confirmed, lock, pc, op, before, seen,
                   readers>>

(* Seeded fault: the lock is opened but never taken exclusively.           *)
EditAcquires_NoFlock(p) ==
    /\ pc[p] = "idle"
    /\ lockFile # Other
    /\ lock' = p
    /\ lockFile' = "own"
    /\ pc' = [pc EXCEPT ![p] = "session"]
    /\ result' = [result EXCEPT ![p] = "none"]
    /\ seen' = [seen EXCEPT ![p] = entry]
    /\ UNCHANGED <<entry, pending, stage, stageDir, confirmed, op, before, readers>>

EditAcquires(p) ==
    /\ pc[p] = "idle"
    /\ lockFile # Other
    /\ lock = NoProc
    /\ lock' = p
    /\ lockFile' = "own"
    /\ pc' = [pc EXCEPT ![p] = "session"]
    /\ result' = [result EXCEPT ![p] = "none"]
    /\ seen' = [seen EXCEPT ![p] = entry]
    /\ UNCHANGED <<entry, pending, stage, stageDir, confirmed, op, before, readers>>

(* Drop of RecordEdit, and the death of the process that holds it.         *)
Release(p) == pc[p] = "session" /\ Forget(p) /\ UNCHANGED <<disk, readers>>
Die(p) == pc[p] \notin {"idle", "session"} /\ Forget(p) /\ UNCHANGED <<disk, readers>>

-----------------------------------------------------------------------------
(* RecordEdit::write, for create_from (kind create) and replace_from.      *)

WriteCall(p, o) ==
    /\ pc[p] = "session"
    /\ o.kind # "remove" /\ o.data # NoData
    /\ \/ /\ IF o.kind = "create" THEN entry[o.name] = Missing ELSE entry[o.name] \in File
          /\ Call(p, o, "admitted", "none")
       \/ /\ IF o.kind = "create" THEN entry[o.name] # Missing ELSE entry[o.name] \notin File
          /\ Call(p, o, "session", "Conflict")
    /\ UNCHANGED <<disk, lock, readers>>

(* ensure_stage, then reclaim of what a failed or dead editor left there.  *)
Prepare(p) ==
    /\ pc[p] = "admitted"
    /\ \/ /\ stageDir = Other \/ stage[op[p].name] = Other
          /\ Return(p, "Conflict")
          /\ UNCHANGED <<stage, stageDir>>
       \/ /\ stageDir # Other /\ stage[op[p].name] # Other
          /\ stageDir' = "own"
          /\ stage' = [stage EXCEPT ![op[p].name] = Missing]
          /\ Goto(p, "reclaimed")
    /\ UNCHANGED <<entry, pending, lockFile, confirmed, lock, readers>>

CreateStage(p) ==
    /\ pc[p] = "reclaimed"
    /\ \/ /\ stage[op[p].name] = Missing
          /\ stage' = [stage EXCEPT ![op[p].name] = Blank(op[p].data)]
          /\ Goto(p, "copying")
       \/ /\ stage[op[p].name] # Missing
          /\ Return(p, "BeforeCommit")
          /\ UNCHANGED stage
    /\ UNCHANGED <<entry, pending, lockFile, stageDir, confirmed, lock, readers>>

(* copy_bounded: at most limit bytes reach the stage, one more byte in the *)
(* source is an error that leaves them there.                              *)
Admitted(o) == IF Size[o.data] <= o.limit THEN Size[o.data] ELSE o.limit

CopyChunk(p) ==
    /\ pc[p] = "copying"
    /\ stage[op[p].name].len < Admitted(op[p])
    /\ stage' = [stage EXCEPT ![op[p].name].len = @ + 1]
    /\ UNCHANGED <<entry, pending, lockFile, stageDir, confirmed, lock, editors, readers>>

(* Seeded fault: the copy is cut at the limit and nobody looks further.    *)
CopyEnds_Truncates(p) ==
    /\ pc[p] = "copying"
    /\ stage[op[p].name].len = Admitted(op[p])
    /\ Goto(p, "copied")
    /\ UNCHANGED <<disk, lock, readers>>

CopyEnds(p) ==
    /\ pc[p] = "copying"
    /\ stage[op[p].name].len = Admitted(op[p])
    /\ IF Size[op[p].data] > op[p].limit THEN Return(p, "TooLarge") ELSE Goto(p, "copied")
    /\ UNCHANGED <<disk, lock, readers>>

(* Seeded fault: the staged file is renamed without being synced.          *)
SyncStage_Skipped(p) ==
    /\ pc[p] = "copied"
    /\ Goto(p, "staged")
    /\ UNCHANGED <<disk, lock, readers>>

SyncStage(p) ==
    /\ pc[p] = "copied"
    /\ stage' = [stage EXCEPT ![op[p].name].synced = TRUE]
    /\ Goto(p, "staged")
    /\ UNCHANGED <<entry, pending, lockFile, stageDir, confirmed, lock, readers>>

(* commit: rename, with NOREPLACE for a create.                            *)
Commit(p) ==
    /\ pc[p] = "staged"
    /\ op[p].kind = "create" => entry[op[p].name] = Missing
    /\ SetEntry(op[p].name, stage[op[p].name])
    /\ stage' = [stage EXCEPT ![op[p].name] = Missing]
    /\ pc' = [pc EXCEPT ![p] = "renamed"]
    /\ seen' = [seen EXCEPT ![p][op[p].name] = stage[op[p].name]]
    /\ UNCHANGED <<lockFile, stageDir, lock, op, result, before, rpc, read>>

(* Any call of write before the rename, or the rename itself, may fail.    *)
WriteFails(p) ==
    /\ pc[p] \in {"admitted", "reclaimed", "copying", "copied", "staged"}
    /\ Return(p, "BeforeCommit")
    /\ UNCHANGED <<disk, lock, readers>>

-----------------------------------------------------------------------------
(* RecordEdit::remove.                                                     *)

RemoveCall(p, o) ==
    /\ pc[p] = "session"
    /\ o.kind = "remove" /\ o.data = NoData
    /\ CASE entry[o.name] = Missing -> Call(p, o, "session", "Unchanged")
         [] entry[o.name] = Other -> Call(p, o, "session", "Conflict")
         [] OTHER -> Call(p, o, "unlinking", "none")
    /\ UNCHANGED <<disk, lock, readers>>

Unlink(p) ==
    /\ pc[p] = "unlinking"
    /\ SetEntry(op[p].name, Missing)
    /\ pc' = [pc EXCEPT ![p] = "unlinked"]
    /\ seen' = [seen EXCEPT ![p][op[p].name] = Missing]
    /\ UNCHANGED <<stage, lockFile, stageDir, lock, op, result, before, rpc, read>>

UnlinkFails(p) ==
    /\ pc[p] = "unlinking"
    /\ Return(p, "BeforeCommit")
    /\ UNCHANGED <<disk, lock, readers>>

-----------------------------------------------------------------------------
(* The tail both operations share: sync_parent, then a second look at the  *)
(* entry.  Syncing the root settles every name in it.                      *)

(* Seeded fault: the directory is synced after a rename, not an unlink.    *)
SyncParent_NotForRemove(p) ==
    /\ pc[p] \in {"renamed", "unlinked"}
    /\ pending' = IF pc[p] = "renamed" THEN [n \in Names |-> {entry[n]}] ELSE pending
    /\ Goto(p, "synced")
    /\ UNCHANGED <<entry, stage, lockFile, stageDir, confirmed, lock, readers>>

(* Seeded fault: the record is synced again, not its directory.            *)
SyncParent_SyncsRecord(p) ==
    /\ pc[p] \in {"renamed", "unlinked"}
    /\ Goto(p, "synced")
    /\ UNCHANGED <<disk, lock, readers>>

SyncParent(p) ==
    /\ pc[p] \in {"renamed", "unlinked"}
    /\ pending' = [n \in Names |-> {entry[n]}]
    /\ Goto(p, "synced")
    /\ UNCHANGED <<entry, stage, lockFile, stageDir, confirmed, lock, readers>>

SyncParentFails(p) ==
    /\ pc[p] \in {"renamed", "unlinked"}
    /\ Return(p, "Committed")
    /\ UNCHANGED <<disk, lock, readers>>

Done(o) ==
    CASE o.kind = "create" -> "Created"
      [] o.kind = "replace" -> "Replaced"
      [] OTHER -> "Removed"

(* What the second look makes of the entry: of a record, its length alone  *)
(* is compared, and a missing one has none.                                *)
LookedAt(o, e) ==
    IF o.kind = "remove" THEN IF e = Missing THEN Done(o) ELSE "Conflict"
    ELSE CASE e = Other -> "Conflict"
           [] e \in File /\ e.len > o.limit -> "TooLarge"
           [] OTHER -> IF Size[o.data] = (IF e = Missing THEN 0 ELSE e.len)
                       THEN Done(o) ELSE "Conflict"

Verify(p) ==
    LET answer == LookedAt(op[p], entry[op[p].name]) IN
    /\ pc[p] = "synced"
    /\ Return(p, answer)
    /\ IF answer = Done(op[p]) THEN confirmed' = [confirmed EXCEPT ![op[p].name] = TRUE]
                               ELSE UNCHANGED confirmed
    /\ UNCHANGED <<entry, pending, stage, lockFile, stageDir, lock, readers>>

(* The second look fails, and says "before commit" of a change that is     *)
(* visible and durable.                                                    *)
VerifyFails(p) ==
    /\ pc[p] = "synced"
    /\ Return(p, "BeforeCommit")
    /\ UNCHANGED <<disk, lock, readers>>

-----------------------------------------------------------------------------
(* RecordStore::inspect, without the lock: two looks at the path, then an  *)
(* open and a bounded read of the file that was opened.  An opened file is *)
(* never written again, whatever happens to its name.                      *)

Answer(r, answer) ==
    /\ rpc' = [rpc EXCEPT ![r] = "idle"]
    /\ read' = [read EXCEPT ![r].answer = answer]
    /\ UNCHANGED <<disk, lock, editors, window>>

InspectCall(r, n, l) ==
    /\ rpc[r] = "idle"
    /\ rpc' = [rpc EXCEPT ![r] = IF entry[n] = Missing THEN "idle" ELSE "present"]
    /\ read' = [read EXCEPT ![r] =
                  [name |-> n, limit |-> l, file |-> Missing,
                   answer |-> IF entry[n] = Missing THEN "Missing" ELSE "none"]]
    /\ window' = [window EXCEPT ![r] = {entry[n]}]
    /\ UNCHANGED <<disk, lock, editors>>

(* Seeded fault: whatever is no regular file counts as missing.            *)
InspectKind_OtherIsMissing(r) ==
    /\ rpc[r] = "present"
    /\ \/ entry[read[r].name] \notin File /\ Answer(r, "Missing")
       \/ /\ entry[read[r].name] \in File
          /\ rpc' = [rpc EXCEPT ![r] = "file"]
          /\ UNCHANGED <<disk, lock, editors, read, window>>

(* Seeded fault: the reader looks again until it finds a regular file.     *)
InspectKind_Retries(r) ==
    /\ rpc[r] = "present"
    /\ entry[read[r].name] \in File
    /\ rpc' = [rpc EXCEPT ![r] = "file"]
    /\ UNCHANGED <<disk, lock, editors, read, window>>

InspectKind(r) ==
    /\ rpc[r] = "present"
    /\ \/ entry[read[r].name] \notin File /\ Answer(r, "Conflict")
       \/ /\ entry[read[r].name] \in File
          /\ rpc' = [rpc EXCEPT ![r] = "file"]
          /\ UNCHANGED <<disk, lock, editors, read, window>>

InspectOpen(r) ==
    /\ rpc[r] = "file"
    /\ \/ entry[read[r].name] = Missing /\ Answer(r, "Vanished")
       \/ /\ entry[read[r].name] # Missing
          /\ rpc' = [rpc EXCEPT ![r] = "opened"]
          /\ read' = [read EXCEPT ![r].file = entry[read[r].name]]
          /\ UNCHANGED <<disk, lock, editors, window>>

InspectRead(r) ==
    /\ rpc[r] = "opened"
    /\ Answer(r, IF read[r].file.len > read[r].limit THEN "TooLarge" ELSE "Present")

InspectFails(r) == rpc[r] # "idle" /\ Answer(r, "Failed")

-----------------------------------------------------------------------------
(* A power loss: each name keeps one of its pending entries, unsynced data *)
(* is cut, stage residue may or may not be there; nobody survives.         *)
PowerLoss ==
    /\ entry' \in [Names -> UNION {Settled(e) : e \in UNION {pending[n] : n \in Names}}]
    /\ \A n \in Names : \E e \in pending[n] : entry'[n] \in Settled(e)
    /\ pending' = [n \in Names |-> {entry'[n]}]
    /\ \E keep \in SUBSET Names :
         stage' = [n \in Names |-> IF n \in keep \/ stage[n] = Other THEN stage[n] ELSE Missing]
    /\ lock' = NoProc
    /\ pc' = [p \in Procs |-> "idle"]
    /\ op' = [p \in Procs |-> NoOp]
    /\ result' = [p \in Procs |-> "none"]
    /\ before' = [p \in Procs |-> Missing]
    /\ seen' = [p \in Procs |-> Nothing]
    /\ rpc' = [r \in Readers |-> "idle"]
    /\ read' = [r \in Readers |-> NoRead]
    /\ window' = [r \in Readers |-> {}]
    /\ UNCHANGED <<lockFile, stageDir, confirmed>>

Advance(p) ==
    \/ Prepare(p) \/ CreateStage(p) \/ CopyChunk(p) \/ CopyEnds(p) \/ SyncStage(p)
    \/ Commit(p) \/ Unlink(p) \/ SyncParent(p) \/ Verify(p)

Fails(p) == WriteFails(p) \/ UnlinkFails(p) \/ SyncParentFails(p) \/ VerifyFails(p)

EditorStep(p) ==
    \/ EditConflict(p) \/ EditBusy(p) \/ EditFails(p) \/ EditAcquires(p)
    \/ Release(p) \/ Die(p)
    \/ \E o \in Op : WriteCall(p, o) \/ RemoveCall(p, o)
    \/ Advance(p) \/ Fails(p)

ReaderAdvance(r) == InspectKind(r) \/ InspectOpen(r) \/ InspectRead(r)

ReaderStep(r) ==
    \/ \E n \in Names, l \in Limits : InspectCall(r, n, l)
    \/ ReaderAdvance(r) \/ InspectFails(r)

Next ==
    \/ \E p \in Procs : EditorStep(p)
    \/ \E r \in Readers : ReaderStep(r)
    \/ PowerLoss

Spec == Init /\ [][Next]_vars

(* A call, once made, is run by a thread the scheduler does not starve.    *)
(* Nothing obliges a program to make calls or to end its session, and no   *)
(* failure is bound to happen.                                             *)
Fairness ==
    /\ \A p \in Procs : WF_vars(Advance(p))
    /\ \A r \in Readers : WF_vars(ReaderAdvance(r))

FairSpec == Spec /\ Fairness
=============================================================================
