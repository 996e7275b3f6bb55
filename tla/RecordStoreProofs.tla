-------------------------- MODULE RecordStoreProofs --------------------------
(***************************************************************************)
(* Proofs about the record store, for any sets of names, payloads, limits, *)
(* editors and readers.                                                    *)
(***************************************************************************)
EXTENDS RecordStoreProps, TLAPS

Writing == {"admitted", "reclaimed", "copying", "copied", "staged"}

(* Where a write stands on its stage file.                                 *)
StageInv(p) ==
    LET o == op[p]
        s == stage[o.name] IN
    /\ pc[p] = "reclaimed" => s = Missing
    /\ pc[p] = "copying" =>
         s \in File /\ s.data = o.data /\ s.len <= Admitted(o)
    /\ pc[p] = "copied" =>
         s \in File /\ s.data = o.data /\ s.len = Size[o.data] /\ Size[o.data] <= o.limit
    /\ pc[p] = "staged" => s = Whole(o.data) /\ Size[o.data] <= o.limit

(* Where an operation stands on the entry.                                 *)
EntryInv(p) ==
    LET o == op[p]
        e == entry[o.name] IN
    /\ pc[p] \in Writing =>
         /\ o.kind # "remove" /\ o.data \in Payloads
         /\ e = before[p]
         /\ IF o.kind = "create" THEN e = Missing ELSE e \in File
    /\ pc[p] = "unlinking" => o.kind = "remove" /\ e = before[p] /\ e \in File
    /\ pc[p] = "renamed" => o.kind # "remove"
    /\ pc[p] = "unlinked" => o.kind = "remove"
    /\ pc[p] \in {"renamed", "unlinked", "synced"} => e = Requested(o)
    /\ pc[p] \in {"renamed", "synced"} /\ o.kind # "remove" => Size[o.data] <= o.limit
    /\ o.kind # "remove" => o.data \in Payloads
    /\ pc[p] = "synced" => pending[o.name] = {e}

CallInv ==
    \A p \in Procs : pc[p] \notin {"idle", "session"} =>
        op[p] \in Op /\ StageInv(p) /\ EntryInv(p)

SessionInv == \A p \in Procs : pc[p] # "idle" => lock = p /\ seen[p] = entry

DataInv ==
    \A p \in Procs : op[p] # NoOp =>
        op[p] \in Op /\ (op[p].kind # "remove" => op[p].data \in Payloads)

PendingInv ==
    \A n \in Names :
        /\ entry[n] \in pending[n]
        /\ confirmed[n] => pending[n] = {entry[n]}

StoreInv ==
    /\ StoreTypeOK
    /\ SessionInv
    /\ NoTornRecord
    /\ CallInv
    /\ PendingInv
    /\ OutcomeTruthful

storeVars == <<disk, lock, editors>>

USE ConstantsOK DEF ConstantsOK

LEMMA InitStore == Init => StoreInv
<1> SUFFICES ASSUME Init PROVE StoreInv
    OBVIOUS
<1>0. ASSUME NEW d \in Payloads PROVE Whole(d) \in File
    BY DEF Whole, File
<1>1. Stored \subseteq File
    BY <1>0 DEF Stored
<1>2. StoreTypeOK
  <2>1. ASSUME NEW d \in Payloads PROVE Blank(d) \in File /\ Blank(d).len = 0
    BY DEF Blank, File
  <2>2. /\ stage \in [Names -> Entry]
        /\ \A n \in Names : stage[n] \in File => stage[n].len = 0 /\ stage[n].data \in Payloads
    BY <2>1 DEF Init, Entry, File
  <2>3. \A n \in Names : stage[n] \in File => stage[n].len <= Size[stage[n].data]
    BY <2>2
  <2>4. QED
    BY <1>1, <2>2, <2>3 DEF Init, StoreTypeOK, Entry, Path, Step, Outcome, Nothing, File
<1>3. SessionInv /\ CallInv /\ OutcomeTruthful
    BY DEF Init, SessionInv, CallInv, OutcomeTruthful
<1>4. PendingInv
    BY DEF Init, PendingInv
<1>5. NoTornRecord
    BY <1>1 DEF Init, NoTornRecord, Stored, Whole, Complete, File
<1>6. QED
    BY <1>2, <1>3, <1>4, <1>5 DEF StoreInv

LEMMA StutterStore == StoreInv /\ UNCHANGED storeVars => StoreInv'
<1> SUFFICES ASSUME StoreInv, UNCHANGED storeVars PROVE StoreInv'
  OBVIOUS
<1> USE DEF StoreInv, storeVars, disk, editors
<1>1. StoreTypeOK' /\ SessionInv' /\ NoTornRecord' /\ PendingInv'
  BY DEF StoreTypeOK, SessionInv, NoTornRecord, PendingInv, Complete
<1>2. CallInv'
  <2>1. ASSUME NEW p \in Procs, StageInv(p), EntryInv(p) PROVE StageInv(p)' /\ EntryInv(p)'
    <3>1. StageInv(p)'
      BY <2>1 DEF StageInv
    <3>2. EntryInv(p)'
      BY <2>1 DEF EntryInv
    <3>3. QED
      BY <3>1, <3>2
  <2>2. QED
    BY <2>1 DEF CallInv
<1>3. OutcomeTruthful'
  BY DEF OutcomeTruthful, OutcomeTold, Untouched
<1>4. QED
  BY <1>1, <1>2, <1>3

(* While an editor is in a session every other one is idle.                *)
LEMMA OneEditor ==
    ASSUME StoreInv, NEW p \in Procs, pc[p] # "idle", NEW q \in Procs, q # p
    PROVE  pc[q] = "idle" /\ lock = p /\ seen[p] = entry
BY DEF StoreInv, SessionInv

(* The others being idle, an editor's step needs to keep its own part.     *)
LEMMA OwnCall ==
    ASSUME StoreInv, NEW p \in Procs, pc[p] # "idle",
           \A q \in Procs : q # p => pc'[q] = pc[q],
           op'[p] \in Op, StageInv(p)', EntryInv(p)'
    PROVE  CallInv'
<1>1. \A q \in Procs : q # p => pc'[q] = "idle"
  BY OneEditor
<1>2. QED
  BY <1>1 DEF CallInv

LEMMA WholeIsFile ==
    ASSUME NEW d \in Payloads
    PROVE  Whole(d) \in File /\ Complete(Whole(d)) /\ Whole(d).len = Size[d] /\ Whole(d).data = d
BY DEF Whole, File, Complete

(* An editor inside a call.                                                *)
LEMMA InCall ==
    ASSUME StoreInv, NEW p \in Procs, pc[p] \notin {"idle", "session"}
    PROVE  /\ op[p] \in Op /\ op[p] # NoOp
           /\ op[p].name \in Names /\ op[p].limit \in Limits
           /\ lock = p /\ seen[p] = entry
           /\ StageInv(p) /\ EntryInv(p)
<1>1. op[p] \in Op /\ StageInv(p) /\ EntryInv(p) /\ lock = p /\ seen[p] = entry
  BY DEF StoreInv, CallInv, SessionInv
<1>2. op[p].kind # "none" /\ op[p].name \in Names /\ op[p].limit \in Limits
  BY <1>1 DEF Op
<1>3. QED
  BY <1>1, <1>2 DEF NoOp

LEMMA CommitStep == ASSUME StoreInv, NEW p \in Procs, Commit(p) PROVE StoreInv'
<1> DEFINE n == op[p].name
           s == stage[n]
<1> USE DEF StoreInv, Commit, SetEntry
<1>0. /\ op[p] \in Op /\ n \in Names /\ lock = p
      /\ op[p].kind # "remove" /\ op[p].data \in Payloads
      /\ s = Whole(op[p].data) /\ s \in File /\ Complete(s) /\ s.len <= op[p].limit
      /\ op[p].limit \in Limits
  BY InCall, WholeIsFile DEF StageInv, EntryInv, Writing
<1>1. StoreTypeOK'
  BY <1>0 DEF StoreTypeOK, Entry, Step
<1>2. SessionInv'
  BY <1>0 DEF SessionInv, StoreTypeOK
<1>3. NoTornRecord'
  BY <1>0 DEF NoTornRecord, StoreTypeOK, Complete
<1>4. CallInv'
  <2>1. pc'[p] \notin Writing /\ StageInv(p)'
    BY <1>0 DEF StageInv, StoreTypeOK, Writing
  <2>2. EntryInv(p)'
    BY <1>0, <2>1 DEF EntryInv, StoreTypeOK, Requested, Whole
  <2>3. QED
    BY <1>0, <2>1, <2>2, OwnCall DEF StoreTypeOK
<1>5. PendingInv'
  BY <1>0 DEF PendingInv, StoreTypeOK
<1>6. OutcomeTruthful'
  BY <1>0, OneEditor DEF OutcomeTruthful, StoreTypeOK
<1>7. QED
  BY <1>1, <1>2, <1>3, <1>4, <1>5, <1>6

LEMMA UnlinkStep == ASSUME StoreInv, NEW p \in Procs, Unlink(p) PROVE StoreInv'
<1> DEFINE n == op[p].name
<1> USE DEF StoreInv, Unlink, SetEntry
<1>0. op[p] \in Op /\ n \in Names /\ lock = p /\ op[p].kind = "remove"
  BY InCall DEF EntryInv
<1>1. StoreTypeOK'
  BY <1>0 DEF StoreTypeOK, Entry, Step
<1>2. SessionInv'
  BY <1>0 DEF SessionInv, StoreTypeOK
<1>3. NoTornRecord'
  BY <1>0 DEF NoTornRecord, StoreTypeOK, Complete
<1>4. CallInv'
  <2>1. pc'[p] \notin Writing /\ StageInv(p)'
    BY <1>0 DEF StageInv, StoreTypeOK, Writing
  <2>2. EntryInv(p)'
    BY <1>0, <2>1 DEF EntryInv, StoreTypeOK, Requested
  <2>3. QED
    BY <1>0, <2>1, <2>2, OwnCall DEF StoreTypeOK
<1>5. PendingInv'
  BY <1>0 DEF PendingInv, StoreTypeOK
<1>6. OutcomeTruthful'
  BY <1>0, OneEditor DEF OutcomeTruthful, StoreTypeOK
<1>7. QED
  BY <1>1, <1>2, <1>3, <1>4, <1>5, <1>6

(* A step of a call that leaves the entries alone and goes on.             *)
LEMMA GotoStep ==
    ASSUME StoreInv, NEW p \in Procs, NEW step \in Step \ {"idle", "session"},
           pc[p] \notin {"idle", "session"}, Goto(p, step),
           UNCHANGED <<entry, pending, lockFile, confirmed, lock>>,
           stageDir' \in Path, stage' \in [Names -> Entry],
           \A n \in Names : stage'[n] \in File => stage'[n].len <= Size[stage'[n].data],
           StageInv(p)', EntryInv(p)'
    PROVE  StoreInv'
<1> USE DEF StoreInv, Goto
<1>0. op[p] \in Op /\ lock = p
  BY InCall
<1>1. StoreTypeOK'
  BY DEF StoreTypeOK
<1>2. SessionInv'
  BY <1>0 DEF SessionInv, StoreTypeOK
<1>3. NoTornRecord'
  BY DEF NoTornRecord, Complete
<1>4. CallInv'
  BY <1>0, OneEditor DEF CallInv, StoreTypeOK
<1>5. PendingInv'
  BY DEF PendingInv
<1>6. OutcomeTruthful'
  BY OneEditor DEF OutcomeTruthful, StoreTypeOK
<1>7. QED
  BY <1>1, <1>2, <1>3, <1>4, <1>5, <1>6

(* The end of a call that leaves the disk alone, but for the confirmation. *)
LEMMA ReturnStep ==
    ASSUME StoreInv, NEW p \in Procs, NEW outcome \in Outcome,
           pc[p] \notin {"idle", "session"}, Return(p, outcome),
           UNCHANGED <<entry, pending, stage, lockFile, stageDir, lock>>,
           confirmed' \in [Names -> BOOLEAN], PendingInv',
           OutcomeTold(p)'
    PROVE  StoreInv'
<1> USE DEF StoreInv, Return
<1>0. op[p] \in Op /\ lock = p
  BY InCall
<1>1. StoreTypeOK'
  BY DEF StoreTypeOK, Step
<1>2. SessionInv'
  BY <1>0 DEF SessionInv, StoreTypeOK
<1>3. NoTornRecord'
  BY DEF NoTornRecord, Complete
<1>4. CallInv'
  BY <1>0, OneEditor DEF CallInv, StoreTypeOK
<1>5. OutcomeTruthful'
  BY OneEditor DEF OutcomeTruthful, StoreTypeOK
<1>6. QED
  BY <1>1, <1>2, <1>3, <1>4, <1>5

LEMMA SameFile ==
    ASSUME NEW f \in File, NEW g \in File,
           f.data = g.data, f.len = g.len, f.synced = g.synced
    PROVE  f = g
BY DEF File

LEMMA SyncedFile ==
    ASSUME NEW f \in File
    PROVE  [f EXCEPT !.synced = TRUE] = [data |-> f.data, len |-> f.len, synced |-> TRUE]
<1> DEFINE g == [f EXCEPT !.synced = TRUE]
           h == [data |-> f.data, len |-> f.len, synced |-> TRUE]
<1>1. g \in File /\ g.data = f.data /\ g.len = f.len /\ g.synced = TRUE
  BY DEF File
<1>2. h \in File /\ h.data = f.data /\ h.len = f.len /\ h.synced = TRUE
  BY DEF File
<1> HIDE DEF g, h
<1>3. g = h
  BY <1>1, <1>2, SameFile
<1>4. QED
  BY <1>3 DEF g, h

(* The stage keeps its type when one file of it is changed.                *)
LEMMA StageUpdate ==
    ASSUME StoreTypeOK, NEW n \in Names, NEW f \in Entry,
           f \in File => f.len <= Size[f.data],
           stage' = [stage EXCEPT ![n] = f]
    PROVE  /\ stage' \in [Names -> Entry]
           /\ \A m \in Names : stage'[m] \in File => stage'[m].len <= Size[stage'[m].data]
           /\ stage'[n] = f
BY DEF StoreTypeOK

LEMMA PrepareStep == ASSUME StoreInv, NEW p \in Procs, Prepare(p) PROVE StoreInv'
<1> USE DEF Prepare
<1>0. op[p].name \in Names /\ StageInv(p) /\ EntryInv(p) /\ StoreTypeOK /\ PendingInv
  BY InCall DEF StoreInv
<1>1. CASE Return(p, "Conflict")
  <2>1. OutcomeTold(p)'
    BY <1>0, <1>1 DEF OutcomeTold, Untouched, Return, EntryInv, Writing, StoreTypeOK
  <2>2. UNCHANGED <<stage, stageDir, confirmed>>
    BY <1>1 DEF Return, Goto, StoreTypeOK, StoreInv
  <2>3. QED
    BY <1>0, <1>1, <2>1, <2>2, ReturnStep DEF Outcome, PendingInv, StoreTypeOK
<1>2. CASE Goto(p, "reclaimed")
  <2>1. /\ stage' = [stage EXCEPT ![op[p].name] = Missing] /\ stageDir' = "own"
    BY <1>0, <1>2 DEF Goto, Return, StoreTypeOK
  <2>2. StageInv(p)' /\ EntryInv(p)'
    BY <1>0, <1>2, <2>1 DEF StageInv, EntryInv, Goto, StoreTypeOK, Writing, Requested
  <2>3. QED
    BY <1>0, <1>2, <2>1, <2>2, GotoStep DEF Step, Path, StoreTypeOK, Entry
<1>3. QED
  BY <1>1, <1>2

LEMMA CreateStageStep == ASSUME StoreInv, NEW p \in Procs, CreateStage(p) PROVE StoreInv'
<1> USE DEF CreateStage
<1>0. /\ op[p].name \in Names /\ StageInv(p) /\ EntryInv(p) /\ StoreTypeOK
      /\ op[p] \in Op
  BY InCall DEF StoreInv
<1>1. stage[op[p].name] = Missing /\ op[p].data \in Payloads
  BY <1>0 DEF StageInv, EntryInv, Writing
<1>2. Blank(op[p].data) \in File /\ Blank(op[p].data).len = 0 /\ Blank(op[p].data).data = op[p].data
  BY <1>1 DEF Blank, File
<1>3. stage' = [stage EXCEPT ![op[p].name] = Blank(op[p].data)] /\ Goto(p, "copying")
  BY <1>1
<1>4. Admitted(op[p]) \in Nat
  BY <1>0, <1>1 DEF Admitted, Op
<1>5. StageInv(p)' /\ EntryInv(p)'
  BY <1>0, <1>2, <1>3, <1>4 DEF StageInv, EntryInv, Goto, StoreTypeOK, Writing, Requested
<1>6. /\ stage' \in [Names -> Entry]
      /\ \A n \in Names : stage'[n] \in File => stage'[n].len <= Size[stage'[n].data]
  <2>1. Blank(op[p].data) \in Entry /\ Blank(op[p].data).len <= Size[Blank(op[p].data).data]
    BY <1>1, <1>2 DEF Entry
  <2>2. QED
    BY <1>0, <1>3, <2>1, StageUpdate
<1>7. QED
  BY <1>0, <1>3, <1>5, <1>6, GotoStep DEF Step, StoreTypeOK

LEMMA CopyChunkStep == ASSUME StoreInv, NEW p \in Procs, CopyChunk(p) PROVE StoreInv'
<1> DEFINE s == stage[op[p].name]
<1> USE DEF CopyChunk
<1>0. /\ op[p].name \in Names /\ StageInv(p) /\ EntryInv(p) /\ StoreTypeOK
      /\ op[p] \in Op
  BY InCall DEF StoreInv
<1>1. s \in File /\ s.data = op[p].data /\ op[p].data \in Payloads /\ s.len < Admitted(op[p])
  BY <1>0 DEF StageInv, EntryInv, Writing
<1> DEFINE t == [s EXCEPT !.len = s.len + 1]
<1>a. t \in File /\ t.data = s.data /\ t.len = s.len + 1 /\ s.len \in Nat
  BY <1>1 DEF File
<1>b. stage' = [stage EXCEPT ![op[p].name] = t]
  BY <1>0
<1> HIDE DEF t
<1>2. /\ s' = t /\ UNCHANGED <<pc, op>>
      /\ \A n \in Names : n # op[p].name => stage'[n] = stage[n]
      /\ stage' \in [Names -> Entry]
  <2>1. t \in Entry
    BY <1>a DEF Entry
  <2>2. UNCHANGED <<pc, op>>
    BY DEF editors
  <2>3. stage'[op[p].name] = t /\ stage' \in [Names -> Entry]
    BY <1>0, <1>b, <2>1 DEF StoreTypeOK
  <2>4. QED
    BY <1>0, <1>b, <2>2, <2>3 DEF StoreTypeOK
<1>3. Admitted(op[p]) \in Nat /\ Admitted(op[p]) <= Size[op[p].data]
  BY <1>0, <1>1 DEF Admitted, Op
<1>4. s'.len <= Admitted(op[p])
  BY <1>1, <1>a, <1>2, <1>3
<1>5. StageInv(p)' /\ EntryInv(p)'
  BY <1>0, <1>1, <1>a, <1>2, <1>4 DEF StageInv, EntryInv, StoreTypeOK, Writing, Requested, editors
<1>6. s'.len <= Size[s'.data]
  BY <1>1, <1>a, <1>2, <1>3, <1>4
<1>7. \A n \in Names : stage'[n] \in File => stage'[n].len <= Size[stage'[n].data]
  BY <1>0, <1>2, <1>6 DEF StoreTypeOK
<1>8. Goto(p, "copying")
  BY <1>0 DEF Goto, editors, StoreTypeOK
<1>9. QED
  BY <1>0, <1>2, <1>5, <1>7, <1>8, GotoStep DEF Step, StoreTypeOK

LEMMA CopyEndsStep == ASSUME StoreInv, NEW p \in Procs, CopyEnds(p) PROVE StoreInv'
<1> USE DEF CopyEnds, disk
<1>0. /\ op[p].name \in Names /\ StageInv(p) /\ EntryInv(p) /\ StoreTypeOK /\ PendingInv
      /\ op[p] \in Op /\ op[p].data \in Payloads /\ Size[op[p].data] \in Nat /\ op[p].limit \in Nat
  BY InCall DEF StoreInv, EntryInv, Writing, Op
<1>1. CASE Size[op[p].data] > op[p].limit
  <2>1. Return(p, "TooLarge")
    BY <1>1
  <2>2. OutcomeTold(p)'
    BY <1>0, <2>1 DEF OutcomeTold, Untouched, Return, EntryInv, Writing, StoreTypeOK
  <2>3. QED
    BY <1>0, <2>1, <2>2, ReturnStep DEF Outcome, PendingInv, StoreTypeOK
<1>2. CASE ~(Size[op[p].data] > op[p].limit)
  <2>1. Goto(p, "copied") /\ Admitted(op[p]) = Size[op[p].data] /\ Size[op[p].data] <= op[p].limit
    BY <1>0, <1>2 DEF Admitted
  <2>2. StageInv(p)' /\ EntryInv(p)'
    BY <1>0, <2>1 DEF StageInv, EntryInv, Goto, StoreTypeOK, Writing, Requested
  <2>3. QED
    BY <1>0, <2>1, <2>2, GotoStep DEF Step, StoreTypeOK
<1>3. QED
  BY <1>1, <1>2

LEMMA SyncStageStep == ASSUME StoreInv, NEW p \in Procs, SyncStage(p) PROVE StoreInv'
<1> DEFINE s == stage[op[p].name]
<1> USE DEF SyncStage
<1>0. /\ op[p].name \in Names /\ StageInv(p) /\ EntryInv(p) /\ StoreTypeOK
      /\ op[p] \in Op
  BY InCall DEF StoreInv
<1>1. /\ s \in File /\ s.data = op[p].data /\ op[p].data \in Payloads
      /\ s.len = Size[op[p].data] /\ Size[op[p].data] <= op[p].limit
  BY <1>0 DEF StageInv, EntryInv, Writing
<1>2. [s EXCEPT !.synced = TRUE] = Whole(op[p].data)
  BY <1>1, SyncedFile DEF Whole
<1>3. /\ stage' \in [Names -> Entry]
      /\ \A n \in Names : stage'[n] \in File => stage'[n].len <= Size[stage'[n].data]
      /\ stage'[op[p].name] = Whole(op[p].data)
  <2>1. stage' = [stage EXCEPT ![op[p].name] = Whole(op[p].data)]
    BY <1>2
  <2>2. Whole(op[p].data) \in Entry /\ Whole(op[p].data).len <= Size[Whole(op[p].data).data]
    BY <1>1, WholeIsFile DEF Entry
  <2>3. QED
    BY <1>0, <2>1, <2>2, StageUpdate
<1>4. StageInv(p)' /\ EntryInv(p)'
  BY <1>0, <1>1, <1>3 DEF StageInv, EntryInv, Goto, StoreTypeOK, Writing, Requested
<1>5. QED
  BY <1>0, <1>3, <1>4, GotoStep DEF Step, StoreTypeOK

LEMMA FailStep ==
    ASSUME StoreInv, NEW p \in Procs, Fails(p)
    PROVE  StoreInv'
<1> USE DEF Fails, WriteFails, UnlinkFails, SyncParentFails, VerifyFails, disk
<1>0. /\ pc[p] \notin {"idle", "session"} /\ UNCHANGED disk /\ UNCHANGED lock
      /\ op[p].name \in Names /\ EntryInv(p) /\ StoreTypeOK /\ PendingInv
  BY InCall DEF StoreInv
<1>1. CASE SyncParentFails(p)
  <2>1. OutcomeTold(p)'
    BY <1>0, <1>1 DEF OutcomeTold, Return, EntryInv, StoreTypeOK, Requested
  <2>2. QED
    BY <1>0, <1>1, <2>1, ReturnStep DEF Outcome, PendingInv, StoreTypeOK
<1>2. CASE Return(p, "BeforeCommit") /\ pc[p] \in Writing \cup {"unlinking", "synced"}
  <2>1. OutcomeTold(p)'
    BY <1>0, <1>2 DEF OutcomeTold, Return, EntryInv, StoreTypeOK, Requested, Untouched, Writing
  <2>2. QED
    BY <1>0, <1>2, <2>1, ReturnStep DEF Outcome, PendingInv, StoreTypeOK
<1>3. QED
  BY <1>1, <1>2 DEF Writing

LEMMA SyncParentStep == ASSUME StoreInv, NEW p \in Procs, SyncParent(p) PROVE StoreInv'
<1> USE DEF StoreInv, SyncParent, Goto
<1>0. op[p] \in Op /\ op[p].name \in Names /\ lock = p /\ StageInv(p) /\ EntryInv(p)
  BY InCall
<1>1. StoreTypeOK'
  BY DEF StoreTypeOK, Step
<1>2. SessionInv'
  BY <1>0 DEF SessionInv, StoreTypeOK
<1>3. NoTornRecord'
  BY DEF NoTornRecord, Complete
<1>4. CallInv'
  <2>1. pc'[p] = "synced" /\ StageInv(p)'
    BY <1>0 DEF StageInv, StoreTypeOK
  <2>2. EntryInv(p)'
    BY <1>0, <2>1 DEF EntryInv, StoreTypeOK, Requested, Writing
  <2>3. QED
    BY <1>0, <2>1, <2>2, OwnCall DEF StoreTypeOK
<1>5. PendingInv'
  BY DEF PendingInv, StoreTypeOK
<1>6. OutcomeTruthful'
  BY OneEditor DEF OutcomeTruthful, StoreTypeOK
<1>7. QED
  BY <1>1, <1>2, <1>3, <1>4, <1>5, <1>6

LEMMA VerifyStep == ASSUME StoreInv, NEW p \in Procs, Verify(p) PROVE StoreInv'
<1> USE DEF Verify
<1>0. /\ op[p] \in Op /\ op[p].name \in Names /\ EntryInv(p) /\ StoreTypeOK /\ PendingInv
  BY InCall DEF StoreInv
<1>1. entry[op[p].name] = Requested(op[p]) /\ pending[op[p].name] = {entry[op[p].name]}
  BY <1>0 DEF EntryInv
<1>2. LookedAt(op[p], entry[op[p].name]) = Done(op[p])
  <2>1. CASE op[p].kind = "remove"
    BY <1>1, <2>1 DEF LookedAt, Requested
  <2>2. CASE op[p].kind # "remove"
    <3>1. /\ op[p].data \in Payloads /\ entry[op[p].name] = Whole(op[p].data)
          /\ Size[op[p].data] <= op[p].limit
      BY <1>0, <1>1, <2>2 DEF EntryInv, Requested
    <3>2. /\ entry[op[p].name] \in File /\ entry[op[p].name] # Other
          /\ entry[op[p].name] # Missing /\ entry[op[p].name].len = Size[op[p].data]
      BY <3>1, WholeIsFile
    <3>3. Size[op[p].data] \in Nat /\ op[p].limit \in Nat
      BY <3>1, <1>0 DEF Op
    <3> QED BY <2>2, <3>1, <3>2, <3>3 DEF LookedAt
  <2> QED BY <2>1, <2>2
<1>3. Return(p, Done(op[p])) /\ confirmed' = [confirmed EXCEPT ![op[p].name] = TRUE]
  BY <1>2
<1>4. Done(op[p]) \in {"Created", "Replaced", "Removed"}
  BY DEF Done
<1>5. OutcomeTold(p)'
  BY <1>0, <1>1, <1>3, <1>4 DEF OutcomeTold, Return, StoreTypeOK, Requested
<1>6. confirmed' \in [Names -> BOOLEAN] /\ PendingInv'
  BY <1>0, <1>1, <1>3 DEF PendingInv, StoreTypeOK
<1>7. QED
  BY <1>0, <1>3, <1>4, <1>5, <1>6, ReturnStep DEF Outcome

(* The first step of a call, from a session.                               *)
LEMMA CallStep ==
    ASSUME StoreInv, NEW p \in Procs, NEW o \in Op, NEW step \in Step \ {"idle"},
           NEW outcome \in Outcome,
           pc[p] = "session", Call(p, o, step, outcome), UNCHANGED <<disk, lock>>,
           o.kind # "remove" => o.data \in Payloads,
           step # "session" => StageInv(p)' /\ EntryInv(p)',
           step = "session" => OutcomeTold(p)'
    PROVE  StoreInv'
<1> USE DEF StoreInv, Call, disk
<1>0. o.name \in Names /\ lock = p /\ o # NoOp
  BY DEF Op, NoOp, SessionInv
<1>1. StoreTypeOK'
  BY <1>0 DEF StoreTypeOK, Step
<1>2. SessionInv'
  BY <1>0 DEF SessionInv, StoreTypeOK
<1>3. NoTornRecord'
  BY DEF NoTornRecord, Complete
<1>4. CallInv'
  BY <1>0, OneEditor DEF CallInv, StoreTypeOK
<1>5. PendingInv'
  BY DEF PendingInv
<1>6. OutcomeTruthful'
  BY <1>0, OneEditor DEF OutcomeTruthful, StoreTypeOK
<1>7. QED
  BY <1>1, <1>2, <1>3, <1>4, <1>5, <1>6

LEMMA WriteCallStep ==
    ASSUME StoreInv, NEW p \in Procs, NEW o \in Op, WriteCall(p, o)
    PROVE  StoreInv'
<1> USE DEF WriteCall
<1>0. o.data \in Payloads /\ o.name \in Names /\ StoreTypeOK /\ o.kind # "remove"
  BY DEF Op, StoreInv
<1>1. CASE Call(p, o, "admitted", "none")
  <2>1. StageInv(p)' /\ EntryInv(p)'
    BY <1>0, <1>1 DEF StageInv, EntryInv, Call, StoreTypeOK, Writing, disk
  <2>2. QED
    BY <1>0, <1>1, <2>1, CallStep DEF Step, Outcome
<1>2. CASE Call(p, o, "session", "Conflict")
  <2>1. OutcomeTold(p)'
    BY <1>0, <1>2 DEF OutcomeTold, Untouched, Call, StoreTypeOK, disk
  <2>2. QED
    BY <1>0, <1>2, <2>1, CallStep DEF Step, Outcome
<1>3. QED
  BY <1>1, <1>2

LEMMA RemoveCallStep ==
    ASSUME StoreInv, NEW p \in Procs, NEW o \in Op, RemoveCall(p, o)
    PROVE  StoreInv'
<1> USE DEF RemoveCall
<1>0. o.name \in Names /\ StoreTypeOK
  BY DEF Op, StoreInv
<1>1. CASE entry[o.name] = Missing
  <2>1. Call(p, o, "session", "Unchanged")
    BY <1>1
  <2>2. OutcomeTold(p)'
    BY <1>0, <1>1, <2>1 DEF OutcomeTold, Untouched, Call, StoreTypeOK, disk
  <2>3. QED
    BY <1>0, <2>1, <2>2, CallStep DEF Step, Outcome
<1>2. CASE entry[o.name] = Other
  <2>1. Call(p, o, "session", "Conflict")
    BY <1>2
  <2>2. OutcomeTold(p)'
    BY <1>0, <2>1 DEF OutcomeTold, Untouched, Call, StoreTypeOK, disk
  <2>3. QED
    BY <1>0, <2>1, <2>2, CallStep DEF Step, Outcome
<1>3. CASE entry[o.name] \notin {Missing, Other}
  <2>1. Call(p, o, "unlinking", "none") /\ entry[o.name] \in File
    BY <1>0, <1>3 DEF StoreTypeOK, Entry
  <2>2. StageInv(p)' /\ EntryInv(p)'
    BY <1>0, <2>1 DEF StageInv, EntryInv, Call, StoreTypeOK, Writing, disk
  <2>3. QED
    BY <1>0, <2>1, <2>2, CallStep DEF Step, Outcome
<1>4. QED
  BY <1>1, <1>2, <1>3

LEMMA RefuseStep ==
    ASSUME StoreInv, NEW p \in Procs, EditConflict(p) \/ EditBusy(p) \/ EditFails(p)
    PROVE  StoreInv'
<1> USE DEF StoreInv
<1>0. /\ pc[p] = "idle"
      /\ \E outcome \in Outcome : result' = [result EXCEPT ![p] = outcome]
      /\ lockFile' \in {lockFile, "own"}
      /\ UNCHANGED <<entry, pending, stage, stageDir, confirmed, lock, pc, op, before, seen>>
  BY DEF EditConflict, EditBusy, EditFails, Refuse, disk, Outcome
<1>1. StoreTypeOK'
  BY <1>0 DEF StoreTypeOK, Path
<1>2. SessionInv' /\ CallInv'
  BY <1>0 DEF SessionInv, CallInv, StageInv, EntryInv
<1>3. NoTornRecord' /\ PendingInv'
  BY <1>0 DEF NoTornRecord, PendingInv, Complete
<1>4. OutcomeTruthful'
  BY <1>0 DEF OutcomeTruthful, OutcomeTold, Untouched, StoreTypeOK
<1>5. QED
  BY <1>1, <1>2, <1>3, <1>4

LEMMA AcquireStep ==
    ASSUME StoreInv, NEW p \in Procs, EditAcquires(p)
    PROVE  StoreInv'
<1> USE DEF StoreInv, EditAcquires
<1>0. \A q \in Procs : pc[q] = "idle"
  BY DEF SessionInv
<1>1. StoreTypeOK'
  BY DEF StoreTypeOK, Step, Path, Outcome
<1>2. SessionInv'
  BY <1>0 DEF SessionInv, StoreTypeOK
<1>3. CallInv'
  BY <1>0 DEF CallInv, StoreTypeOK
<1>4. NoTornRecord' /\ PendingInv'
  BY DEF NoTornRecord, PendingInv, Complete
<1>5. OutcomeTruthful'
  BY <1>0 DEF OutcomeTruthful, OutcomeTold, StoreTypeOK
<1>6. QED
  BY <1>1, <1>2, <1>3, <1>4, <1>5

LEMMA ForgetStep ==
    ASSUME StoreInv, NEW p \in Procs, Release(p) \/ Die(p)
    PROVE  StoreInv'
<1> USE DEF StoreInv, disk
<1>0. Forget(p) /\ UNCHANGED disk /\ pc[p] # "idle"
  BY DEF Release, Die
<1> USE DEF Forget
<1>1. StoreTypeOK'
  BY <1>0 DEF StoreTypeOK, Step, Outcome, Entry, Nothing
<1>2. SessionInv'
  BY <1>0, OneEditor DEF SessionInv, StoreTypeOK
<1>3. CallInv'
  BY <1>0, OneEditor DEF CallInv, StoreTypeOK
<1>4. NoTornRecord' /\ PendingInv'
  BY <1>0 DEF NoTornRecord, PendingInv, Complete
<1>5. OutcomeTruthful'
  BY <1>0, OneEditor DEF OutcomeTruthful, StoreTypeOK
<1>6. QED
  BY <1>1, <1>2, <1>3, <1>4, <1>5

(* No record is torn, so a power loss leaves one of the pending entries as *)
(* it is.                                                                  *)
LEMMA PowerLossStep == ASSUME StoreInv, PowerLoss PROVE StoreInv'
<1> USE DEF StoreInv, PowerLoss
<1>0. \A n \in Names : entry'[n] \in pending[n]
  <2>1. ASSUME NEW n \in Names, NEW e \in pending[n] PROVE Settled(e) = {e}
    BY DEF NoTornRecord, Settled, Complete
  <2>2. QED
    BY <2>1
<1>1. StoreTypeOK'
  <2>1. entry' \in [Names -> Entry] /\ pending' \in [Names -> SUBSET Entry]
    BY <1>0 DEF StoreTypeOK
  <2>2. /\ stage' \in [Names -> Entry]
        /\ \A n \in Names : stage'[n] \in File => stage'[n].len <= Size[stage'[n].data]
    BY DEF StoreTypeOK, Entry
  <2>3. QED
    BY <2>1, <2>2 DEF StoreTypeOK, Step, Outcome, Entry, Nothing
<1>2. SessionInv' /\ CallInv' /\ OutcomeTruthful'
  BY DEF SessionInv, CallInv, OutcomeTruthful
<1>3. NoTornRecord'
  BY <1>0 DEF NoTornRecord, Complete
<1>4. PendingInv'
  BY DEF PendingInv
<1>5. QED
  BY <1>1, <1>2, <1>3, <1>4

LEMMA ReaderKeepsStore ==
    ASSUME StoreInv, NEW r \in Readers, ReaderStep(r)
    PROVE  StoreInv'
<1>1. UNCHANGED storeVars
  BY DEF ReaderStep, ReaderAdvance, InspectCall, InspectKind, InspectOpen, InspectRead,
         InspectFails, Answer, storeVars
<1>2. QED
  BY <1>1, StutterStore

LEMMA NextStore == StoreInv /\ [Next]_vars => StoreInv'
<1> SUFFICES ASSUME StoreInv, [Next]_vars PROVE StoreInv'
  OBVIOUS
<1>1. CASE UNCHANGED vars
  BY <1>1, StutterStore DEF vars, storeVars
<1>2. ASSUME NEW p \in Procs, EditorStep(p) PROVE StoreInv'
  <2>1. CASE EditConflict(p) \/ EditBusy(p) \/ EditFails(p)
    BY <2>1, RefuseStep
  <2>2. CASE EditAcquires(p)
    BY <2>2, AcquireStep
  <2>3. CASE Release(p) \/ Die(p)
    BY <2>3, ForgetStep
  <2>4. CASE \E o \in Op : WriteCall(p, o) \/ RemoveCall(p, o)
    BY <2>4, WriteCallStep, RemoveCallStep
  <2>5. CASE Advance(p)
    BY <2>5, PrepareStep, CreateStageStep, CopyChunkStep, CopyEndsStep, SyncStageStep,
       CommitStep, UnlinkStep, SyncParentStep, VerifyStep DEF Advance
  <2>6. CASE Fails(p)
    BY <2>6, FailStep
  <2>7. QED
    BY <1>2, <2>1, <2>2, <2>3, <2>4, <2>5, <2>6 DEF EditorStep
<1>3. ASSUME NEW r \in Readers, ReaderStep(r) PROVE StoreInv'
  BY <1>3, ReaderKeepsStore
<1>4. CASE PowerLoss
  BY <1>4, PowerLossStep
<1>5. QED
  BY <1>1, <1>2, <1>3, <1>4 DEF Next

(* The inductive invariant of the store (locks, stages, phases and what    *)
(* was confirmed), which the theorems below use.                           *)
THEOREM StoreInvariant == Spec => []StoreInv
BY InitStore, NextStore, PTL DEF Spec

(* No reader and no power loss ever finds a torn or oversized record.      *)
THEOREM NeverTorn == Spec => []NoTornRecord
<1>1. StoreInv => NoTornRecord
  BY DEF StoreInv
<1>2. QED
  BY <1>1, StoreInvariant, PTL

(* Two sessions never overlap, a session's snapshot stays true, and no    *)
(* stage stands in the way of its writes.                                  *)
THEOREM SessionsAreIsolated == Spec => []SessionIsolated
<1>1. StoreInv => SessionIsolated
  BY DEF StoreInv, SessionInv, CallInv, StageInv, SessionIsolated
<1>2. QED
  BY <1>1, StoreInvariant, PTL

(* Every outcome says what happened to the entry.                          *)
THEOREM OutcomesAreTruthful == Spec => []OutcomeTruthful
<1>1. StoreInv => OutcomeTruthful
  BY DEF StoreInv
<1>2. QED
  BY <1>1, StoreInvariant, PTL

-----------------------------------------------------------------------------
(* Which steps change an entry, and how.                                   *)
LEMMA WhoChangesEntries ==
    ASSUME StoreInv, [Next]_vars
    PROVE  \/ UNCHANGED entry
           \/ \E p \in Procs : Commit(p) \/ Unlink(p)
           \/ PowerLoss
<1>1. ASSUME NEW p \in Procs, EditorStep(p) PROVE UNCHANGED entry \/ Commit(p) \/ Unlink(p)
  <2>1. CASE EditConflict(p) \/ EditBusy(p) \/ EditFails(p) \/ EditAcquires(p)
    BY <2>1 DEF EditConflict, EditBusy, EditFails, Refuse, EditAcquires, disk
  <2>2. CASE Release(p) \/ Die(p) \/ Fails(p)
    BY <2>2 DEF Release, Die, Fails, WriteFails, UnlinkFails, SyncParentFails, VerifyFails, disk
  <2>3. CASE \E o \in Op : WriteCall(p, o) \/ RemoveCall(p, o)
    BY <2>3 DEF WriteCall, RemoveCall, disk
  <2>4. CASE Advance(p)
    BY <2>4 DEF Advance, Prepare, CreateStage, CopyChunk, CopyEnds, SyncStage, SyncParent,
                Verify, disk
  <2>5. QED
    BY <1>1, <2>1, <2>2, <2>3, <2>4 DEF EditorStep
<1>2. ASSUME NEW r \in Readers, ReaderStep(r) PROVE UNCHANGED entry
  BY <1>2 DEF ReaderStep, ReaderAdvance, InspectCall, InspectKind, InspectOpen, InspectRead,
              InspectFails, Answer, disk
<1>3. QED
  BY <1>1, <1>2 DEF Next, vars, disk

LEMMA ConfirmedStep ==
    ASSUME StoreInv, [Next]_vars, NEW n \in Names, confirmed[n], confirmed'[n]
    PROVE  entry'[n] = entry[n]
<1>1. CASE PowerLoss
  <2>1. pending[n] = {entry[n]} /\ entry[n] \in pending[n]
    BY DEF StoreInv, PendingInv
  <2>2. Settled(entry[n]) = {entry[n]}
    BY <2>1 DEF StoreInv, NoTornRecord, Settled, Complete
  <2>3. QED
    BY <1>1, <2>1, <2>2 DEF PowerLoss
<1>2. ASSUME NEW p \in Procs, Commit(p) \/ Unlink(p) PROVE entry'[n] = entry[n]
  <2>1. pc[p] \notin {"idle", "session"}
    BY <1>2 DEF Commit, Unlink
  <2>2. op[p].name \in Names
    BY <2>1, InCall
  <2>3. QED
    BY <1>2, <2>2 DEF Commit, Unlink, SetEntry, StoreInv, StoreTypeOK
<1>3. QED
  BY <1>1, <1>2, WhoChangesEntries

(* What was returned as done stays done until somebody changes the name    *)
(* again, whatever power losses come in between.                           *)
THEOREM ConfirmationsSurvive == Spec => ConfirmedSurvives
<1>1. StoreInv /\ [Next]_vars
        => [\A n \in Names : confirmed[n] /\ confirmed'[n] => entry'[n] = entry[n]]_vars
  BY ConfirmedStep
<1>2. QED
  BY <1>1, StoreInvariant, PTL DEF Spec, ConfirmedSurvives

-----------------------------------------------------------------------------
(* Readers: where one stands on what it saw.                               *)
ReaderInv(r) ==
    /\ rpc[r] # "idle" =>
         /\ read[r] \in Read /\ read[r].answer = "none"
         /\ entry[read[r].name] \in window[r]
         /\ Other \in window[r] => window[r] = {Other}
    /\ rpc[r] = "file" => window[r] \cap File # {}
    /\ rpc[r] = "opened" => read[r].file \in window[r] \cap File
    /\ ReadTold(r)

ReadersInv == ReaderTypeOK /\ \A r \in Readers : ReaderInv(r)

LEMMA InitReaders == Init => ReadersInv
BY DEF Init, ReadersInv, ReaderTypeOK, ReaderInv, ReadTold, NoRead

LEMMA StutterReaders == ReadersInv /\ UNCHANGED <<entry, readers>> => ReadersInv'
BY DEF ReadersInv, readers, ReaderTypeOK, ReaderInv, ReadTold

(* A rename or an unlink adds what it leaves to the windows it falls in;   *)
(* neither ever touches a foreign entry.                                   *)
LEMMA ChangeReaders ==
    ASSUME StoreInv, ReadersInv, NEW n \in Names, NEW e \in File \cup {Missing},
           entry[n] # Other, SetEntry(n, e), UNCHANGED <<rpc, read>>
    PROVE  ReadersInv'
<1> USE DEF ReadersInv
<1>0. StoreTypeOK /\ ReaderTypeOK
  BY DEF StoreInv
<1>1. ReaderTypeOK'
  BY <1>0 DEF ReaderTypeOK, SetEntry, Entry
<1>2. ASSUME NEW r \in Readers PROVE ReaderInv(r)'
  <2>1. CASE rpc[r] # "idle" /\ read[r].name = n
    <3>1. window'[r] = window[r] \cup {e} /\ entry'[n] = e
      BY <1>0, <2>1 DEF SetEntry, StoreTypeOK, ReaderTypeOK
    <3>2. Other \notin window[r] /\ Other \notin window'[r]
      BY <2>1, <3>1 DEF ReaderInv
    <3>3. QED
      BY <2>1, <3>1, <3>2 DEF ReaderInv, ReadTold
  <2>2. CASE ~(rpc[r] # "idle" /\ read[r].name = n)
    <3>1. window'[r] = window[r] /\ (rpc[r] # "idle" => entry'[read[r].name] = entry[read[r].name])
      BY <1>0, <2>2 DEF SetEntry, StoreTypeOK, ReaderInv, ReaderTypeOK, Read
    <3>2. QED
      BY <3>1 DEF ReaderInv, ReadTold
  <2>3. QED
    BY <2>1, <2>2
<1>3. QED
  BY <1>1, <1>2

LEMMA ReaderAdvances ==
    ASSUME StoreInv, ReadersInv, NEW r \in Readers, ReaderStep(r)
    PROVE  ReadersInv'
<1> USE DEF ReadersInv
<1>0. StoreTypeOK /\ ReaderTypeOK
  BY DEF StoreInv
<1>1. /\ UNCHANGED entry
      /\ \A q \in Readers : q # r =>
           rpc'[q] = rpc[q] /\ read'[q] = read[q] /\ window'[q] = window[q]
  BY DEF ReaderStep, ReaderAdvance, InspectCall, InspectKind, InspectOpen, InspectRead,
         InspectFails, Answer, disk, ReaderTypeOK
<1>2. ASSUME NEW q \in Readers, q # r PROVE ReaderInv(q)'
  BY <1>1, <1>2 DEF ReaderInv, ReadTold
<1>3. ASSUME NEW n \in Names, NEW l \in Limits, InspectCall(r, n, l)
      PROVE  ReaderTypeOK' /\ ReaderInv(r)'
  <2>1. ReaderTypeOK'
    BY <1>0, <1>3 DEF InspectCall, ReaderTypeOK, Read, StoreTypeOK, Entry
  <2>2. ReaderInv(r)'
    BY <1>0, <1>1, <1>3 DEF InspectCall, ReaderInv, ReadTold, Read, StoreTypeOK, Entry,
                            ReaderTypeOK
  <2>3. QED
    BY <2>1, <2>2
<1>4. ASSUME NEW answer \in {"Conflict", "Vanished", "TooLarge", "Present", "Failed"},
             rpc[r] # "idle", Answer(r, answer)
      PROVE  ReaderTypeOK' /\ read'[r].answer = answer /\ rpc'[r] = "idle"
             /\ read'[r].file = read[r].file /\ read'[r].limit = read[r].limit
  BY <1>0, <1>4 DEF Answer, ReaderTypeOK, Read, ReaderInv
<1>5. CASE InspectKind(r)
  <2>1. CASE Answer(r, "Conflict") /\ entry[read[r].name] \notin File
    <3>1. entry[read[r].name] \in window[r] \cap {Missing, Other} /\ rpc[r] # "idle"
      BY <1>0, <1>5, <2>1 DEF InspectKind, ReaderInv, Read, StoreTypeOK, Entry
    <3>2. ReaderTypeOK' /\ read'[r].answer = "Conflict" /\ rpc'[r] = "idle"
      BY <1>4, <2>1, <3>1
    <3>3. ReaderInv(r)'
      BY <2>1, <3>1, <3>2 DEF Answer, ReaderInv, ReadTold
    <3>4. QED
      BY <1>2, <3>2, <3>3
  <2>2. CASE rpc' = [rpc EXCEPT ![r] = "file"] /\ entry[read[r].name] \in File
             /\ UNCHANGED <<read, window>>
    BY <1>0, <1>1, <1>5, <2>2 DEF InspectKind, ReaderInv, ReadTold, ReaderTypeOK
  <2>3. QED
    BY <1>5, <2>1, <2>2, <1>2 DEF InspectKind
<1>6. CASE InspectOpen(r)
  <2>1. CASE Answer(r, "Vanished") /\ entry[read[r].name] = Missing
    <3>1. Missing \in window[r] /\ window[r] \cap File # {} /\ rpc[r] # "idle"
      BY <1>6, <2>1 DEF InspectOpen, ReaderInv
    <3>2. ReaderTypeOK' /\ read'[r].answer = "Vanished" /\ rpc'[r] = "idle"
      BY <1>4, <2>1, <3>1
    <3>3. ReaderInv(r)'
      BY <2>1, <3>1, <3>2 DEF Answer, ReaderInv, ReadTold
    <3>4. QED
      BY <1>2, <3>2, <3>3
  <2>2. CASE /\ entry[read[r].name] # Missing
             /\ rpc' = [rpc EXCEPT ![r] = "opened"]
             /\ read' = [read EXCEPT ![r].file = entry[read[r].name]]
             /\ UNCHANGED window
    <3>1. entry[read[r].name] \in File /\ entry[read[r].name] \in window[r] /\ read[r] \in Read
      BY <1>0, <1>6, <2>2 DEF InspectOpen, ReaderInv, StoreTypeOK, Entry, Read
    <3>2. read'[r] \in Read /\ read'[r].file = entry[read[r].name] /\ read'[r].answer = "none"
          /\ read'[r].name = read[r].name
      BY <1>0, <1>6, <2>2, <3>1 DEF Read, Entry, ReaderInv, ReaderTypeOK, InspectOpen
    <3>3. ReaderTypeOK'
      BY <1>0, <2>2, <3>2 DEF ReaderTypeOK
    <3>4. ReaderInv(r)'
      BY <1>0, <1>1, <1>6, <2>2, <3>1, <3>2 DEF InspectOpen, ReaderInv, ReadTold, ReaderTypeOK
    <3>5. QED
      BY <1>2, <3>3, <3>4
  <2>3. QED
    BY <1>6, <2>1, <2>2, <1>2 DEF InspectOpen
<1>7. CASE InspectRead(r)
  BY <1>0, <1>2, <1>4, <1>7 DEF InspectRead, Answer, ReaderInv, ReadTold, Read, File, ReaderTypeOK
<1>8. CASE InspectFails(r)
  BY <1>0, <1>2, <1>4, <1>8 DEF InspectFails, Answer, ReaderInv, ReadTold
<1>9. QED
  BY <1>2, <1>3, <1>5, <1>6, <1>7, <1>8 DEF ReaderStep, ReaderAdvance

LEMMA NextReaders == StoreInv /\ ReadersInv /\ [Next]_vars => ReadersInv'
<1> SUFFICES ASSUME StoreInv, ReadersInv, [Next]_vars PROVE ReadersInv'
  OBVIOUS
<1>1. CASE UNCHANGED vars
  BY <1>1, StutterReaders DEF vars, disk
<1>2. ASSUME NEW p \in Procs, Commit(p) PROVE ReadersInv'
  <2>1. /\ op[p].name \in Names /\ op[p].data \in Payloads
        /\ entry[op[p].name] # Other /\ stage[op[p].name] = Whole(op[p].data)
    BY <1>2, InCall DEF Commit, EntryInv, StageInv, Writing
  <2>2. QED
    BY <1>2, <2>1, WholeIsFile, ChangeReaders DEF Commit
<1>3. ASSUME NEW p \in Procs, Unlink(p) PROVE ReadersInv'
  <2>1. op[p].name \in Names /\ entry[op[p].name] # Other
    BY <1>3, InCall DEF Unlink, EntryInv
  <2>2. QED
    BY <1>3, <2>1, ChangeReaders DEF Unlink
<1>4. ASSUME NEW p \in Procs, EditorStep(p), ~Commit(p), ~Unlink(p) PROVE ReadersInv'
  <2>1. CASE EditConflict(p) \/ EditBusy(p) \/ EditFails(p) \/ EditAcquires(p)
    BY <2>1, StutterReaders DEF EditConflict, EditBusy, EditFails, Refuse, EditAcquires, disk
  <2>2. CASE Release(p) \/ Die(p) \/ Fails(p)
    BY <2>2, StutterReaders
    DEF Release, Die, Fails, WriteFails, UnlinkFails, SyncParentFails, VerifyFails, disk
  <2>3. CASE \E o \in Op : WriteCall(p, o) \/ RemoveCall(p, o)
    BY <2>3, StutterReaders DEF WriteCall, RemoveCall, disk
  <2>4. CASE Advance(p)
    BY <1>4, <2>4, StutterReaders
    DEF Advance, Prepare, CreateStage, CopyChunk, CopyEnds, SyncStage, SyncParent, Verify, disk
  <2>5. QED
    BY <1>4, <2>1, <2>2, <2>3, <2>4 DEF EditorStep
<1>5. ASSUME NEW r \in Readers, ReaderStep(r) PROVE ReadersInv'
  BY <1>5, ReaderAdvances
<1>6. CASE PowerLoss
  <2>1. ReaderTypeOK'
    BY <1>6 DEF PowerLoss, ReaderTypeOK
  <2>2. \A r \in Readers : ReaderInv(r)'
    BY <1>6 DEF PowerLoss, ReaderInv, ReadTold, NoRead
  <2>3. QED
    BY <2>1, <2>2 DEF ReadersInv
<1>7. QED
  BY <1>1, <1>2, <1>3, <1>4, <1>5, <1>6 DEF Next

(* The invariant of the lock-free readers (native.rs): what a reader holds  *)
(* is a state the record had during its call.                              *)
THEOREM ReadersInvariant == Spec => []ReadersInv
BY InitReaders, NextReaders, StoreInvariant, PTL, InitStore DEF Spec

(* The variables keep their types.                                         *)
THEOREM TypeCorrect == Spec => []TypeOK
<1>1. StoreInv /\ ReadersInv => TypeOK
  BY DEF StoreInv, ReadersInv, TypeOK
<1>2. QED
  BY <1>1, StoreInvariant, ReadersInvariant, PTL

(* A reader without the lock answers with a state of its call's interval.  *)
THEOREM ReadsAreLinearizable == Spec => []ReadLinearizable
<1>1. ReadersInv => ReadLinearizable
  BY DEF ReadersInv, ReaderInv, ReadLinearizable
<1>2. QED
  BY <1>1, ReadersInvariant, PTL

-----------------------------------------------------------------------------
(* Refinement: each step of the store is a step of the atomic register or  *)
(* leaves it alone.                                                        *)
LEMMA AbsOfWhole ==
    ASSUME NEW d \in Payloads
    PROVE  Abs(Whole(d)) = d
BY WholeIsFile DEF Abs

LEMMA AbsOfEntry ==
    ASSUME StoreInv, NEW n \in Names
    PROVE  /\ entry[n] = Missing => Abs(entry[n]) = Missing
           /\ entry[n] \in File => Abs(entry[n]) \in Payloads
           /\ Abs(Missing) = Missing
<1>1. entry[n] \in File => Complete(entry[n])
  BY DEF StoreInv, NoTornRecord
<1>2. QED
  BY <1>1 DEF Abs, File

absEntry == [n \in Names |-> Abs(entry[n])]
absPending == [n \in Names |-> {Abs(e) : e \in pending[n]}]

LEMMA SetEntryIsBecome ==
    ASSUME StoreTypeOK, NEW n \in Names, NEW e \in Entry, SetEntry(n, e)
    PROVE  Atomic!Become(n, Abs(e))
<1> USE DEF SetEntry, StoreTypeOK
<1>1. absEntry' = [absEntry EXCEPT ![n] = Abs(e)]
  BY DEF absEntry
<1>2. absPending' = [absPending EXCEPT ![n] = @ \cup {Abs(e)}]
  <2>1. \A m \in Names : pending'[m] = IF m = n THEN pending[m] \cup {e} ELSE pending[m]
    OBVIOUS
  <2>2. \A m \in Names :
          {Abs(x) : x \in pending'[m]} =
            IF m = n THEN {Abs(x) : x \in pending[m]} \cup {Abs(e)} ELSE {Abs(x) : x \in pending[m]}
    BY <2>1
  <2>3. QED
    BY <2>2 DEF absPending
<1>3. QED
  BY <1>1, <1>2 DEF Atomic!Become, absEntry, absPending

(* The store's initial states are the register's.                          *)
LEMMA InitIsAtomic == Init => Atomic!Init
<1> SUFFICES ASSUME Init PROVE Atomic!Init
  OBVIOUS
<1>1. \A n \in Names : Abs(entry[n]) \in Payloads \cup {Missing, Other}
  BY AbsOfWhole DEF Init, Stored, Abs
<1>2. absPending = [n \in Names |-> {absEntry[n]}]
  BY DEF Init, absPending, absEntry
<1>3. QED
  BY <1>1, <1>2 DEF Atomic!Init, absPending, absEntry, Init

LEMMA NextIsAtomic == StoreInv /\ [Next]_vars => [Atomic!Next]_(Atomic!avars)
<1> SUFFICES ASSUME StoreInv, [Next]_vars PROVE Atomic!Next \/ UNCHANGED Atomic!avars
  OBVIOUS
<1>0. ASSUME UNCHANGED <<entry, pending, confirmed>> PROVE UNCHANGED Atomic!avars
  BY <1>0 DEF Atomic!avars
<1>1. ASSUME NEW p \in Procs, Commit(p) PROVE Atomic!Next
  <2> DEFINE n == op[p].name
  <2>1. /\ n \in Names /\ op[p].data \in Payloads /\ StoreTypeOK
        /\ stage[n] = Whole(op[p].data)
        /\ entry[n] = Missing \/ entry[n] \in File
    BY <1>1, InCall DEF Commit, EntryInv, StageInv, Writing, StoreInv
  <2>2. Atomic!Become(n, op[p].data)
    <3>1. Whole(op[p].data) \in Entry
      BY <2>1, WholeIsFile DEF Entry
    <3>2. SetEntry(n, Whole(op[p].data))
      BY <1>1, <2>1 DEF Commit
    <3>3. Atomic!Become(n, Abs(Whole(op[p].data)))
      BY <2>1, <3>1, <3>2, SetEntryIsBecome DEF Atomic!Become
    <3>4. QED
      BY <2>1, <3>3, AbsOfWhole DEF Atomic!Become
  <2>3. Abs(entry[n]) = Missing \/ Abs(entry[n]) \in Payloads
    BY <2>1, AbsOfEntry
  <2>4. Atomic!Create(n, op[p].data) \/ Atomic!Replace(n, op[p].data)
    BY <2>1, <2>2, <2>3 DEF Atomic!Create, Atomic!Replace
  <2>5. \E m \in Names, v \in Payloads : Atomic!Create(m, v) \/ Atomic!Replace(m, v)
    BY <2>1, <2>4 DEF Atomic!Create, Atomic!Replace, Atomic!Become
  <2>6. QED
    BY <2>5 DEF Atomic!Next
<1>2. ASSUME NEW p \in Procs, Unlink(p) PROVE Atomic!Next
  <2> DEFINE n == op[p].name
  <2>1. n \in Names /\ entry[n] \in File /\ StoreTypeOK
    BY <1>2, InCall DEF Unlink, EntryInv, StoreInv
  <2>2. Atomic!Become(n, Missing)
    BY <1>2, <2>1, AbsOfEntry, SetEntryIsBecome DEF Unlink, Entry
  <2>3. Abs(entry[n]) \in Payloads
    BY <2>1, AbsOfEntry
  <2>4. QED
    BY <2>1, <2>2, <2>3 DEF Atomic!Next, Atomic!Remove
<1>3. ASSUME NEW p \in Procs, SyncParent(p) PROVE Atomic!Next
  <2>1. \A n \in Names : {Abs(e) : e \in pending'[n]} = {Abs(entry[n])}
    BY <1>3 DEF SyncParent
  <2>2. UNCHANGED <<entry, confirmed>>
    BY <1>3 DEF SyncParent
  <2>3. Atomic!Settle
    BY <2>1, <2>2 DEF Atomic!Settle
  <2>4. QED
    BY <2>3 DEF Atomic!Next
<1>4. ASSUME NEW p \in Procs, Verify(p) PROVE Atomic!Next \/ UNCHANGED Atomic!avars
  <2> DEFINE n == op[p].name
  <2>1. n \in Names /\ pending[n] = {entry[n]} /\ UNCHANGED <<entry, pending>>
    BY <1>4, InCall DEF Verify, EntryInv
  <2>2. CASE UNCHANGED confirmed
    BY <2>1, <2>2, <1>0
  <2>3. CASE confirmed' = [confirmed EXCEPT ![n] = TRUE]
    <3>1. Atomic!Confirm(n)
      BY <2>1, <2>3 DEF Atomic!Confirm
    <3>2. QED
      BY <2>1, <3>1 DEF Atomic!Next
  <2>4. QED
    BY <1>4, <2>2, <2>3 DEF Verify
<1>5. CASE PowerLoss
  <2>1. \A n \in Names : entry'[n] \in pending[n] /\ pending'[n] = {entry'[n]}
    <3>1. ASSUME NEW n \in Names, NEW e \in pending[n] PROVE Settled(e) = {e}
      BY DEF StoreInv, NoTornRecord, Settled, Complete
    <3>2. QED
      BY <1>5, <3>1 DEF PowerLoss
  <2>2. \A n \in Names : absEntry'[n] \in absPending[n] /\ absPending'[n] = {absEntry'[n]}
    BY <2>1 DEF absEntry, absPending
  <2>3. absEntry' \in [Names -> UNION {absPending[n] : n \in Names}]
    BY <2>2 DEF absEntry
  <2>4. Atomic!PowerLoss
    BY <1>5, <2>2, <2>3 DEF Atomic!PowerLoss, absEntry, absPending, PowerLoss
  <2>5. QED
    BY <2>4 DEF Atomic!Next
<1>6. ASSUME NEW p \in Procs, EditorStep(p), ~Commit(p), ~Unlink(p), ~SyncParent(p), ~Verify(p)
      PROVE  UNCHANGED <<entry, pending, confirmed>>
  <2>1. CASE EditConflict(p) \/ EditBusy(p) \/ EditFails(p) \/ EditAcquires(p)
    BY <2>1 DEF EditConflict, EditBusy, EditFails, Refuse, EditAcquires, disk
  <2>2. CASE Release(p) \/ Die(p) \/ Fails(p)
    BY <2>2 DEF Release, Die, Fails, WriteFails, UnlinkFails, SyncParentFails, VerifyFails, disk
  <2>3. CASE \E o \in Op : WriteCall(p, o) \/ RemoveCall(p, o)
    BY <2>3 DEF WriteCall, RemoveCall, disk
  <2>4. CASE Advance(p)
    <3>1. CASE Prepare(p) \/ CreateStage(p)
      BY <3>1 DEF Prepare, CreateStage
    <3>2. CASE CopyChunk(p) \/ CopyEnds(p) \/ SyncStage(p)
      BY <3>2 DEF CopyChunk, CopyEnds, SyncStage, disk
    <3>3. QED
      BY <1>6, <2>4, <3>1, <3>2 DEF Advance
  <2>5. QED
    BY <1>6, <2>1, <2>2, <2>3, <2>4 DEF EditorStep
<1>7. ASSUME NEW r \in Readers, ReaderStep(r) PROVE UNCHANGED <<entry, pending, confirmed>>
  BY <1>7 DEF ReaderStep, ReaderAdvance, InspectCall, InspectKind, InspectOpen, InspectRead,
              InspectFails, Answer, disk
<1>8. CASE UNCHANGED vars
  BY <1>0, <1>8 DEF vars, disk
<1>9. QED
  BY <1>0, <1>1, <1>2, <1>3, <1>4, <1>5, <1>6, <1>7, <1>8 DEF Next

(* The record store implements the atomic register with confirmations.     *)
THEOREM StoreIsAtomic == Spec => AtomicSpec
BY InitIsAtomic, NextIsAtomic, StoreInvariant, PTL DEF Spec, AtomicSpec, Atomic!Spec
-----------------------------------------------------------------------------
(* Calls end: what is left of one only shrinks.                            *)
LEMMA DieShortens ==
    ASSUME StoreInv, NEW p \in Procs, Calling(p), pc'[p] \in {"idle", "session"}
    PROVE  Shorter(p)
<1>1. pc[p] \in Step /\ Ahead(pc[p]) > 0
  BY DEF StoreInv, StoreTypeOK, Step, Calling, Ahead
<1>2. Ahead(pc'[p]) = 0
  BY DEF Ahead
<1> QED BY <1>1, <1>2 DEF Shorter

LEMMA GotoShortens ==
    ASSUME StoreInv, NEW p \in Procs, NEW step, Goto(p, step), Ahead(step) < Ahead(pc[p])
    PROVE  Shorter(p)
<1>1. pc'[p] = step
  BY DEF Goto, StoreInv, StoreTypeOK
<1> QED BY <1>1 DEF Shorter

LEMMA ReturnShortens ==
    ASSUME StoreInv, NEW p \in Procs, Calling(p), NEW outcome, Return(p, outcome)
    PROVE  Shorter(p)
<1>1. pc'[p] = "session"
  BY DEF Return, StoreInv, StoreTypeOK
<1> QED BY <1>1, DieShortens

LEMMA CopyShortens == ASSUME StoreInv, NEW p \in Procs, CopyChunk(p) PROVE Shorter(p)
<1> DEFINE n == op[p].name
           s == stage[n]
<1>1. pc[p] = "copying" /\ s.len < Admitted(op[p]) /\ UNCHANGED <<pc, op>>
      /\ stage' = [stage EXCEPT ![n].len = @ + 1]
  BY DEF CopyChunk, editors
<1>2. op[p] \in Op /\ n \in Names /\ StageInv(p) /\ EntryInv(p)
  BY <1>1, InCall
<1>3. s \in File /\ s.len \in Nat /\ op[p].data \in Payloads /\ op[p].limit \in Nat
  BY <1>1, <1>2 DEF StageInv, EntryInv, File, Op, Writing
<1>4. Admitted(op[p]) \in Nat
  BY <1>3 DEF Admitted
<1>5. stage'[n] = [s EXCEPT !.len = @ + 1]
  BY <1>1, <1>2 DEF StoreInv, StoreTypeOK
<1>6. stage'[n].len = s.len + 1
  BY <1>3, <1>5 DEF File
<1>7. BytesLeft(p) = Admitted(op[p]) - s.len
  BY DEF BytesLeft
<1>8. BytesLeft(p)' = Admitted(op[p]) - (s.len + 1)
  BY <1>1, <1>6 DEF BytesLeft, Admitted
<1>9. 0 <= BytesLeft(p)' /\ BytesLeft(p)' < BytesLeft(p)
  BY <1>1, <1>3, <1>4, <1>7, <1>8
<1> QED BY <1>1, <1>9 DEF Shorter

LEMMA AdvanceShortens == ASSUME StoreInv, NEW p \in Procs, Advance(p) PROVE Shorter(p)
<1> USE DEF Ahead, Calling
<1>1. CASE Prepare(p)
  BY <1>1, GotoShortens, ReturnShortens DEF Prepare
<1>2. CASE CreateStage(p)
  BY <1>2, GotoShortens, ReturnShortens DEF CreateStage
<1>3. CASE CopyChunk(p)
  BY <1>3, CopyShortens
<1>4. CASE CopyEnds(p)
  BY <1>4, GotoShortens, ReturnShortens DEF CopyEnds
<1>5. CASE SyncStage(p)
  BY <1>5, GotoShortens DEF SyncStage
<1>6. CASE Commit(p)
  BY <1>6 DEF Commit, Shorter, StoreInv, StoreTypeOK
<1>7. CASE Unlink(p)
  BY <1>7 DEF Unlink, Shorter, StoreInv, StoreTypeOK
<1>8. CASE SyncParent(p)
  BY <1>8, GotoShortens DEF SyncParent
<1>9. CASE Verify(p)
  BY <1>9, ReturnShortens DEF Verify
<1> QED BY <1>1, <1>2, <1>3, <1>4, <1>5, <1>6, <1>7, <1>8, <1>9 DEF Advance

LEMMA OwnStepShortens ==
    ASSUME StoreInv, NEW p \in Procs, Calling(p), EditorStep(p)
    PROVE  Shorter(p)
<1>1. CASE Advance(p)
  BY <1>1, AdvanceShortens
<1>2. CASE Fails(p)
  BY <1>2, ReturnShortens DEF Fails, WriteFails, UnlinkFails, SyncParentFails, VerifyFails
<1>3. CASE Die(p)
  <2>1. pc'[p] = "idle"
    BY <1>3 DEF Die, Forget, StoreInv, StoreTypeOK
  <2> QED BY <2>1, DieShortens
<1>4. ~(EditConflict(p) \/ EditBusy(p) \/ EditFails(p) \/ EditAcquires(p) \/ Release(p))
  BY DEF Calling, EditConflict, EditBusy, EditFails, Refuse, EditAcquires, Release
<1>5. ~(\E o \in Op : WriteCall(p, o) \/ RemoveCall(p, o))
  BY DEF Calling, WriteCall, RemoveCall
<1> QED BY <1>1, <1>2, <1>3, <1>4, <1>5 DEF EditorStep

(* The lock keeps everybody else out of a call: others can only be refused.*)
LEMMA OthersKeepOut ==
    ASSUME StoreInv, NEW p \in Procs, Calling(p), NEW q \in Procs, q # p, EditorStep(q)
    PROVE  UNCHANGED <<pc, op, stage>>
<1>1. pc[q] = "idle" /\ lock = p
  BY OneEditor DEF Calling
<1>2. EditConflict(q) \/ EditBusy(q) \/ EditFails(q) \/ EditAcquires(q)
  <2>1. ~Release(q) /\ ~Die(q)
    BY <1>1 DEF Release, Die
  <2>2. ~(\E o \in Op : WriteCall(q, o) \/ RemoveCall(q, o))
    BY <1>1 DEF WriteCall, RemoveCall
  <2>3. ~Advance(q)
    BY <1>1 DEF Advance, Prepare, CreateStage, CopyChunk, CopyEnds, SyncStage, Commit, Unlink,
                SyncParent, Verify
  <2>4. ~Fails(q)
    BY <1>1 DEF Fails, WriteFails, UnlinkFails, SyncParentFails, VerifyFails
  <2> QED BY <2>1, <2>2, <2>3, <2>4 DEF EditorStep
<1>3. ~EditAcquires(q)
  BY <1>1 DEF EditAcquires
<1> QED BY <1>2, <1>3 DEF EditConflict, EditBusy, EditFails, Refuse, disk

LEMMA ReadersKeepOut ==
    ASSUME NEW r \in Readers, ReaderStep(r)
    PROVE  UNCHANGED <<pc, op, stage>>
BY DEF ReaderStep, ReaderAdvance, InspectCall, InspectKind, InspectOpen, InspectRead,
       InspectFails, Answer, disk, editors

LEMMA EditorsShorten ==
    ASSUME StoreInv, [Next]_vars, NEW p \in Procs, Calling(p)
    PROVE  Shorter(p) \/ UNCHANGED <<pc[p], op[p], stage[op[p].name]>>
<1>1. CASE UNCHANGED vars
  BY <1>1 DEF vars, disk, editors
<1>2. ASSUME NEW q \in Procs, EditorStep(q)
      PROVE  Shorter(p) \/ UNCHANGED <<pc[p], op[p], stage[op[p].name]>>
  <2>1. CASE q = p
    BY <1>2, <2>1, OwnStepShortens
  <2>2. CASE q # p
    BY <1>2, <2>2, OthersKeepOut
  <2> QED BY <2>1, <2>2
<1>3. ASSUME NEW r \in Readers, ReaderStep(r)
      PROVE  Shorter(p) \/ UNCHANGED <<pc[p], op[p], stage[op[p].name]>>
  BY <1>3, ReadersKeepOut
<1>4. CASE PowerLoss
  <2>1. pc'[p] = "idle"
    BY <1>4 DEF PowerLoss
  <2> QED BY <2>1, DieShortens
<1> QED BY <1>1, <1>2, <1>3, <1>4 DEF Next

LEMMA ReadersShorten ==
    ASSUME ReaderTypeOK, [Next]_vars, NEW r \in Readers, rpc[r] # "idle"
    PROVE  Ahead(rpc'[r]) < Ahead(rpc[r]) \/ UNCHANGED <<rpc[r], read[r]>>
<1> USE DEF ReaderTypeOK, Ahead
<1>1. ASSUME rpc'[r] = "idle" PROVE Ahead(rpc'[r]) < Ahead(rpc[r])
  BY <1>1
<1>2. ASSUME NEW q \in Readers, ReaderStep(q)
      PROVE  Ahead(rpc'[r]) < Ahead(rpc[r]) \/ UNCHANGED <<rpc[r], read[r]>>
  <2>1. CASE q # r
    BY <1>2, <2>1 DEF ReaderStep, ReaderAdvance, InspectCall, InspectKind, InspectOpen,
                      InspectRead, InspectFails, Answer
  <2>2. CASE q = r
    <3>1. ~(\E n \in Names, l \in Limits : InspectCall(r, n, l))
      BY DEF InspectCall
    <3>2. ASSUME NEW a, Answer(r, a) PROVE rpc'[r] = "idle"
      BY <3>2 DEF Answer
    <3>3. CASE InspectKind(r)
      BY <1>1, <3>2, <3>3 DEF InspectKind
    <3>4. CASE InspectOpen(r)
      BY <1>1, <3>2, <3>4 DEF InspectOpen
    <3>5. CASE InspectRead(r)
      BY <1>1, <3>2, <3>5 DEF InspectRead
    <3>6. CASE InspectFails(r)
      BY <1>1, <3>2, <3>6 DEF InspectFails
    <3> QED BY <1>2, <2>2, <3>1, <3>3, <3>4, <3>5, <3>6 DEF ReaderStep, ReaderAdvance
  <2> QED BY <2>1, <2>2
<1>3. ASSUME NEW p \in Procs, EditorStep(p) PROVE UNCHANGED <<rpc, read>>
  BY <1>3 DEF EditorStep, EditConflict, EditBusy, EditFails, Refuse, EditAcquires, Release, Die,
     Advance, Fails, WriteFails, UnlinkFails, SyncParentFails, VerifyFails, WriteCall, RemoveCall,
     Prepare, CreateStage, CopyChunk, CopyEnds, SyncStage, Commit, Unlink, SyncParent, Verify, readers
<1>4. CASE PowerLoss
  BY <1>1, <1>4 DEF PowerLoss
<1>5. CASE UNCHANGED vars
  BY <1>5 DEF vars, readers
<1> QED BY <1>2, <1>3, <1>4, <1>5 DEF Next

(* Nothing that anybody does, a death and a power loss included, makes     *)
(* what is left of a call longer.                                          *)
THEOREM CallsAreShortened == Spec => CallsShorten
<1>1. StoreInv /\ ReaderTypeOK /\ [Next]_vars =>
        [/\ \A p \in Procs : Calling(p) =>
              Shorter(p) \/ UNCHANGED <<pc[p], op[p], stage[op[p].name]>>
         /\ \A r \in Readers : rpc[r] # "idle" =>
              Ahead(rpc'[r]) < Ahead(rpc[r]) \/ UNCHANGED <<rpc[r], read[r]>>]_vars
  BY EditorsShorten, ReadersShorten
<1>2. ReadersInv => ReaderTypeOK
  BY DEF ReadersInv
<1> QED BY <1>1, <1>2, StoreInvariant, ReadersInvariant, PTL DEF Spec, CallsShorten

(* No call finds its way barred.                                           *)
THEOREM CallsAreNotBarred == Spec => []NobodyBars
<1>1. StoreInv => NobodyBars
  <2> SUFFICES ASSUME StoreInv, NEW p \in Procs, pc[p] \in {"reclaimed", "copying", "staged"}
               PROVE  /\ pc[p] = "reclaimed" => stage[op[p].name] = Missing
                      /\ pc[p] = "copying" => stage[op[p].name] \in File /\ BytesLeft(p) >= 0
                      /\ pc[p] = "staged" /\ op[p].kind = "create" => entry[op[p].name] = Missing
    BY DEF NobodyBars
  <2>1. StageInv(p) /\ EntryInv(p) /\ op[p] \in Op
    BY InCall
  <2>2. CASE pc[p] = "copying"
    <3>1. /\ stage[op[p].name] \in File /\ stage[op[p].name].len <= Admitted(op[p])
          /\ op[p].data \in Payloads
      BY <2>1, <2>2 DEF StageInv, EntryInv, Writing
    <3>2. stage[op[p].name].len \in Nat /\ Admitted(op[p]) \in Nat
      BY <2>1, <3>1 DEF File, Admitted, Op
    <3>3. BytesLeft(p) >= 0
      BY <3>1, <3>2 DEF BytesLeft
    <3> QED BY <2>2, <3>1, <3>3
  <2>3. CASE pc[p] # "copying"
    BY <2>1, <2>3 DEF StageInv, EntryInv, Writing
  <2> QED BY <2>2, <2>3
<1> QED BY <1>1, StoreInvariant, PTL
=============================================================================
