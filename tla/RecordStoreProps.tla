-------------------------- MODULE RecordStoreProps --------------------------
(***************************************************************************)
(* What the record store guarantees: the properties the runs check and     *)
(* RecordStoreProofs proves.                                               *)
(***************************************************************************)
EXTENDS RecordStore

Requested(o) == IF o.kind = "remove" THEN Missing ELSE Whole(o.data)

(* Custody until commit: nobody, before or after a power loss, finds a     *)
(* record that was half streamed, not synced, or larger than every limit   *)
(* (record.rs:284-294, the order stage, bound, sync, rename).              *)
NoTornRecord ==
    \A n \in Names : \A e \in pending[n] \cup {entry[n]} :
        e \in File => Complete(e) /\ \E l \in Limits : e.len <= l

(* The lock makes a session a transaction: what it inspected stays true    *)
(* until it writes, so a read-modify-write such as manifest.rs:251-279     *)
(* loses no other editor's record, and no stage, be it that of an editor   *)
(* that failed or died or of a live one, stands in its way when it creates *)
(* its own (record.rs:185-202, and 283-288, reclaim then create_new).      *)
SessionIsolated ==
    \A p \in Procs :
        /\ pc[p] # "idle" => lock = p /\ seen[p] = entry
        /\ pc[p] = "reclaimed" => stage[op[p].name] = Missing

(* What a call returned is what it did.  Success: the entry is as asked    *)
(* and durable.  Committed: the change is visible.  A refusal changed      *)
(* nothing.  BeforeCommit changed nothing or, when the verification at     *)
(* record.rs:259 or 305 is what failed, changed everything durably.        *)
Untouched(p) == entry[op[p].name] = before[p]

OutcomeTold(p) ==
    LET n == op[p].name IN
    CASE result[p] \in {"Created", "Replaced", "Removed"} ->
           entry[n] = Requested(op[p]) /\ pending[n] = {entry[n]}
      [] result[p] = "Committed" -> entry[n] = Requested(op[p])
      [] result[p] = "Unchanged" -> Untouched(p) /\ entry[n] = Missing
      [] result[p] \in {"Conflict", "TooLarge"} -> Untouched(p)
      [] result[p] = "BeforeCommit" ->
           \/ Untouched(p)
           \/ entry[n] = Requested(op[p]) /\ pending[n] = {entry[n]}
      [] OTHER -> TRUE

OutcomeTruthful ==
    \A p \in Procs : pc[p] = "session" /\ op[p] # NoOp => OutcomeTold(p)

(* A change the caller was told is done is not taken back: as long as      *)
(* nobody changes the name again, not even by a power loss.                *)
ConfirmedSurvives ==
    [][\A n \in Names : confirmed[n] /\ confirmed'[n] => entry'[n] = entry[n]]_vars

(* A reader without the lock answers with a state the name was in during   *)
(* its call; a conflict or a vanished file is only ever the work of a      *)
(* remover (or of a foreign entry), never of a replacement                 *)
(* (native.rs:36-70).                                                      *)
ReadTold(r) ==
    LET answer == read[r].answer
        found == window[r] IN
    /\ answer = "Missing" => Missing \in found
    /\ answer = "Present" => read[r].file \in found /\ read[r].file.len <= read[r].limit
    /\ answer = "TooLarge" => read[r].file \in found /\ read[r].file.len > read[r].limit
    /\ answer = "Conflict" => Other \in found \/ Missing \in found
    /\ answer = "Vanished" => Missing \in found /\ found \cap File # {}

ReadLinearizable == \A r \in Readers : ReadTold(r)

(* Every call returns: no step of an editor or a reader waits for another  *)
(* process (the flock is non-blocking, native.rs:126).                     *)
CallsReturn ==
    /\ \A p \in Procs : pc[p] \notin {"idle", "session"} ~> pc[p] \in {"idle", "session"}
    /\ \A r \in Readers : rpc[r] # "idle" ~> rpc[r] = "idle"

(* Why they return, without a scheduler: whatever step is taken, by whom-  *)
(* ever, a call that goes on has less left to do or is where it was: its   *)
(* stage and its source are nobody else's, and no reader looks twice.      *)
Calling(p) == pc[p] \notin {"idle", "session"}

Ahead(step) ==
    CASE step = "admitted" -> 7 [] step = "reclaimed" -> 6 [] step = "copying" -> 5
      [] step = "copied" -> 4 [] step \in {"staged", "unlinking"} -> 3
      [] step \in {"renamed", "unlinked"} -> 2 [] step = "synced" -> 1
      [] step = "present" -> 3 [] step = "file" -> 2 [] step = "opened" -> 1
      [] OTHER -> 0

BytesLeft(p) == Admitted(op[p]) - stage[op[p].name].len

Shorter(p) ==
    \/ Ahead(pc'[p]) < Ahead(pc[p])
    \/ pc[p] = "copying" /\ UNCHANGED <<pc[p], op[p]>> /\ 0 <= BytesLeft(p)' /\ BytesLeft(p)' < BytesLeft(p)

CallsShorten ==
    [][/\ \A p \in Procs : Calling(p) =>
            Shorter(p) \/ UNCHANGED <<pc[p], op[p], stage[op[p].name]>>
       /\ \A r \in Readers : rpc[r] # "idle" =>
            Ahead(rpc'[r]) < Ahead(rpc[r]) \/ UNCHANGED <<rpc[r], read[r]>>]_vars

(* And the next step of a call is never barred: there is room for its      *)
(* stage, its copy ends at what its limit admits, and what a create found  *)
(* missing still is when it renames.                                       *)
NobodyBars ==
    \A p \in Procs :
        /\ pc[p] = "reclaimed" => stage[op[p].name] = Missing
        /\ pc[p] = "copying" => stage[op[p].name] \in File /\ BytesLeft(p) >= 0
        /\ pc[p] = "staged" /\ op[p].kind = "create" => entry[op[p].name] = Missing

(* The store implements the atomic register.                               *)
Abs(e) == IF e \in File THEN (IF Complete(e) THEN e.data ELSE NoData) ELSE e

Atomic == INSTANCE AtomicRecord WITH
    value <- [n \in Names |-> Abs(entry[n])],
    survivors <- [n \in Names |-> {Abs(e) : e \in pending[n]}]

AtomicSpec == Atomic!Spec
=============================================================================
