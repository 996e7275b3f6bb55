---------------------------- MODULE ProcessProps ----------------------------
(***************************************************************************)
(* What bounded runs and managed sessions guarantee.                       *)
(***************************************************************************)
EXTENDS Process

Done == pc = "done"
Stopping == {"TimedOut", "Cancelled", "Stopped", "StopTimedOut", "Dropped"}
Natural == {"Success", "ExitedNonZero", "OutputMissing", "OutputWrongKind", "OutputInspect"}

(* An outcome tells what happened, whichever of the exit, the timeout and  *)
(* the cancellation came first: a success is the child's own, left alone,  *)
(* with the directory seen; a failure of the program is not the adapter's  *)
(* own kill; a cancellation is never a timeout (process.rs:36-39, 1380,    *)
(* 1160, and the guard's comment at 1879: a natural end stops nobody).     *)
RunTruthful ==
    Done =>
        /\ kind \in Natural => Ended /\ ~signalled
        /\ kind = "Success" => status = "ok" /\ (Private => seen = "dir")
        /\ kind = "ExitedNonZero" => status # "ok"
        /\ kind = "TimedOut" => expired
        /\ kind = "Cancelled" => token /\ cancelled
        /\ kind = "Wait" => hostReaps

(* Whoever is told that a run was stopped, in whichever way, finds the     *)
(* child gone and nothing of its group still at work; what detached is     *)
(* outside the claim (process.rs:7, 1404, 1733, 1911).                     *)
StoppedTreeIsGone ==
    Done /\ kind \in Stopping /\ child # "none" /\ ~(kind = "Dropped" /\ resolved /\ ~signalled) =>
        /\ Group \subseteq doomed
        /\ api # "async" \/ kind # "Dropped" => child = "reaped"

(* A workspace is either handed over with the output, or gone, or its      *)
(* remainder is reported, except by a call that is abandoned or cancelled  *)
(* before it started (process.rs:2090, 1160).                              *)
CustodyTruthful ==
    Done /\ Private =>
        /\ workspace = "handed" <=> kind = "Success"
        /\ workspace = "left" /\ ~unclean => kind = "Dropped" \/ (kind = "Cancelled" /\ child = "none")
        /\ unclean => workspace = "left"

(* Nobody but the admitted tree is killed: its number is not signalled     *)
(* once it may be somebody else's.  The exceptions are the guard of an     *)
(* asynchronous run, dropped armed after the child was waited for, and a   *)
(* session stopped after it was observed to have ended.                    *)
SignalsOwnTree ==
    struck => hostReaps \/ api = "async" \/ kind = "Stopped" \/ pc = "stopping"

(* Diagnostics that are presented as captured hold, up to the cap, all     *)
(* that the child wrote, and tell what was cut off; of a blocking run this *)
(* is so when its file was read as it was, and otherwise they still stay   *)
(* within the cap and claim no cut that was none (process.rs:1825, 2077).  *)
DiagnosticsTruthful ==
    Done /\ reader \in {"ended", "short"} =>
        /\ retained <= cap
        /\ truncated => wrote > cap
        /\ api = "async" \/ reader = "ended" =>
             /\ retained >= Min(cap, atExit)
             /\ atExit > cap => truncated
             /\ truncated => retained = cap

(* Which runs may wait for a stranger: one that was interrupted reads its  *)
(* pipe to the end of processes that are dying, or that left its group; a  *)
(* natural end alone waits for survivors that nobody has stopped           *)
(* (process.rs:1792-1801, the kill before and the drain after).            *)
InterruptedAwaitsDying ==
    pc = "draining" /\ kind # "none" => signalled /\ open \subseteq doomed \cup loose

(* Every call comes to an end: a noisy program is read while it is waited  *)
(* for, a silent one runs into its timeout, and a session that is stopped  *)
(* or dropped waits for a process that is dying.  wait() may wait for ever,*)
(* and so does an asynchronous run whose pipe a descendant holds.          *)
PipeHeld == pc = "draining" /\ Ended /\ open # {}

CallsEnd == pc \notin {"session", "waiting"} ~> Done \/ pc = "session" \/ PipeHeld

(* "Once the child has produced an exit status the guard is disarmed, so   *)
(* normal completion leaves surviving descendants running exactly like the *)
(* sync adapter" (process.rs:1882): a bounded run ends.                    *)
BoundedRunEnds == pc = "await" ~> Done
=============================================================================
