------------------------ MODULE RemoteAcquireProps ------------------------
(***************************************************************************)
(* What a remote acquisition guarantees.                                   *)
(***************************************************************************)
EXTENDS RemoteAcquire

Acquired == pc = "done" /\ result = "Success"

(* A whole representation was being transferred when the connection broke. *)
FullBodyBroke ==
    \E i \in 1 .. Len(attempts) : attempts[i].status = 200 /\ attempts[i].outcome = "NetworkError"

(* An acquired file is one representation from its first byte on, never a  *)
(* mixture of attempts, and a resumed one is that representation to its    *)
(* end, and the one the caller's validator names (net.rs:1445, 2059, 2219).*)
(* The exception is a range that was ignored, restarted, cut, and asked    *)
(* again: see ResumesValidatorBound.                                       *)
OneRepresentation ==
    Acquired =>
        \/ \E r \in Reps :
              /\ stage = Bytes(r, bytes)
              /\ resumed = "PartialAppended" => r = validator /\ bytes = Size[r]
        \/ resumed = "PartialAppended" /\ FullBodyBroke

(* No file over the limit is acquired, whether its bytes came in one       *)
(* response or partly from the caller's file (net.rs:2201, 2366).          *)
WithinLimit == Acquired => DOMAIN stage = 1 .. bytes /\ Fits(bytes)

(* What the policy would have retried.                                     *)
Transient(a) ==
    \/ a.outcome \in {"NetworkError", "RetryableStatus"}
    \/ a.outcome = "Inspected" /\ a.status \in {0, 503}

(* The loop ends by returning: unreachable!() stays out of reach for every *)
(* mix of failures, retries and the one restart after a 416.  The evidence *)
(* lists each attempt once, in order; what precedes the last was retried   *)
(* within max_retries or was that restart, and a failure that could have   *)
(* been retried is reported only when the retries are used up, by the HEAD *)
(* inspection too (net.rs:1259, 1315, 1358-1363, 1434, 1556).              *)
AttemptsAccounted ==
    /\ pc # "fallen"
    /\ \A i \in 1 .. Len(attempts) :
        LET a == attempts[i] IN
        /\ a.number = i - 1
        /\ a.planned => a.number < retries
        /\ Transient(a) => a.planned \/ a.number >= retries
        /\ i < Len(attempts) => a.planned \/ a.status = 416
    /\ Acquired => Len(attempts) = attempt + 1 /\ attempts[attempt + 1].outcome = "Success"
    /\ result = "Observed" =>
        Len(attempts) = attempt + 1 /\ attempts[attempt + 1].outcome = "Inspected"

(* The resume evidence of a success is what happened to the partial file:  *)
(* appended to by this last response, given up after a 416, or ignored; and*)
(* there is none if nothing was to be resumed (net.rs:1553, 2173, 2149).   *)
ResumeEvidenceTruthful ==
    Acquired =>
        /\ resumed = "none" <=> ~planned
        /\ resumed = "PartialAppended" <=> Appending
        /\ resumed = "RangeUnsatisfiableRestarted" <=>
              \E i \in 1 .. Len(attempts) : attempts[i].status = 416

(* Every acquisition comes to an end, with its artifact or an error, and   *)
(* every inspection with its observation or an error.                      *)
AcquireReturns == pc \in {"source", "heading"} ~> pc = "done"

(* What a call has left to do: attempts, then stages of the attempt, then  *)
(* bytes of the response.                                                  *)
Left == <<
    CASE pc = "source" -> retries + 1 [] pc = "done" -> 0 [] OTHER -> MaxAttempts - attempt,
    CASE pc = "source" -> 4 [] pc \in {"heading", "sending"} -> 3 [] pc = "resetting" -> 2
      [] pc = "copying" -> 1 [] OTHER -> 0,
    IF pc = "copying" THEN body.end - body.next ELSE 0 >>

Less(m, n) ==
    \/ m[1] < n[1]
    \/ m[1] = n[1] /\ m[2] < n[2]
    \/ m[1] = n[1] /\ m[2] = n[2] /\ m[3] < n[3]

(* No call runs in circles, whatever the server answers: every step brings *)
(* it nearer to its end, be it a chunk, an answer or a failed attempt, and *)
(* the one restart after a 416 is no exception (net.rs:1315, 1358, 1434).  *)
Shrinks == [][Left' \in Nat \X Nat \X Nat /\ Less(Left', Left)]_vars

(* A policy "[c]ontrols whether acquisition restarts or resumes from       *)
(* validator-bound bytes" (net.rs:814): what a 206 was appended to are the *)
(* partial bytes the validator is bound to.  After a 200 the stage holds   *)
(* other bytes, yet the range stays planned for the retry.                 *)
ResumesValidatorBound ==
    Acquired /\ resumed = "PartialAppended" =>
        \A i \in 1 .. partial : stage[i] = Bytes(validator, partial)[i]
=============================================================================
