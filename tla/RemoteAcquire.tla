--------------------------- MODULE RemoteAcquire ---------------------------
(***************************************************************************)
(* One remote acquisition (src/net.rs): a prepared download that may       *)
(* continue the caller's partial file, the loop of attempts, the admission *)
(* of each response, and the copy of its body into the stage; or one HEAD  *)
(* inspection, whose loop is of the same kind.  The blocking client (ureq) *)
(* and the asynchronous one (reqwest) run the same steps; an asynchronous  *)
(* call that is dropped stops where it is.                                 *)
(*                                                                         *)
(* Covered: a resource whose representation changes between requests, a    *)
(* server that ignores ranges, answers other ranges than asked or none at  *)
(* all, transfers cut at any byte, with or without a known length, bounded *)
(* retries, the size limit, the failure of any local call.                 *)
(*                                                                         *)
(* Assumed: the caller's partial file is a prefix of the representation    *)
(* its validator names; a partial response that names no validator is of   *)
(* the representation If-Range asked for; Content-Range is true of the     *)
(* response.  Delays, rate admission and pacing change no state and are    *)
(* left out.  Of the statuses 503 stands for those the policy retries.     *)
(***************************************************************************)
EXTENDS Integers, Sequences

CONSTANTS
    Reps,       \* representations the resource may have
    Size,       \* the length of each
    Budgets,    \* values of max_retries
    Limits,     \* values of max_bytes
    NoLimit,    \* the limit that is not set
    NoRep,      \* no representation
    Zero        \* a byte nobody wrote

ASSUME ConstantsOK ==
    /\ Size \in [Reps -> Nat \ {0}]
    /\ Budgets \subseteq Nat
    /\ Limits \subseteq Nat \cup {NoLimit}
    /\ NoLimit \notin Nat /\ NoRep \notin Reps

VARIABLES
    retries, limit,     \* the caller's policy
    pc, result,
    planned,    \* whether the acquisition was prepared to resume
    partial, validator, \* the partial bytes, and the representation they are of
    resuming,   \* prepared_resume is still set
    stage,      \* the staged file: position -> byte
    attempt, attempts,  \* the loop's counter, and its evidence
    resumed,    \* the resume evidence
    body,       \* the response being transferred
    bytes       \* bytes materialized by this attempt, partial ones included

policy == <<retries, limit, planned, partial, validator>>
vars == <<policy, pc, result, resuming, stage, attempt, attempts, resumed, body, bytes>>

Known == {"length", "chunked", "close"}   \* how the end of a body is told
Error == {"Transport", "HttpStatus", "Protocol", "LimitExceeded", "Local"}
Attempt == [number : Nat, status : Nat, planned : BOOLEAN,
            outcome : {"NetworkError", "RetryableStatus", "NonRetryableStatus",
                       "LimitExceeded", "LocalFailure", "Success", "Inspected", "Unplaced"}]
Body == [status : {200, 206}, rep : Reps, next : Nat, end : Nat, framing : Known]
NoBody == [status |-> 200, rep |-> NoRep, next |-> 0, end |-> 0, framing |-> "close"]

Fits(n) == n <= (IF limit = NoLimit THEN n ELSE limit)
Appending == body.status = 206
MaxAttempts == retries + (IF planned THEN 1 ELSE 0)
Bytes(r, n) == [i \in 1 .. n |-> <<r, i>>]

TypeOK ==
    /\ retries \in Budgets /\ limit \in Limits
    /\ pc \in {"source", "heading", "sending", "resetting", "copying", "done"}
    /\ result \in {"none", "Success", "Observed"} \cup Error
    /\ planned \in BOOLEAN /\ resuming \in BOOLEAN
    /\ partial \in Nat /\ validator \in Reps \cup {NoRep}
    /\ planned => partial > 0 /\ validator \in Reps
    /\ DOMAIN stage \subseteq Nat
    /\ attempt \in Nat /\ attempts \in Seq(Attempt)
    /\ resumed \in {"none", "PartialAppended", "RangeIgnoredRestarted",
                    "RangeUnsatisfiableRestarted"}
    /\ body \in Body \cup {NoBody}
    /\ bytes \in Nat

Init ==
    /\ retries \in Budgets /\ limit \in Limits
    /\ pc \in {"source", "heading"} /\ result = "none"
    /\ planned = FALSE /\ resuming = FALSE /\ partial = 0 /\ validator = NoRep
    /\ stage = <<>> /\ bytes = 0 /\ body = NoBody
    /\ attempt = 0 /\ attempts = <<>> /\ resumed = "none"

(***************************************************************************)
(* Preparation                                                             *)
(***************************************************************************)

(* RestartOnly, no partial file, or an empty one.                          *)
PrepareRestart ==
    /\ pc = "source"
    /\ pc' = "sending"
    /\ UNCHANGED <<policy, result, resuming, stage, attempt, attempts, resumed, body, bytes>>

(* The first n bytes of r are copied from the caller's file into the stage.*)
PrepareResume(r, n) ==
    /\ pc = "source"
    /\ n > 0
    /\ planned' = TRUE /\ resuming' = TRUE
    /\ partial' = n /\ validator' = r
    /\ stage' = Bytes(r, n)
    /\ pc' = "sending"
    /\ UNCHANGED <<retries, limit, result, attempt, attempts, resumed, body, bytes>>

PrepareFails ==
    /\ pc = "source"
    /\ pc' = "done" /\ result' = "Local"
    /\ UNCHANGED <<policy, resuming, stage, attempt, attempts, resumed, body, bytes>>

(***************************************************************************)
(* The loop of attempts                                                    *)
(***************************************************************************)

Log(status, outcome, again) ==
    attempts' = Append(attempts, [number |-> attempt, status |-> status, planned |-> again,
                                  outcome |-> outcome])

Fail(error) ==
    /\ pc' = "done" /\ result' = error
    /\ UNCHANGED attempt

(* One retry too many.                                                     *)
CanRetry_Inclusive == attempt <= retries

CanRetry == attempt < retries

(* continue: past the last attempt the loop would end in unreachable!().   *)
Again ==
    /\ pc' = IF attempt >= MaxAttempts THEN "fallen"
             ELSE IF pc = "heading" THEN "heading" ELSE "sending"
    /\ attempt' = attempt + 1
    /\ UNCHANGED result

(* A transient failure: retried within the policy, or the call's error.    *)
RetryOrFail(status, outcome, error) ==
    IF CanRetry
    THEN Log(status, outcome, TRUE) /\ Again
    ELSE Log(status, outcome, FALSE) /\ Fail(error)

SendFails ==
    /\ pc = "sending"
    /\ RetryOrFail(0, "NetworkError", "Transport")
    /\ UNCHANGED <<policy, resuming, stage, resumed, body, bytes>>

(***************************************************************************)
(* Inspection: an attempt's evidence is its status, 0 for none             *)
(***************************************************************************)

HeadFails ==
    /\ pc = "heading"
    /\ RetryOrFail(0, "Inspected", "Transport")
    /\ UNCHANGED <<policy, resuming, stage, resumed, body, bytes>>

(* Any status is an observation, once the retries are used up.             *)
HeadAnswered(status) ==
    /\ pc = "heading"
    /\ IF status = 503 /\ CanRetry
       THEN Log(status, "Inspected", TRUE) /\ Again
       ELSE /\ Log(status, "Inspected", FALSE)
            /\ pc' = "done" /\ result' = "Observed" /\ UNCHANGED attempt
    /\ UNCHANGED <<policy, resuming, stage, resumed, body, bytes>>

(* The answer came from a place that is no URL: not even a 503 is retried. *)
HeadUnplaced(status) ==
    /\ pc = "heading"
    /\ Log(status, "Unplaced", FALSE)
    /\ Fail("Protocol")
    /\ UNCHANGED <<policy, resuming, stage, resumed, body, bytes>>

Inspect == HeadFails \/ \E status \in {200, 404, 503} : HeadAnswered(status) \/ HeadUnplaced(status)

(***************************************************************************)
(* The response to a request                                               *)
(***************************************************************************)

(* The range cannot be satisfied: start over without it, once.             *)
RestartOn416_Silent ==
    /\ pc = "sending"
    /\ resuming
    /\ Log(416, "NonRetryableStatus", FALSE)
    /\ resuming' = FALSE
    /\ Again
    /\ UNCHANGED <<policy, stage, resumed, body, bytes>>

RestartOn416 ==
    /\ pc = "sending"
    /\ resuming
    /\ Log(416, "NonRetryableStatus", FALSE)
    /\ resumed' = "RangeUnsatisfiableRestarted"
    /\ resuming' = FALSE
    /\ Again
    /\ UNCHANGED <<policy, stage, body, bytes>>

(* Any other status that is no success: 503 stands for those the policy    *)
(* retries, 404 for the others; 416 without a range is one of the others.  *)
Refused(status) ==
    /\ pc = "sending"
    /\ status = 416 => ~resuming
    /\ IF status = 503
       THEN RetryOrFail(status, "RetryableStatus", "HttpStatus")
       ELSE Log(status, "NonRetryableStatus", FALSE) /\ Fail("HttpStatus")
    /\ UNCHANGED <<policy, resuming, stage, resumed, body, bytes>>

(* content_length tells that the body alone is over the limit.             *)
KnownOversize(status, length) ==
    /\ pc = "sending"
    /\ ~Fits(length)
    /\ Log(status, "LimitExceeded", FALSE)
    /\ Fail("LimitExceeded")
    /\ UNCHANGED <<policy, resuming, stage, resumed, body, bytes>>

Admitted(framing, length) == framing = "length" => Fits(length)

Transfer(status, r, start, end, framing) ==
    /\ body' = [status |-> status, rep |-> r, next |-> start, end |-> end, framing |-> framing]
    /\ pc' = "resetting"
    /\ UNCHANGED <<policy, resuming, result, stage, attempt, attempts, bytes>>

(* 200: the whole of r, whether or not a range was asked for.              *)
AdmitFull(r, framing) ==
    /\ pc = "sending"
    /\ Admitted(framing, Size[r])
    /\ resumed' = IF resuming THEN "RangeIgnoredRestarted" ELSE resumed
    /\ Transfer(200, r, 0, Size[r], framing)

(* permits_response is not asked.                                          *)
AdmitPartial_AnyRepresentation(r, start, end, named, framing) ==
    /\ pc = "sending"
    /\ Admitted(framing, end - start)
    /\ resuming
    /\ named \/ r = validator
    /\ start = partial /\ end = Size[r]
    /\ Transfer(206, r, start, end, framing)
    /\ UNCHANGED resumed

(* 206: bytes start+1 to end of r, if it continues the partial file to its *)
(* very end.  A response that names its validator must name the expected.  *)
AdmitPartial(r, start, end, named, framing) ==
    /\ pc = "sending"
    /\ Admitted(framing, end - start)
    /\ resuming
    /\ r = validator
    /\ start = partial /\ end = Size[r]
    /\ Transfer(206, r, start, end, framing)
    /\ UNCHANGED resumed

(* 206 unasked for, of another representation, without a Content-Range, or *)
(* with one that starts or ends elsewhere.                                 *)
RejectPartial(r, start, end, named, ranged, framing) ==
    /\ pc = "sending"
    /\ Admitted(framing, end - start)
    /\ named \/ ~resuming \/ r = validator
    /\ ~resuming \/ r # validator \/ ~ranged \/ start # partial \/ end # Size[r]
    /\ Fail("Protocol")
    /\ UNCHANGED <<policy, resuming, stage, attempts, resumed, body, bytes>>

(***************************************************************************)
(* The transfer                                                            *)
(***************************************************************************)

(* set_len and seek: cut to the partial bytes, or to nothing.  What is     *)
(* beyond the file's end reads as zeros.                                   *)
Reset ==
    /\ pc = "resetting"
    /\ bytes' = IF Appending THEN partial ELSE 0
    /\ stage' = [i \in 1 .. bytes' |-> IF i \in DOMAIN stage THEN stage[i] ELSE Zero]
    /\ pc' = "copying"
    /\ UNCHANGED <<policy, result, resuming, attempt, attempts, resumed, body>>

StageFails ==
    /\ pc = "resetting"
    /\ Fail("Local")
    /\ UNCHANGED <<policy, resuming, stage, attempts, resumed, body, bytes>>

(* The limit is that of the response, not of the file.                     *)
Copy_ResponseOnly(n) ==
    /\ pc = "copying"
    /\ IF Appending THEN Fits(bytes - partial + n) ELSE Fits(bytes + n)
    /\ stage' = [i \in 1 .. bytes + n |->
                    IF i <= bytes THEN stage[i] ELSE <<body.rep, body.next + i - bytes>>]
    /\ bytes' = bytes + n
    /\ body' = [body EXCEPT !.next = @ + n]
    /\ UNCHANGED <<policy, pc, result, resuming, attempt, attempts, resumed>>

(* One chunk of n bytes, after the check of the limit.                     *)
Copy(n) ==
    /\ pc = "copying"
    /\ Fits(bytes + n)
    /\ stage' = [i \in 1 .. bytes + n |->
                    IF i <= bytes THEN stage[i] ELSE <<body.rep, body.next + i - bytes>>]
    /\ bytes' = bytes + n
    /\ body' = [body EXCEPT !.next = @ + n]
    /\ UNCHANGED <<policy, pc, result, resuming, attempt, attempts, resumed>>

CopyOversize(n) ==
    /\ pc = "copying"
    /\ ~Fits(bytes + n)
    /\ Log(body.status, "LimitExceeded", FALSE)
    /\ Fail("LimitExceeded")
    /\ UNCHANGED <<policy, resuming, stage, resumed, body, bytes>>

WriteFails ==
    /\ pc = "copying"
    /\ body.next < body.end
    /\ Log(body.status, "LocalFailure", FALSE)
    /\ Fail("Local")
    /\ UNCHANGED <<policy, resuming, stage, resumed, body, bytes>>

(* A cut body is transferred anew, outside the loop of attempts.           *)
BodyBreaks_Uncounted ==
    /\ pc = "copying"
    /\ body' = [body EXCEPT !.next = IF Appending THEN partial ELSE 0]
    /\ pc' = "resetting"
    /\ UNCHANGED <<policy, result, resuming, stage, attempt, attempts, resumed, bytes>>

(* The transport reports that the body was cut.                            *)
BodyBreaks ==
    /\ pc = "copying"
    /\ RetryOrFail(body.status, "NetworkError", "Transport")
    /\ UNCHANGED <<policy, resuming, stage, resumed, body, bytes>>

(* A body that ends with the connection can end too early unnoticed.       *)
BodyEnded == body.next = body.end \/ body.framing = "close"

(* matches_materialized_bytes: an appended file has the announced length.  *)
Materialized == Appending => bytes = Size[body.rep]

ShortFragment ==
    /\ pc = "copying"
    /\ BodyEnded /\ ~Materialized
    /\ Fail("Protocol")
    /\ UNCHANGED <<policy, resuming, stage, attempts, resumed, body, bytes>>

FlushFails ==
    /\ pc = "copying"
    /\ BodyEnded /\ Materialized
    /\ Fail("Local")
    /\ UNCHANGED <<policy, resuming, stage, attempts, resumed, body, bytes>>

Succeed ==
    /\ pc = "copying"
    /\ BodyEnded /\ Materialized
    /\ resumed' = IF Appending THEN "PartialAppended" ELSE resumed
    /\ Log(body.status, "Success", FALSE)
    /\ pc' = "done" /\ result' = "Success"
    /\ UNCHANGED <<policy, resuming, stage, attempt, body, bytes>>

Respond ==
    \/ RestartOn416
    \/ \E status \in {404, 416, 503} : Refused(status)
    \/ \E r \in Reps : KnownOversize(200, Size[r])
    \/ \E r \in Reps : \E length \in 1 .. Size[r] : KnownOversize(206, length)
    \/ \E r \in Reps, framing \in Known : AdmitFull(r, framing)
    \/ \E r \in Reps, framing \in Known, named, ranged \in BOOLEAN :
        \E start \in 0 .. Size[r] - 1 : \E end \in start + 1 .. Size[r] :
            \/ ranged /\ AdmitPartial(r, start, end, named, framing)
            \/ RejectPartial(r, start, end, named, ranged, framing)

Next ==
    \/ PrepareRestart
    \/ \E r \in Reps : \E n \in 1 .. Size[r] : PrepareResume(r, n)
    \/ PrepareFails
    \/ Inspect
    \/ SendFails \/ Respond
    \/ Reset \/ StageFails
    \/ \E n \in 1 .. body.end - body.next : Copy(n) \/ CopyOversize(n)
    \/ WriteFails \/ BodyBreaks
    \/ ShortFragment \/ FlushFails \/ Succeed

Spec == Init /\ [][Next]_vars

(* A call that is waited for goes on: a local step is taken, a request is  *)
(* answered or fails, which the policy's timeout sees to.                  *)
FairSpec == Spec /\ WF_vars(Next)
=============================================================================
