------------------------ MODULE RemoteAcquireProofs ------------------------
(***************************************************************************)
(* Proofs about remote acquisition, for every set of representations, any  *)
(* retry budget and any limit.                                             *)
(*                                                                         *)
(* The argument: the loop can restart once, and only before the retries    *)
(* are used up (Budget); each attempt leaves one entry (Accounted); what   *)
(* is in the stage when a range may be asked for again begins with the     *)
(* partial bytes, unless the body of a whole representation broke (Kept);  *)
(* what is being copied continues what is there (Copied).                  *)
(***************************************************************************)
EXTENDS RemoteAcquireProps, TLAPS

Running == pc \in {"heading", "sending", "resetting", "copying"}

Outcomes == {"NetworkError", "RetryableStatus", "NonRetryableStatus", "LimitExceeded",
             "LocalFailure", "Success", "Inspected", "Unplaced"}

Budget ==
    /\ resuming => planned
    /\ pc = "source" => attempt = 0
    /\ pc \in {"source", "heading"} => ~planned
    /\ Running => attempt <= MaxAttempts
    /\ Running /\ resuming => attempt <= retries

Accounted ==
    /\ \A i \in 1 .. Len(attempts) :
         /\ attempts[i].number = i - 1
         /\ attempts[i].planned => attempts[i].number < retries
         /\ Transient(attempts[i]) => attempts[i].planned \/ attempts[i].number >= retries
         /\ i < Len(attempts) \/ Running => attempts[i].planned \/ attempts[i].status = 416
    /\ pc = "source" \/ Running => Len(attempts) = attempt /\ result = "none"
    /\ Acquired => Len(attempts) = attempt + 1 /\ attempts[attempt + 1].outcome = "Success"
    /\ result = "Observed" =>
        Len(attempts) = attempt + 1 /\ attempts[attempt + 1].outcome = "Inspected"

Continued == \E k \in Nat : k >= partial /\ stage = Bytes(validator, k)

Kept == pc \in {"sending", "resetting"} /\ resuming /\ ~FullBodyBroke => Continued

Transferring ==
    pc \in {"resetting", "copying"} =>
        /\ body \in Body
        /\ Appending => resuming /\ body.rep = validator /\ partial < Size[validator]
        /\ pc = "resetting" => body.next = IF Appending THEN partial ELSE 0

Copied ==
    pc = "copying" =>
        /\ body.next = bytes
        /\ DOMAIN stage = 1 .. bytes
        /\ Appending => bytes >= partial
        /\ Fits(bytes) \/ (Appending /\ bytes = partial)
        /\ ~Appending \/ ~FullBodyBroke => stage = Bytes(body.rep, bytes)

Had416 == \E i \in 1 .. Len(attempts) : attempts[i].status = 416

Evidence ==
    /\ pc = "source" \/ Running =>
         /\ resumed = "RangeUnsatisfiableRestarted" <=> Had416
         /\ resumed # "PartialAppended"
         /\ ~planned => resumed = "none"
         /\ planned /\ ~resuming => Had416
         /\ resuming => ~Had416
    /\ pc \in {"resetting", "copying"} /\ ~Appending /\ planned => resumed # "none"

Inv ==
    /\ TypeOK /\ Budget /\ Accounted
    /\ Kept /\ Transferring /\ Copied /\ OneRepresentation /\ WithinLimit
    /\ Evidence /\ ResumeEvidenceTruthful

USE ConstantsOK DEF ConstantsOK

(* Appending one entry to the evidence keeps the others.                   *)
LEMMA Appended ==
    ASSUME NEW s \in Seq(Attempt), NEW e \in Attempt
    PROVE  /\ Append(s, e) \in Seq(Attempt)
           /\ Len(Append(s, e)) = Len(s) + 1
           /\ \A i \in 1 .. Len(s) : Append(s, e)[i] = s[i]
           /\ Append(s, e)[Len(s) + 1] = e
OBVIOUS

(* What the log of one attempt adds to the evidence.                       *)
LEMMA Logged ==
    ASSUME TypeOK, NEW status \in Nat, NEW again \in BOOLEAN,
           NEW outcome \in Outcomes,
           Log(status, outcome, again)
    PROVE  /\ attempts' \in Seq(Attempt)
           /\ Len(attempts) \in Nat
           /\ Len(attempts') = Len(attempts) + 1
           /\ \A i \in 1 .. Len(attempts) : attempts'[i] = attempts[i]
           /\ attempts'[Len(attempts) + 1] = [number |-> attempt, status |-> status,
                                              planned |-> again, outcome |-> outcome]
<1> DEFINE e == [number |-> attempt, status |-> status, planned |-> again, outcome |-> outcome]
<1>1. e \in Attempt /\ attempts \in Seq(Attempt) /\ attempts' = Append(attempts, e)
  BY DEF TypeOK, Attempt, Log, Outcomes
<1> HIDE DEF e
<1>2. /\ attempts' \in Seq(Attempt)
      /\ Len(attempts) \in Nat
      /\ Len(attempts') = Len(attempts) + 1
      /\ \A i \in 1 .. Len(attempts) : attempts'[i] = attempts[i]
      /\ attempts'[Len(attempts) + 1] = e
  BY <1>1, Appended
<1> QED BY <1>2 DEF e

(* Marks of earlier attempts stay, and the new entry adds its own.         *)
LEMMA Marked ==
    ASSUME Len(attempts) \in Nat, Len(attempts') = Len(attempts) + 1,
           \A i \in 1 .. Len(attempts) : attempts'[i] = attempts[i]
    PROVE  LET e == attempts'[Len(attempts) + 1] IN
           /\ FullBodyBroke => FullBodyBroke'
           /\ e.status = 200 /\ e.outcome = "NetworkError" => FullBodyBroke'
           /\ Had416 => Had416'
           /\ e.status = 416 => Had416'
           /\ Had416' => Had416 \/ e.status = 416
<1>1. /\ Len(attempts) + 1 \in 1 .. Len(attempts')
      /\ \A i \in 1 .. Len(attempts) : i \in 1 .. Len(attempts')
      /\ \A i \in 1 .. Len(attempts') : i \in 1 .. Len(attempts) \/ i = Len(attempts) + 1
  OBVIOUS
<1> QED BY <1>1 DEF FullBodyBroke, Had416

LEMMA InitInv == Init => Inv
<1> SUFFICES ASSUME Init PROVE Inv
  OBVIOUS
<1> USE DEF Init
<1>1. TypeOK
  <2>1. DOMAIN stage \subseteq Nat
    OBVIOUS
  <2>2. attempts \in Seq(Attempt)
    OBVIOUS
  <2> QED BY <2>1, <2>2 DEF TypeOK, NoBody
<1>2. Budget /\ Accounted /\ Kept /\ Transferring /\ Copied
  <2>1. retries \in Nat /\ MaxAttempts = retries
    BY DEF MaxAttempts
  <2>2. Budget
    BY <2>1 DEF Budget, Running
  <2> QED BY <2>2 DEF Accounted, Kept, Transferring, Copied, Running, Acquired
<1>3. OneRepresentation /\ WithinLimit /\ Evidence /\ ResumeEvidenceTruthful
  BY DEF OneRepresentation, WithinLimit, Evidence, ResumeEvidenceTruthful, Acquired, Had416
<1> QED BY <1>1, <1>2, <1>3 DEF Inv

LEMMA StutterInv == Inv /\ UNCHANGED vars => Inv'
<1> SUFFICES ASSUME Inv, UNCHANGED vars PROVE Inv'
  OBVIOUS
<1> USE DEF vars, policy, Inv
<1>1. TypeOK' /\ Budget' /\ Accounted'
  BY DEF TypeOK, Budget, Accounted, Running, Acquired, MaxAttempts
<1>2. Kept' /\ Transferring' /\ Copied'
  BY DEF Kept, Transferring, Copied, Continued, FullBodyBroke, Appending, Fits
<1>3. OneRepresentation' /\ WithinLimit' /\ Evidence' /\ ResumeEvidenceTruthful'
  BY DEF OneRepresentation, WithinLimit, Evidence, ResumeEvidenceTruthful, Running, Acquired,
         FullBodyBroke, Had416, Appending, Fits
<1> QED BY <1>1, <1>2, <1>3

(* The call ends with an error: nothing but its evidence is left to tell.  *)
LEMMA EndQuiet ==
    ASSUME Inv, pc' = "done", result' \in Error,
           UNCHANGED <<policy, resuming, stage, attempt, attempts, resumed, body, bytes>>
    PROVE  Inv'
<1> USE DEF Inv, policy, Error
<1>1. TypeOK'
  BY DEF TypeOK
<1>2. Budget' /\ Accounted'
  BY DEF Budget, Accounted, Running, Acquired
<1>3. Kept' /\ Transferring' /\ Copied' /\ OneRepresentation' /\ WithinLimit'
  BY DEF Kept, Transferring, Copied, OneRepresentation, WithinLimit, Acquired
<1>4. Evidence' /\ ResumeEvidenceTruthful'
  BY DEF Evidence, ResumeEvidenceTruthful, Running, Acquired
<1> QED BY <1>1, <1>2, <1>3, <1>4

LEMMA EndLogged ==
    ASSUME Inv, Running, NEW status \in Nat,
           NEW outcome \in Outcomes \ {"Success"},
           Log(status, outcome, FALSE), pc' = "done", result' \in Error \cup {"Observed"},
           Transient([status |-> status, outcome |-> outcome]) => ~CanRetry,
           result' = "Observed" => outcome = "Inspected",
           UNCHANGED <<policy, resuming, stage, attempt, resumed, body, bytes>>
    PROVE  Inv'
<1> USE DEF Inv, policy, Error
<1>1. /\ attempts' \in Seq(Attempt)
      /\ Len(attempts) \in Nat
      /\ Len(attempts') = Len(attempts) + 1
      /\ \A i \in 1 .. Len(attempts) : attempts'[i] = attempts[i]
      /\ attempts'[Len(attempts) + 1] = [number |-> attempt, status |-> status,
                                         planned |-> FALSE, outcome |-> outcome]
  BY Logged
<1>2. TypeOK'
  BY <1>1 DEF TypeOK
<1>3. Budget'
  BY DEF Budget, Running, TypeOK
<1>6. Accounted'
  <2>1. ~Running' /\ ~Acquired' /\ pc' # "source"
    BY DEF Running, Acquired
  <2>2. Len(attempts) = attempt /\ attempt \in Nat
    BY DEF Accounted, TypeOK
  <2>5. result' = "Observed" =>
          Len(attempts') = attempt' + 1 /\ attempts'[attempt' + 1].outcome = "Inspected"
    BY <1>1, <2>2
  <2> SUFFICES ASSUME NEW i \in 1 .. Len(attempts')
               PROVE  /\ attempts'[i].number = i - 1
                      /\ attempts'[i].planned => attempts'[i].number < retries
                      /\ Transient(attempts'[i]) =>
                           attempts'[i].planned \/ attempts'[i].number >= retries
                      /\ i < Len(attempts') => attempts'[i].planned \/ attempts'[i].status = 416
    BY <2>1, <2>5 DEF Accounted
  <2>3. CASE i = Len(attempts) + 1
    BY <1>1, <2>2, <2>3 DEF Transient, CanRetry, TypeOK
  <2>4. CASE i \in 1 .. Len(attempts)
    BY <1>1, <2>4 DEF Accounted
  <2> QED BY <1>1, <2>3, <2>4
<1>4. Kept' /\ Transferring' /\ Copied' /\ OneRepresentation' /\ WithinLimit'
  BY DEF Kept, Transferring, Copied, OneRepresentation, WithinLimit, Acquired
<1>5. Evidence' /\ ResumeEvidenceTruthful'
  BY DEF Evidence, ResumeEvidenceTruthful, Running, Acquired
<1> QED BY <1>2, <1>3, <1>4, <1>5, <1>6

(* A retry: the loop has an attempt for it, and what it finds in the stage *)
(* is the partial file unless this was the body of a whole representation. *)
LEMMA RetryStep ==
    ASSUME Inv, pc \in {"heading", "sending", "copying"}, NEW status \in Nat, status # 416,
           NEW outcome \in {"NetworkError", "RetryableStatus", "Inspected"},
           Log(status, outcome, TRUE), CanRetry, Again,
           pc = "copying" => status = body.status /\ outcome = "NetworkError",
           UNCHANGED <<policy, resuming, stage, resumed, body, bytes>>
    PROVE  Inv'
<1> USE DEF Inv, policy
<1>1. /\ attempts' \in Seq(Attempt)
      /\ Len(attempts) \in Nat
      /\ Len(attempts') = Len(attempts) + 1
      /\ \A i \in 1 .. Len(attempts) : attempts'[i] = attempts[i]
      /\ attempts'[Len(attempts) + 1] = [number |-> attempt, status |-> status,
                                         planned |-> TRUE, outcome |-> outcome]
  <2>1. /\ TypeOK /\ Log(status, outcome, TRUE)
        /\ outcome \in Outcomes
    BY DEF Outcomes
  <2> QED BY <2>1, Logged
<1>9. /\ FullBodyBroke \/ (status = 200 /\ outcome = "NetworkError") => FullBodyBroke'
      /\ Had416' <=> Had416
  BY <1>1, Marked
<1>2. /\ pc' = IF pc = "heading" THEN "heading" ELSE "sending"
      /\ attempt' = attempt + 1 /\ attempt < retries /\ result' = result
  BY DEF TypeOK, Again, CanRetry, MaxAttempts
<1>3. TypeOK'
  <2>1. attempt' \in Nat
    BY <1>2 DEF TypeOK
  <2>2. attempts' \in Seq(Attempt)
    BY <1>1
  <2>3. pc' \in {"heading", "sending"} /\ result' = result
    BY <1>2
  <2> QED BY <2>1, <2>2, <2>3 DEF TypeOK
<1>4. Budget'
  BY <1>2 DEF Budget, Running, TypeOK, MaxAttempts
<1>8. Accounted'
  <2>1. Running /\ ~Acquired' /\ pc' # "source" /\ Len(attempts) = attempt /\ attempt \in Nat
    BY <1>2 DEF Accounted, Running, Acquired, TypeOK
  <2>2. ASSUME NEW i \in 1 .. Len(attempts')
        PROVE  /\ attempts'[i].number = i - 1
               /\ attempts'[i].planned => attempts'[i].number < retries
               /\ Transient(attempts'[i]) =>
                    attempts'[i].planned \/ attempts'[i].number >= retries
               /\ attempts'[i].planned \/ attempts'[i].status = 416
    <3>1. CASE i = Len(attempts) + 1
      BY <1>1, <1>2, <2>1, <3>1
    <3>2. CASE i \in 1 .. Len(attempts)
      BY <1>1, <2>1, <3>2 DEF Accounted
    <3> QED BY <1>1, <3>1, <3>2
  <2>3. Len(attempts') = attempt' /\ result' = "none"
    BY <1>1, <1>2, <2>1 DEF Accounted
  <2> QED BY <2>1, <2>2, <2>3 DEF Accounted
<1>5. Kept'
  <2> SUFFICES ASSUME resuming, ~FullBodyBroke' PROVE Continued
    BY <1>2 DEF Kept, Continued
  <2>3. pc # "heading"
    BY DEF Budget
  <2>1. CASE pc = "sending"
    BY <1>9, <2>1 DEF Kept
  <2>2. CASE pc = "copying"
    <3>1. Appending /\ ~FullBodyBroke
      BY <1>9, <2>2 DEF Transferring, Appending, Body
    <3> QED BY <2>2, <3>1 DEF Copied, Transferring, Continued, TypeOK
  <2> QED BY <2>1, <2>2, <2>3
<1>6. Transferring' /\ Copied' /\ OneRepresentation' /\ WithinLimit'
  BY <1>2 DEF Transferring, Copied, OneRepresentation, WithinLimit, Acquired
<1>7. Evidence' /\ ResumeEvidenceTruthful'
  BY <1>2, <1>9 DEF Evidence, ResumeEvidenceTruthful, Running, Acquired
<1> QED BY <1>3, <1>4, <1>5, <1>6, <1>7, <1>8

LEMMA PrepareRestartStep == Inv /\ PrepareRestart => Inv'
<1> SUFFICES ASSUME Inv, PrepareRestart PROVE Inv'
  OBVIOUS
<1> USE DEF Inv, PrepareRestart, policy
<1>1. TypeOK' /\ Budget' /\ Accounted'
  BY DEF TypeOK, Budget, Accounted, Running, Acquired, MaxAttempts
<1>2. Kept' /\ Transferring' /\ Copied' /\ OneRepresentation' /\ WithinLimit'
  BY DEF Budget, Kept, Transferring, Copied, OneRepresentation, WithinLimit, Acquired
<1>3. Evidence' /\ ResumeEvidenceTruthful'
  BY DEF Budget, Evidence, ResumeEvidenceTruthful, Running, Acquired, Had416
<1> QED BY <1>1, <1>2, <1>3

LEMMA PrepareResumeStep ==
    ASSUME Inv, NEW r \in Reps, NEW n \in 1 .. Size[r], PrepareResume(r, n)
    PROVE  Inv'
<1> USE DEF Inv, PrepareResume
<1>1. n \in Nat \ {0}
  OBVIOUS
<1>2. TypeOK'
  BY <1>1 DEF TypeOK, Bytes
<1>3. Budget' /\ Accounted'
  BY DEF TypeOK, Budget, Accounted, Running, Acquired, MaxAttempts
<1>4. Kept'
  BY <1>1 DEF Kept, Continued
<1>5. Transferring' /\ Copied' /\ OneRepresentation' /\ WithinLimit'
  BY DEF Transferring, Copied, OneRepresentation, WithinLimit, Acquired
<1>6. ~Had416
  <2>1. Len(attempts) = 0
    BY DEF Budget, Accounted
  <2> QED BY <2>1 DEF Had416
<1>7. Evidence' /\ ResumeEvidenceTruthful'
  BY <1>6 DEF Budget, Evidence, ResumeEvidenceTruthful, Running, Acquired, Had416
<1> QED BY <1>2, <1>3, <1>4, <1>5, <1>7

(* The one restart: resumption is over, and the loop has one attempt more  *)
(* than it has retries.                                                    *)
LEMMA RestartStep == Inv /\ RestartOn416 => Inv'
<1> SUFFICES ASSUME Inv, RestartOn416 PROVE Inv'
  OBVIOUS
<1> USE DEF Inv, RestartOn416, policy
<1>1. /\ attempts' \in Seq(Attempt)
      /\ Len(attempts) \in Nat
      /\ Len(attempts') = Len(attempts) + 1
      /\ \A i \in 1 .. Len(attempts) : attempts'[i] = attempts[i]
      /\ attempts'[Len(attempts) + 1] = [number |-> attempt, status |-> 416,
                                         planned |-> FALSE, outcome |-> "NonRetryableStatus"]
  <2>1. TypeOK /\ Log(416, "NonRetryableStatus", FALSE)
    OBVIOUS
  <2> HIDE DEF Inv, RestartOn416, policy
  <2>2. PICK refused \in Nat : refused = 416
    OBVIOUS
  <2>3. TypeOK /\ Log(refused, "NonRetryableStatus", FALSE) /\ "NonRetryableStatus" \in Outcomes
    BY <2>1, <2>2 DEF Outcomes
  <2>4. /\ attempts' \in Seq(Attempt)
        /\ Len(attempts) \in Nat
        /\ Len(attempts') = Len(attempts) + 1
        /\ \A i \in 1 .. Len(attempts) : attempts'[i] = attempts[i]
        /\ attempts'[Len(attempts) + 1] = [number |-> attempt, status |-> refused,
                                           planned |-> FALSE, outcome |-> "NonRetryableStatus"]
    BY ONLY <2>3, Logged
  <2> QED BY <2>2, <2>4
<1>2. Had416'
  BY <1>1, Marked
<1>3. planned /\ attempt <= retries /\ attempt \in Nat /\ retries \in Nat
  BY DEF Budget, Running, TypeOK
<1>4. pc' = "sending" /\ attempt' = attempt + 1 /\ result' = result
  BY <1>3 DEF Again, MaxAttempts
<1>5. TypeOK'
  <2>1. attempt' \in Nat /\ attempts' \in Seq(Attempt)
    BY <1>1, <1>3, <1>4
  <2> QED BY <1>4, <2>1 DEF TypeOK
<1>6. Budget'
  BY <1>3, <1>4 DEF Budget, Running, MaxAttempts
<1>7. Accounted'
  <2>1. Running /\ ~Acquired' /\ pc' # "source" /\ Len(attempts) = attempt
    BY <1>4 DEF Accounted, Running, Acquired
  <2>2. ASSUME NEW i \in 1 .. Len(attempts')
        PROVE  /\ attempts'[i].number = i - 1
               /\ attempts'[i].planned => attempts'[i].number < retries
               /\ Transient(attempts'[i]) =>
                    attempts'[i].planned \/ attempts'[i].number >= retries
               /\ attempts'[i].planned \/ attempts'[i].status = 416
    <3>1. CASE i = Len(attempts) + 1
      BY <1>1, <1>3, <2>1, <3>1 DEF Transient
    <3>2. CASE i \in 1 .. Len(attempts)
      BY <1>1, <2>1, <3>2 DEF Accounted
    <3> QED BY <1>1, <3>1, <3>2
  <2>3. Len(attempts') = attempt' /\ result' = "none"
    BY <1>1, <1>4, <2>1 DEF Accounted
  <2> QED BY <2>1, <2>2, <2>3 DEF Accounted
<1>8. Kept' /\ Transferring' /\ Copied' /\ OneRepresentation' /\ WithinLimit'
  BY <1>4 DEF Kept, Transferring, Copied, OneRepresentation, WithinLimit, Acquired
<1>9. Evidence' /\ ResumeEvidenceTruthful'
  BY <1>2, <1>3, <1>4 DEF Evidence, ResumeEvidenceTruthful, Running, Acquired
<1> QED BY <1>5, <1>6, <1>7, <1>8, <1>9

(* Admission leaves the stage alone and says what is to be transferred.    *)
LEMMA AdmitFullStep ==
    ASSUME Inv, NEW r \in Reps, NEW framing \in Known, AdmitFull(r, framing)
    PROVE  Inv'
<1> USE DEF Inv, AdmitFull, Transfer, policy
<1>1. body' \in Body /\ ~Appending' /\ body'.next = 0
  BY DEF Body, Appending
<1>2. TypeOK' /\ Budget' /\ Accounted'
  BY <1>1 DEF TypeOK, Budget, Accounted, Running, Acquired, MaxAttempts
<1>3. Kept'
  BY DEF Kept, Continued, FullBodyBroke
<1>4. Transferring' /\ Copied' /\ OneRepresentation' /\ WithinLimit'
  BY <1>1 DEF Transferring, Copied, OneRepresentation, WithinLimit, Acquired
<1>5. Had416' <=> Had416
  BY DEF Had416
<1>6. Evidence' /\ ResumeEvidenceTruthful'
  BY <1>1, <1>5 DEF Budget, Evidence, ResumeEvidenceTruthful, Running, Acquired
<1> QED BY <1>2, <1>3, <1>4, <1>6

LEMMA AdmitPartialStep ==
    ASSUME Inv, NEW r \in Reps, NEW framing \in Known, NEW named \in BOOLEAN,
           NEW start \in 0 .. Size[r] - 1, NEW end \in start + 1 .. Size[r],
           AdmitPartial(r, start, end, named, framing)
    PROVE  Inv'
<1> USE DEF Inv, AdmitPartial, Transfer, policy
<1>1. /\ body' \in Body /\ Appending' /\ body'.next = partial
      /\ body'.rep = validator /\ partial < Size[validator]
  BY DEF Body, Appending
<1>6. TypeOK'
  BY <1>1 DEF TypeOK
<1>2. Budget' /\ Accounted'
  BY DEF Budget, Accounted, Running, Acquired, MaxAttempts
<1>3. Kept'
  BY DEF Kept, Continued, FullBodyBroke
<1>4. Transferring' /\ Copied' /\ OneRepresentation' /\ WithinLimit'
  BY <1>1 DEF Transferring, Copied, OneRepresentation, WithinLimit, Acquired
<1>5. Evidence' /\ ResumeEvidenceTruthful'
  BY <1>1 DEF Evidence, ResumeEvidenceTruthful, Running, Acquired, Had416
<1> QED BY <1>2, <1>3, <1>4, <1>5, <1>6

(* The stage is cut to the partial bytes or emptied.                       *)
LEMMA ResetStep == Inv /\ Reset => Inv'
<1> SUFFICES ASSUME Inv, Reset PROVE Inv'
  OBVIOUS
<1> USE DEF Inv, Reset, policy
<1>1. /\ bytes' \in Nat /\ bytes' = IF Appending THEN partial ELSE 0
      /\ DOMAIN stage' = 1 .. bytes'
      /\ body.next = bytes' /\ body' = body
  BY DEF TypeOK, Transferring
<1>2. TypeOK'
  BY <1>1 DEF TypeOK
<1>3. Budget' /\ Accounted'
  BY DEF Budget, Accounted, Running, Acquired, MaxAttempts
<1>4. Kept' /\ Transferring' /\ OneRepresentation' /\ WithinLimit'
  BY DEF Kept, Transferring, OneRepresentation, WithinLimit, Acquired, Appending
<1>5. ASSUME ~Appending \/ ~FullBodyBroke PROVE stage' = Bytes(body.rep, bytes')
  <2>1. CASE Appending
    <3>1. PICK k \in Nat : k >= partial /\ stage = Bytes(validator, k)
      BY <1>5, <2>1 DEF Kept, Continued, Transferring
    <3>2. bytes' = partial /\ partial \in Nat /\ body.rep = validator
      BY <2>1 DEF TypeOK, Transferring
    <3>3. DOMAIN stage = 1 .. k /\ \A i \in 1 .. k : stage[i] = <<validator, i>>
      BY <3>1 DEF Bytes
    <3> QED BY <3>1, <3>2, <3>3 DEF Bytes
  <2>2. CASE ~Appending
    BY <1>1, <2>2 DEF Bytes
  <2> QED BY <2>1, <2>2
<1>6. Copied'
  <2>1. Fits(bytes') \/ (Appending /\ bytes' = partial)
    BY <1>1 DEF Fits, TypeOK
  <2>2. Appending => bytes' >= partial
    BY <1>1 DEF TypeOK
  <2> QED BY <1>1, <1>5, <2>1, <2>2 DEF Copied, Appending, Fits, FullBodyBroke
<1>7. Evidence' /\ ResumeEvidenceTruthful'
  BY DEF Evidence, ResumeEvidenceTruthful, Running, Acquired, Had416, Appending
<1> QED BY <1>2, <1>3, <1>4, <1>6, <1>7

(* A chunk continues what is there, byte by byte.                          *)
LEMMA CopyStep ==
    ASSUME Inv, NEW n \in 1 .. body.end - body.next, Copy(n)
    PROVE  Inv'
<1> USE DEF Inv, Copy, policy
<1>1. /\ body \in Body /\ body.next = bytes /\ bytes \in Nat /\ n \in Nat \ {0}
      /\ body.end \in Nat /\ partial \in Nat
  BY DEF TypeOK, Transferring, Copied, Body
<1>2. /\ body' \in Body /\ body'.next = bytes' /\ bytes' = bytes + n /\ bytes' \in Nat
      /\ body'.rep = body.rep /\ body'.status = body.status /\ body'.end = body.end
      /\ DOMAIN stage' = 1 .. bytes'
  <2>1. bytes' = bytes + n /\ bytes' \in Nat /\ DOMAIN stage' = 1 .. bytes'
    BY <1>1
  <2>2. body' = [body EXCEPT !.next = bytes + n]
    BY <1>1
  <2>3. body' \in Body /\ body'.next = bytes + n
    <3>1. body \in Body /\ bytes + n \in Nat
      BY <1>1
    <3> HIDE DEF Inv, Copy, policy
    <3> QED BY ONLY <2>2, <3>1 DEF Body
  <2>4. body'.rep = body.rep /\ body'.status = body.status /\ body'.end = body.end
    BY <1>1, <2>2 DEF Body
  <2> QED BY <2>1, <2>3, <2>4
<1>3. TypeOK'
  BY <1>2 DEF TypeOK
<1>4. Budget' /\ Accounted'
  BY DEF Budget, Accounted, Running, Acquired, MaxAttempts
<1>5. Kept' /\ Transferring' /\ OneRepresentation' /\ WithinLimit'
  BY <1>2 DEF Kept, Transferring, OneRepresentation, WithinLimit, Acquired, Appending
<1>6. ASSUME ~Appending \/ ~FullBodyBroke PROVE stage' = Bytes(body.rep, bytes')
  <2>1. \A i \in 1 .. bytes : stage[i] = <<body.rep, i>>
    BY <1>6 DEF Copied, Bytes
  <2>2. \A i \in 1 .. bytes + n : i > bytes => body.next + i - bytes = i
    BY <1>1
  <2>3. \A i \in 1 .. bytes + n : i <= bytes => i \in 1 .. bytes
    BY <1>1
  <2>4. \A i \in 1 .. bytes + n : i <= bytes \/ i > bytes
    BY <1>1
  <2> QED BY <1>2, <2>1, <2>2, <2>3, <2>4 DEF Bytes
<1>7. Copied'
  <2>1. Appending => bytes' >= partial
    BY <1>1, <1>2 DEF Copied
  <2>2. Fits(bytes')
    BY <1>2
  <2> QED BY <1>2, <1>6, <2>1, <2>2 DEF Copied, Appending, Fits, FullBodyBroke
<1>8. Evidence' /\ ResumeEvidenceTruthful'
  BY <1>2 DEF Evidence, ResumeEvidenceTruthful, Running, Acquired, Had416, Appending
<1> QED BY <1>3, <1>4, <1>5, <1>7, <1>8

LEMMA SucceedStep == Inv /\ Succeed => Inv'
<1> SUFFICES ASSUME Inv, Succeed PROVE Inv'
  OBVIOUS
<1> USE DEF Inv, Succeed, policy
<1>1. body \in Body /\ body.status \in {200, 206} /\ body.rep \in Reps /\ bytes \in Nat
  BY DEF TypeOK, Transferring, Body
<1>2. /\ attempts' \in Seq(Attempt)
      /\ Len(attempts) \in Nat
      /\ Len(attempts') = Len(attempts) + 1
      /\ \A i \in 1 .. Len(attempts) : attempts'[i] = attempts[i]
      /\ attempts'[Len(attempts) + 1] = [number |-> attempt, status |-> body.status,
                                         planned |-> FALSE, outcome |-> "Success"]
  <2>1. body.status \in Nat /\ "Success" \in Outcomes
    BY <1>1 DEF Outcomes
  <2>2. TypeOK /\ Log(body.status, "Success", FALSE)
    OBVIOUS
  <2> QED BY <2>1, <2>2, Logged
<1>3. (FullBodyBroke => FullBodyBroke') /\ (Had416' <=> Had416)
  BY <1>1, <1>2, Marked
<1>4. TypeOK'
  BY <1>2 DEF TypeOK
<1>5. Budget'
  BY DEF Budget, Running
<1>6. Accounted'
  <2>1. ~Running' /\ pc' # "source" /\ Len(attempts) = attempt /\ attempt \in Nat
    BY DEF Accounted, Running, TypeOK
  <2>2. ASSUME NEW i \in 1 .. Len(attempts')
        PROVE  /\ attempts'[i].number = i - 1
               /\ attempts'[i].planned => attempts'[i].number < retries
               /\ Transient(attempts'[i]) =>
                    attempts'[i].planned \/ attempts'[i].number >= retries
               /\ i < Len(attempts') => attempts'[i].planned \/ attempts'[i].status = 416
    <3>1. CASE i = Len(attempts) + 1
      BY <1>2, <2>1, <3>1 DEF Transient
    <3>2. CASE i \in 1 .. Len(attempts)
      BY <1>2, <3>2 DEF Accounted, Running
    <3> QED BY <1>2, <3>1, <3>2
  <2>3. Len(attempts') = attempt' + 1 /\ attempts'[attempt' + 1].outcome = "Success"
    BY <1>2, <2>1
  <2> QED BY <2>1, <2>2, <2>3 DEF Accounted
<1>7. Kept' /\ Transferring' /\ Copied'
  BY DEF Kept, Transferring, Copied
<1>8. OneRepresentation'
  <2>1. CASE ~Appending \/ ~FullBodyBroke
    <3>1. stage = Bytes(body.rep, bytes) /\ (Appending => body.rep = validator)
      BY <2>1 DEF Copied, Transferring
    <3>2. resumed' = "PartialAppended" => body.rep = validator /\ bytes = Size[body.rep]
      BY <3>1 DEF Evidence, Running, Materialized
    <3> QED BY <1>1, <3>1, <3>2 DEF OneRepresentation
  <2>2. CASE Appending /\ FullBodyBroke
    BY <1>3, <2>2 DEF OneRepresentation
  <2> QED BY <2>1, <2>2
<1>9. WithinLimit'
  BY <1>1 DEF Copied, Transferring, WithinLimit, Materialized, Fits, TypeOK
<1>10. Evidence'
  BY DEF Evidence, Running
<1>11. ResumeEvidenceTruthful'
  <2>1. /\ resumed = "RangeUnsatisfiableRestarted" <=> Had416
        /\ resumed # "PartialAppended"
        /\ ~planned => resumed = "none"
        /\ Appending => resuming /\ planned /\ ~Had416
        /\ ~Appending /\ planned => resumed # "none"
    BY DEF Evidence, Running, Budget, Transferring
  <2>2. resumed' = (IF Appending THEN "PartialAppended" ELSE resumed) /\ (Appending' <=> Appending)
    BY DEF Appending
  <2>3. /\ resumed' = "none" <=> ~planned
        /\ resumed' = "PartialAppended" <=> Appending'
        /\ resumed' = "RangeUnsatisfiableRestarted" <=> Had416'
    BY <1>3, <2>1, <2>2
  <2> QED BY <2>3 DEF ResumeEvidenceTruthful, Had416
<1> QED BY <1>4, <1>5, <1>6, <1>7, <1>8, <1>9, <1>10, <1>11

(* A transient failure, wherever it comes from.                            *)
LEMMA TransientStep ==
    ASSUME Inv, pc \in {"heading", "sending", "copying"}, NEW status \in Nat, status # 416,
           NEW outcome \in {"NetworkError", "RetryableStatus", "Inspected"}, NEW error \in Error,
           RetryOrFail(status, outcome, error),
           pc = "copying" => status = body.status /\ outcome = "NetworkError",
           UNCHANGED <<policy, resuming, stage, resumed, body, bytes>>
    PROVE  Inv'
<1>1. CASE CanRetry
  <2>1. Log(status, outcome, TRUE) /\ Again
    BY <1>1 DEF RetryOrFail
  <2>2. UNCHANGED <<policy, resuming, stage, resumed, body, bytes>>
    OBVIOUS
  <2>3. /\ status \in Nat /\ status # 416 /\ pc \in {"heading", "sending", "copying"}
        /\ outcome \in {"NetworkError", "RetryableStatus", "Inspected"}
        /\ pc = "copying" => status = body.status /\ outcome = "NetworkError"
    OBVIOUS
  <2> QED BY ONLY Inv, <1>1, <2>1, <2>2, <2>3, RetryStep, ZenonT(30)
<1>2. CASE ~CanRetry
  <2>1. Log(status, outcome, FALSE)
    BY <1>2 DEF RetryOrFail
  <2>2. pc' = "done" /\ result' \in Error /\ attempt' = attempt
    BY <1>2 DEF RetryOrFail, Fail
  <2>3. Running /\ outcome \in Outcomes \ {"Success"} /\ result' # "Observed"
    BY <2>2 DEF Running, Outcomes, Error
  <2>4. UNCHANGED <<policy, resuming, stage, attempt, resumed, body, bytes>>
    BY <2>2
  <2> QED BY <1>2, <2>1, <2>2, <2>3, <2>4, EndLogged
<1> QED BY <1>1, <1>2

(* An inspection ends with an observation, or at no place.                *)
LEMMA HeadEnds ==
    ASSUME Inv, Running, NEW status \in Nat, NEW outcome \in {"Inspected", "Unplaced"},
           Log(status, outcome, FALSE), pc' = "done",
           result' \in {"Observed", "Protocol"},
           Transient([status |-> status, outcome |-> outcome]) => ~CanRetry,
           result' = "Observed" => outcome = "Inspected",
           UNCHANGED <<policy, resuming, stage, attempt, resumed, body, bytes>>
    PROVE  Inv'
<1>1. outcome \in Outcomes \ {"Success"} /\ result' \in Error \cup {"Observed"}
  BY DEF Outcomes, Error
<1> QED BY <1>1, EndLogged

(* An inspection that goes on is retried within the budget; one that ends  *)
(* has used it up, or met something no retry would change.                 *)
LEMMA InspectStep == Inv /\ Inspect => Inv'
<1> SUFFICES ASSUME Inv, Inspect PROVE Inv'
  OBVIOUS
<1> USE DEF Outcomes
<1>1. CASE HeadFails
  <2>1. /\ pc = "heading" /\ RetryOrFail(0, "Inspected", "Transport")
        /\ UNCHANGED <<policy, resuming, stage, resumed, body, bytes>> /\ "Transport" \in Error
    BY <1>1 DEF HeadFails, Error
  <2>2. pc \in {"heading", "sending", "copying"} /\ pc # "copying" /\ 0 \in Nat /\ 0 # 416
    BY <2>1
  <2> QED BY <2>1, <2>2, TransientStep
<1>2. ASSUME NEW status \in {200, 404, 503}, HeadAnswered(status) PROVE Inv'
  <2>1. /\ pc \in {"heading", "sending", "copying"} /\ pc # "copying" /\ Running
        /\ status \in Nat /\ status # 416
        /\ UNCHANGED <<policy, resuming, stage, resumed, body, bytes>>
    BY <1>2 DEF HeadAnswered, Running
  <2>2. CASE status = 503 /\ CanRetry
    <3>1. RetryOrFail(status, "Inspected", "Transport") /\ "Transport" \in Error
      BY <1>2, <2>2 DEF HeadAnswered, RetryOrFail, Error
    <3> QED BY <2>1, <3>1, TransientStep
  <2>3. CASE ~(status = 503 /\ CanRetry)
    <3>1. Log(status, "Inspected", FALSE) /\ pc' = "done" /\ result' = "Observed"
          /\ attempt' = attempt
      BY <1>2, <2>3 DEF HeadAnswered
    <3>2. Transient([status |-> status, outcome |-> "Inspected"]) => ~CanRetry
      BY <1>2, <2>3 DEF Transient
    <3>3. UNCHANGED <<policy, resuming, stage, attempt, resumed, body, bytes>>
      BY <2>1, <3>1
    <3>4. PICK outcome \in {"Inspected", "Unplaced"} : outcome = "Inspected"
      OBVIOUS
    <3>5. Log(status, outcome, FALSE)
      BY <3>1, <3>4
    <3>6. Running /\ pc' = "done" /\ result' \in {"Observed", "Protocol"} /\ status \in Nat
      BY <2>1, <3>1
    <3>7. Transient([status |-> status, outcome |-> outcome]) => ~CanRetry
      BY <3>2, <3>4
    <3>8. result' = "Observed" => outcome = "Inspected"
      BY <3>4
    <3> QED BY ONLY Inv, <3>3, <3>5, <3>6, <3>7, <3>8, HeadEnds
  <2> QED BY <2>2, <2>3
<1>3. ASSUME NEW status \in {200, 404, 503}, HeadUnplaced(status) PROVE Inv'
  <2>1. /\ pc = "heading" /\ Log(status, "Unplaced", FALSE)
        /\ UNCHANGED <<policy, resuming, stage, resumed, body, bytes>>
    BY <1>3 DEF HeadUnplaced
  <2>2. pc' = "done" /\ result' = "Protocol" /\ attempt' = attempt
    BY <1>3 DEF HeadUnplaced, Fail
  <2>3. Running /\ status \in Nat
    BY <2>1 DEF Running
  <2>4. UNCHANGED <<policy, resuming, stage, attempt, resumed, body, bytes>>
    BY <2>1, <2>2
  <2>5. ~Transient([status |-> status, outcome |-> "Unplaced"])
    BY DEF Transient
  <2> QED BY <2>1, <2>2, <2>3, <2>4, <2>5, HeadEnds DEF Error
<1> QED BY <1>1, <1>2, <1>3 DEF Inspect

LEMMA RespondStep == Inv /\ Respond => Inv'
<1> SUFFICES ASSUME Inv, Respond PROVE Inv'
  OBVIOUS
<1>1. CASE RestartOn416
  BY <1>1, RestartStep
<1>2. ASSUME NEW status \in {404, 416, 503}, Refused(status) PROVE Inv'
  <2>1. pc = "sending" /\ UNCHANGED <<policy, resuming, stage, resumed, body, bytes>>
    BY <1>2 DEF Refused
  <2>2. CASE status = 503
    <3>1. RetryOrFail(503, "RetryableStatus", "HttpStatus")
      BY <1>2, <2>2 DEF Refused
    <3>2. "HttpStatus" \in Error /\ 503 \in Nat /\ 503 # 416
      BY DEF Error
    <3>3. pc # "copying" /\ pc \in {"heading", "sending", "copying"}
      BY <2>1
    <3> QED BY <2>1, <3>1, <3>2, <3>3, TransientStep
  <2>3. CASE status # 503
    <3>1. Log(status, "NonRetryableStatus", FALSE)
      BY <1>2, <2>3 DEF Refused
    <3>3. status \in Nat
      OBVIOUS
    <3>2. pc' = "done" /\ result' \in Error /\ attempt' = attempt
      BY <1>2, <2>3 DEF Refused, Fail, Error
    <3>4. ~Transient([status |-> status, outcome |-> "NonRetryableStatus"])
      BY DEF Transient
    <3> QED BY <2>1, <3>1, <3>2, <3>3, <3>4, EndLogged DEF Running, Outcomes, Error
  <2> QED BY <2>2, <2>3
<1>3. ASSUME NEW status \in {200, 206}, NEW length, KnownOversize(status, length) PROVE Inv'
  <2>3. status \in Nat
    OBVIOUS
  <2>1. /\ pc = "sending" /\ Log(status, "LimitExceeded", FALSE)
        /\ UNCHANGED <<policy, resuming, stage, resumed, body, bytes>>
    BY <1>3 DEF KnownOversize
  <2>2. pc' = "done" /\ result' \in Error /\ attempt' = attempt
    BY <1>3 DEF KnownOversize, Fail, Error
  <2>4. ~Transient([status |-> status, outcome |-> "LimitExceeded"])
    BY DEF Transient
  <2> QED BY <2>1, <2>2, <2>3, <2>4, EndLogged DEF Running, Outcomes, Error
<1>4. ASSUME NEW r \in Reps, NEW framing \in Known, AdmitFull(r, framing) PROVE Inv'
  BY <1>4, AdmitFullStep
<1>5. ASSUME NEW r \in Reps, NEW framing \in Known, NEW named \in BOOLEAN, NEW ranged \in BOOLEAN,
             NEW start \in 0 .. Size[r] - 1, NEW end \in start + 1 .. Size[r]
      PROVE  /\ AdmitPartial(r, start, end, named, framing) => Inv'
             /\ RejectPartial(r, start, end, named, ranged, framing) => Inv'
  <2>1. AdmitPartial(r, start, end, named, framing) => Inv'
    BY <1>5, AdmitPartialStep
  <2>2. ASSUME RejectPartial(r, start, end, named, ranged, framing) PROVE Inv'
    BY <2>2, EndQuiet DEF RejectPartial, Fail, Error
  <2> QED BY <2>1, <2>2
<1> QED BY <1>1, <1>2, <1>3, <1>4, <1>5 DEF Respond

LEMMA TransferEnds ==
    ASSUME Inv,
           \/ \E n \in 1 .. body.end - body.next : CopyOversize(n)
           \/ WriteFails \/ BodyBreaks \/ ShortFragment \/ FlushFails \/ StageFails
    PROVE  Inv'
<1>1. pc = "copying" =>
        body.status \in Nat /\ body.status # 416 /\ pc \in {"heading", "sending", "copying"}
  BY DEF Inv, Transferring, Body
<1>2. ASSUME NEW n \in 1 .. body.end - body.next, CopyOversize(n) PROVE Inv'
  <2>1. /\ pc = "copying" /\ Log(body.status, "LimitExceeded", FALSE)
        /\ pc' = "done" /\ result' \in Error
        /\ UNCHANGED <<policy, resuming, stage, attempt, resumed, body, bytes>>
    BY <1>2 DEF CopyOversize, Fail, Error
  <2>2. ~Transient([status |-> body.status, outcome |-> "LimitExceeded"])
    BY DEF Transient
  <2> QED BY <1>1, <2>1, <2>2, EndLogged DEF Running, Outcomes, Error
<1>3. CASE WriteFails
  <2>1. /\ pc = "copying" /\ Log(body.status, "LocalFailure", FALSE)
        /\ pc' = "done" /\ result' \in Error
        /\ UNCHANGED <<policy, resuming, stage, attempt, resumed, body, bytes>>
    BY <1>3 DEF WriteFails, Fail, Error
  <2>2. ~Transient([status |-> body.status, outcome |-> "LocalFailure"])
    BY DEF Transient
  <2> QED BY <1>1, <2>1, <2>2, EndLogged DEF Running, Outcomes, Error
<1>4. CASE BodyBreaks
  <2>1. /\ pc = "copying" /\ RetryOrFail(body.status, "NetworkError", "Transport")
        /\ UNCHANGED <<policy, resuming, stage, resumed, body, bytes>> /\ "Transport" \in Error
    BY <1>4 DEF BodyBreaks, Error
  <2> QED BY <1>1, <2>1, TransientStep
<1>5. CASE ShortFragment \/ FlushFails \/ StageFails
  BY <1>5, EndQuiet DEF ShortFragment, FlushFails, StageFails, Fail, Error
<1> QED BY <1>2, <1>3, <1>4, <1>5

LEMMA NextInv == Inv /\ [Next]_vars => Inv'
<1> SUFFICES ASSUME Inv, [Next]_vars PROVE Inv'
  OBVIOUS
<1>1. CASE UNCHANGED vars
  BY <1>1, StutterInv
<1>2. CASE PrepareRestart
  BY <1>2, PrepareRestartStep
<1>3. ASSUME NEW r \in Reps, NEW n \in 1 .. Size[r], PrepareResume(r, n) PROVE Inv'
  BY <1>3, PrepareResumeStep
<1>4. CASE PrepareFails
  BY <1>4, EndQuiet DEF PrepareFails, Error
<1>5. CASE SendFails
  <2>1. /\ pc = "sending" /\ RetryOrFail(0, "NetworkError", "Transport")
        /\ UNCHANGED <<policy, resuming, stage, resumed, body, bytes>> /\ "Transport" \in Error
    BY <1>5 DEF SendFails, Error
  <2>2. pc \in {"heading", "sending", "copying"} /\ pc # "copying" /\ 0 \in Nat /\ 0 # 416
    BY <2>1
  <2> QED BY <2>1, <2>2, TransientStep
<1>6. CASE Respond
  BY <1>6, RespondStep
<1>7. CASE Reset
  BY <1>7, ResetStep
<1>8. ASSUME NEW n \in 1 .. body.end - body.next, Copy(n) PROVE Inv'
  BY <1>8, CopyStep
<1>9. CASE Succeed
  BY <1>9, SucceedStep
<1>10. CASE Inspect
  BY <1>10, InspectStep
<1> QED
  BY <1>1, <1>2, <1>3, <1>4, <1>5, <1>6, <1>7, <1>8, <1>9, <1>10, TransferEnds DEF Next

LEMMA Invariance == Spec => []Inv
BY InitInv, NextInv, PTL DEF Spec

(* Types; with them, the retry loop never falls through.                   *)
THEOREM TypeCorrect == Spec => []TypeOK
<1>1. Inv => TypeOK
  BY DEF Inv
<1> QED BY <1>1, Invariance, PTL

(* For every server behaviour covered: an acquired file is of one          *)
(* representation, but for the range asked again after a broken 200.       *)
THEOREM AcquiresOneRepresentation == Spec => []OneRepresentation
<1>1. Inv => OneRepresentation
  BY DEF Inv
<1> QED BY <1>1, Invariance, PTL

(* The size limit holds for resumed and for restarted files.               *)
THEOREM LimitHolds == Spec => []WithinLimit
<1>1. Inv => WithinLimit
  BY DEF Inv
<1> QED BY <1>1, Invariance, PTL

(* Every attempt is accounted for, within the retry budget.                *)
THEOREM AttemptsAreAccounted == Spec => []AttemptsAccounted
<1>1. Inv => AttemptsAccounted
  BY DEF Inv, TypeOK, Accounted, AttemptsAccounted
<1> QED BY <1>1, Invariance, PTL

(* The resume evidence says what became of the partial file.               *)
THEOREM EvidenceIsTruthful == Spec => []ResumeEvidenceTruthful
<1>1. Inv => ResumeEvidenceTruthful
  BY DEF Inv
<1> QED BY <1>1, Invariance, PTL

(***************************************************************************)
(* The measure.  Where a call goes on, its attempt is the same and its     *)
(* stage or its body is further, or it is the next attempt, and there is   *)
(* one (Budget).                                                           *)
(***************************************************************************)
Unspent == pc \in {"resetting", "copying"} => body.next <= body.end

LEMMA InitUnspent == Init => Unspent
BY DEF Init, Unspent

LEMMA NextUnspent == Inv /\ Unspent /\ [Next]_vars => Unspent'
<1> SUFFICES ASSUME Inv, Unspent, Next PROVE Unspent'
  BY DEF Unspent, vars
<1>1. ASSUME NEW r \in Reps, NEW framing \in Known, AdmitFull(r, framing) PROVE Unspent'
  BY <1>1 DEF AdmitFull, Transfer, Unspent
<1>2. ASSUME NEW r \in Reps, NEW framing \in Known, NEW named \in BOOLEAN,
             NEW start \in 0 .. Size[r] - 1, NEW end \in start + 1 .. Size[r],
             AdmitPartial(r, start, end, named, framing)
      PROVE  Unspent'
  BY <1>2 DEF AdmitPartial, Transfer, Unspent
<1>3. ASSUME NEW n \in 1 .. body.end - body.next, Copy(n) PROVE Unspent'
  <2>1. body.next \in Nat /\ body.end \in Nat /\ n \in 1 .. body.end - body.next
    BY <1>3 DEF Copy, Inv, Transferring, Body
  <2>2. body' = [body EXCEPT !.next = body.next + n] /\ body \in Body
    BY <1>3 DEF Copy, Inv, Transferring
  <2>3. body'.next = body.next + n /\ body'.end = body.end
    BY <2>2 DEF Body
  <2> QED BY <2>1, <2>3 DEF Unspent
<1>4. ASSUME Reset PROVE Unspent'
  BY <1>4 DEF Reset, Unspent
<1>5. ASSUME pc' \in {"done", "sending", "heading", "fallen"} PROVE Unspent'
  BY <1>5 DEF Unspent
<1>6. PrepareRestart \/ PrepareFails \/ Inspect \/ SendFails =>
        pc' \in {"done", "sending", "heading", "fallen"}
  BY DEF PrepareRestart, PrepareFails, Inspect, HeadFails, HeadAnswered, HeadUnplaced, SendFails,
         RetryOrFail, Fail, Again
<1>7. ASSUME NEW r, NEW n, PrepareResume(r, n) PROVE pc' \in {"done", "sending", "heading", "fallen"}
  BY <1>7 DEF PrepareResume
<1>8. StageFails \/ WriteFails \/ BodyBreaks \/ ShortFragment \/ FlushFails \/ Succeed =>
        pc' \in {"done", "sending", "heading", "fallen"}
  BY DEF StageFails, WriteFails, BodyBreaks, ShortFragment, FlushFails, Succeed,
         RetryOrFail, Fail, Again
<1>9. ASSUME NEW n, CopyOversize(n) PROVE pc' \in {"done", "sending", "heading", "fallen"}
  BY <1>9 DEF CopyOversize, Fail
<1>10. ASSUME RestartOn416 \/ \E status \in {404, 416, 503} : Refused(status)
       PROVE  pc' \in {"done", "sending", "heading", "fallen"}
  BY <1>10 DEF RestartOn416, Refused, RetryOrFail, Fail, Again
<1>11. ASSUME NEW status, NEW length, KnownOversize(status, length)
       PROVE  pc' \in {"done", "sending", "heading", "fallen"}
  BY <1>11 DEF KnownOversize, Fail
<1>12. ASSUME NEW r, NEW start, NEW end, NEW named, NEW ranged, NEW framing,
              RejectPartial(r, start, end, named, ranged, framing)
       PROVE  pc' \in {"done", "sending", "heading", "fallen"}
  BY <1>12 DEF RejectPartial, Fail
<1>13. CASE Respond
  BY <1>1, <1>2, <1>5, <1>10, <1>11, <1>12, <1>13 DEF Respond
<1> QED BY <1>3, <1>4, <1>5, <1>6, <1>7, <1>8, <1>9, <1>13 DEF Next

LEMMA LeftIsNat == Inv /\ Unspent => Left \in Nat \X Nat \X Nat
<1> SUFFICES ASSUME Inv, Unspent PROVE Left \in Nat \X Nat \X Nat
  OBVIOUS
<1>1. retries \in Nat /\ MaxAttempts \in Nat /\ attempt \in Nat
  BY DEF Inv, TypeOK, MaxAttempts
<1>2. pc \notin {"source", "done"} => MaxAttempts - attempt \in Nat
  BY <1>1 DEF Inv, TypeOK, Budget, Running
<1>3. pc = "copying" => body.end - body.next \in Nat
  BY DEF Inv, Transferring, Unspent, Body
<1> QED BY <1>1, <1>2, <1>3 DEF Left

(* A call that is under way has a stage left, and one that is over none.   *)
LEMMA EndsLess ==
    ASSUME Inv, Unspent, pc \in {"source", "heading", "sending", "resetting", "copying"},
           pc' = "done"
    PROVE  Less(Left', Left)
<1>1. Left[1] \in Nat /\ Left[2] > 0
  BY LeftIsNat DEF Left
<1>2. Left'[1] = 0 /\ Left'[2] = 0
  BY DEF Left
<1> QED BY <1>1, <1>2 DEF Less

LEMMA AgainLess ==
    ASSUME Inv, Inv', pc \in {"heading", "sending", "copying"}, Again,
           UNCHANGED <<retries, planned>>
    PROVE  Less(Left', Left)
<1>1. /\ pc' \in {"heading", "sending"} /\ attempt' = attempt + 1
      /\ attempt \in Nat /\ MaxAttempts \in Nat /\ MaxAttempts' = MaxAttempts
  BY DEF Again, Inv, TypeOK, MaxAttempts
<1>2. Left[1] = MaxAttempts - attempt /\ Left'[1] = MaxAttempts - (attempt + 1)
  BY <1>1 DEF Left
<1> QED BY <1>1, <1>2 DEF Less

(* The same attempt, and its next stage.                                   *)
LEMMA NextStageLess ==
    ASSUME Inv, UNCHANGED <<retries, planned, attempt>>,
           \/ pc = "sending" /\ pc' = "resetting"
           \/ pc = "resetting" /\ pc' = "copying"
    PROVE  Less(Left', Left)
<1>1. MaxAttempts' - attempt' = MaxAttempts - attempt
  BY DEF MaxAttempts
<1> QED BY <1>1 DEF Left, Less

LEMMA RetryOrFailLess ==
    ASSUME Inv, Inv', Unspent, pc \in {"heading", "sending", "copying"}, NEW status, NEW outcome,
           NEW error, RetryOrFail(status, outcome, error), UNCHANGED <<retries, planned>>
    PROVE  Less(Left', Left)
BY AgainLess, EndsLess DEF RetryOrFail, Fail

LEMMA PrepareLess ==
    ASSUME Inv, Unspent,
           PrepareRestart \/ PrepareFails \/ \E r \in Reps : \E n \in 1 .. Size[r] : PrepareResume(r, n)
    PROVE  Less(Left', Left)
<1>1. pc = "source" /\ attempt = 0 /\ attempt' = 0 /\ ~planned /\ retries' = retries /\ retries \in Nat
  BY DEF PrepareRestart, PrepareFails, PrepareResume, policy, Inv, Budget, TypeOK
<1>2. CASE PrepareRestart
  BY <1>1, <1>2 DEF PrepareRestart, policy, Left, Less, MaxAttempts
<1>3. ASSUME NEW r, NEW n, PrepareResume(r, n) PROVE Less(Left', Left)
  BY <1>1, <1>3 DEF PrepareResume, Left, Less, MaxAttempts
<1>4. CASE PrepareFails
  BY <1>4, EndsLess DEF PrepareFails
<1> QED BY <1>2, <1>3, <1>4

LEMMA RespondLess == ASSUME Inv, Inv', Unspent, Respond PROVE Less(Left', Left)
<1>1. CASE RestartOn416
  BY <1>1, AgainLess DEF RestartOn416, policy
<1>2. ASSUME NEW status \in {404, 416, 503}, Refused(status) PROVE Less(Left', Left)
  BY <1>2, RetryOrFailLess, EndsLess DEF Refused, Fail, policy
<1>3. ASSUME NEW status, NEW length, KnownOversize(status, length) PROVE Less(Left', Left)
  BY <1>3, EndsLess DEF KnownOversize, Fail
<1>4. ASSUME NEW r, NEW framing, AdmitFull(r, framing) PROVE Less(Left', Left)
  BY <1>4, NextStageLess DEF AdmitFull, Transfer, policy
<1>5. ASSUME NEW r, NEW start, NEW end, NEW named, NEW framing,
             AdmitPartial(r, start, end, named, framing)
      PROVE  Less(Left', Left)
  BY <1>5, NextStageLess DEF AdmitPartial, Transfer, policy
<1>6. ASSUME NEW r, NEW start, NEW end, NEW named, NEW ranged, NEW framing,
             RejectPartial(r, start, end, named, ranged, framing)
      PROVE  Less(Left', Left)
  BY <1>6, EndsLess DEF RejectPartial, Fail
<1> QED BY <1>1, <1>2, <1>3, <1>4, <1>5, <1>6 DEF Respond

LEMMA CopyLess ==
    ASSUME Inv, Unspent, NEW n \in 1 .. body.end - body.next, Copy(n) PROVE Less(Left', Left)
<1>1. pc = "copying" /\ pc' = pc /\ MaxAttempts' - attempt' = MaxAttempts - attempt
  BY DEF Copy, policy, MaxAttempts
<1>2. body.next \in Nat /\ body.end \in Nat /\ n \in Nat /\ n > 0
  BY <1>1 DEF Inv, Transferring, Body
<1>3. body'.next = body.next + n /\ body'.end = body.end
  BY <1>1 DEF Copy, Inv, Transferring, Body
<1>4. body'.end - body'.next < body.end - body.next
  BY <1>2, <1>3
<1> QED BY <1>1, <1>4 DEF Left, Less

LEMMA NextLess == Inv /\ Inv' /\ Unspent /\ [Next]_vars => [Less(Left', Left)]_vars
<1> SUFFICES ASSUME Inv, Inv', Unspent, Next PROVE Less(Left', Left)
  OBVIOUS
<1>1. CASE PrepareRestart \/ PrepareFails \/ \E r \in Reps : \E n \in 1 .. Size[r] : PrepareResume(r, n)
  BY <1>1, PrepareLess
<1>2. CASE Inspect
  <2>1. CASE HeadFails
    BY <2>1, RetryOrFailLess DEF HeadFails, policy
  <2>2. ASSUME NEW status, HeadAnswered(status) PROVE Less(Left', Left)
    BY <2>2, AgainLess, EndsLess DEF HeadAnswered, policy
  <2>3. ASSUME NEW status, HeadUnplaced(status) PROVE Less(Left', Left)
    BY <2>3, EndsLess DEF HeadUnplaced, Fail
  <2> QED BY <1>2, <2>1, <2>2, <2>3 DEF Inspect
<1>3. CASE SendFails
  BY <1>3, RetryOrFailLess DEF SendFails, policy
<1>4. CASE Respond
  BY <1>4, RespondLess
<1>5. CASE Reset
  BY <1>5, NextStageLess DEF Reset, policy
<1>6. ASSUME NEW n \in 1 .. body.end - body.next, Copy(n) PROVE Less(Left', Left)
  BY <1>6, CopyLess
<1>7. CASE BodyBreaks
  BY <1>7, RetryOrFailLess DEF BodyBreaks, policy
<1>8. ASSUME NEW n, CopyOversize(n) PROVE Less(Left', Left)
  BY <1>8, EndsLess DEF CopyOversize, Fail
<1>9. CASE StageFails \/ WriteFails \/ ShortFragment \/ FlushFails \/ Succeed
  BY <1>9, EndsLess DEF StageFails, WriteFails, ShortFragment, FlushFails, Succeed, Fail
<1> QED BY <1>1, <1>2, <1>3, <1>4, <1>5, <1>6, <1>7, <1>8, <1>9 DEF Next

(* Every step of an acquisition or an inspection brings it nearer to its   *)
(* end, for every server, budget and limit: no call takes infinitely many. *)
THEOREM CallsShrink == Spec => Shrinks
<1> DEFINE T == Left \in Nat \X Nat \X Nat
<1>1. Spec => []Unspent
  BY InitUnspent, NextUnspent, Invariance, PTL DEF Spec
<1>2. Inv /\ Unspent => T
  BY LeftIsNat
<1>3. T' /\ [Less(Left', Left)]_vars => [Left' \in Nat \X Nat \X Nat /\ Less(Left', Left)]_vars
  OBVIOUS
<1> HIDE DEF T
<1> QED BY <1>1, <1>2, <1>3, NextLess, Invariance, PTL DEF Spec, Shrinks

(***************************************************************************)
(* How far the exception of OneRepresentation reaches.                     *)
(***************************************************************************)
Reached == Acquired /\ Appending => bytes >= partial

LEMMA NextReached == Inv /\ Reached /\ [Next]_vars => Reached'
<1> SUFFICES ASSUME Inv, Reached, [Next]_vars PROVE Reached'
  OBVIOUS
<1>1. CASE UNCHANGED vars
  BY <1>1 DEF vars, policy, Reached, Acquired, Appending
<1>2. CASE Succeed
  BY <1>2 DEF Succeed, policy, Reached, Acquired, Appending, Inv, Copied
<1>3. ASSUME Next, ~Succeed PROVE ~Acquired'
  <2> SUFFICES ASSUME Acquired' PROVE FALSE
    OBVIOUS
  <2>1. pc # "done" => result = "none"
    BY DEF Inv, TypeOK, Accounted, Running
  <2> QED
    BY <1>3, <2>1 DEF Acquired, Next, PrepareRestart, PrepareResume, PrepareFails, Inspect, HeadFails,
        HeadAnswered, HeadUnplaced, SendFails, Respond, RestartOn416, Refused, KnownOversize,
        AdmitFull, AdmitPartial, RejectPartial, Transfer, Reset, StageFails, Copy, CopyOversize,
        WriteFails, BodyBreaks, ShortFragment, FlushFails, RetryOrFail, Again, Fail
<1> QED BY <1>1, <1>2, <1>3 DEF Reached

(* Bytes that the validator is not bound to are appended to only where the *)
(* whole body of an ignored range broke and the policy allowed a retry.    *)
THEOREM MixtureNeedsBrokenRetry ==
    Spec => [](~ResumesValidatorBound => FullBodyBroke /\ retries > 0)
<1>1. Inv /\ Reached => (~ResumesValidatorBound => FullBodyBroke /\ retries > 0)
  <2> SUFFICES ASSUME Inv, Reached, ~ResumesValidatorBound PROVE FullBodyBroke /\ retries > 0
    OBVIOUS
  <2>1. /\ Acquired /\ resumed = "PartialAppended"
        /\ \E i \in 1 .. partial : stage[i] # Bytes(validator, partial)[i]
    BY DEF ResumesValidatorBound
  <2>2. FullBodyBroke
    <3> SUFFICES ASSUME ~FullBodyBroke PROVE FALSE
      OBVIOUS
    <3>1. stage = Bytes(validator, bytes)
      BY <2>1 DEF Inv, OneRepresentation
    <3>2. bytes >= partial /\ bytes \in Nat /\ partial \in Nat
      BY <2>1 DEF Inv, TypeOK, Reached, ResumeEvidenceTruthful
    <3>3. \A i \in 1 .. partial : i \in 1 .. bytes
      BY <3>2
    <3> QED BY <2>1, <3>1, <3>3 DEF Bytes
  <2>3. PICK i \in 1 .. Len(attempts) :
          attempts[i].status = 200 /\ attempts[i].outcome = "NetworkError"
    BY <2>2 DEF FullBodyBroke
  <2>4. attempts[i].planned /\ attempts[i].number = i - 1 /\ attempts[i].number < retries
    <3>1. Len(attempts) = attempt + 1 /\ attempts[attempt + 1].outcome = "Success"
      BY <2>1 DEF Inv, Accounted
    <3>2. i < Len(attempts)
      BY <2>3, <3>1 DEF Inv, TypeOK
    <3> QED BY <2>3, <3>2 DEF Inv, Accounted
  <2>5. i \in Nat /\ i >= 1 /\ retries \in Nat
    BY DEF Inv, TypeOK
  <2> QED BY <2>2, <2>4, <2>5
<1>2. Init => Reached
  BY DEF Init, Reached, Acquired
<1> QED BY <1>1, <1>2, NextReached, Invariance, PTL DEF Spec
=============================================================================
