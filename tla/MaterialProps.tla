--------------------------- MODULE MaterialProps ---------------------------
(***************************************************************************)
(* What verification, preparation and extraction guarantee.                *)
(***************************************************************************)
EXTENDS Material

Extracting == outcome = "Success"

(* The file entries that survive stripping, by their place.                *)
FilesTaken == {i \in DOMAIN taken : Relative(taken[i].path) # <<>> /\ Kind(taken[i]) = "file"}

(* An extracted tree is the container's: every file entry is there, whole, *)
(* under its own name, and nothing else is; even where case is ignored no  *)
(* two of them share a name and none lies below another (archive.rs:146,   *)
(* 783, 792, and the conflict laws of the test at 1117).                   *)
TreeIsArchive ==
    Extracting /\ pc = "done" =>
        /\ ~stale \/ blind
        /\ \A i \in FilesTaken :
              /\ OnDisk(Relative(taken[i].path)) \in DOMAIN files
              /\ files[OnDisk(Relative(taken[i].path))] = [of |-> i, bytes |-> taken[i].data]
              /\ taken[i].data = taken[i].declared
        /\ \A p \in DOMAIN files : files[p].of \in FilesTaken
        /\ \A p, q \in DOMAIN files : Key(p) = Key(q) => p = q
        /\ \A p, q \in DOMAIN files : Key(p) \notin Ancestors(Key(q))
        /\ \A p \in DOMAIN files : Ancestors(p) \subseteq dirs

(* No limit is passed by what is prepared, and none is invoked without need*)
(* against what would just fit (archive.rs:226, 792, 912).                 *)
Failing == taken[Len(taken)]
Larger(a, b) == IF a > b THEN a ELSE b

Beyond(actual, max) == max # None /\ ~(actual <= max)

LimitsHold ==
    /\ Extracting =>
        /\ ~Beyond(Len(taken), policy.entries)
        /\ ~Beyond(counts.total, policy.total) /\ counts.total <= U64
        /\ ~Beyond(counts.decoded, policy.decoded)
        /\ \A p \in DOMAIN files : ~Beyond(files[p].bytes, policy.entry)
    /\ outcome = "entry-count" => Beyond(Len(taken), policy.entries)
    /\ outcome = "entry-bytes" => Beyond(Larger(Failing.declared, Failing.data), policy.entry)
    /\ outcome = "total-bytes" =>
        LET total == counts.total + Larger(Failing.declared, Failing.data)
        IN  Beyond(total, policy.total) \/ total > U64
    /\ outcome = "decoded-bytes" =>
        \/ format = "tar" /\ Beyond(observed, policy.decoded)
        \/ format = "zip" /\ Beyond(counts.total + Failing.data, policy.decoded)

(* A failed extraction leaves an empty root, or says that it could not; one*)
(* that never began wrote nothing; and a tree is handed on only whole      *)
(* (archive.rs:429, 523; materialize.rs:79).                                *)
RootReclaimed ==
    /\ pc = "done" /\ outcome \notin {"Success", "Reset"} /\ ~uncleaned =>
        root = "dir" /\ ((~stale /\ files = Nothing) \/ blind)
    /\ pc = "done" /\ outcome = "Reset" => taken = <<>> /\ DOMAIN files = {}
    /\ stage = "handed" /\ result = "Extracted" => outcome = "Success" /\ root = "dir"

(* What is prepared is what was verified, unless the caller's own path got *)
(* another entry in between; an adapter-owned file never does              *)
(* (hash.rs:407, materialize.rs:53, local.rs:510).                         *)
VerifiedIsPrepared ==
    result \in {"Copied", "Extracted"} /\ expected # None /\ api = "stage" =>
        /\ verified = expected
        /\ used = verified \/ replaced
        /\ replaced => material # "StagedFile"
=============================================================================
