------------------------------ MODULE Archive ------------------------------
(***************************************************************************)
(* Extraction of a ZIP or TAR container into a private root, src/archive.rs*)
(* The container is what its decoder hands over: entries one by one, with  *)
(* the bytes they declare and the bytes they turn out to hold, until it    *)
(* ends or breaks.  Every limit of the policy may be set or not.           *)
(*                                                                         *)
(* Covered: both families, their different decoded limits, names that      *)
(* differ in case only, on a filesystem that tells them apart or not, every*)
(* refusal, the failure of any local call, a root that held something      *)
(* before (a predecessor died) or is a symbolic link.                      *)
(*                                                                         *)
(* A path that escapes (a ".." left in a TAR name, no enclosed_name in ZIP)*)
(* holds Up.  One thread works on the root, which is the caller's private  *)
(* custody, so what happens to one entry is one step.                      *)
(***************************************************************************)
EXTENDS Integers, Sequences

CONSTANTS
    Names, Up,      \* path components; one that leaves the tree
    Fold,           \* lower-casing of names
    Entries,        \* entries [path, kind, declared, data]
    Policies,       \* policies [strip, entries, entry, total, decoded]
    None,           \* a limit that is not set
    U64,            \* the largest integer
    Header,         \* decoded TAR bytes around the data of an entry
    MaxEntries      \* bound: entries of a container

Limit == 0 .. U64 \cup {None}

ASSUME ArchiveConstants ==
    /\ Up \notin Names /\ None \notin Nat
    /\ Fold \in [Names -> Names] /\ \A n \in Names : Fold[Fold[n]] = Fold[n]
    /\ {U64, Header, MaxEntries} \subseteq Nat
    /\ Entries \subseteq [path : Seq(Names \cup {Up}), kind : {"file", "dir", "link", "other"},
                          declared : 0 .. U64, data : 0 .. U64]
    /\ Policies \subseteq [strip : Nat, entries : Limit, entry : Limit, total : Limit,
                           decoded : Limit]

VARIABLES
    format,     \* "zip" or "tar"
    policy,
    caseless,   \* the filesystem does not tell A from a
    pc,
    root,       \* what is at the root: "missing", "file", "link", "dir"
    stale,      \* something was in it before
    blind,      \* a look at the root failed and was taken for absence
    dirs,       \* directories made below it
    files,      \* files written below it: [of, bytes], of counting the entries
    entered,    \* ArchivePathIndex: keys with an entry, and its kind
    above,      \* keys with a descendant
    taken,      \* the entries read so far
    pending,    \* bytes of the last one not read yet
    observed,   \* DecodedLimitReader
    counts,     \* ArchiveEvidence
    outcome,
    uncleaned   \* ArchiveCleanupFailed

given == <<format, policy, caseless>>
disk == <<root, stale, blind, dirs, files>>
index == <<entered, above>>
reading == <<taken, pending, observed, counts>>
avars == <<given, disk, index, reading, pc, outcome, uncleaned>>

LimitError == {"entry-count", "entry-bytes", "total-bytes", "decoded-bytes"}
ArchiveError == LimitError
    \cup {"InvalidPath", "PathConflict", "Unsupported", "SizeMismatch", "Invalid", "Io", "Reset"}

(***************************************************************************)
(* Paths                                                                   *)
(***************************************************************************)

(* archive_collision_key                                                   *)
Key(path) == [i \in DOMAIN path |-> Fold[path[i]]]

OnDisk(path) == IF caseless THEN Key(path) ELSE path

Ancestors(path) == {SubSeq(path, 1, n) : n \in 1 .. Len(path) - 1}

(* sanitize_relative: nothing is left of a path that is stripped away.     *)
Escapes(path) == \E i \in DOMAIN path : path[i] = Up
Relative(path) == SubSeq(path, policy.strip + 1, Len(path))

(* Entries told apart by the case of their names.                          *)
Admits_ByCase(path, kind) ==
    /\ path \notin DOMAIN entered
    /\ \A a \in Ancestors(path) : a \in DOMAIN entered => entered[a] # "file"
    /\ kind = "file" => path \notin above

(* ArchivePathIndex::admit                                                 *)
Admits(path, kind) ==
    /\ Key(path) \notin DOMAIN entered
    /\ \A a \in Ancestors(Key(path)) : a \in DOMAIN entered => entered[a] # "file"
    /\ kind = "file" => Key(path) \notin above

Admit(path, kind) ==
    /\ entered' = [k \in DOMAIN entered \cup {Key(path)} |->
                      IF k = Key(path) THEN kind ELSE entered[k]]
    /\ above' = above \cup Ancestors(Key(path))

(***************************************************************************)
(* Limits                                                                  *)
(***************************************************************************)

(* A limit that must not be reached.                                       *)
Over_AtLimit(actual, max) == max # None /\ actual >= max

(* check_limit                                                             *)
Over(actual, max) == max # None /\ actual > max

Monus(a, b) == IF a > b THEN a - b ELSE 0
Capped(n) == IF n > U64 THEN U64 ELSE n

(* DecodedLimitReader::read draws one byte past its limit at most.         *)
Decoded(n) == IF format = "tar" THEN Capped(observed + n) ELSE observed
Overdrawn(n) == format = "tar" /\ Over(Decoded(n), policy.decoded)
Draw(n) == observed' = IF Overdrawn(n) THEN policy.decoded + 1 ELSE Decoded(n)

(* What is left of every limit on the bytes of a file.                     *)
Rooms ==
    {Monus(policy[l], IF l = "entry" THEN 0 ELSE counts.total) :
        l \in {k \in {"entry", "total"} \cup (IF format = "zip" THEN {"decoded"} ELSE {}) :
                  policy[k] # None}}

(* io::copy of take(remaining + 1).                                        *)
Moves(e, n) ==
    /\ n \in 0 .. e.data
    /\ \A r \in Rooms : n <= Capped(r + 1)
    /\ n < e.data => \E r \in Rooms : n = Capped(r + 1)

(***************************************************************************)
(* Verdicts, in the order of the code                                      *)
(***************************************************************************)

Kind(e) == IF e.kind = "other" /\ format = "zip" THEN "file" ELSE e.kind

Verdict(e) ==
    IF Over(counts.entries + 1, policy.entries) THEN "entry-count"
    ELSE IF Overdrawn(pending + Header) THEN "decoded-bytes"
    ELSE IF Escapes(e.path) THEN "InvalidPath"
    ELSE IF Relative(e.path) = <<>> THEN "skip"
    ELSE IF Kind(e) \in {"link", "other"} THEN "Unsupported"
    ELSE IF ~Admits(Relative(e.path), Kind(e)) THEN "PathConflict"
    ELSE IF Kind(e) = "dir" THEN "dir"
    ELSE IF Over(e.declared, policy.entry) THEN "entry-bytes"
    ELSE IF counts.total + e.declared > U64 THEN "total-bytes"
    ELSE IF Over(counts.total + e.declared, policy.total) THEN "total-bytes"
    ELSE "file"

(* copy_archive_file, once n bytes have arrived.                           *)
CopyVerdict(e, n) ==
    IF Overdrawn(pending + Header + n) THEN "decoded-bytes"
    ELSE IF Over(n, policy.entry) THEN "entry-bytes"
    ELSE IF Over(Capped(counts.total + n), policy.total) THEN "total-bytes"
    ELSE IF format = "zip" /\ Over(Capped(counts.total + n), policy.decoded) THEN "decoded-bytes"
    ELSE IF n # e.declared THEN "SizeMismatch"
    ELSE "complete"

(***************************************************************************)
(* The root                                                                *)
(***************************************************************************)

Nothing == [p \in {} |-> [of |-> 0, bytes |-> 0]]

(* remove_dir_all or remove_file, then create_dir_all; a root that cannot  *)
(* be looked at is taken for missing, and what is in it stays.             *)
Wipe ==
    \/ /\ root # "link"
       /\ root' = "dir" /\ stale' = FALSE /\ dirs' = {} /\ files' = Nothing
       /\ UNCHANGED blind
    \/ /\ root = "dir"
       /\ blind' = TRUE
       /\ UNCHANGED <<root, stale, dirs, files>>

(* The removal stops anywhere, or the new root cannot be made.             *)
WipeFails ==
    /\ root # "link"
    /\ \/ /\ UNCHANGED <<root, stale, dirs>>
          /\ \E rest \in SUBSET DOMAIN files : files' = [p \in rest |-> files[p]]
       \/ root' = "missing" /\ stale' = FALSE /\ dirs' = {} /\ files' = Nothing
    /\ UNCHANGED blind

ArchiveTypeOK ==
    /\ format \in {"zip", "tar"} /\ policy \in Policies /\ caseless \in BOOLEAN
    /\ pc \in {"new", "reading", "cleaning", "done"}
    /\ root \in {"missing", "file", "link", "dir"} /\ stale \in BOOLEAN /\ blind \in BOOLEAN
    /\ dirs \subseteq Seq(Names)
    /\ DOMAIN files \subseteq Seq(Names)
    /\ \A p \in DOMAIN files : files[p] \in [of : Nat \ {0}, bytes : Nat]
    /\ DOMAIN entered \subseteq Seq(Names)
    /\ \A k \in DOMAIN entered : entered[k] \in {"file", "dir"}
    /\ above \subseteq Seq(Names)
    /\ taken \in Seq(Entries) /\ pending \in Nat /\ observed \in Nat
    /\ counts \in [entries : Nat, total : Nat, decoded : Nat, files : Nat, directories : Nat]
    /\ outcome \in {"none", "Success"} \cup ArchiveError /\ uncleaned \in BOOLEAN

ArchiveInit ==
    /\ format \in {"zip", "tar"} /\ policy \in Policies /\ caseless \in BOOLEAN
    /\ pc = "new"
    /\ stale \in BOOLEAN /\ (stale => root = "dir") /\ blind = FALSE
    /\ dirs = {} /\ files = Nothing
    /\ entered = [k \in {} |-> "dir"] /\ above = {}
    /\ taken = <<>> /\ pending = 0 /\ observed = 0
    /\ counts = [entries |-> 0, total |-> 0, decoded |-> 0, files |-> 0, directories |-> 0]
    /\ outcome = "none" /\ uncleaned = FALSE

(***************************************************************************)
(* extract_source                                                          *)
(***************************************************************************)

Fail(error) == pc' = "cleaning" /\ outcome' = error /\ UNCHANGED uncleaned

(* A link at the root is refused.                                          *)
ResetRoot ==
    /\ pc = "new"
    /\ \/ Wipe /\ pc' = "reading" /\ UNCHANGED outcome
       \/ /\ WipeFails \/ (root = "link" /\ UNCHANGED disk)
          /\ pc' = "done" /\ outcome' = "Reset"
    /\ UNCHANGED <<given, index, reading, uncleaned>>

Reads(e) ==
    /\ pc = "reading" /\ Len(taken) < MaxEntries
    /\ format = "tar" => e.data <= e.declared
    /\ taken' = Append(taken, e)

(* The first check that fails ends the extraction.                         *)
Refuse(e) ==
    /\ Reads(e)
    /\ Verdict(e) \notin {"skip", "dir", "file"}
    /\ Draw(pending + Header)
    /\ Fail(Verdict(e))
    /\ UNCHANGED <<given, disk, index, pending, counts>>

(* A skipped entry is counted and its bytes are decoded.                   *)
Skip(e) ==
    /\ Reads(e)
    /\ Verdict(e) = "skip"
    /\ Draw(pending + Header)
    /\ pending' = e.data
    /\ counts' = [counts EXCEPT !.entries = @ + 1]
    /\ UNCHANGED <<given, disk, index, pc, outcome, uncleaned>>

(* create_dir_all                                                          *)
Makes(paths) ==
    /\ \A p \in paths : OnDisk(p) \notin DOMAIN files
    /\ dirs' = dirs \cup {OnDisk(p) : p \in paths}

MakeDir(e) ==
    LET path == Relative(e.path) IN
    /\ Reads(e)
    /\ Verdict(e) = "dir"
    /\ Makes(Ancestors(path) \cup {path})
    /\ Admit(path, "dir")
    /\ Draw(pending + Header)
    /\ pending' = e.data
    /\ counts' = [counts EXCEPT !.entries = @ + 1, !.directories = @ + 1]
    /\ UNCHANGED <<given, root, stale, blind, files, pc, outcome, uncleaned>>

Written(path, n) ==
    [p \in DOMAIN files \cup {OnDisk(path)} |->
        IF p = OnDisk(path) THEN [of |-> Len(taken) + 1, bytes |-> n] ELSE files[p]]

CopyFile(e) ==
    LET path == Relative(e.path) IN
    /\ Reads(e)
    /\ Verdict(e) = "file"
    /\ Makes(Ancestors(path)) /\ OnDisk(path) \notin dirs
    /\ Admit(path, "file")
    /\ \E n \in 0 .. e.data :
       /\ Moves(e, n) /\ CopyVerdict(e, n) = "complete"
       /\ files' = Written(path, n)
       /\ Draw(pending + Header + n)
       /\ counts' = [counts EXCEPT !.entries = @ + 1, !.files = @ + 1, !.total = @ + n,
                                   !.decoded = IF format = "zip" THEN counts.total + n ELSE @]
    /\ pending' = 0
    /\ UNCHANGED <<given, root, stale, blind, pc, outcome, uncleaned>>

(* A copy that is refused or breaks removes its file, or fails to.         *)
CopyFails(e) ==
    LET path == Relative(e.path) IN
    /\ Reads(e)
    /\ Verdict(e) = "file"
    /\ Makes(Ancestors(path)) /\ OnDisk(path) \notin dirs
    /\ Admit(path, "file")
    /\ \E n \in 0 .. e.data :
       /\ \/ Moves(e, n) /\ CopyVerdict(e, n) # "complete" /\ Fail(CopyVerdict(e, n))
          \/ Fail("Io")
       /\ files' \in {files, Written(path, n)}
       /\ Draw(pending + Header + n)
    /\ UNCHANGED <<given, root, stale, blind, pending, counts>>

(* The decoder or a local call fails; so does what the disk cannot hold.   *)
Breaks ==
    /\ pc = "reading"
    /\ \E error \in {"Invalid", "Io"} \cup IF stale THEN {"Unsupported"} ELSE {} : Fail(error)
    /\ UNCHANGED <<given, disk, index, reading>>

(* The container ends; what is left of it counts as decoded.               *)
Complete ==
    /\ pc = "reading"
    /\ Draw(pending + Header)
    /\ IF Overdrawn(pending + Header)
       THEN Fail("decoded-bytes") /\ UNCHANGED counts
       ELSE /\ pc' = "done" /\ outcome' = "Success" /\ UNCHANGED uncleaned
            /\ counts' = [counts EXCEPT !.decoded = IF format = "tar" THEN Decoded(pending + Header) ELSE @]
    /\ UNCHANGED <<given, disk, index, taken, pending>>

(* A clean-up whose own failure is forgotten.                              *)
CleanUp_Quiet ==
    /\ pc = "cleaning"
    /\ pc' = "done"
    /\ Wipe \/ WipeFails
    /\ UNCHANGED <<given, index, reading, outcome, uncleaned>>

(* The root is reset; combine_archive_failure keeps both errors.           *)
CleanUp ==
    /\ pc = "cleaning"
    /\ pc' = "done"
    /\ \/ Wipe /\ UNCHANGED uncleaned
       \/ WipeFails /\ uncleaned' = TRUE
    /\ UNCHANGED <<given, index, reading, outcome>>

ReadEntry(e) == Refuse(e) \/ Skip(e) \/ MakeDir(e) \/ CopyFile(e) \/ CopyFails(e)

ArchiveNext == ResetRoot \/ (\E e \in Entries : ReadEntry(e)) \/ Breaks \/ Complete \/ CleanUp
============================================================================
