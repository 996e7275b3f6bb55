--------------------------- MODULE MaterialProofs ---------------------------
(***************************************************************************)
(* Proofs about verification, preparation and extraction, for any names,   *)
(* containers, policies and sizes.                                         *)
(*                                                                         *)
(* The argument: the index knows every file below the root by its folded   *)
(* name, and the folded names above it (IndexInv); so a name it admits is  *)
(* on the disk under no other.  While nothing has failed the files are     *)
(* exactly the file entries read, each whole, because a copy that stops at *)
(* a limit stops past it (TreeInv, Moved), and the counts keep every limit *)
(* (LimitInv).  Verification fixes what is expected, and only a replaced   *)
(* entry can differ from it (VerifyInv).                                   *)
(***************************************************************************)
EXTENDS MaterialProps, SequenceTheorems, TLAPS

(***************************************************************************)
(* Nothing has failed so far.                                              *)
(***************************************************************************)

Whole == pc = "reading" \/ outcome = "Success"

PhaseInv ==
    /\ pc \in {"new", "reading"} <=> outcome = "none"
    /\ outcome \in {"Success", "Reset"} => pc = "done"
    /\ pc = "new" \/ outcome = "Reset" => taken = <<>> /\ DOMAIN files = {}
    /\ pc = "new" => counts.entries = 0 /\ counts.total = 0 /\ counts.decoded = 0
    /\ pc = "new" => DOMAIN entered = {}
    /\ pc \in {"reading", "cleaning"} \/ outcome = "Success" => root = "dir"
    /\ Whole => ~stale \/ blind
    /\ pc = "done" /\ outcome \notin {"Success", "Reset"} /\ ~uncleaned =>
          root = "dir" /\ ((~stale /\ files = Nothing) \/ blind)

StepInv ==
    /\ step \notin {"extract", "drop", "done"} => pc = "new" /\ used = None
    /\ step = "extract" => pc # "new"
    /\ step \notin {"drop", "done"} => result = "none"
    /\ result = "Extracted" => outcome = "Success"
    /\ outcome = "Success" => used # None
    /\ result = "Copied" => used # None

(* The index knows what is below the root.                                 *)
IndexInv ==
    /\ \A k \in DOMAIN entered : Ancestors(k) \subseteq above
    /\ \A k \in DOMAIN entered : entered[k] = "file" => k \notin above
    /\ \A p \in DOMAIN files : Key(p) \in DOMAIN entered /\ entered[Key(p)] = "file"
    /\ \A p, q \in DOMAIN files : Key(p) = Key(q) => p = q
    /\ \A p \in DOMAIN files : Ancestors(p) \subseteq dirs

(* The file of entry i is there, whole.                                    *)
Held(i) ==
    /\ OnDisk(Relative(taken[i].path)) \in DOMAIN files
    /\ files[OnDisk(Relative(taken[i].path))] = [of |-> i, bytes |-> taken[i].data]
    /\ taken[i].data = taken[i].declared

TreeInv ==
    Whole =>
        /\ \A i \in FilesTaken : Held(i)
        /\ \A p \in DOMAIN files : files[p].of \in FilesTaken

LimitInv ==
    /\ pc = "reading" => counts.entries = Len(taken)
    /\ Whole =>
        /\ ~Over(Len(taken), policy.entries)
        /\ counts.total <= U64 /\ ~Over(counts.total, policy.total)
        /\ format = "zip" => counts.decoded = counts.total /\ ~Over(counts.total, policy.decoded)
        /\ \A p \in DOMAIN files : ~Over(files[p].bytes, policy.entry)
    /\ outcome = "Success" /\ format = "tar" => ~Over(counts.decoded, policy.decoded)

(* What is said of the limits, without the case of a success.              *)
FailureTruthful ==
    /\ outcome = "entry-count" => Beyond(Len(taken), policy.entries)
    /\ outcome = "entry-bytes" => Beyond(Larger(Failing.declared, Failing.data), policy.entry)
    /\ outcome = "total-bytes" =>
        LET total == counts.total + Larger(Failing.declared, Failing.data)
        IN  Beyond(total, policy.total) \/ total > U64
    /\ outcome = "decoded-bytes" =>
        \/ format = "tar" /\ Beyond(observed, policy.decoded)
        \/ format = "zip" /\ Beyond(counts.total + Failing.data, policy.decoded)

VerifyInv ==
    /\ expected # None => api = "stage"
    /\ expected # None /\ step \in {"prepare", "copy", "copying", "open", "extract"} => verified = expected
    /\ expected # None /\ result \in {"Copied", "Extracted"} => verified = expected
    /\ verified # None /\ ~replaced => content = verified
    /\ verified # None /\ used # None => used = verified \/ replaced
    /\ replaced => material # "StagedFile"

Inv ==
    /\ TypeOK /\ PhaseInv /\ StepInv /\ IndexInv /\ TreeInv
    /\ LimitInv /\ FailureTruthful /\ VerifyInv

(***************************************************************************)
(* Paths                                                                   *)
(***************************************************************************)

LEMMA KeyIsPath ==
    ASSUME NEW path \in Seq(Names)
    PROVE  /\ Key(path) \in Seq(Names)
           /\ Len(Key(path)) = Len(path)
           /\ \A i \in 1 .. Len(path) : Key(path)[i] = Fold[path[i]]
<1>1. path \in [1 .. Len(path) -> Names] /\ Len(path) \in Nat
  BY LenProperties
<1>2. Key(path) \in [1 .. Len(path) -> Names]
  BY <1>1, ArchiveConstants DEF Key
<1>3. Key(path) \in Seq(Names)
  BY <1>1, <1>2, SeqDef, Zenon
<1>4. Len(Key(path)) = Len(path)
  BY <1>1, <1>2, <1>3, LenProperties
<1> QED
  BY <1>1, <1>3, <1>4 DEF Key

LEMMA PrefixOfPath ==
    ASSUME NEW S, NEW path \in Seq(S), NEW n \in 0 .. Len(path)
    PROVE  /\ SubSeq(path, 1, n) \in Seq(S)
           /\ Len(SubSeq(path, 1, n)) = n
           /\ \A i \in 1 .. n : SubSeq(path, 1, n)[i] = path[i]
<1>1. Len(path) \in Nat /\ \A i \in 1 .. n : path[i] \in S
  BY LenProperties
<1> QED
  BY <1>1, SubSeqProperties

(* Folding twice is folding once.                                          *)
LEMMA KeyOfKey ==
    ASSUME NEW path \in Seq(Names)
    PROVE  Key(Key(path)) = Key(path)
<1>1. Key(path) \in Seq(Names) /\ Len(Key(path)) = Len(path)
  BY KeyIsPath
<1>2. Key(Key(path)) \in Seq(Names) /\ Len(Key(Key(path))) = Len(Key(path))
  BY <1>1, KeyIsPath
<1>3. \A i \in 1 .. Len(path) : path[i] \in Names
  BY LenProperties
<1>4. \A i \in 1 .. Len(path) : Key(Key(path))[i] = Key(path)[i]
  BY <1>1, <1>3, KeyIsPath, ArchiveConstants
<1> QED
  BY <1>1, <1>2, <1>4, SeqEqual

LEMMA KeyOfPrefix ==
    ASSUME NEW path \in Seq(Names), NEW n \in 0 .. Len(path)
    PROVE  Key(SubSeq(path, 1, n)) = SubSeq(Key(path), 1, n)
<1>1. SubSeq(path, 1, n) \in Seq(Names) /\ Len(SubSeq(path, 1, n)) = n
      /\ \A i \in 1 .. n : SubSeq(path, 1, n)[i] = path[i]
  BY PrefixOfPath
<1>2. Key(path) \in Seq(Names) /\ Len(Key(path)) = Len(path)
  BY KeyIsPath
<1>3. SubSeq(Key(path), 1, n) \in Seq(Names) /\ Len(SubSeq(Key(path), 1, n)) = n
      /\ \A i \in 1 .. n : SubSeq(Key(path), 1, n)[i] = Key(path)[i]
  BY <1>2, PrefixOfPath
<1>4. Key(SubSeq(path, 1, n)) \in Seq(Names) /\ Len(Key(SubSeq(path, 1, n))) = n
      /\ \A i \in 1 .. n : Key(SubSeq(path, 1, n))[i] = Fold[SubSeq(path, 1, n)[i]]
  BY <1>1, KeyIsPath
<1>5. Len(path) \in Nat
  BY LenProperties
<1>6. \A i \in 1 .. n : Key(SubSeq(path, 1, n))[i] = SubSeq(Key(path), 1, n)[i]
  BY <1>1, <1>3, <1>4, <1>5, KeyIsPath
<1> QED
  BY <1>3, <1>4, <1>6, SeqEqual

LEMMA AncestorsArePaths ==
    ASSUME NEW S, NEW path \in Seq(S)
    PROVE  /\ Ancestors(path) \subseteq Seq(S)
           /\ \A a \in Ancestors(path) : Len(a) \in 1 .. Len(path) - 1
           /\ path \notin Ancestors(path)
<1>1. Len(path) \in Nat
  BY LenProperties
<1>2. \A n \in 1 .. Len(path) - 1 : n \in 0 .. Len(path)
  BY <1>1
<1>3. \A n \in 1 .. Len(path) - 1 : SubSeq(path, 1, n) \in Seq(S) /\ Len(SubSeq(path, 1, n)) = n
  BY <1>2, PrefixOfPath
<1> QED
  BY <1>1, <1>3 DEF Ancestors

(* What lies above a folded name is what lay above it, folded.             *)
LEMMA AncestorsOfKey ==
    ASSUME NEW path \in Seq(Names)
    PROVE  Ancestors(Key(path)) = {Key(x) : x \in Ancestors(path)}
<1>1. Len(path) \in Nat /\ Len(Key(path)) = Len(path)
  BY LenProperties, KeyIsPath
<1>2. \A n \in 1 .. Len(path) - 1 : Key(SubSeq(path, 1, n)) = SubSeq(Key(path), 1, n)
  BY <1>1, KeyOfPrefix
<1> QED
  BY <1>1, <1>2 DEF Ancestors

LEMMA OnDiskIsPath ==
    ASSUME NEW path \in Seq(Names), caseless \in BOOLEAN
    PROVE  /\ OnDisk(path) \in Seq(Names)
           /\ Key(OnDisk(path)) = Key(path)
           /\ Ancestors(OnDisk(path)) = {OnDisk(x) : x \in Ancestors(path)}
<1>1. CASE caseless
  BY <1>1, KeyIsPath, KeyOfKey, AncestorsOfKey DEF OnDisk
<1>2. CASE ~caseless
  <2>1. \A x : OnDisk(x) = x
    BY <1>2 DEF OnDisk
  <2> QED
    BY <2>1
<1> QED
  BY <1>1, <1>2

LEMMA RelativeIsPath ==
    ASSUME NEW e \in Entries, policy \in Policies, ~Escapes(e.path)
    PROVE  Relative(e.path) \in Seq(Names)
<1>1. e.path \in Seq(Names \cup {Up}) /\ policy.strip \in Nat
  BY ArchiveConstants
<1>2. Len(e.path) \in Nat /\ DOMAIN e.path = 1 .. Len(e.path)
      /\ \A i \in 1 .. Len(e.path) : e.path[i] \in Names \cup {Up}
  BY <1>1, LenProperties, ElementOfSeq
<1>3. \A i \in 1 .. Len(e.path) : e.path[i] \in Names
  BY <1>2 DEF Escapes
<1>4. \A i \in policy.strip + 1 .. Len(e.path) : e.path[i] \in Names
  BY <1>1, <1>2, <1>3
<1> QED
  BY <1>1, <1>2, <1>4, SubSeqProperties DEF Relative

(***************************************************************************)
(* Entries, policies, verdicts                                             *)
(***************************************************************************)

LEMMA EntryIsTyped ==
    ASSUME NEW e \in Entries
    PROVE  /\ e.path \in Seq(Names \cup {Up}) /\ e.kind \in {"file", "dir", "link", "other"}
           /\ e.declared \in Nat /\ e.data \in Nat /\ e.declared <= U64 /\ e.data <= U64
BY ArchiveConstants

LEMMA PolicyIsTyped ==
    ASSUME policy \in Policies
    PROVE  /\ policy.strip \in Nat
           /\ \A l \in {"entries", "entry", "total", "decoded"} :
                 policy[l] # None => policy[l] \in Nat /\ policy[l] <= U64
BY ArchiveConstants DEF Limit

LEMMA VerdictFacts ==
    ASSUME NEW e
    PROVE  /\ Verdict(e) \in {"skip", "dir", "file"} =>
                 ~Over(counts.entries + 1, policy.entries) /\ ~Escapes(e.path)
           /\ Verdict(e) = "skip" => Relative(e.path) = <<>>
           /\ Verdict(e) \in {"dir", "file"} =>
                 /\ Relative(e.path) # <<>> /\ Kind(e) \notin {"link", "other"}
                 /\ Admits(Relative(e.path), Kind(e))
           /\ Verdict(e) = "dir" => Kind(e) = "dir"
           /\ Verdict(e) = "file" =>
                 /\ Kind(e) # "dir" /\ ~Over(e.declared, policy.entry)
                 /\ ~(counts.total + e.declared > U64)
                 /\ ~Over(counts.total + e.declared, policy.total)
BY DEF Verdict

LEMMA DrawIsTyped ==
    ASSUME policy \in Policies, observed \in Nat, pending \in Nat, NEW m \in Nat,
           NEW n \in {pending + Header, pending + Header + m}, Draw(n)
    PROVE  observed' \in Nat /\ Decoded(n) \in Nat
<1>1. Decoded(n) \in Nat
  <2>1. n \in Nat /\ U64 \in Nat
    BY ArchiveConstants
  <2> QED
    BY <2>1 DEF Decoded, Capped
<1>2. Overdrawn(n) => policy.decoded \in Nat
  BY PolicyIsTyped DEF Overdrawn, Over
<1> QED
  BY <1>1, <1>2 DEF Draw

LEMMA TakenIsTyped ==
    ASSUME taken \in Seq(Entries), NEW e \in Entries, Reads(e)
    PROVE  /\ taken' \in Seq(Entries)
           /\ Len(taken') = Len(taken) + 1
           /\ \A i \in 1 .. Len(taken) : taken'[i] = taken[i]
           /\ taken'[Len(taken) + 1] = e
           /\ DOMAIN taken = 1 .. Len(taken) /\ Len(taken) \in Nat
           /\ DOMAIN taken' = 1 .. Len(taken) + 1
BY AppendProperties, LenProperties DEF Reads

(***************************************************************************)
(* Types                                                                   *)
(***************************************************************************)

LEMMA WipeIsTyped ==
    ASSUME ArchiveTypeOK, Wipe \/ WipeFails
    PROVE  /\ root' \in {"missing", "file", "link", "dir"} /\ stale' \in BOOLEAN /\ blind' \in BOOLEAN
           /\ dirs' \subseteq Seq(Names)
           /\ DOMAIN files' \subseteq Seq(Names)
           /\ \A p \in DOMAIN files' : files'[p] \in [of : Nat \ {0}, bytes : Nat]
<1> USE DEF ArchiveTypeOK
<1>1. CASE Wipe
  BY <1>1 DEF Wipe, Nothing
<1>2. CASE WipeFails
  BY <1>2 DEF WipeFails, Nothing
<1> QED
  BY <1>1, <1>2

LEMMA MadeIsTyped ==
    ASSUME ArchiveTypeOK, NEW path \in Seq(Names), NEW paths \in SUBSET Seq(Names),
           dirs' = dirs \cup {OnDisk(p) : p \in paths},
           NEW kind \in {"file", "dir"}, Admit(path, kind)
    PROVE  /\ dirs' \subseteq Seq(Names)
           /\ DOMAIN entered' \subseteq Seq(Names)
           /\ \A k \in DOMAIN entered' : entered'[k] \in {"file", "dir"}
           /\ above' \subseteq Seq(Names)
<1> USE DEF ArchiveTypeOK
<1>1. Key(path) \in Seq(Names) /\ Ancestors(Key(path)) \subseteq Seq(Names)
  BY KeyIsPath, AncestorsArePaths
<1>2. \A p \in paths : OnDisk(p) \in Seq(Names)
  BY OnDiskIsPath
<1> QED
  BY <1>1, <1>2 DEF Admit

LEMMA WrittenIsTyped ==
    ASSUME ArchiveTypeOK, NEW path \in Seq(Names), NEW n \in Nat
    PROVE  /\ DOMAIN Written(path, n) = DOMAIN files \cup {OnDisk(path)}
           /\ DOMAIN Written(path, n) \subseteq Seq(Names)
           /\ \A p \in DOMAIN Written(path, n) : Written(path, n)[p] \in [of : Nat \ {0}, bytes : Nat]
<1> USE DEF ArchiveTypeOK
<1>1. Len(taken) \in Nat /\ OnDisk(path) \in Seq(Names)
  BY LenProperties, OnDiskIsPath
<1> QED
  BY <1>1 DEF Written

(* Every step of an extraction, its entry made explicit.                   *)
LEMMA ExtractSteps ==
    ASSUME Extract
    PROVE  /\ step = "extract" /\ pc # "done" /\ UNCHANGED mvars
           /\ \/ used # None /\ Complete
              \/ used # None /\ \E e \in Entries :
                    Refuse(e) \/ Skip(e) \/ MakeDir(e) \/ CopyFile(e) \/ CopyFails(e)
              \/ Breaks
              \/ CleanUp
BY DEF Extract, ReadEntry

LEMMA ArchiveTypeStep ==
    ASSUME ArchiveTypeOK, ResetRoot \/ Extract
    PROVE  ArchiveTypeOK'
<1> USE DEF ArchiveTypeOK
<1> DEFINE Still == UNCHANGED <<format, policy, caseless>>
<1>1. CASE ResetRoot
  <2>1. UNCHANGED <<given, index, reading, uncleaned>> /\ pc' \in {"reading", "done"}
        /\ outcome' \in {outcome, "Reset"}
    BY <1>1 DEF ResetRoot
  <2>2. (Wipe \/ WipeFails) \/ UNCHANGED disk
    BY <1>1 DEF ResetRoot
  <2>3. /\ root' \in {"missing", "file", "link", "dir"} /\ stale' \in BOOLEAN /\ blind' \in BOOLEAN
        /\ dirs' \subseteq Seq(Names)
        /\ DOMAIN files' \subseteq Seq(Names)
        /\ \A p \in DOMAIN files' : files'[p] \in [of : Nat \ {0}, bytes : Nat]
    BY <2>2, WipeIsTyped DEF disk
  <2> QED
    BY <2>1, <2>3 DEF given, index, reading, ArchiveError
<1>2. ASSUME NEW e \in Entries, Refuse(e) PROVE ArchiveTypeOK'
  <2>1. taken' \in Seq(Entries)
    BY <1>2, TakenIsTyped DEF Refuse
  <2>2. observed' \in Nat
    BY <1>2, DrawIsTyped DEF Refuse
  <2>3. Verdict(e) \in {"skip", "dir", "file"} \cup ArchiveError
    BY DEF Verdict, ArchiveError, LimitError
  <2> QED
    BY <1>2, <2>1, <2>2, <2>3 DEF Refuse, Fail, given, disk, index
<1>3. ASSUME NEW e \in Entries, Skip(e) PROVE ArchiveTypeOK'
  <2>1. taken' \in Seq(Entries)
    BY <1>3, TakenIsTyped DEF Skip
  <2>2. observed' \in Nat
    BY <1>3, DrawIsTyped DEF Skip
  <2>3. e.data \in Nat
    BY EntryIsTyped
  <2> QED
    BY <1>3, <2>1, <2>2, <2>3 DEF Skip, given, disk, index
<1>4. ASSUME NEW e \in Entries, MakeDir(e) PROVE ArchiveTypeOK'
  <2> DEFINE path == Relative(e.path)
  <2>1. taken' \in Seq(Entries)
    BY <1>4, TakenIsTyped DEF MakeDir
  <2>2. observed' \in Nat
    BY <1>4, DrawIsTyped DEF MakeDir
  <2>3. e.data \in Nat
    BY EntryIsTyped
  <2>4. path \in Seq(Names)
    BY <1>4, VerdictFacts, RelativeIsPath DEF MakeDir
  <2>5. Ancestors(path) \cup {path} \in SUBSET Seq(Names)
    BY <2>4, AncestorsArePaths
  <2>6. dirs' = dirs \cup {OnDisk(p) : p \in Ancestors(path) \cup {path}} /\ Admit(path, "dir")
    BY <1>4 DEF MakeDir, Makes
  <2>7. /\ dirs' \subseteq Seq(Names)
        /\ DOMAIN entered' \subseteq Seq(Names)
        /\ \A k \in DOMAIN entered' : entered'[k] \in {"file", "dir"}
        /\ above' \subseteq Seq(Names)
    BY <2>4, <2>5, <2>6, MadeIsTyped
  <2>8. counts' \in [entries : Nat, total : Nat, decoded : Nat, files : Nat, directories : Nat]
    <3>1. counts' = [counts EXCEPT !.entries = @ + 1, !.directories = @ + 1]
      BY <1>4 DEF MakeDir
    <3>2. counts.entries + 1 \in Nat /\ counts.directories + 1 \in Nat
      OBVIOUS
    <3> QED
      BY <3>1, <3>2
  <2>9. UNCHANGED <<format, policy, caseless, root, stale, blind, files, pc, outcome, uncleaned>>
        /\ pending' = e.data
    BY <1>4 DEF MakeDir, given
  <2> QED
    BY <2>1, <2>2, <2>3, <2>7, <2>8, <2>9
<1>5. ASSUME NEW e \in Entries, CopyFile(e) \/ CopyFails(e) PROVE ArchiveTypeOK'
  <2> DEFINE path == Relative(e.path)
  <2>1. taken' \in Seq(Entries)
    BY <1>5, TakenIsTyped DEF CopyFile, CopyFails
  <2>2. PICK n \in 0 .. e.data :
          /\ Draw(pending + Header + n)
          /\ files' \in {files, Written(path, n)}
          /\ \/ UNCHANGED counts
             \/ counts' = [counts EXCEPT !.entries = @ + 1, !.files = @ + 1, !.total = @ + n,
                                         !.decoded = IF format = "zip" THEN counts.total + n ELSE @]
    BY <1>5 DEF CopyFile, CopyFails
  <2>3. n \in Nat
    BY EntryIsTyped
  <2>4. observed' \in Nat
    BY <2>2, <2>3, DrawIsTyped
  <2>5. path \in Seq(Names)
    BY <1>5, VerdictFacts, RelativeIsPath DEF CopyFile, CopyFails
  <2>6. Ancestors(path) \in SUBSET Seq(Names)
    BY <2>5, AncestorsArePaths
  <2>7. dirs' = dirs \cup {OnDisk(p) : p \in Ancestors(path)} /\ Admit(path, "file")
    BY <1>5 DEF CopyFile, CopyFails, Makes
  <2>8. /\ dirs' \subseteq Seq(Names)
        /\ DOMAIN entered' \subseteq Seq(Names)
        /\ \A k \in DOMAIN entered' : entered'[k] \in {"file", "dir"}
        /\ above' \subseteq Seq(Names)
    BY <2>5, <2>6, <2>7, MadeIsTyped
  <2>9. /\ DOMAIN files' \subseteq Seq(Names)
        /\ \A p \in DOMAIN files' : files'[p] \in [of : Nat \ {0}, bytes : Nat]
    <3>1. CASE files' = files
      BY <3>1
    <3>2. CASE files' = Written(path, n)
      BY <3>2, <2>3, <2>5, WrittenIsTyped
    <3> QED
      BY <2>2, <3>1, <3>2
  <2>10. counts' \in [entries : Nat, total : Nat, decoded : Nat, files : Nat, directories : Nat]
    <3> HIDE DEF path
    <3>1. counts.total + n \in Nat /\ counts.entries + 1 \in Nat /\ counts.files + 1 \in Nat
      BY <2>3
    <3> QED
      BY <2>2, <3>1
  <2>11. CopyVerdict(e, n) \in ArchiveError \cup {"complete"}
    BY DEF CopyVerdict, ArchiveError, LimitError
  <2>12. /\ UNCHANGED <<format, policy, caseless, root, stale, blind, uncleaned>>
         /\ pending' \in Nat /\ pc' \in {pc, "cleaning"}
    <3>1. CASE CopyFile(e)
      BY <3>1 DEF CopyFile, given
    <3>2. CASE CopyFails(e)
      BY <3>2 DEF CopyFails, given, Fail
    <3> QED
      BY <1>5, <3>1, <3>2
  <2>13. outcome' \in {outcome, "Io"} \cup {CopyVerdict(e, m) : m \in 0 .. e.data}
         /\ \A m \in 0 .. e.data : CopyVerdict(e, m) \in ArchiveError \cup {"complete"}
    BY <1>5 DEF CopyFile, CopyFails, Fail, CopyVerdict, ArchiveError, LimitError
  <2>14. outcome' \in {"none", "Success"} \cup ArchiveError
    BY <1>5, <2>13 DEF CopyFile, CopyFails, Fail, ArchiveError
  <2> QED
    BY <2>1, <2>4, <2>8, <2>9, <2>10, <2>12, <2>14
<1>6. CASE Breaks
  BY <1>6 DEF Breaks, Fail, given, disk, index, reading, ArchiveError
<1>7. CASE Complete
  <2>1. 0 \in Nat
    OBVIOUS
  <2>2. observed' \in Nat /\ Decoded(pending + Header) \in Nat
    BY <1>7, <2>1, DrawIsTyped DEF Complete
  <2>3. counts' \in [entries : Nat, total : Nat, decoded : Nat, files : Nat, directories : Nat]
    BY <1>7, <2>2 DEF Complete
  <2> QED
    BY <1>7, <2>2, <2>3 DEF Complete, Fail, given, disk, index, ArchiveError, LimitError
<1>8. CASE CleanUp
  <2>1. Wipe \/ WipeFails
    BY <1>8 DEF CleanUp
  <2> QED
    BY <1>8, <2>1, WipeIsTyped DEF CleanUp, given, index, reading
<1> QED
  BY <1>1, <1>2, <1>3, <1>4, <1>5, <1>6, <1>7, <1>8, ExtractSteps

(* What happens around an extraction leaves it alone.                      *)
Beside ==
    \/ Replace \/ Acquire \/ Unverified \/ Verify \/ VerifyRefused \/ VerifyFails
    \/ Sniff \/ AdmitCopy \/ Copy \/ CopyBreaks \/ Extracted \/ Drop

LEMMA BesideIsQuiet ==
    ASSUME Beside
    PROVE  UNCHANGED <<avars, kept>>
BY DEF Beside, Replace, Acquire, Unverified, Verify, VerifyRefused, VerifyFails, Sniff, AdmitCopy,
       Copy, CopyBreaks, Extracted, Drop, End, calls

LEMMA TypeStep ==
    ASSUME TypeOK, [Next]_vars
    PROVE  TypeOK'
<1> USE DEF TypeOK, kept, origin, mvars, calls
<1>1. CASE Beside
  <2>1. ArchiveTypeOK'
    BY <1>1, BesideIsQuiet DEF ArchiveTypeOK, avars, given, disk, index, reading
  <2>2. CASE Replace \/ Acquire
    BY <2>1, <2>2 DEF Replace, Acquire, End, CopyError, Mismatch, avars
  <2>3. CASE Unverified \/ Verify \/ VerifyRefused \/ VerifyFails
    BY <2>1, <2>3 DEF Unverified, Verify, VerifyRefused, VerifyFails, End, CopyError, Mismatch, avars
  <2>4. CASE Sniff \/ AdmitCopy \/ Copy \/ CopyBreaks
    BY <2>1, <2>4 DEF Sniff, AdmitCopy, Copy, CopyBreaks, End, CopyError, Mismatch, avars
  <2>5. CASE Extracted \/ Drop
    BY <2>1, <2>5 DEF Extracted, Drop, End, CopyError, Mismatch, avars
  <2> QED
    BY <1>1, <2>2, <2>3, <2>4, <2>5 DEF Beside
<1>2. CASE Open
  <2>1. ArchiveTypeOK'
    BY <1>2, ArchiveTypeStep DEF Open
  <2> QED
    BY <1>2, <2>1 DEF Open
<1>3. CASE Extract
  <2>1. ArchiveTypeOK' /\ UNCHANGED mvars
    BY <1>3, ArchiveTypeStep, ExtractSteps
  <2> QED
    BY <2>1
<1>4. CASE UNCHANGED vars
  BY <1>4 DEF vars, ArchiveTypeOK, avars, given, disk, index, reading
<1> QED
  BY <1>1, <1>2, <1>3, <1>4 DEF Next, Beside

LEMMA TypeInit == Init => TypeOK
<1> SUFFICES ASSUME Init PROVE TypeOK
  OBVIOUS
<1>1. ArchiveTypeOK
  BY EmptySeq DEF Init, ArchiveInit, ArchiveTypeOK, Nothing
<1> QED
  BY <1>1 DEF Init, TypeOK

(* Every variable keeps its type.                                          *)
THEOREM TypeCorrect == Spec => []TypeOK
<1> QED
  BY TypeInit, TypeStep, PTL DEF Spec

(***************************************************************************)
(* Phases                                                                  *)
(***************************************************************************)

(* What an entry does to the phase: it goes on, or a failure is pending.   *)
LEMMA EntryPhase ==
    ASSUME NEW e \in Entries, Refuse(e) \/ Skip(e) \/ MakeDir(e) \/ CopyFile(e) \/ CopyFails(e)
    PROVE  /\ pc = "reading" /\ UNCHANGED <<root, stale, blind, uncleaned>>
           /\ \/ pc' = "reading" /\ outcome' = outcome
              \/ pc' = "cleaning" /\ outcome' \in ArchiveError \ {"Reset"}
<1>1. CASE Refuse(e)
  <2>1. Verdict(e) \in {"skip", "dir", "file"} \cup (ArchiveError \ {"Reset"})
    BY DEF Verdict, ArchiveError, LimitError
  <2> QED
    BY <1>1, <2>1 DEF Refuse, Reads, Fail, disk
<1>2. CASE Skip(e)
  BY <1>2 DEF Skip, Reads, disk
<1>3. CASE MakeDir(e)
  BY <1>3 DEF MakeDir, Reads
<1>4. CASE CopyFile(e)
  BY <1>4 DEF CopyFile, Reads
<1>5. CASE CopyFails(e)
  <2>1. \A m : CopyVerdict(e, m) \in {"complete"} \cup (ArchiveError \ {"Reset"})
    BY DEF CopyVerdict, ArchiveError, LimitError
  <2>2. pc = "reading" /\ UNCHANGED <<root, stale, blind, uncleaned>> /\ pc' = "cleaning"
    BY <1>5 DEF CopyFails, Reads, Fail
  <2>3. PICK m : outcome' = "Io" \/ (CopyVerdict(e, m) # "complete" /\ outcome' = CopyVerdict(e, m))
    BY <1>5 DEF CopyFails, Fail
  <2> QED
    BY <2>1, <2>2, <2>3 DEF ArchiveError
<1> QED
  BY <1>1, <1>2, <1>3, <1>4, <1>5

LEMMA PhaseStep ==
    ASSUME TypeOK, PhaseInv, StepInv, [Next]_vars
    PROVE  PhaseInv' /\ StepInv'
<1> USE DEF PhaseInv, StepInv, Whole
<1>1. CASE Beside
  <2>1. UNCHANGED avars
    BY <1>1, BesideIsQuiet
  <2>2. PhaseInv' /\ pc' = pc /\ outcome' = outcome
    BY <2>1 DEF avars, given, disk, index, reading, Nothing
  <2>3. StepInv'
    <3> HIDE DEF PhaseInv, Whole
    <3>1. CASE Replace \/ Acquire
      BY <2>2, <3>1 DEF Replace, Acquire, End, calls
    <3>2. CASE Unverified \/ Verify
      BY <2>2, <3>2 DEF Unverified, Verify, End
    <3>3. CASE VerifyRefused \/ VerifyFails
      BY <2>2, <3>3 DEF VerifyRefused, VerifyFails, End
    <3>4. CASE Sniff \/ AdmitCopy \/ CopyBreaks
      BY <2>2, <3>4 DEF Sniff, AdmitCopy, CopyBreaks, End
    <3>5. CASE Copy
      <4>1. used' # None
        BY <3>5, MaterialConstants DEF Copy, TypeOK
      <4> QED
        BY <2>2, <3>5, <4>1 DEF Copy, End
    <3>6. CASE Extracted \/ Drop
      BY <2>2, <3>6 DEF Extracted, Drop, End
    <3> QED
      BY <1>1, <3>1, <3>2, <3>3, <3>4, <3>5, <3>6 DEF Beside
  <2> QED
    BY <2>2, <2>3
<1>2. CASE Open
  <2>1. pc = "new" /\ UNCHANGED <<taken, counts, entered, uncleaned>> /\ step' = "extract"
        /\ result' = "none" /\ outcome = "none"
    BY <1>2 DEF Open, ResetRoot, reading, index
  <2>2. CASE Wipe /\ pc' = "reading" /\ UNCHANGED outcome
    <3>1. root' = "dir" /\ (~stale' \/ blind')
      BY <2>2 DEF Wipe
    <3>2. StepInv'
      BY <2>1, <2>2
    <3>3. PhaseInv'
      BY <2>1, <2>2, <3>1
    <3> QED
      BY <3>2, <3>3
  <2>3. CASE /\ WipeFails \/ (root = "link" /\ UNCHANGED disk)
             /\ pc' = "done" /\ outcome' = "Reset"
    <3>1. DOMAIN files' = {}
      BY <2>1, <2>3 DEF WipeFails, Nothing, disk
    <3>2. StepInv'
      BY <2>1, <2>3
    <3>3. PhaseInv'
      BY <2>1, <2>3, <3>1
    <3> QED
      BY <3>2, <3>3
  <2> QED
    BY <1>2, <2>2, <2>3 DEF Open, ResetRoot
<1>3. CASE Extract
  <2>1. step = "extract" /\ pc # "done" /\ UNCHANGED mvars
    BY <1>3, ExtractSteps
  <2>2. ASSUME NEW e \in Entries,
               Refuse(e) \/ Skip(e) \/ MakeDir(e) \/ CopyFile(e) \/ CopyFails(e)
        PROVE  PhaseInv' /\ StepInv'
    BY <2>1, <2>2, EntryPhase DEF mvars, calls, ArchiveError, LimitError
  <2>3. CASE Breaks
    BY <2>1, <2>3 DEF Breaks, Fail, disk, mvars, calls
  <2>4. CASE used # None /\ Complete
    BY <2>1, <2>4 DEF Complete, Fail, disk, mvars, calls
  <2>5. CASE CleanUp
    <3>1. pc = "cleaning" /\ pc' = "done" /\ UNCHANGED <<taken, counts, entered, outcome>>
      BY <2>5 DEF CleanUp, reading, index
    <3>2. ~uncleaned' => root' = "dir" /\ ((~stale' /\ files' = Nothing) \/ blind')
      BY <2>5 DEF CleanUp, Wipe
    <3>3. Nothing' = Nothing
      BY DEF Nothing
    <3> QED
      BY <2>1, <3>1, <3>2, <3>3 DEF mvars, calls
  <2> QED
    BY <1>3, <2>2, <2>3, <2>4, <2>5, ExtractSteps
<1>4. CASE UNCHANGED vars
  BY <1>4 DEF vars, avars, given, disk, index, reading, mvars, calls, Nothing
<1> QED
  BY <1>1, <1>2, <1>3, <1>4 DEF Next, Beside

LEMMA PhaseInit == Init => PhaseInv /\ StepInv
BY DEF Init, ArchiveInit, PhaseInv, StepInv, Whole, Nothing

(***************************************************************************)
(* The index                                                               *)
(***************************************************************************)

LEMMA IndexAdmits ==
    ASSUME TypeOK, IndexInv,
           NEW path \in Seq(Names), NEW kind \in {"file", "dir"},
           Admits(path, kind), Admit(path, kind),
           dirs \cup {OnDisk(p) : p \in Ancestors(path)} \subseteq dirs',
           \/ files' = files
           \/ kind = "file" /\ \E n \in Nat : files' = Written(path, n)
    PROVE  IndexInv' /\ OnDisk(path) \notin DOMAIN files
<1> DEFINE key == Key(path)
<1>1. key \in Seq(Names) /\ key \notin Ancestors(key) /\ key \notin DOMAIN entered
  BY KeyIsPath, AncestorsArePaths DEF Admits
<1>2. /\ DOMAIN entered' = DOMAIN entered \cup {key} /\ entered'[key] = kind
      /\ \A k \in DOMAIN entered : entered'[k] = entered[k]
      /\ above' = above \cup Ancestors(key)
  BY <1>1 DEF Admit
<1>3. /\ \A x \in Ancestors(key) : x \in DOMAIN entered => entered[x] # "file"
      /\ kind = "file" => key \notin above
  BY DEF Admits
<1>4. /\ OnDisk(path) \in Seq(Names) /\ Key(OnDisk(path)) = key
      /\ Ancestors(OnDisk(path)) = {OnDisk(x) : x \in Ancestors(path)}
  BY OnDiskIsPath DEF TypeOK, ArchiveTypeOK
<1>5. OnDisk(path) \notin DOMAIN files
  BY <1>1, <1>4 DEF IndexInv
<1>6. \A p \in DOMAIN files' :
        \/ p \in DOMAIN files
        \/ p = OnDisk(path) /\ kind = "file"
  BY DEF Written
<1> HIDE DEF key
<1>7. \A k \in DOMAIN entered' : Ancestors(k) \subseteq above'
  BY <1>2 DEF IndexInv
<1>8. \A k \in DOMAIN entered' : entered'[k] = "file" => k \notin above'
  BY <1>1, <1>2, <1>3 DEF IndexInv
<1>9. \A p \in DOMAIN files' : Key(p) \in DOMAIN entered' /\ entered'[Key(p)] = "file"
  BY <1>2, <1>4, <1>6 DEF IndexInv
<1>10. \A p, q \in DOMAIN files' : Key(p) = Key(q) => p = q
  BY <1>1, <1>4, <1>6 DEF IndexInv
<1>11. \A p \in DOMAIN files' : Ancestors(p) \subseteq dirs'
  BY <1>4, <1>6 DEF IndexInv
<1> QED
  BY <1>5, <1>7, <1>8, <1>9, <1>10, <1>11 DEF IndexInv

LEMMA IndexWiped ==
    ASSUME IndexInv, Wipe \/ WipeFails, UNCHANGED index
    PROVE  IndexInv'
<1>1. \/ UNCHANGED dirs /\ DOMAIN files' \subseteq DOMAIN files
      \/ DOMAIN files' = {}
  <2>1. CASE Wipe
    BY <2>1 DEF Wipe, Nothing
  <2>2. CASE WipeFails
    BY <2>2 DEF WipeFails, Nothing
  <2> QED
    BY <2>1, <2>2
<1> QED
  BY <1>1 DEF IndexInv, index

(* The entry that is made or copied, as the index saw it.                  *)
LEMMA EntryIsAdmitted ==
    ASSUME TypeOK, NEW e \in Entries, MakeDir(e) \/ CopyFile(e) \/ CopyFails(e)
    PROVE  \E kind \in {"file", "dir"} :
              /\ Relative(e.path) \in Seq(Names) /\ Relative(e.path) # <<>> /\ Kind(e) = kind
              /\ Admits(Relative(e.path), kind) /\ Admit(Relative(e.path), kind)
              /\ dirs \cup {OnDisk(p) : p \in Ancestors(Relative(e.path))} \subseteq dirs'
              /\ \/ files' = files
                 \/ kind = "file" /\ \E n \in Nat : files' = Written(Relative(e.path), n)
<1> DEFINE path == Relative(e.path)
<1>1. e.kind \in {"file", "dir", "link", "other"} /\ e.data \in Nat
  BY EntryIsTyped
<1>2. path \in Seq(Names) /\ path # <<>> /\ Admits(path, Kind(e)) /\ Kind(e) \notin {"link", "other"}
  BY VerdictFacts, RelativeIsPath DEF MakeDir, CopyFile, CopyFails, TypeOK, ArchiveTypeOK
<1>3. CASE MakeDir(e)
  <2>1. Kind(e) = "dir"
    BY <1>3, VerdictFacts DEF MakeDir
  <2> QED
    BY <1>2, <1>3, <2>1 DEF MakeDir, Makes
<1>4. CASE CopyFile(e) \/ CopyFails(e)
  <2>1. Kind(e) = "file"
    BY <1>1, <1>2, <1>4, VerdictFacts DEF CopyFile, CopyFails, Kind
  <2>2. Admit(path, "file") /\ dirs' = dirs \cup {OnDisk(p) : p \in Ancestors(path)}
    BY <1>4 DEF CopyFile, CopyFails, Makes
  <2>3. files' = files \/ \E n \in Nat : files' = Written(path, n)
    <3>1. PICK n \in 0 .. e.data : files' \in {files, Written(path, n)}
      BY <1>4 DEF CopyFile, CopyFails
    <3>2. n \in Nat
      BY <1>1
    <3> QED
      BY <3>1, <3>2
  <2> QED
    BY <1>2, <2>1, <2>2, <2>3
<1> QED
  BY <1>3, <1>4

LEMMA IndexStep ==
    ASSUME TypeOK, IndexInv, [Next]_vars
    PROVE  IndexInv'
<1>1. CASE UNCHANGED avars
  BY <1>1 DEF avars, IndexInv, disk, index
<1>2. CASE Open
  <2>1. UNCHANGED index /\ (Wipe \/ WipeFails \/ UNCHANGED disk)
    BY <1>2 DEF Open, ResetRoot
  <2> QED
    BY <2>1, IndexWiped DEF IndexInv, disk, index
<1>3. ASSUME NEW e \in Entries, Refuse(e) \/ Skip(e) PROVE IndexInv'
  BY <1>3 DEF Refuse, Skip, IndexInv, disk, index
<1>4. ASSUME NEW e \in Entries, MakeDir(e) \/ CopyFile(e) \/ CopyFails(e) PROVE IndexInv'
  BY <1>4, EntryIsAdmitted, IndexAdmits
<1>5. CASE Breaks \/ Complete
  BY <1>5 DEF Breaks, Complete, IndexInv, disk, index
<1>6. CASE CleanUp
  BY <1>6, IndexWiped DEF CleanUp
<1> QED
  BY <1>1, <1>2, <1>3, <1>4, <1>5, <1>6, ExtractSteps, BesideIsQuiet DEF Next, Beside, vars

LEMMA IndexInit == Init => IndexInv
BY DEF Init, ArchiveInit, IndexInv, Nothing

(***************************************************************************)
(* The tree                                                                *)
(***************************************************************************)

(* A copy that is complete moved all there was, within every limit.        *)
LEMMA Moved ==
    ASSUME TypeOK, NEW e \in Entries, NEW n \in 0 .. e.data, counts.total + e.declared <= U64,
           Moves(e, n), CopyVerdict(e, n) = "complete"
    PROVE  /\ n = e.data /\ n = e.declared
           /\ ~Over(n, policy.entry) /\ ~Over(counts.total + n, policy.total)
           /\ format = "zip" => ~Over(counts.total + n, policy.decoded)
<1>2. /\ e.data \in Nat /\ e.data <= U64 /\ e.declared \in Nat /\ U64 \in Nat
      /\ counts.total \in Nat
  BY EntryIsTyped, ArchiveConstants DEF TypeOK, ArchiveTypeOK
<1>4. /\ n = e.declared /\ ~Over(n, policy.entry) /\ ~Over(Capped(counts.total + n), policy.total)
      /\ format = "zip" => ~Over(Capped(counts.total + n), policy.decoded)
  BY DEF CopyVerdict
<1>5. Capped(counts.total + n) = counts.total + n
  BY <1>2, <1>4 DEF Capped
<1>1. /\ n = e.declared
      /\ ~Over(n, policy.entry) /\ ~Over(counts.total + n, policy.total)
      /\ format = "zip" => ~Over(counts.total + n, policy.decoded)
  BY <1>4, <1>5
<1>3. ASSUME n < e.data PROVE FALSE
  <2>1. PICK r \in Rooms : n = Capped(r + 1)
    BY <1>3 DEF Moves
  <2>2. PICK l \in {"entry", "total", "decoded"} :
          /\ policy[l] # None /\ (l = "decoded" => format = "zip")
          /\ r = Monus(policy[l], IF l = "entry" THEN 0 ELSE counts.total)
    BY <2>1 DEF Rooms
  <2>3. policy[l] \in Nat /\ counts.total \in Nat
    BY <2>2, PolicyIsTyped DEF TypeOK, ArchiveTypeOK
  <2>4. r \in Nat /\ n = r + 1
    BY <1>2, <1>3, <2>1, <2>2, <2>3 DEF Monus, Capped
  <2>5. CASE l = "entry"
    BY <1>1, <2>2, <2>3, <2>4, <2>5 DEF Over, Monus
  <2>6. CASE l = "total"
    BY <1>1, <2>2, <2>3, <2>4, <2>6 DEF Over, Monus
  <2>7. CASE l = "decoded"
    BY <1>1, <2>2, <2>3, <2>4, <2>7 DEF Over, Monus
  <2> QED
    BY <2>5, <2>6, <2>7
<1> QED
  BY <1>1, <1>2, <1>3

LEMMA FilesTakenStep ==
    ASSUME TypeOK, NEW e \in Entries, Reads(e), UNCHANGED given
    PROVE  /\ FilesTaken' = FilesTaken \cup
                 (IF Relative(e.path) # <<>> /\ Kind(e) = "file" THEN {Len(taken) + 1} ELSE {})
           /\ \A i \in FilesTaken : i \in 1 .. Len(taken) /\ taken'[i] = taken[i]
<1>1. /\ DOMAIN taken' = 1 .. Len(taken) + 1 /\ Len(taken) \in Nat
      /\ DOMAIN taken = 1 .. Len(taken)
      /\ \A i \in 1 .. Len(taken) : taken'[i] = taken[i]
      /\ taken'[Len(taken) + 1] = e
  BY TakenIsTyped DEF TypeOK, ArchiveTypeOK
<1>2. UNCHANGED <<format, policy>>
  BY DEF given
<1> QED
  BY <1>1, <1>2 DEF FilesTaken, Relative, Kind

LEMMA TreeStep ==
    ASSUME TypeOK, PhaseInv, StepInv, IndexInv, TreeInv, [Next]_vars
    PROVE  TreeInv'
<1> USE DEF TreeInv, Whole
<1>1. CASE UNCHANGED avars
  BY <1>1 DEF avars, FilesTaken, Held, OnDisk, Relative, Kind, given, disk, reading
<1>2. CASE Open
  <2>1. pc = "new" /\ taken' = <<>> /\ (Whole' => pc' = "reading" /\ Wipe)
    BY <1>2 DEF Open, ResetRoot, PhaseInv, reading
  <2>2. Whole' => DOMAIN files' = {}
    BY <2>1 DEF Wipe, Nothing, PhaseInv
  <2> QED
    BY <2>1, <2>2 DEF FilesTaken
<1>3. ASSUME NEW e \in Entries, Refuse(e) \/ CopyFails(e) PROVE TreeInv'
  BY <1>3, EntryPhase DEF PhaseInv, ArchiveError, LimitError, Refuse, CopyFails, Fail
<1>4. ASSUME NEW e \in Entries, Skip(e) \/ MakeDir(e) PROVE TreeInv'
  <2>1. Reads(e) /\ pc = "reading" /\ UNCHANGED <<given, files>>
    BY <1>4 DEF Skip, MakeDir, Reads, disk
  <2>2. Relative(e.path) = <<>> \/ Kind(e) # "file"
    BY <1>4, VerdictFacts DEF Skip, MakeDir
  <2>3. FilesTaken' = FilesTaken /\ \A i \in FilesTaken : taken'[i] = taken[i]
    BY <2>1, <2>2, FilesTakenStep
  <2>4. UNCHANGED <<policy, caseless>>
    BY <2>1 DEF given
  <2> QED
    BY <2>1, <2>3, <2>4 DEF Held, OnDisk, Relative
<1>5. ASSUME NEW e \in Entries, CopyFile(e) PROVE TreeInv'
  <2> DEFINE path == Relative(e.path)
             here == OnDisk(path)
  <2>1. Reads(e) /\ pc = "reading" /\ UNCHANGED given
    BY <1>5 DEF CopyFile, Reads
  <2>2. PICK n \in 0 .. e.data :
          Moves(e, n) /\ CopyVerdict(e, n) = "complete" /\ files' = Written(path, n)
    BY <1>5 DEF CopyFile
  <2>3. n = e.data /\ n = e.declared
    <3>1. counts.total \in Nat /\ e.declared \in Nat /\ U64 \in Nat
      BY EntryIsTyped, ArchiveConstants DEF TypeOK, ArchiveTypeOK
    <3>2. ~(counts.total + e.declared > U64)
      BY <1>5, VerdictFacts DEF CopyFile
    <3> QED
      BY <2>2, <3>1, <3>2, Moved
  <2>4. path # <<>> /\ Kind(e) = "file" /\ here \notin DOMAIN files
    <3>1. PICK kind \in {"file", "dir"} :
            /\ path \in Seq(Names) /\ path # <<>> /\ Kind(e) = kind
            /\ Admits(path, kind) /\ Admit(path, kind)
            /\ dirs \cup {OnDisk(p) : p \in Ancestors(path)} \subseteq dirs'
            /\ files' = files \/ (kind = "file" /\ \E b \in Nat : files' = Written(path, b))
      BY <1>5, EntryIsAdmitted
    <3>2. kind = "file"
      BY <1>5, <3>1, VerdictFacts DEF CopyFile
    <3> QED
      BY <3>1, <3>2, IndexAdmits
  <2>5. PICK m : m = Len(taken) + 1
    OBVIOUS
  <2>6. FilesTaken' = FilesTaken \cup {m}
        /\ \A i \in FilesTaken : i \in 1 .. Len(taken) /\ taken'[i] = taken[i]
    BY <2>1, <2>4, <2>5, FilesTakenStep
  <2>7. taken'[m] = e
    BY <2>1, <2>5, TakenIsTyped DEF TypeOK, ArchiveTypeOK
  <2>8. UNCHANGED <<policy, caseless>>
    BY <2>1 DEF given
  <2>9. PICK h : h = here
    OBVIOUS
  <2>10. /\ DOMAIN files' = DOMAIN files \cup {h} /\ h \notin DOMAIN files
         /\ files'[h] = [of |-> m, bytes |-> n]
         /\ \A p \in DOMAIN files : files'[p] = files[p]
    BY <2>2, <2>4, <2>5, <2>9 DEF Written
  <2>11. OnDisk(Relative(taken[m].path))' = h
    BY <2>7, <2>8, <2>9 DEF OnDisk, Relative
  <2> HIDE DEF path, here
  <2>12. Held(m)'
    BY <2>3, <2>7, <2>10, <2>11 DEF Held
  <2>13. ASSUME NEW i \in FilesTaken PROVE Held(i)'
    <3>1. Held(i) /\ taken'[i] = taken[i]
      BY <2>1, <2>6
    <3>2. OnDisk(Relative(taken[i].path))' = OnDisk(Relative(taken[i].path))
      BY <2>8, <3>1 DEF OnDisk, Relative
    <3> QED
      BY <2>10, <3>1, <3>2 DEF Held
  <2>14. \A p \in DOMAIN files' : files'[p].of \in FilesTaken'
    BY <2>1, <2>6, <2>10
  <2> QED
    BY <2>6, <2>12, <2>13, <2>14
<1>6. CASE Breaks
  BY <1>6 DEF Breaks, Fail, PhaseInv
<1>7. CASE Complete
  <2>1. pc = "reading" /\ UNCHANGED <<given, disk, taken>>
    BY <1>7 DEF Complete
  <2> QED
    BY <2>1 DEF FilesTaken, Held, OnDisk, Relative, Kind, given, disk
<1>8. CASE CleanUp
  BY <1>8 DEF CleanUp, PhaseInv
<1> QED
  BY <1>1, <1>2, <1>3, <1>4, <1>5, <1>6, <1>7, <1>8, ExtractSteps, BesideIsQuiet DEF Next, Beside, vars

LEMMA TreeInit == Init => TreeInv
BY DEF Init, ArchiveInit, TreeInv, Whole

(***************************************************************************)
(* Limits                                                                  *)
(***************************************************************************)

LEMMA OverIsBeyond ==
    ASSUME NEW actual \in Nat, NEW max, max # None => max \in Nat
    PROVE  Over(actual, max) <=> Beyond(actual, max)
BY DEF Over, Beyond

(* A verdict about a limit names what exceeds it.                          *)
LEMMA RefusalIsBeyond ==
    ASSUME TypeOK, NEW e \in Entries
    PROVE  /\ Verdict(e) = "entry-count" => Beyond(counts.entries + 1, policy.entries)
           /\ Verdict(e) = "entry-bytes" => Beyond(e.declared, policy.entry)
           /\ Verdict(e) = "total-bytes" =>
                 LET total == counts.total + e.declared
                 IN  Beyond(total, policy.total) \/ total > U64
           /\ Verdict(e) = "decoded-bytes" => Overdrawn(pending + Header)
<1>1. /\ e.declared \in Nat /\ counts.total \in Nat /\ counts.entries \in Nat /\ U64 \in Nat
  BY EntryIsTyped, ArchiveConstants DEF TypeOK, ArchiveTypeOK
<1>2. /\ policy.entries # None => policy.entries \in Nat
      /\ policy.entry # None => policy.entry \in Nat
      /\ policy.total # None => policy.total \in Nat
  BY PolicyIsTyped DEF TypeOK, ArchiveTypeOK
<1> QED
  BY <1>1, <1>2 DEF Verdict, Over, Beyond

LEMMA CopyRefusalIsBeyond ==
    ASSUME TypeOK, NEW e \in Entries, NEW n \in 0 .. e.data
    PROVE  /\ CopyVerdict(e, n) # "entry-count"
           /\ CopyVerdict(e, n) = "entry-bytes" => Beyond(Larger(e.declared, e.data), policy.entry)
           /\ CopyVerdict(e, n) = "total-bytes" =>
                 Beyond(counts.total + Larger(e.declared, e.data), policy.total)
           /\ CopyVerdict(e, n) = "decoded-bytes" =>
                 \/ Overdrawn(pending + Header + n)
                 \/ format = "zip" /\ Beyond(counts.total + e.data, policy.decoded)
<1>1. e.data \in Nat /\ e.declared \in Nat /\ counts.total \in Nat /\ n \in Nat /\ n <= e.data
  BY EntryIsTyped DEF TypeOK, ArchiveTypeOK
<1>2. /\ policy.entry # None => policy.entry \in Nat
      /\ policy.total # None => policy.total \in Nat
      /\ policy.decoded # None => policy.decoded \in Nat
  BY PolicyIsTyped DEF TypeOK, ArchiveTypeOK
<1>3. Larger(e.declared, e.data) \in Nat /\ n <= Larger(e.declared, e.data)
  BY <1>1 DEF Larger
<1>4. Capped(counts.total + n) \in Nat /\ Capped(counts.total + n) <= counts.total + n
  BY <1>1, ArchiveConstants DEF Capped
<1> HIDE DEF Larger, Capped
<1> QED
  BY <1>1, <1>2, <1>3, <1>4 DEF CopyVerdict, Over, Beyond

LEMMA OverdrawnIsBeyond ==
    ASSUME TypeOK, NEW m \in Nat, NEW n \in {pending + Header, pending + Header + m},
           Overdrawn(n), Draw(n)
    PROVE  format = "tar" /\ Beyond(observed', policy.decoded)
<1>1. format = "tar" /\ policy.decoded # None /\ observed' = policy.decoded + 1
  BY DEF Overdrawn, Draw, Over
<1>2. policy.decoded \in Nat
  BY <1>1, PolicyIsTyped DEF TypeOK, ArchiveTypeOK
<1> QED
  BY <1>1, <1>2 DEF Beyond

LEMMA FailureStep ==
    ASSUME TypeOK, PhaseInv, LimitInv, FailureTruthful, [Next]_vars
    PROVE  FailureTruthful'
<1>1. CASE UNCHANGED avars
  BY <1>1 DEF avars, FailureTruthful, Failing, given, reading
<1>2. CASE Open
  BY <1>2 DEF Open, ResetRoot, FailureTruthful, PhaseInv
<1>3. ASSUME NEW e \in Entries, Skip(e) \/ MakeDir(e) \/ CopyFile(e) PROVE FailureTruthful'
  <2>1. outcome' = "none"
    BY <1>3 DEF Skip, MakeDir, CopyFile, Reads, PhaseInv
  <2> QED
    BY <2>1 DEF FailureTruthful
<1>4. ASSUME NEW e \in Entries, Refuse(e) \/ CopyFails(e) PROVE FailureTruthful'
  <2>1. UNCHANGED <<policy, format, counts>> /\ Reads(e) /\ pc = "reading"
    BY <1>4 DEF Refuse, CopyFails, Reads, given
  <2>2. Len(taken') = Len(taken) + 1 /\ taken'[Len(taken) + 1] = e /\ Len(taken) \in Nat
    BY <2>1, TakenIsTyped DEF TypeOK, ArchiveTypeOK
  <2>3. Failing' = e /\ Len(taken)' = counts.entries + 1
    BY <2>1, <2>2 DEF Failing, LimitInv
  <2>4. e.declared \in Nat /\ e.data \in Nat /\ counts.total \in Nat /\ U64 \in Nat
    BY EntryIsTyped, ArchiveConstants DEF TypeOK, ArchiveTypeOK
  <2>5. /\ policy.entry # None => policy.entry \in Nat
        /\ policy.total # None => policy.total \in Nat
    BY PolicyIsTyped DEF TypeOK, ArchiveTypeOK
  <2>6. CASE Refuse(e)
    <3>1. outcome' = Verdict(e) /\ Draw(pending + Header)
      BY <2>6 DEF Refuse, Fail
    <3>2. outcome' = "entry-count" => Beyond(Len(taken), policy.entries)'
      BY <2>1, <2>3, <3>1, RefusalIsBeyond DEF Beyond
    <3>3. outcome' = "entry-bytes" => Beyond(e.declared, policy.entry)
      BY <3>1, RefusalIsBeyond
    <3>4. outcome' = "total-bytes" =>
            Beyond(counts.total + e.declared, policy.total) \/ counts.total + e.declared > U64
      BY <3>1, RefusalIsBeyond
    <3>6. Larger(e.declared, e.data) \in Nat /\ e.declared <= Larger(e.declared, e.data)
      BY <2>4 DEF Larger
    <3> HIDE DEF Larger
    <3>7. outcome' = "entry-bytes" => Beyond(Larger(e.declared, e.data), policy.entry)
      BY <2>4, <2>5, <3>3, <3>6 DEF Beyond
    <3>8. outcome' = "total-bytes" =>
            \/ Beyond(counts.total + Larger(e.declared, e.data), policy.total)
            \/ counts.total + Larger(e.declared, e.data) > U64
      BY <2>4, <2>5, <3>4, <3>6 DEF Beyond
    <3>5. outcome' = "decoded-bytes" => format = "tar" /\ Beyond(observed', policy.decoded)
      BY <3>1, RefusalIsBeyond, OverdrawnIsBeyond
    <3> QED
      BY <2>1, <2>3, <3>2, <3>5, <3>7, <3>8 DEF FailureTruthful, Beyond, Larger
  <2>7. CASE CopyFails(e)
    <3>1. PICK n \in 0 .. e.data :
            outcome' \in {"Io", CopyVerdict(e, n)} /\ Draw(pending + Header + n)
      BY <2>7 DEF CopyFails, Fail
    <3>2. n \in Nat
      BY <2>4
    <3>3. outcome' = "decoded-bytes" =>
            \/ format = "tar" /\ Beyond(observed', policy.decoded)
            \/ format = "zip" /\ Beyond(counts.total + e.data, policy.decoded)
      BY <3>1, <3>2, CopyRefusalIsBeyond, OverdrawnIsBeyond
    <3>4. /\ outcome' # "entry-count"
          /\ outcome' = "entry-bytes" => Beyond(Larger(e.declared, e.data), policy.entry)
          /\ outcome' = "total-bytes" =>
                Beyond(counts.total + Larger(e.declared, e.data), policy.total)
      BY <3>1, CopyRefusalIsBeyond
    <3> QED
      BY <2>1, <2>3, <3>3, <3>4 DEF FailureTruthful, Beyond
  <2> QED
    BY <1>4, <2>6, <2>7
<1>5. CASE Breaks
  BY <1>5 DEF Breaks, Fail, FailureTruthful
<1>6. CASE Complete
  <2>1. UNCHANGED <<policy, format>> /\ Draw(pending + Header)
        /\ (outcome' = "Success" \/ (outcome' = "decoded-bytes" /\ Overdrawn(pending + Header)))
    BY <1>6 DEF Complete, Fail, given
  <2>2. 0 \in Nat
    OBVIOUS
  <2> QED
    BY <2>1, <2>2, OverdrawnIsBeyond DEF FailureTruthful, Beyond
<1>7. CASE CleanUp
  BY <1>7 DEF CleanUp, FailureTruthful, Failing, given, reading
<1> QED
  BY <1>1, <1>2, <1>3, <1>4, <1>5, <1>6, <1>7, ExtractSteps, BesideIsQuiet DEF Next, Beside, vars


LEMMA LimitStep ==
    ASSUME TypeOK, PhaseInv, LimitInv, [Next]_vars
    PROVE  LimitInv'
<1> USE DEF Whole
<1>1. CASE UNCHANGED avars
  BY <1>1 DEF avars, LimitInv, Over, given, disk, reading
<1>2. CASE Open
  <2>1. /\ pc = "new" /\ taken' = <<>> /\ counts' = counts /\ policy' = policy /\ format' = format
        /\ outcome' # "Success" /\ (pc' = "reading" => Wipe)
    BY <1>2 DEF Open, ResetRoot, PhaseInv, given, reading
  <2>2. counts'.entries = 0 /\ counts'.total = 0 /\ counts'.decoded = 0 /\ Len(taken') = 0
    BY <2>1, EmptySeq DEF PhaseInv
  <2>3. pc' = "reading" => DOMAIN files' = {}
    BY <2>1 DEF Wipe, Nothing, PhaseInv
  <2>4. \A l \in {"entries", "total", "decoded"} : ~Over(0, policy[l])
    BY PolicyIsTyped DEF Over, TypeOK, ArchiveTypeOK
  <2>5. 0 <= U64
    BY ArchiveConstants
  <2> QED
    BY <2>1, <2>2, <2>3, <2>4, <2>5 DEF LimitInv, Over
<1>3. ASSUME NEW e \in Entries, Refuse(e) \/ CopyFails(e) PROVE LimitInv'
  BY <1>3, EntryPhase DEF PhaseInv, LimitInv, ArchiveError, LimitError, Refuse, CopyFails, Fail
<1>4. ASSUME NEW e \in Entries, Skip(e) \/ MakeDir(e) \/ CopyFile(e) PROVE LimitInv'
  <2>1. Reads(e) /\ pc = "reading" /\ pc' = "reading" /\ UNCHANGED <<format, policy, outcome>>
    BY <1>4 DEF Skip, MakeDir, CopyFile, Reads, given
  <2>2. outcome # "Success" /\ counts.entries = Len(taken) /\ Len(taken') = Len(taken) + 1
    BY <2>1, TakenIsTyped DEF PhaseInv, LimitInv, TypeOK, ArchiveTypeOK
  <2>3. ~Over(counts.entries + 1, policy.entries)
    BY <1>4, VerdictFacts DEF Skip, MakeDir, CopyFile
  <2>4. counts'.entries = Len(taken') /\ ~Over(Len(taken'), policy.entries)
    BY <1>4, <2>2, <2>3 DEF Skip, MakeDir, CopyFile, TypeOK, ArchiveTypeOK
  <2>5. CASE Skip(e) \/ MakeDir(e)
    <3>1. counts'.total = counts.total /\ counts'.decoded = counts.decoded /\ files' = files
      BY <2>5 DEF Skip, MakeDir, disk, TypeOK, ArchiveTypeOK
    <3> QED
      BY <2>1, <2>2, <2>4, <3>1 DEF LimitInv, Over
  <2>6. CASE CopyFile(e)
    <3>1. PICK n \in 0 .. e.data :
            /\ Moves(e, n) /\ CopyVerdict(e, n) = "complete"
            /\ files' = Written(Relative(e.path), n)
            /\ counts' = [counts EXCEPT !.entries = @ + 1, !.files = @ + 1, !.total = @ + n,
                             !.decoded = IF format = "zip" THEN counts.total + n ELSE @]
      BY <2>6 DEF CopyFile
    <3>2. e.declared \in Nat /\ counts.total \in Nat /\ U64 \in Nat
      BY EntryIsTyped, ArchiveConstants DEF TypeOK, ArchiveTypeOK
    <3>3. ~(counts.total + e.declared > U64)
      BY <2>6, VerdictFacts DEF CopyFile
    <3>4. n = e.declared /\ ~Over(n, policy.entry) /\ ~Over(counts.total + n, policy.total)
          /\ (format = "zip" => ~Over(counts.total + n, policy.decoded))
      BY <3>1, <3>2, <3>3, Moved
    <3>5. ~(counts.total + n > U64) /\ counts.total + n \in Nat /\ U64 \in Nat
      BY <3>4, <3>2, <3>3
    <3>6. counts'.total = counts.total + n /\ (format = "zip" => counts'.decoded = counts.total + n)
      BY <3>1 DEF TypeOK, ArchiveTypeOK
    <3>7. \A p \in DOMAIN files' :
            files'[p].bytes = n \/ (p \in DOMAIN files /\ files'[p] = files[p])
      BY <3>1 DEF Written
    <3>8. \A p \in DOMAIN files' : ~Over(files'[p].bytes, policy.entry)
      BY <2>1, <3>4, <3>7 DEF LimitInv
    <3> QED
      BY <2>1, <2>2, <2>4, <3>4, <3>5, <3>6, <3>8 DEF LimitInv, Over
  <2> QED
    BY <1>4, <2>5, <2>6
<1>5. CASE Breaks
  BY <1>5 DEF Breaks, Fail, LimitInv
<1>6. CASE Complete
  <2>1. pc = "reading" /\ pc' # "reading" /\ UNCHANGED <<format, policy, taken, files>>
    BY <1>6 DEF Complete, Fail, given, disk
  <2>2. CASE Overdrawn(pending + Header)
    BY <1>6, <2>1, <2>2 DEF Complete, Fail, LimitInv
  <2>3. CASE ~Overdrawn(pending + Header)
    <3>1. counts'.total = counts.total /\ (format = "zip" => counts'.decoded = counts.decoded)
          /\ (format = "tar" => counts'.decoded = Decoded(pending + Header))
      BY <1>6, <2>3 DEF Complete, TypeOK, ArchiveTypeOK
    <3>2. format = "tar" => ~Over(counts'.decoded, policy.decoded)
      BY <2>3, <3>1 DEF Overdrawn
    <3> QED
      BY <2>1, <3>1, <3>2 DEF LimitInv, Over
  <2> QED
    BY <2>2, <2>3
<1>7. CASE CleanUp
  BY <1>7 DEF CleanUp, LimitInv, PhaseInv
<1> QED
  BY <1>1, <1>2, <1>3, <1>4, <1>5, <1>6, <1>7, ExtractSteps, BesideIsQuiet DEF Next, Beside, vars

LEMMA LimitInit == Init => LimitInv /\ FailureTruthful
BY DEF Init, ArchiveInit, LimitInv, FailureTruthful, Whole

LEMMA LimitsFollow ==
    ASSUME TypeOK, PhaseInv, LimitInv, FailureTruthful
    PROVE  LimitsHold
<1>1. /\ Len(taken) \in Nat /\ counts.total \in Nat /\ counts.decoded \in Nat
      /\ \A p \in DOMAIN files : files[p].bytes \in Nat
  BY LenProperties DEF TypeOK, ArchiveTypeOK
<1>2. \A l \in {"entries", "entry", "total", "decoded"} : policy[l] # None => policy[l] \in Nat
  BY PolicyIsTyped DEF TypeOK, ArchiveTypeOK
<1>3. ASSUME Extracting
      PROVE  /\ ~Beyond(Len(taken), policy.entries)
             /\ ~Beyond(counts.total, policy.total) /\ counts.total <= U64
             /\ ~Beyond(counts.decoded, policy.decoded)
             /\ \A p \in DOMAIN files : ~Beyond(files[p].bytes, policy.entry)
  <2>1. /\ ~Over(Len(taken), policy.entries) /\ ~Over(counts.total, policy.total)
        /\ counts.total <= U64 /\ ~Over(counts.decoded, policy.decoded)
        /\ \A p \in DOMAIN files : ~Over(files[p].bytes, policy.entry)
    BY <1>3 DEF Extracting, LimitInv, Whole, TypeOK, ArchiveTypeOK
  <2> QED
    BY <1>1, <1>2, <2>1, OverIsBeyond
<1> QED
  BY <1>3 DEF LimitsHold, FailureTruthful

(***************************************************************************)
(* Verification                                                            *)
(***************************************************************************)

LEMMA VerifyStep ==
    ASSUME TypeOK, StepInv, VerifyInv, [Next]_vars
    PROVE  VerifyInv'
<1> USE MaterialConstants DEF VerifyInv, StepInv, kept
<1>1. CASE Replace
  BY <1>1 DEF Replace, calls
<1>2. CASE Acquire
  BY <1>2 DEF Acquire, End, origin
<1>3. CASE Verify
  BY <1>3 DEF Verify, End, origin, TypeOK
<1>4. CASE Unverified \/ VerifyRefused \/ VerifyFails
  BY <1>4 DEF Unverified, VerifyRefused, VerifyFails, End, origin
<1>5. CASE Sniff \/ AdmitCopy \/ CopyBreaks
  BY <1>5 DEF Sniff, AdmitCopy, CopyBreaks, End, origin
<1>6. CASE Copy
  BY <1>6 DEF Copy, End, origin
<1>7. CASE Open
  BY <1>7 DEF Open, origin
<1>8. CASE Extract
  BY <1>8, ExtractSteps DEF mvars, calls, origin
<1>9. CASE Extracted \/ Drop
  BY <1>9 DEF Extracted, Drop, End, origin
<1>10. CASE UNCHANGED vars
  BY <1>10 DEF vars, mvars, calls, origin
<1> QED
  BY <1>1, <1>2, <1>3, <1>4, <1>5, <1>6, <1>7, <1>8, <1>9, <1>10 DEF Next

LEMMA VerifyInit == Init => VerifyInv
BY DEF Init, VerifyInv


(***************************************************************************)
(* The theorems                                                            *)
(***************************************************************************)

LEMMA Inductive == Spec => []Inv
<1>1. Init => Inv
  BY TypeInit, PhaseInit, IndexInit, TreeInit, LimitInit, VerifyInit DEF Inv
<1>2. Inv /\ [Next]_vars => Inv'
  BY TypeStep, PhaseStep, IndexStep, TreeStep, LimitStep, FailureStep, VerifyStep DEF Inv
<1> QED
  BY <1>1, <1>2, PTL DEF Spec

(* An extracted tree is the container's (archive.rs:146, 783, 792).        *)
THEOREM ExtractsTheArchive == Spec => []TreeIsArchive
<1>1. ASSUME Inv PROVE TreeIsArchive
  <2>1. ASSUME NEW p \in DOMAIN files, NEW q \in DOMAIN files, Key(p) \in Ancestors(Key(q))
        PROVE  FALSE
    BY <1>1, <2>1 DEF Inv, IndexInv
  <2> QED
    BY <1>1, <2>1 DEF Inv, TreeIsArchive, Extracting, IndexInv, TreeInv, PhaseInv, Whole, Held
<1> QED
  BY <1>1, Inductive, PTL

(* What is prepared passes no limit, and a limit is invoked only against   *)
(* what passes it (archive.rs:226, 792, 912).                              *)
THEOREM LimitsAreKept == Spec => []LimitsHold
<1>1. Inv => LimitsHold
  BY LimitsFollow DEF Inv
<1> QED
  BY <1>1, Inductive, PTL

(* A failed extraction leaves an empty root, or says that it could not     *)
(* (archive.rs:429, 523).                                                  *)
THEOREM RootIsReclaimed == Spec => []RootReclaimed
<1>1. Inv => RootReclaimed
  BY DEF Inv, RootReclaimed, PhaseInv, StepInv
<1> QED
  BY <1>1, Inductive, PTL

(* What is prepared is what was verified, unless the caller's own path got *)
(* another entry in between (hash.rs:407, materialize.rs:53).              *)
THEOREM PreparesWhatWasVerified == Spec => []VerifiedIsPrepared
<1>1. Inv => VerifiedIsPrepared
  BY MaterialConstants DEF Inv, VerifiedIsPrepared, VerifyInv, StepInv, TypeOK
<1> QED
  BY <1>1, Inductive, PTL
=============================================================================
