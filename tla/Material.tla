------------------------------ MODULE Material ------------------------------
(***************************************************************************)
(* From a source to a prepared tree: src/local.rs acquires or receives a   *)
(* material, src/hash.rs verifies it against a digest, src/local/          *)
(* materialize.rs copies it or extracts it (Archive) into a stage, which   *)
(* is consumed.  A behaviour is one such chain of calls, or one direct call*)
(* of ArchiveKind::prepare with a workspace the caller owns.               *)
(*                                                                         *)
(* The caller's path may be given another entry between any two calls; the *)
(* bytes of an opened file stay what they are.  The file of a StagedFile is*)
(* private, and removed with its owner.  A digest names one content.  What *)
(* a copy puts into the stage entry by entry is the subject of Publication.*)
(***************************************************************************)
EXTENDS Archive

CONSTANTS
    Contents,   \* what a file may hold
    Packed      \* the contents that are containers

ASSUME MaterialConstants == Packed \subseteq Contents /\ None \notin Contents

VARIABLES
    api,        \* "stage" or "direct"
    expected,   \* the content whose digest is asked for; None: not verified
    step,
    material,   \* "none", "File", "Directory", "StagedFile"
    source,     \* entry at the path: "missing", "file", "dir", "link", "linkdir"
    content,    \* of the file at the path
    verified,   \* content that was digested and matched
    replaced,   \* the path got another entry since
    used,       \* content or tree that was prepared
    result,
    stage       \* "open", "handed", "dropped", "left"

kept == <<api, expected>>
origin == <<source, content, replaced>>
calls == <<step, material, verified, used, result, stage>>
mvars == <<kept, origin, calls>>
vars == <<avars, mvars>>

Mismatch == {"DigestMismatch", "UnsupportedDigestMaterial"}
CopyError == {"MissingSource", "UnsupportedLocalEntry", "Sniff", "Io"}

TypeOK ==
    /\ ArchiveTypeOK
    /\ api \in {"stage", "direct"} /\ expected \in Contents \cup {None}
    /\ step \in {"acquire", "verify", "prepare", "copy", "copying", "open",
                "extract", "drop", "done"}
    /\ material \in {"none", "File", "Directory", "StagedFile"}
    /\ source \in {"missing", "file", "dir", "link", "linkdir"}
    /\ content \in Contents /\ verified \in Contents \cup {None} /\ used \in Contents \cup {None}
    /\ replaced \in BOOLEAN
    /\ result \in {"none", "Copied", "Extracted", "Archive"} \cup Mismatch \cup CopyError
    /\ stage \in {"none", "open", "handed", "dropped", "left"}

Init ==
    /\ ArchiveInit
    /\ api \in {"stage", "direct"}
    /\ root \in (IF api = "stage" THEN {"missing", "file", "dir"}
                                  ELSE {"missing", "file", "link", "dir"})
    /\ expected \in Contents \cup {None}
    /\ material \in {"none", "StagedFile"}
    /\ source \in (IF material = "StagedFile" THEN {"file"}
                   ELSE {"missing", "file", "dir", "link", "linkdir"})
    /\ content \in Contents /\ verified = None /\ replaced = FALSE /\ used = None
    /\ api = "direct" => material = "none" /\ expected = None
    /\ step = IF api = "direct" THEN "open" ELSE IF material = "none" THEN "acquire" ELSE "verify"
    /\ result = "none" /\ stage = IF api = "stage" THEN "open" ELSE "none"

(* Whoever owns the path replaces the entry; nobody does in a stage.       *)
Replace ==
    /\ material # "StagedFile" /\ step \in {"acquire", "verify", "prepare", "copy", "copying", "open"}
    /\ source' \in {"missing", "file", "dir", "link", "linkdir"}
    /\ content' \in Contents
    /\ <<source', content'>> # <<source, content>>
    /\ replaced' = (replaced \/ verified # None)
    /\ UNCHANGED <<avars, kept, calls>>

(***************************************************************************)
(* The calls before preparation                                            *)
(***************************************************************************)

End(with) == step' = "drop" /\ result' = with

(* LocalSource::acquire follows links.                                     *)
Acquire ==
    /\ step = "acquire"
    /\ \/ source = "missing" /\ End("MissingSource") /\ UNCHANGED material
       \/ /\ source # "missing" /\ step' = "verify" /\ UNCHANGED result
          /\ material' = IF source \in {"dir", "linkdir"} THEN "Directory" ELSE "File"
    /\ UNCHANGED <<avars, kept, origin, verified, used, stage>>

(* The caller asks for no digest.                                          *)
Unverified ==
    /\ step = "verify" /\ expected = None
    /\ step' = "prepare"
    /\ UNCHANGED <<avars, kept, origin, material, verified, used, result, stage>>

(* A digest that is computed and not compared.                             *)
Verify_Uncompared ==
    /\ step = "verify" /\ expected # None
    /\ material # "Directory" /\ source = "file"
    /\ step' = "prepare" /\ verified' = expected
    /\ UNCHANGED <<avars, kept, origin, material, used, result, stage>>

(* verify_path opens the path without following a link, and digests what it*)
(* opened; a material that fails is dropped.                               *)
Verify ==
    /\ step = "verify" /\ expected # None
    /\ material # "Directory" /\ source = "file"
    /\ \/ content = expected /\ step' = "prepare" /\ verified' = content /\ UNCHANGED result
       \/ content # expected /\ End("DigestMismatch") /\ UNCHANGED verified
    /\ UNCHANGED <<avars, kept, origin, material, used, stage>>

(* open_regular_digest_file: only a regular file has a digest.             *)
VerifyRefused ==
    /\ step = "verify" /\ expected # None
    /\ material = "Directory" \/ source \notin {"file", "missing"}
    /\ End("UnsupportedDigestMaterial")
    /\ UNCHANGED <<avars, kept, origin, material, verified, used, stage>>

(* The file is gone, or cannot be opened or read to its end.               *)
VerifyFails ==
    /\ step = "verify" /\ expected # None
    /\ material # "Directory"
    /\ End("Io")
    /\ UNCHANGED <<avars, kept, origin, material, verified, used, stage>>

(***************************************************************************)
(* LocalMaterial::prepare                                                  *)
(***************************************************************************)

(* The head of the file decides; a directory is copied unseen.             *)
Sniff ==
    /\ step = "prepare"
    /\ \/ material = "Directory" /\ step' = "copy" /\ UNCHANGED result
       \/ /\ material # "Directory" /\ source \in {"file", "link"}
          /\ step' = (IF content \in Packed THEN "open" ELSE "copy") /\ UNCHANGED result
       \/ material # "Directory" /\ End("Sniff")
    /\ UNCHANGED <<avars, kept, origin, material, verified, used, stage>>

(* copy_tree and copy_file look at the entry before they open it: a link is*)
(* refused, unless it comes in between.                                    *)
AdmitCopy ==
    /\ step = "copy"
    /\ \/ source = (IF material = "Directory" THEN "dir" ELSE "file")
          /\ step' = "copying" /\ UNCHANGED result
       \/ /\ source # "missing" /\ source # (IF material = "Directory" THEN "dir" ELSE "file")
          /\ End("UnsupportedLocalEntry")
    /\ UNCHANGED <<avars, kept, origin, material, verified, used, stage>>

Copy ==
    /\ step = "copying"
    /\ source \in (IF material = "Directory" THEN {"dir", "linkdir"} ELSE {"file", "link"})
    /\ used' = content /\ End("Copied")
    /\ UNCHANGED <<avars, kept, origin, material, verified, stage>>

CopyBreaks ==
    /\ step \in {"copy", "copying"}
    /\ End("Io")
    /\ UNCHANGED <<avars, kept, origin, material, verified, used, stage>>

(* extract_source resets the root first, and opens the path after that;    *)
(* what is no container breaks at once.                                    *)
Open ==
    /\ step = "open"
    /\ ResetRoot
    /\ step' = "extract"
    /\ used' = IF source \in {"file", "link"} /\ content \in Packed THEN content ELSE None
    /\ UNCHANGED <<kept, origin, material, verified, result, stage>>

Extract ==
    /\ step = "extract" /\ pc # "done"
    /\ \/ used # None /\ (Complete \/ \E e \in Entries : ReadEntry(e))
       \/ Breaks \/ CleanUp
    /\ UNCHANGED mvars

Extracted ==
    /\ step = "extract" /\ pc = "done"
    /\ End(IF outcome = "Success" THEN "Extracted" ELSE "Archive")
    /\ UNCHANGED <<avars, kept, origin, material, verified, used, stage>>

(* The material is consumed, a staged file with it; a stage that was not   *)
(* prepared is dropped.  Neither removal tells of its failure.             *)
Drop ==
    /\ step = "drop"
    /\ step' = "done"
    /\ source' \in IF material = "StagedFile" THEN {"missing", source} ELSE {source}
    /\ stage' \in IF api = "direct" THEN {"none"}
                  ELSE IF result \in {"Copied", "Extracted"} THEN {"handed"}
                  ELSE {"dropped", "left"}
    /\ UNCHANGED <<avars, kept, content, replaced, material, verified, used, result>>

Next ==
    \/ Replace \/ Acquire
    \/ Unverified \/ Verify \/ VerifyRefused \/ VerifyFails
    \/ Sniff \/ AdmitCopy \/ Copy \/ CopyBreaks
    \/ Open \/ Extract \/ Extracted \/ Drop

Spec == Init /\ [][Next]_vars
=============================================================================
