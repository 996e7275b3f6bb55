---------------------------- MODULE ServiceProps ----------------------------
(***************************************************************************)
(* What the service commands guarantee.                                    *)
(***************************************************************************)
EXTENDS Service

Active == runtime \in {"Starting", "Running", "Stopping"}

(* Whatever runs is registered, by an unharmed definition; on Windows it is*)
(* the release the manager is bound to, and its account can read both that *)
(* release and the declaration, whatever rebind, removal or repair was cut *)
(* short, and wherever the computer was started anew (lifecycle.rs:58, 126;*)
(* windows.rs:91: grants before the switch, revocations after it).         *)
RunsWhatIsBound ==
    Active =>
        /\ bound # None /\ definition = "Exact"
        /\ OnWindows => ~deleting /\ runs = bound /\ Plan(bound) \subseteq acl

(* A removal that reports success leaves neither definition, registration, *)
(* link, journal nor access the journal calls created.  Two things escape  *)
(* it: the link of a unit whose rebind was cut short, which is Missing for *)
(* systemd.rs:175, and access of a release that was rebound to itself,     *)
(* which access.rs:232 took for preexisting (lifecycle.rs:126,             *)
(* access.rs:139).                                                         *)
Removed == at = "idle" /\ verb = "remove" /\ result = "changed"

CreatedBy(r, i) ==
    (IF r = None THEN {} ELSE r.owned)
    \cup (IF i = None \/ i.from.release = i.to.release THEN {} ELSE i.from.owned \cup i.to.owned)

RemovedLeavesNothing ==
    Removed =>
        /\ definition = "Missing" /\ bound = None /\ ~unitdir
        /\ receipt = None /\ intent = None
        /\ before.registration # "Missing" => ~link /\ ~auto
        /\ CreatedBy(before.receipt, before.intent) \cap acl = {}

(* Access the account had before the service is never revoked, and the     *)
(* journal lets go of a grant it calls created only when the grant is gone *)
(* or another entry of the journal names the path: a death between grant   *)
(* and record loses none (access.rs:83, 125, 167, 354).                    *)
Created == CreatedBy(receipt, intent)

Named == (IF receipt = None THEN {} ELSE Plan(receipt.release))
         \cup (IF intent = None THEN {} ELSE Plan(intent.from.release) \cup Plan(intent.to.release))

BorrowedStays == pre \subseteq acl

GrantsStep ==
    /\ BorrowedStays'
    /\ acl' \ acl \subseteq Created'
    /\ ((Created \cap Releases) \ Named') \cap acl' = {}

GrantsAccounted == [][GrantsStep]_vars
=============================================================================
