------------------------------ MODULE Service ------------------------------
(***************************************************************************)
(* The service commands of examples/toolhost: lifecycle.rs decides what a  *)
(* command does from one observation; systemd.rs and windows.rs carry it   *)
(* out, and windows/access.rs keeps a journal of the access it grants.     *)
(* One operator gives commands one after the other.  A command may fail,   *)
(* or its process die, before each of its steps (Abandon); the computer    *)
(* may be started anew, the service exit, the active release change and    *)
(* the Windows manager take its time to delete, between any two steps.     *)
(*                                                                         *)
(* Every command names the same declaration; no other program registers or *)
(* starts a service under its id, so nothing is ever in Conflict except    *)
(* the boot state of a unit without its link.  Releases, once published,   *)
(* stay.                                                                   *)
(***************************************************************************)
CONSTANTS
    Releases,   \* installs/<name>/<version>, each with host and payload
    Decl,       \* the path services/<id>/service.toml
    None

ASSUME ServiceConstants == Decl \notin Releases /\ None \notin Releases

VARIABLES
    platform,    \* "systemd" or "windows": which of the two builds runs
    pre,         \* releases the service's account could read all along
    current,     \* the active release
    definition,  \* services/<id>: "Missing", "Exact", "Broken" (no service.toml)
    state,       \* its directory state/ is there
    bound,       \* release in the unit file or in the manager's command line
    auto,        \* started at boot
    runtime,
    runs,        \* release the service was last started from
    unitdir,     \* systemd: services/<id>/systemd is there
    link,        \* systemd: the manager links to the unit file
    stale,       \* systemd: the unit file is newer than what the manager read
    secured,     \* Windows: service SID and privileges are set
    deleting,    \* Windows: marked for deletion
    acl,         \* Windows: paths the service's account can read
    receipt,     \* Windows: state/access.receipt
    intent,      \* Windows: state/rebind.intent
    verb,        \* the last command
    at,          \* its next step
    before,      \* what it met
    target,      \* the Binding it was given
    result

fixed == <<platform, pre>>
tree == <<definition, state>>
manager == <<bound, auto, runtime, runs>>
systemd == <<unitdir, link, stale>>
windows == <<secured, deleting>>
access == <<acl, receipt, intent>>
command == <<verb, at, before, target, result>>
vars == <<fixed, current, tree, manager, systemd, windows, access, command>>

Verbs == {"install", "repair", "enable", "rebind", "disable", "start", "stop",
          "restart", "remove"}
Steps == {"idle", "publish", "register", "link", "reload", "enable", "disable", "unwrite",
          "start", "starting", "stop", "stopping", "secure", "receipt", "grant", "intend",
          "switch", "settle", "replace", "delete", "await", "revoke", "drop", "forget",
          "unpublish"}
Registrations == {"Missing", "Exact", "Broken", "Removing"}
Receipts == [release : Releases, owned : SUBSET (Releases \cup {Decl})]
Intents == [from : Receipts, to : Receipts]

ASSUME NoneIsNoRecord == None \notin Receipts \cup Intents

OnSystemd == platform = "systemd"
OnWindows == platform = "windows"

TypeOK ==
    /\ platform \in {"systemd", "windows"} /\ pre \in SUBSET Releases
    /\ current \in Releases
    /\ definition \in {"Missing", "Exact", "Broken"} /\ state \in BOOLEAN
    /\ bound \in Releases \cup {None} /\ auto \in BOOLEAN
    /\ runtime \in {"Stopped", "Starting", "Running", "Stopping", "Failed"}
    /\ runs \in Releases \cup {None}
    /\ unitdir \in BOOLEAN /\ link \in BOOLEAN /\ stale \in BOOLEAN
    /\ secured \in BOOLEAN /\ deleting \in BOOLEAN
    /\ acl \in SUBSET (Releases \cup {Decl})
    /\ receipt \in Receipts \cup {None} /\ intent \in Intents \cup {None}
    /\ verb \in Verbs \cup {None} /\ at \in Steps
    /\ before \in [registration : Registrations, receipt : Receipts \cup {None},
                   intent : Intents \cup {None}]
    /\ target \in Releases \cup {None}
    /\ result \in {"none", "changed", "unchanged", "error"}

Init ==
    /\ platform \in {"systemd", "windows"}
    /\ pre \in SUBSET (IF OnSystemd THEN {} ELSE Releases)
    /\ current \in Releases
    /\ definition = "Missing" /\ state = FALSE
    /\ bound = None /\ auto = FALSE /\ runtime = "Stopped" /\ runs = None
    /\ unitdir = FALSE /\ link = FALSE /\ stale = FALSE
    /\ secured = FALSE /\ deleting = FALSE
    /\ acl = pre /\ receipt = None /\ intent = None
    /\ verb = None /\ at = "idle" /\ target = None /\ result = "none"
    /\ before = [registration |-> "Missing", receipt |-> None, intent |-> None]

(***************************************************************************)
(* What a command observes                                                 *)
(***************************************************************************)
Plan(release) == {release, Decl}

AccessExact ==
    /\ receipt # None
    /\ receipt.release = bound
    /\ Plan(bound) \subseteq acl

Registration ==
    IF bound = None THEN "Missing"
    ELSE IF OnSystemd THEN IF link THEN "Exact" ELSE "Broken"
    ELSE IF deleting THEN "Removing"
    ELSE IF secured /\ AccessExact THEN "Exact" ELSE "Broken"

Boot ==
    IF bound = None THEN "Disabled"
    ELSE IF (OnSystemd /\ ~link) \/ deleting THEN "Conflict"
    ELSE IF auto THEN "Enabled" ELSE "Disabled"

Runtime ==
    IF bound = None THEN "Stopped" ELSE IF deleting THEN "Stopping" ELSE runtime

(***************************************************************************)
(* The commands, up to their first step                                    *)
(***************************************************************************)
Answer(v, release, step, r) ==
    /\ at = "idle"
    /\ verb' = v /\ target' = release /\ at' = step /\ result' = r
    /\ before' = [registration |-> Registration, receipt |-> receipt, intent |-> intent]
    /\ UNCHANGED <<fixed, current, tree, manager, systemd, windows, access>>

Begin(v, release, step) == Answer(v, release, step, "none")
Unchanged(v) == Answer(v, None, "idle", "unchanged")

(* No release resolved, an input others may write, or a state the command  *)
(* does not accept: an error, and nothing done.                            *)
Refuse == \E v \in Verbs : Answer(v, None, "idle", "error")

Install ==
    \/ /\ definition = "Exact" /\ Registration = "Exact"
       /\ Unchanged("install")
    \/ /\ definition = "Exact" /\ Registration = "Broken"
       /\ Begin("repair", bound, IF OnSystemd THEN "link" ELSE "secure")
    \/ /\ definition \in {"Missing", "Exact"} /\ Registration = "Missing"
       /\ Begin("install", current, IF definition = "Missing" THEN "publish" ELSE "register")

Enable ==
    /\ Registration = "Exact"
    /\ \/ Boot = "Enabled" /\ Unchanged("enable")
       \/ Boot = "Disabled" /\ Begin("enable", bound, "enable")

Rebind ==
    /\ Registration = "Exact"
    /\ Runtime = "Stopped"
    /\ Begin("rebind", current, IF OnSystemd THEN "unwrite" ELSE "intend")

Disable ==
    /\ Registration = "Exact"
    /\ \/ Boot = "Disabled" /\ Unchanged("disable")
       \/ /\ Boot # "Disabled" /\ Runtime = "Stopped"
          /\ Begin("disable", None, "disable")

Start ==
    /\ Registration = "Exact"
    /\ \/ Runtime = "Running" /\ Unchanged("start")
       \/ Runtime = "Stopped" /\ Begin("start", bound, "start")

Stop ==
    /\ Registration = "Exact"
    /\ \/ Runtime = "Stopped" /\ Unchanged("stop")
       \/ Runtime \in {"Running", "Failed"} /\ Begin("stop", None, "stop")

Restart ==
    /\ Registration = "Exact"
    /\ \/ Runtime \in {"Running", "Failed"} /\ Begin("restart", bound, "stop")
       \/ Runtime = "Stopped" /\ Begin("restart", bound, "start")

(* removal_plan: Unchanged, CleanupOnly, AwaitDeletion or Delete.          *)
Remove ==
    \/ /\ definition = "Missing" /\ Registration = "Missing"
       /\ Unchanged("remove")
    \/ /\ definition \in {"Exact", "Broken"}
       /\ \/ /\ Registration = "Missing"
             /\ Begin("remove", None, IF OnSystemd THEN "unwrite" ELSE "revoke")
          \/ /\ Registration = "Removing"
             /\ Begin("remove", None, "await")
          \/ /\ Registration \in {"Exact", "Broken"}
             /\ Runtime = "Stopped" /\ Boot = "Disabled"
             /\ Begin("remove", None, IF OnSystemd THEN "disable" ELSE "delete")

(***************************************************************************)
(* The steps.  After(step) ends the command when there is none left.       *)
(***************************************************************************)
After(step) ==
    /\ at' = step
    /\ result' = IF step = "idle" THEN "changed" ELSE "none"
    /\ UNCHANGED <<verb, before, target>>

(* The staged definition, with an empty state/lock, appears at once.       *)
PublishDefinition ==
    /\ at = "publish"
    /\ definition' = "Exact" /\ state' = TRUE
    /\ After("register")
    /\ UNCHANGED <<fixed, current, manager, systemd, windows, access>>

(* A directory left without its unit makes the publication fail.           *)
WriteUnit ==
    /\ OnSystemd /\ at = "register"
    /\ ~unitdir
    /\ unitdir' = TRUE /\ bound' = target /\ stale' = TRUE
    /\ After(IF verb = "install" THEN "link" ELSE "reload")
    /\ UNCHANGED <<fixed, current, tree, auto, runtime, runs, link, windows, access>>

Link ==
    /\ at = "link"
    /\ link' = TRUE /\ stale' = FALSE
    /\ After(IF verb = "repair" THEN "reload" ELSE "idle")
    /\ UNCHANGED <<fixed, current, tree, manager, unitdir, windows, access>>

DaemonReload ==
    /\ at = "reload"
    /\ stale' = FALSE
    /\ After(IF verb = "remove" THEN "unpublish" ELSE "idle")
    /\ UNCHANGED <<fixed, current, tree, manager, unitdir, link, windows, access>>

(* remove_dir_all: the unit goes before its directory.                     *)
RemoveUnit ==
    /\ at = "unwrite"
    /\ \/ /\ bound # None
          /\ bound' = None /\ stale' = TRUE
          /\ UNCHANGED <<unitdir, command>>
       \/ /\ bound = None
          /\ unitdir' = FALSE
          /\ After(IF verb = "rebind" THEN "register" ELSE "reload")
          /\ UNCHANGED <<bound, stale>>
    /\ UNCHANGED <<fixed, current, tree, auto, runtime, runs, link, windows, access>>

SetAuto ==
    /\ at = "enable"
    /\ auto' = TRUE
    /\ stale' = (stale /\ ~OnSystemd)
    /\ After("idle")
    /\ UNCHANGED <<fixed, current, tree, bound, runtime, runs, unitdir, link, windows, access>>

(* systemctl disable takes the link away too; only disable puts it back.   *)
ClearAuto ==
    /\ at = "disable"
    /\ auto' = FALSE
    /\ link' = FALSE /\ stale' = FALSE
    /\ After(IF OnWindows THEN "idle" ELSE IF verb = "remove" THEN "unwrite" ELSE "link")
    /\ UNCHANGED <<fixed, current, tree, bound, runtime, runs, unitdir, windows, access>>

StartService ==
    /\ at = "start"
    /\ runtime \in {"Stopped", "Failed"}
    /\ runtime' = "Starting"
    /\ runs' \in {bound} \cup (IF stale THEN Releases ELSE {})
    /\ After("starting")
    /\ UNCHANGED <<fixed, current, tree, bound, auto, systemd, windows, access>>

Started ==
    /\ at = "starting" /\ runtime = "Running"
    /\ After("idle")
    /\ UNCHANGED <<fixed, current, tree, manager, systemd, windows, access>>

(* systemctl does nothing to a unit that is not active; the Windows        *)
(* manager answers with an error (Abandon).                                *)
StopService ==
    /\ at = "stop"
    /\ \/ /\ runtime = "Running"
          /\ runtime' = "Stopping"
          /\ After("stopping")
       \/ /\ OnSystemd /\ runtime \in {"Stopped", "Failed"}
          /\ After("stopping")
          /\ UNCHANGED runtime
    /\ UNCHANGED <<fixed, current, tree, bound, auto, runs, systemd, windows, access>>

Stopped ==
    /\ at = "stopping"
    /\ runtime = "Stopped" \/ (OnSystemd /\ runtime = "Failed")
    /\ After(IF verb = "restart" THEN "start" ELSE "idle")
    /\ UNCHANGED <<fixed, current, tree, manager, systemd, windows, access>>

(***************************************************************************)
(* Windows: registration and journal                                       *)
(***************************************************************************)
(* A stopped service is Failed when the manager's exit code is not zero.   *)
CreateService ==
    /\ OnWindows /\ at = "register"
    /\ bound' = target /\ auto' = FALSE /\ secured' = FALSE
    /\ runtime' \in {"Stopped", "Failed"}
    /\ After("secure")
    /\ UNCHANGED <<fixed, current, tree, runs, systemd, deleting, access>>

ConfigureSecurity ==
    /\ at = "secure"
    /\ secured' = TRUE
    /\ After("receipt")
    /\ UNCHANGED <<fixed, current, tree, manager, systemd, deleting, access>>

NewReceipt_OwnsAll(release) == [release |-> release, owned |-> Plan(release)]

(* What the account can read already is not the service's to revoke.       *)
NewReceipt(release) == [release |-> release, owned |-> Plan(release) \ acl]

Apply ==
    /\ at = "receipt"
    /\ state /\ intent = None
    /\ receipt # None => receipt.release = target
    /\ receipt' = IF receipt = None THEN NewReceipt(target) ELSE receipt
    /\ After("grant")
    /\ UNCHANGED <<fixed, current, tree, manager, systemd, windows, acl, intent>>

BeginRebind ==
    /\ at = "intend"
    /\ state /\ receipt # None
    /\ \/ /\ intent = None
          /\ receipt.release = bound
          /\ intent' = [from |-> receipt, to |-> NewReceipt(target)]
       \/ /\ intent # None
          /\ intent.from = receipt /\ intent.to.release = target
          /\ bound \in {intent.from.release, intent.to.release}
          /\ UNCHANGED intent
    /\ After("grant")
    /\ UNCHANGED <<fixed, current, tree, manager, systemd, windows, acl, receipt>>

(* ensure: one grant at a time, then a look at both.                       *)
Wanted == IF verb = "rebind" THEN intent.to ELSE receipt

Grant(path) ==
    /\ at = "grant"
    /\ path \in Wanted.owned \ acl
    /\ acl' = acl \cup {path}
    /\ UNCHANGED <<fixed, current, tree, manager, systemd, windows, receipt, intent, command>>

Granted ==
    /\ at = "grant"
    /\ Wanted.owned \subseteq acl
    /\ Plan(Wanted.release) \subseteq acl
    /\ After(IF verb = "rebind" THEN "switch" ELSE "idle")
    /\ UNCHANGED <<fixed, current, tree, manager, systemd, windows, access>>

Switch ==
    /\ at = "switch"
    /\ bound' = IF bound = intent.from.release THEN target ELSE bound
    /\ After("settle")
    /\ UNCHANGED <<fixed, current, tree, auto, runtime, runs, systemd, windows, access>>

Settle_Shared ==
    /\ at = "settle"
    /\ bound = intent.to.release
    /\ acl' = acl \ intent.from.owned
    /\ After("replace")
    /\ UNCHANGED <<fixed, current, tree, manager, systemd, windows, receipt, intent>>

(* finish: the grants of the source that the target does not share.        *)
Settle ==
    /\ at = "settle"
    /\ bound = intent.to.release
    /\ acl' = acl \ (intent.from.owned \ Plan(intent.to.release))
    /\ After("replace")
    /\ UNCHANGED <<fixed, current, tree, manager, systemd, windows, receipt, intent>>

ReplaceReceipt ==
    /\ at = "replace"
    /\ receipt' = intent.to
    /\ After("forget")
    /\ UNCHANGED <<fixed, current, tree, manager, systemd, windows, acl, intent>>

RemoveIntent ==
    /\ at = "forget"
    /\ intent' = None
    /\ After(IF verb = "remove" THEN "unpublish" ELSE "idle")
    /\ UNCHANGED <<fixed, current, tree, manager, systemd, windows, acl, receipt>>

DeleteService ==
    /\ at = "delete"
    /\ deleting' = TRUE
    /\ After("await")
    /\ UNCHANGED <<fixed, current, tree, manager, systemd, secured, access>>

AwaitMissing ==
    /\ at = "await" /\ bound = None
    /\ After("revoke")
    /\ UNCHANGED <<fixed, current, tree, manager, systemd, windows, access>>

Condemned_Stable == IF receipt = None THEN {} ELSE receipt.owned

(* cleanup_removed: the paths it revokes, in any order.                    *)
Condemned ==
    (IF receipt = None THEN {} ELSE receipt.owned)
    \cup (IF intent = None THEN {}
          ELSE (intent.from.owned \ (IF receipt = None THEN {} ELSE Plan(receipt.release)))
               \cup (intent.to.owned \ Plan(intent.from.release)))

Revoke(path) ==
    /\ at = "revoke" /\ state
    /\ path \in Condemned \cap acl
    /\ acl' = acl \ {path}
    /\ UNCHANGED <<fixed, current, tree, manager, systemd, windows, receipt, intent, command>>

Revoked ==
    /\ at = "revoke" /\ state
    /\ Condemned \cap acl = {}
    /\ After("drop")
    /\ UNCHANGED <<fixed, current, tree, manager, systemd, windows, access>>

RemoveReceipt ==
    /\ at = "drop"
    /\ receipt' = None
    /\ After("forget")
    /\ UNCHANGED <<fixed, current, tree, manager, systemd, windows, acl, intent>>

(* remove_dir_all on services/<id>, entry by entry.                        *)
RemoveDefinition ==
    /\ at = "unpublish"
    /\ \/ /\ definition' \in {definition, "Broken"} /\ state' \in {state, FALSE}
          /\ UNCHANGED command
       \/ /\ definition' = "Missing" /\ state' = FALSE
          /\ After("idle")
    /\ acl' = IF definition' = "Exact" THEN acl ELSE acl \ {Decl}
    /\ UNCHANGED <<fixed, current, manager, systemd, windows, receipt, intent>>

Command ==
    \/ Refuse \/ Install \/ Enable \/ Rebind \/ Disable \/ Start \/ Stop \/ Restart \/ Remove
    \/ PublishDefinition \/ WriteUnit \/ Link \/ DaemonReload \/ RemoveUnit
    \/ SetAuto \/ ClearAuto \/ StartService \/ Started \/ StopService \/ Stopped
    \/ CreateService \/ ConfigureSecurity \/ Apply \/ BeginRebind \/ Granted \/ Switch
    \/ Settle \/ ReplaceReceipt \/ RemoveIntent \/ DeleteService \/ AwaitMissing
    \/ Revoked \/ RemoveReceipt \/ RemoveDefinition
    \/ \E path \in Releases \cup {Decl} : Grant(path) \/ Revoke(path)

(***************************************************************************)
(* Everybody else                                                          *)
(***************************************************************************)
(* The next step fails, or the process ends before it.                     *)
Abandon ==
    /\ at # "idle"
    /\ at' = "idle" /\ result' = "error"
    /\ UNCHANGED <<fixed, current, tree, manager, systemd, windows, access, verb, before, target>>

Activate ==
    /\ current' \in Releases \ {current}
    /\ UNCHANGED <<fixed, tree, manager, systemd, windows, access, command>>

(* The service comes up, goes down, or exits by itself.                    *)
Transition ==
    /\ \/ runtime = "Starting" /\ runtime' \in {"Running", "Failed"}
       \/ runtime \in {"Running", "Stopping"} /\ runtime' \in {"Stopped", "Failed"}
    /\ UNCHANGED <<fixed, current, tree, bound, auto, runs, systemd, windows, access, command>>

Unregistered == bound' = None /\ auto' = FALSE /\ secured' = FALSE /\ deleting' = FALSE

Deleted ==
    /\ deleting
    /\ Unregistered
    /\ UNCHANGED <<fixed, current, tree, runtime, runs, systemd, access, command>>

(* The manager starts what is enabled; a marked service is gone.           *)
Reboot ==
    /\ \/ /\ auto /\ bound # None /\ ~deleting /\ (OnSystemd => link)
          /\ runtime' = "Starting" /\ runs' = bound
       \/ /\ ~(auto /\ bound # None /\ ~deleting /\ (OnSystemd => link))
          /\ runtime' \in {"Stopped", "Failed"} /\ UNCHANGED runs
    /\ IF deleting THEN Unregistered ELSE UNCHANGED <<bound, auto, windows>>
    /\ stale' = FALSE
    /\ at' = "idle" /\ result' = IF at = "idle" THEN result ELSE "error"
    /\ UNCHANGED <<fixed, current, tree, unitdir, link, access, verb, before, target>>

Next == Command \/ Abandon \/ Activate \/ Transition \/ Deleted \/ Reboot

Spec == Init /\ [][Next]_vars
=============================================================================
