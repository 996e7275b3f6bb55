--------------------------- MODULE ServiceProofs ---------------------------
(***************************************************************************)
(* Proofs about the service commands, for any releases.                    *)
(*                                                                         *)
(* The argument: a step belongs to one platform and finds what an earlier  *)
(* step of its command left (StepInv); the journal's entries are well      *)
(* formed, name only what was not borrowed, and a pending intent goes from *)
(* or to the stable receipt (JournalInv); what may be started, by a command*)
(* or at boot, has a definition and access (HeldInv); a command that       *)
(* switches or removes finds the service down and nothing but a command or *)
(* a boot brings it up (QuietInv); and a removal keeps what it has achieved*)
(* (RemoveInv).                                                            *)
(***************************************************************************)
EXTENDS ServiceProps, TLAPS

OnlySystemd == {"link", "reload", "unwrite"}
OnlyWindows == {"secure", "receipt", "grant", "intend", "switch", "settle", "replace",
                "delete", "await", "revoke", "drop", "forget"}
Changing == {"rebind", "remove", "disable"}

PlatformInv ==
    /\ OnSystemd => receipt = None /\ intent = None /\ acl = {} /\ ~deleting
    /\ OnWindows => ~unitdir /\ ~link /\ ~stale
    /\ OnWindows /\ bound = None => ~auto
    /\ at \in OnlySystemd => OnSystemd
    /\ at \in OnlyWindows => OnWindows

StepInv ==
    /\ at \in {"publish", "register"} => target \in Releases /\ verb \in {"install", "rebind"}
    /\ at = "register" => definition = "Exact" /\ (OnWindows => verb = "install")
    /\ at = "unwrite" => verb \in {"rebind", "remove"}
    /\ at = "unwrite" /\ verb = "rebind" => definition = "Exact" /\ target \in Releases
    /\ at \in {"start", "starting", "stop", "stopping"} => verb \in {"start", "stop", "restart"}
    /\ at \in {"enable", "publish"} => verb \in {"enable", "install"}
    /\ at \in {"link"} => verb \in {"install", "repair", "disable"}
    /\ at \in {"secure", "receipt"} => verb \in {"install", "repair"} /\ target \in Releases
    /\ at = "grant" => verb \in {"install", "repair", "rebind"} /\ target \in Releases
    /\ at = "grant" /\ verb # "rebind" => receipt # None
    /\ at \in {"intend", "switch", "settle", "replace"} => verb = "rebind" /\ target \in Releases
    /\ at \in {"grant", "switch", "settle", "replace", "forget"} /\ verb = "rebind" =>
        intent # None /\ intent.to.release = target
    /\ at \in {"delete", "await", "revoke", "drop", "unpublish"} => verb = "remove"
    /\ at = "disable" => verb \in {"disable", "remove"} /\ (OnWindows => verb = "disable")
    /\ at = "forget" => verb \in {"rebind", "remove"}

(***************************************************************************)
(* The journal                                                             *)
(***************************************************************************)
WellFormed(r) ==
    /\ r.owned \subseteq Plan(r.release)
    /\ r.owned \cap pre = {}

JournalInv ==
    /\ pre \subseteq acl
    /\ receipt # None => WellFormed(receipt)
    /\ intent # None =>
        /\ WellFormed(intent.from) /\ WellFormed(intent.to)
        /\ receipt \in {None, intent.from, intent.to}
        /\ intent.from.release = intent.to.release => intent.to.owned = {}
    /\ at \in {"replace", "forget"} /\ verb = "rebind" =>
        (intent.from.owned \ Plan(intent.to.release)) \cap acl = {}
    /\ at = "forget" /\ verb = "rebind" => receipt = intent.to
    /\ at = "drop" \/ (at = "forget" /\ verb = "remove") => Created \cap Releases \cap acl = {}

(***************************************************************************)
(* What may be started                                                     *)
(***************************************************************************)
Held == bound # None /\ (OnWindows => ~deleting /\ Plan(bound) \subseteq acl)

Gone == at \in {"unpublish", "revoke", "drop"} \/ (at \in {"reload", "forget"} /\ verb = "remove")

HeldInv ==
    /\ bound # None => definition = "Exact"
    /\ at \in {"enable", "start", "stop", "stopping", "intend"} => Held
    /\ auto /\ bound # None /\ OnWindows => Plan(bound) \subseteq acl
    /\ at = "switch" => Plan(intent.to.release) \subseteq acl
    /\ Gone => bound = None

QuietInv ==
    /\ Active => bound # None
    /\ Active /\ OnWindows => ~deleting /\ runs = bound /\ Plan(bound) \subseteq acl
    /\ at # "idle" /\ verb \in Changing => ~Active

(***************************************************************************)
(* Removal                                                                 *)
(***************************************************************************)
Cleared == before.registration # "Missing" => ~link /\ ~auto
RevokedAll == CreatedBy(before.receipt, before.intent) \cap acl \subseteq {Decl}

RemoveInv ==
    /\ at \in {"delete", "await", "revoke"} => before.receipt = receipt /\ before.intent = intent
    /\ at \in {"drop", "forget", "unpublish"} /\ verb = "remove" => RevokedAll
    /\ at = "forget" /\ verb = "remove" => receipt = None
    /\ at = "unpublish" => intent = None /\ receipt = None /\ ~unitdir /\ Cleared
    /\ at \in {"unwrite", "reload"} /\ verb = "remove" => Cleared
    /\ at = "reload" /\ verb = "remove" => ~unitdir
    /\ RemovedLeavesNothing

IInv == TypeOK /\ PlatformInv /\ StepInv /\ JournalInv /\ HeldInv /\ QuietInv /\ RemoveInv

(* No step leaves a variable's type.                                       *)
LEMMA TypeStep ==
    ASSUME TypeOK, StepInv, [Next]_vars
    PROVE  TypeOK'
<1> USE DEF TypeOK, Steps, After, vars, fixed, tree, manager, systemd, windows, access,
            command
<1>1. CASE Refuse \/ Install \/ Enable \/ Rebind
          \/ Disable \/ Start \/ Stop \/ Restart \/ Remove
  BY <1>1 DEF Refuse, Answer, Verbs, Registrations, Registration, OnSystemd, OnWindows,
              Install, Begin, Unchanged, Enable, Rebind, Disable, Start, Stop, Restart,
              Remove
<1>2. CASE WriteUnit
  BY <1>2 DEF WriteUnit, StepInv
<1>3. CASE PublishDefinition
  BY <1>3 DEF PublishDefinition
<1>4. CASE Link
  <2>1. link' \in BOOLEAN /\ stale' \in BOOLEAN
    BY <1>4, Zenon DEF Link
  <2>q. QED
    BY <1>4, <2>1 DEF Link
<1>5. CASE DaemonReload
  <2>1. stale' \in BOOLEAN
    BY <1>5, Zenon DEF DaemonReload
  <2>q. QED
    BY <1>5, <2>1 DEF DaemonReload
<1>6. CASE RemoveUnit
  <2>1. unitdir' \in BOOLEAN /\ stale' \in BOOLEAN
    BY <1>6, Zenon DEF RemoveUnit
  <2>q. QED
    BY <1>6, <2>1 DEF RemoveUnit
<1>7. CASE StartService \/ Started \/ StopService \/ Stopped
  BY <1>7 DEF StartService, Started, StopService, Stopped
<1>8. CASE SetAuto
  BY <1>8 DEF SetAuto
<1>9. CASE ClearAuto
  <2>1. auto' \in BOOLEAN /\ link' \in BOOLEAN /\ stale' \in BOOLEAN
    BY <1>9, Zenon DEF ClearAuto
  <2>q. QED
    BY <1>9, <2>1 DEF ClearAuto
<1>10. CASE AwaitMissing
  BY <1>10 DEF AwaitMissing
<1>11. CASE CreateService
  <2>1. auto' \in BOOLEAN /\ secured' \in BOOLEAN
    BY <1>11, Zenon DEF CreateService
  <2>q. QED
    BY <1>11, <2>1 DEF CreateService, StepInv
<1>12. CASE ConfigureSecurity
  BY <1>12 DEF ConfigureSecurity
<1>13. CASE DeleteService
  BY <1>13 DEF DeleteService
<1>14. CASE Apply \/ BeginRebind \/ Granted \/ Switch
  BY <1>14 DEF Apply, NewReceipt, StepInv, Receipts, Intents, Plan, BeginRebind, Granted,
              Wanted, Switch
<1>15. CASE Settle \/ ReplaceReceipt \/ RemoveIntent
  BY <1>15 DEF Settle, ReplaceReceipt, StepInv, Intents, RemoveIntent
<1>16. CASE Revoked \/ RemoveReceipt
  BY <1>16 DEF Revoked, Condemned, RemoveReceipt
<1>17. CASE RemoveDefinition
  <2>1. state' \in BOOLEAN
    BY <1>17, Zenon DEF RemoveDefinition
  <2>2. definition' \in {"Missing", "Exact", "Broken"} /\ acl' \in SUBSET (Releases \cup {Decl})
    BY <1>17 DEF RemoveDefinition
  <2>3. at' \in Steps /\ result' \in {"none", "changed", "unchanged", "error"}
        /\ UNCHANGED <<verb, before, target>>
    BY <1>17 DEF RemoveDefinition
  <2>q. QED
    BY <1>17, <2>1, <2>2, <2>3 DEF RemoveDefinition
<1>18. CASE Abandon \/ Activate \/ Transition
  BY <1>18 DEF Abandon, Activate, Transition
<1>19. CASE Deleted
  <2>1. auto' \in BOOLEAN /\ secured' \in BOOLEAN /\ deleting' \in BOOLEAN
    BY <1>19, Zenon DEF Deleted, Unregistered
  <2>q. QED
    BY <1>19, <2>1 DEF Deleted, Unregistered
<1>20. CASE Reboot
  <2>1. stale' \in BOOLEAN /\ auto' \in BOOLEAN /\ secured' \in BOOLEAN /\ deleting' \in BOOLEAN
    BY <1>20, Zenon DEF Reboot, Unregistered
  <2>q. QED
    BY <1>20, <2>1 DEF Reboot, Unregistered
<1>21. ASSUME NEW path \in Releases \cup {Decl}, Grant(path) \/ Revoke(path) PROVE TypeOK'
  BY <1>21 DEF Grant, Wanted, Revoke, Condemned
<1>22. CASE UNCHANGED vars
  BY <1>22
<1>q. QED
  BY <1>1, <1>2, <1>3, <1>4, <1>5, <1>6, <1>7, <1>8, <1>9, <1>10, <1>11, <1>12, <1>13,
     <1>14, <1>15, <1>16, <1>17, <1>18, <1>19, <1>20, <1>21, <1>22 DEF Next, Command

(* A step changes only what its own platform has.                          *)
LEMMA PlatformStep ==
    ASSUME TypeOK, StepInv, HeldInv, PlatformInv, [Next]_vars
    PROVE  PlatformInv'
<1> USE DEF TypeOK, PlatformInv, OnSystemd, OnWindows, OnlySystemd, OnlyWindows, After,
            vars, fixed, tree, manager, systemd, windows, access, command
<1>1. CASE Refuse \/ Install \/ Enable \/ Rebind
          \/ Disable \/ Start \/ Stop \/ Restart \/ Remove
  BY <1>1 DEF Refuse, Answer, Registration, Boot, Install, Begin, Unchanged, Enable,
              Rebind, Disable, Start, Stop, Restart, Remove
<1>2. CASE PublishDefinition \/ WriteUnit \/ Link \/ DaemonReload \/ RemoveUnit
  BY <1>2 DEF PublishDefinition, WriteUnit, Link, DaemonReload, RemoveUnit
<1>3. CASE SetAuto \/ ClearAuto \/ StartService \/ Started \/ StopService \/ Stopped
  BY <1>3 DEF SetAuto, HeldInv, Held, ClearAuto, StartService, Started, StopService,
              Stopped
<1>4. CASE CreateService \/ ConfigureSecurity \/ DeleteService \/ AwaitMissing
  BY <1>4 DEF CreateService, ConfigureSecurity, DeleteService, AwaitMissing
<1>5. CASE Apply \/ BeginRebind \/ Granted
  BY <1>5 DEF Apply, NewReceipt, BeginRebind, Granted, Wanted
<1>6. CASE Switch
  <2>1. bound' = bound \/ bound' \in Releases
    BY <1>6 DEF Switch, StepInv
  <2>q. QED
    BY <1>6, <2>1, ServiceConstants DEF Switch
<1>7. CASE Settle \/ ReplaceReceipt \/ RemoveIntent
  BY <1>7 DEF Settle, ReplaceReceipt, RemoveIntent
<1>8. CASE Revoked \/ RemoveReceipt
  BY <1>8 DEF Revoked, Condemned, RemoveReceipt
<1>9. CASE RemoveDefinition
  BY <1>9 DEF RemoveDefinition
<1>10. CASE Abandon \/ Activate \/ Transition \/ Deleted \/ Reboot
  BY <1>10 DEF Abandon, Activate, Transition, Deleted, Unregistered, Reboot
<1>11. ASSUME NEW path \in Releases \cup {Decl}, Grant(path) \/ Revoke(path) PROVE PlatformInv'
  BY <1>11 DEF Grant, Wanted, Revoke, Condemned
<1>12. CASE UNCHANGED vars
  BY <1>12
<1>q. QED
  BY <1>1, <1>2, <1>3, <1>4, <1>5, <1>6, <1>7, <1>8, <1>9, <1>10, <1>11, <1>12 DEF Next, Command

(* A command's next step finds its verb and its target.                    *)
LEMMA StepStep ==
    ASSUME TypeOK, PlatformInv, HeldInv, StepInv, [Next]_vars
    PROVE  StepInv'
<1> USE DEF TypeOK, StepInv, HeldInv, OnWindows, OnSystemd, After, vars, fixed, tree,
            manager, systemd, windows, access, command
<1>1. CASE Refuse \/ Install \/ Enable \/ Rebind
          \/ Disable \/ Start \/ Stop \/ Restart \/ Remove
  BY <1>1 DEF Refuse, Answer, Registration, Boot, Install, Begin, Unchanged, Enable,
              Rebind, Disable, Start, Stop, Restart, Remove
<1>2. CASE PublishDefinition \/ WriteUnit \/ Link \/ DaemonReload \/ RemoveUnit
  BY <1>2 DEF PublishDefinition, WriteUnit, PlatformInv, OnlySystemd, OnlyWindows, Link,
              DaemonReload, RemoveUnit
<1>3. CASE SetAuto \/ ClearAuto \/ StartService \/ Started \/ StopService \/ Stopped
  BY <1>3 DEF SetAuto, ClearAuto, StartService, Started, StopService, Stopped
<1>4. CASE CreateService \/ ConfigureSecurity \/ DeleteService \/ AwaitMissing
  BY <1>4 DEF CreateService, PlatformInv, OnlySystemd, OnlyWindows, ConfigureSecurity,
              DeleteService, AwaitMissing
<1>5. CASE Granted \/ Switch
  BY <1>5 DEF Granted, Wanted, Switch
<1>6. CASE Apply
  <2>1. NewReceipt(target) # None
    BY <1>6, NoneIsNoRecord DEF Apply, NewReceipt, Receipts, Plan
  <2>q. QED
    BY <1>6, <2>1 DEF Apply
<1>7. CASE BeginRebind
  <2>1. NewReceipt(target) \in Receipts /\ NewReceipt(target).release = target
    BY <1>7 DEF BeginRebind, NewReceipt, Receipts, Plan
  <2>2. intent' \in Intents /\ intent'.to.release = target
    BY <1>7, <2>1 DEF BeginRebind, Intents
  <2>3. intent' # None
    BY <2>2, NoneIsNoRecord
  <2>q. QED
    BY <1>7, <2>2, <2>3 DEF BeginRebind
<1>8. CASE Settle \/ ReplaceReceipt \/ RemoveIntent
  BY <1>8 DEF Settle, ReplaceReceipt, RemoveIntent
<1>9. CASE Revoked \/ RemoveReceipt \/ RemoveDefinition
  BY <1>9 DEF Revoked, Condemned, RemoveReceipt, RemoveDefinition
<1>10. CASE Abandon \/ Activate \/ Transition \/ Deleted \/ Reboot
  BY <1>10 DEF Abandon, Activate, Transition, Deleted, Unregistered, Reboot
<1>11. ASSUME NEW path \in Releases \cup {Decl}, Grant(path) \/ Revoke(path) PROVE StepInv'
  BY <1>11 DEF Grant, Wanted, Revoke, Condemned
<1>12. CASE UNCHANGED vars
  BY <1>12
<1>q. QED
  BY <1>1, <1>2, <1>3, <1>4, <1>5, <1>6, <1>7, <1>8, <1>9, <1>10, <1>11, <1>12 DEF Next, Command

(* The journal stays well formed: an intent goes from or to the receipt.   *)
LEMMA JournalStep ==
    ASSUME TypeOK, PlatformInv, StepInv, HeldInv, JournalInv, [Next]_vars
    PROVE  JournalInv'
<1> USE DEF TypeOK, JournalInv, WellFormed, Plan, Created, CreatedBy, StepInv, After, vars,
            fixed, tree, manager, systemd, windows, access, command
<1>1. CASE Refuse \/ Install \/ Enable \/ Rebind
          \/ Disable \/ Start \/ Stop \/ Restart \/ Remove
  BY <1>1 DEF Refuse, Answer, Registration, AccessExact, Install, Begin, Unchanged, Enable,
              Rebind, Disable, Start, Stop, Restart, Remove
<1>2. CASE PublishDefinition \/ WriteUnit \/ Link \/ DaemonReload \/ RemoveUnit
  BY <1>2 DEF PublishDefinition, WriteUnit, Link, DaemonReload, RemoveUnit
<1>3. CASE SetAuto \/ ClearAuto \/ StartService \/ Started \/ StopService \/ Stopped
  BY <1>3 DEF SetAuto, ClearAuto, StartService, Started, StopService, Stopped
<1>4. CASE CreateService \/ ConfigureSecurity \/ DeleteService \/ AwaitMissing
  BY <1>4 DEF CreateService, ConfigureSecurity, DeleteService, AwaitMissing
<1>5. CASE Apply \/ BeginRebind \/ Granted \/ Switch
  BY <1>5 DEF Apply, NewReceipt, Receipts, Intents, BeginRebind, HeldInv, Held,
              PlatformInv, OnlyWindows, OnWindows, OnSystemd, Granted, Wanted, Switch
<1>6. CASE Settle \/ ReplaceReceipt \/ RemoveIntent
  BY <1>6 DEF Settle, Receipts, Intents, ReplaceReceipt, RemoveIntent
<1>7. CASE RemoveReceipt
  BY <1>7 DEF RemoveReceipt, Receipts, Intents
<1>8. CASE Revoked
  <2>1. Created \cap Releases \subseteq Condemned
    BY ServiceConstants DEF Condemned, Receipts, Intents
  <2>q. QED
    BY <1>8, <2>1 DEF Revoked
<1>9. CASE RemoveDefinition
  <2>1. pre \subseteq acl' /\ acl' \subseteq acl
    BY <1>9, ServiceConstants DEF RemoveDefinition
  <2>2. at' \in {"unpublish", "idle"} /\ UNCHANGED <<fixed, receipt, intent, verb>>
    BY <1>9 DEF RemoveDefinition
  <2>q. QED
    BY <2>1, <2>2
<1>10. CASE Abandon \/ Activate \/ Transition \/ Deleted \/ Reboot
  BY <1>10 DEF Abandon, Activate, Transition, Deleted, Unregistered, Reboot
<1>11. ASSUME NEW path \in Releases \cup {Decl}, Grant(path) \/ Revoke(path) PROVE JournalInv'
  BY <1>11 DEF Grant, Wanted, Revoke, Condemned, Receipts, Intents
<1>12. CASE UNCHANGED vars
  BY <1>12
<1>q. QED
  BY <1>1, <1>2, <1>3, <1>4, <1>5, <1>6, <1>7, <1>8, <1>9, <1>10, <1>11, <1>12 DEF Next, Command

(* What may be started is defined and readable.                            *)
LEMMA HeldStep ==
    ASSUME TypeOK, PlatformInv, StepInv, JournalInv, QuietInv, HeldInv, [Next]_vars
    PROVE  HeldInv'
<1> USE DEF TypeOK, HeldInv, Held, Gone, Plan, StepInv, OnWindows, OnSystemd, After, vars,
            fixed, tree, manager, systemd, windows, access, command
<1>1. CASE Refuse \/ Install \/ Enable \/ Rebind
          \/ Disable \/ Start \/ Stop \/ Restart \/ Remove
  BY <1>1 DEF Refuse, Answer, Registration, AccessExact, Boot, PlatformInv, Install, Begin,
              Unchanged, Enable, Rebind, Disable, Start, Stop, Restart, Remove
<1>2. CASE PublishDefinition \/ WriteUnit \/ Link \/ DaemonReload \/ RemoveUnit
  BY <1>2 DEF PublishDefinition, WriteUnit, Link, DaemonReload, RemoveUnit
<1>3. CASE SetAuto \/ ClearAuto \/ StartService \/ Started \/ StopService \/ Stopped
  BY <1>3 DEF SetAuto, ClearAuto, StartService, Started, StopService, Stopped
<1>4. CASE CreateService \/ ConfigureSecurity \/ DeleteService \/ AwaitMissing
  BY <1>4 DEF CreateService, ConfigureSecurity, DeleteService, AwaitMissing
<1>5. CASE Apply \/ BeginRebind \/ Granted
  BY <1>5 DEF Apply, NewReceipt, BeginRebind, Granted, Wanted
<1>6. CASE Switch
  <2>1. bound \in Releases => bound # None
    BY ServiceConstants
  <2>q. QED
    BY <1>6, <2>1, ServiceConstants DEF Switch, PlatformInv, OnlyWindows, Intents, Receipts
<1>7. CASE Settle \/ ReplaceReceipt \/ RemoveIntent
  BY <1>7 DEF Settle, ReplaceReceipt, RemoveIntent
<1>8. CASE Revoked \/ RemoveReceipt \/ RemoveDefinition
  BY <1>8 DEF Revoked, Condemned, RemoveReceipt, RemoveDefinition
<1>9. CASE Abandon \/ Activate \/ Transition \/ Deleted \/ Reboot
  BY <1>9 DEF Abandon, Activate, Transition, Deleted, Unregistered, PlatformInv, Reboot
<1>10. ASSUME NEW path \in Releases \cup {Decl}, Grant(path) \/ Revoke(path) PROVE HeldInv'
  BY <1>10 DEF Grant, Wanted, Revoke, Condemned
<1>11. CASE UNCHANGED vars
  BY <1>11
<1>q. QED
  BY <1>1, <1>2, <1>3, <1>4, <1>5, <1>6, <1>7, <1>8, <1>9, <1>10, <1>11 DEF Next, Command

(* Nothing is up while a command switches or removes.                      *)
LEMMA QuietStep ==
    ASSUME TypeOK, PlatformInv, StepInv, JournalInv, HeldInv, QuietInv, [Next]_vars
    PROVE  QuietInv'
<1> USE DEF TypeOK, QuietInv, Active, Changing, HeldInv, Held, Gone, StepInv, Plan,
            PlatformInv, OnlyWindows, OnlySystemd, OnWindows, OnSystemd, After, vars,
            fixed, tree, manager, systemd, windows, access, command
<1>1. CASE Refuse \/ Install \/ Enable \/ Rebind
          \/ Disable \/ Start \/ Stop \/ Restart \/ Remove
  BY <1>1 DEF Refuse, Answer, Registration, AccessExact, Boot, Runtime, Install, Begin,
              Unchanged, Enable, Rebind, Disable, Start, Stop, Restart, Remove
<1>2. CASE PublishDefinition \/ Link \/ DaemonReload \/ RemoveUnit
  BY <1>2 DEF PublishDefinition, Link, DaemonReload, RemoveUnit
<1>3. CASE WriteUnit
  BY <1>3, ServiceConstants DEF WriteUnit
<1>4. CASE SetAuto \/ ClearAuto \/ StartService \/ Started \/ StopService \/ Stopped
  BY <1>4 DEF SetAuto, ClearAuto, StartService, Started, StopService, Stopped
<1>5. CASE CreateService \/ ConfigureSecurity \/ DeleteService \/ AwaitMissing
  BY <1>5 DEF CreateService, ConfigureSecurity, DeleteService, AwaitMissing
<1>6. CASE Apply \/ BeginRebind \/ Granted \/ Switch
  BY <1>6 DEF Apply, NewReceipt, BeginRebind, Granted, Wanted, Switch
<1>7. CASE Settle \/ ReplaceReceipt \/ RemoveIntent
  BY <1>7 DEF Settle, ReplaceReceipt, RemoveIntent
<1>8. CASE Revoked \/ RemoveReceipt \/ RemoveDefinition
  BY <1>8 DEF Revoked, Condemned, RemoveReceipt, RemoveDefinition
<1>9. CASE Abandon \/ Activate \/ Transition \/ Deleted \/ Reboot
  BY <1>9 DEF Abandon, Activate, Transition, Deleted, Unregistered, Reboot
<1>10. ASSUME NEW path \in Releases \cup {Decl}, Grant(path) \/ Revoke(path) PROVE QuietInv'
  BY <1>10 DEF Grant, Wanted, Revoke, Condemned
<1>11. CASE UNCHANGED vars
  BY <1>11
<1>q. QED
  BY <1>1, <1>2, <1>3, <1>4, <1>5, <1>6, <1>7, <1>8, <1>9, <1>10, <1>11 DEF Next, Command

(* What a removal has achieved stays until it answers.                     *)
LEMMA RemoveStep ==
    ASSUME TypeOK, PlatformInv, StepInv, JournalInv, HeldInv, RemoveInv, [Next]_vars
    PROVE  RemoveInv'
<1> USE DEF TypeOK, RemoveInv, RevokedAll, Cleared, RemovedLeavesNothing, Removed,
            CreatedBy, HeldInv, Gone, StepInv, PlatformInv, OnlyWindows, OnlySystemd,
            OnWindows, OnSystemd, After, vars, fixed, tree, manager, systemd, windows,
            access, command
<1>1. CASE Refuse \/ Install \/ Enable \/ Rebind
          \/ Disable \/ Start \/ Stop \/ Restart \/ Remove
  BY <1>1 DEF Refuse, Answer, Registration, Boot, Install, Begin, Unchanged, Enable,
              Rebind, Disable, Start, Stop, Restart, Remove
<1>2. CASE PublishDefinition \/ WriteUnit \/ Link \/ DaemonReload \/ RemoveUnit
  BY <1>2 DEF PublishDefinition, WriteUnit, Link, DaemonReload, RemoveUnit
<1>3. CASE SetAuto \/ ClearAuto \/ StartService \/ Started \/ StopService \/ Stopped
  BY <1>3 DEF SetAuto, ClearAuto, StartService, Started, StopService, Stopped
<1>4. CASE CreateService \/ ConfigureSecurity \/ DeleteService \/ AwaitMissing
  BY <1>4 DEF CreateService, ConfigureSecurity, DeleteService, AwaitMissing
<1>5. CASE Apply \/ BeginRebind \/ Granted \/ Switch
  BY <1>5 DEF Apply, NewReceipt, BeginRebind, Granted, Wanted, Switch
<1>6. CASE Settle \/ ReplaceReceipt \/ RemoveIntent
  BY <1>6 DEF Settle, ReplaceReceipt, RemoveIntent
<1>7. CASE RemoveReceipt
  BY <1>7 DEF RemoveReceipt
<1>8. CASE Revoked
  <2>1. Created \cap Releases \subseteq Condemned
    BY ServiceConstants DEF JournalInv, WellFormed, Created, Condemned, Plan, Receipts, Intents
  <2>2. Created \subseteq Releases \cup {Decl}
    BY DEF Created, Receipts, Intents
  <2>3. CreatedBy(before.receipt, before.intent) \cap acl \subseteq {Decl}
    BY <1>8, <2>1, <2>2 DEF Revoked, Created
  <2>q. QED
    BY <1>8, <2>3 DEF Revoked
<1>9. CASE RemoveDefinition
  BY <1>9 DEF RemoveDefinition
<1>10. CASE Abandon \/ Activate \/ Transition \/ Deleted \/ Reboot
  BY <1>10 DEF Abandon, Activate, Transition, Deleted, Unregistered, Reboot
<1>11. ASSUME NEW path \in Releases \cup {Decl}, Grant(path) \/ Revoke(path) PROVE RemoveInv'
  BY <1>11 DEF Grant, Wanted, Revoke, Condemned
<1>12. CASE UNCHANGED vars
  BY <1>12
<1>q. QED
  BY <1>1, <1>2, <1>3, <1>4, <1>5, <1>6, <1>7, <1>8, <1>9, <1>10, <1>11, <1>12 DEF Next, Command

(* The action property, from the journal's invariant.                      *)
LEMMA GrantsLemma ==
    ASSUME IInv, [Next]_vars
    PROVE  GrantsStep
<1> USE DEF IInv, TypeOK, JournalInv, WellFormed, Plan, Created, CreatedBy, StepInv,
            GrantsStep, BorrowedStays, Named, After, vars, fixed, tree, manager, systemd,
            windows, access, command
<1>1. CASE Refuse \/ Install \/ Enable \/ Rebind
          \/ Disable \/ Start \/ Stop \/ Restart \/ Remove
  BY <1>1 DEF Refuse, Answer, Registration, AccessExact, Install, Begin, Unchanged, Enable,
              Rebind, Disable, Start, Stop, Restart, Remove
<1>2. CASE PublishDefinition \/ WriteUnit \/ Link \/ DaemonReload \/ RemoveUnit
  BY <1>2 DEF PublishDefinition, WriteUnit, Link, DaemonReload, RemoveUnit
<1>3. CASE SetAuto \/ ClearAuto \/ StartService \/ Started \/ StopService \/ Stopped
  BY <1>3 DEF SetAuto, ClearAuto, StartService, Started, StopService, Stopped
<1>4. CASE CreateService \/ ConfigureSecurity \/ DeleteService \/ AwaitMissing
  BY <1>4 DEF CreateService, ConfigureSecurity, DeleteService, AwaitMissing
<1>5. CASE Apply \/ BeginRebind \/ Granted \/ Switch
  BY <1>5 DEF Apply, NewReceipt, Receipts, Intents, BeginRebind, HeldInv, Held,
              PlatformInv, OnlyWindows, OnWindows, OnSystemd, Granted, Wanted, Switch
<1>6. CASE Settle \/ ReplaceReceipt
  BY <1>6 DEF Settle, Receipts, Intents, ReplaceReceipt
<1>7. CASE RemoveIntent
  <2>1. CASE verb = "rebind"
    BY <1>7, <2>1, NoneIsNoRecord DEF RemoveIntent, Receipts, Intents
  <2>2. CASE verb = "remove"
    BY <1>7, <2>2 DEF RemoveIntent
  <2>q. QED
    BY <1>7, <2>1, <2>2 DEF RemoveIntent
<1>8. CASE Revoked \/ RemoveReceipt
  BY <1>8 DEF Revoked, Condemned, RemoveReceipt, Receipts, Intents, RemoveInv
<1>9. CASE RemoveDefinition
  <2>1. pre \subseteq acl' /\ acl' \subseteq acl
    BY <1>9, ServiceConstants DEF RemoveDefinition
  <2>2. at = "unpublish" /\ UNCHANGED <<fixed, receipt, intent>>
    BY <1>9 DEF RemoveDefinition
  <2>q. QED
    BY <2>1, <2>2
<1>10. CASE Abandon \/ Activate \/ Transition \/ Deleted \/ Reboot
  BY <1>10 DEF Abandon, Activate, Transition, Deleted, Unregistered, Reboot
<1>11. ASSUME NEW path \in Releases \cup {Decl}, Grant(path) \/ Revoke(path) PROVE GrantsStep
  BY <1>11 DEF Grant, Wanted, Revoke, Condemned, Receipts, Intents
<1>12. CASE UNCHANGED vars
  BY <1>12
<1>q. QED
  BY <1>1, <1>2, <1>3, <1>4, <1>5, <1>6, <1>7, <1>8, <1>9, <1>10, <1>11, <1>12 DEF Next, Command

(***************************************************************************)
(* The theorems                                                            *)
(***************************************************************************)
LEMMA Initially == Init => IInv
<1> SUFFICES ASSUME Init PROVE IInv
  OBVIOUS
<1>1. TypeOK
  BY DEF Init, TypeOK, Steps, Registrations, OnSystemd
<1>2. PlatformInv /\ StepInv /\ JournalInv
  BY DEF Init, PlatformInv, StepInv, JournalInv, OnSystemd, OnWindows, OnlySystemd, OnlyWindows
<1>3. HeldInv /\ QuietInv /\ RemoveInv
  BY DEF Init, HeldInv, Gone, QuietInv, Active, RemoveInv, RemovedLeavesNothing, Removed
<1>q. QED
  BY <1>1, <1>2, <1>3 DEF IInv

LEMMA Invariance == Spec => []IInv
<1>1. IInv /\ [Next]_vars => IInv'
  BY TypeStep, PlatformStep, StepStep, JournalStep, HeldStep, QuietStep, RemoveStep DEF IInv
<1>q. QED
  BY Initially, <1>1, PTL DEF Spec

(* Every variable keeps its type: no command leaves a state outside those  *)
(* lifecycle.rs:214-237 and the records of access.rs can express.          *)
THEOREM TypeCorrect == Spec => []TypeOK
<1>1. IInv => TypeOK
  BY DEF IInv
<1>q. QED
  BY Invariance, <1>1, PTL

(* Whatever runs is registered, defined and, on Windows, the release the   *)
(* manager is bound to, which it and the declaration are readable for,     *)
(* whichever command was cut short (lifecycle.rs:58, access.rs:337).       *)
THEOREM WhatRunsIsBound == Spec => []RunsWhatIsBound
<1>1. IInv => RunsWhatIsBound
  BY DEF IInv, HeldInv, QuietInv, RunsWhatIsBound
<1>q. QED
  BY Invariance, <1>1, PTL

(* A removal that reports success leaves nothing of the service behind     *)
(* (lifecycle.rs:126, access.rs:139), with the two exceptions the property *)
(* names.                                                                  *)
THEOREM RemovalIsComplete == Spec => []RemovedLeavesNothing
<1>1. IInv => RemovedLeavesNothing
  BY DEF IInv, RemoveInv
<1>q. QED
  BY Invariance, <1>1, PTL

(* Borrowed access is never revoked, and none that was created is forgotten*)
(* by the journal before it is revoked (access.rs:83, 125, 167, 354).      *)
THEOREM GrantsAreAccounted == Spec => GrantsAccounted
<1>1. IInv /\ [Next]_vars => [GrantsStep]_vars
  BY GrantsLemma
<1>q. QED
  BY Invariance, <1>1, PTL DEF Spec, GrantsAccounted
=============================================================================
