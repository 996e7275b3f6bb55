----------------------------- MODULE AtomicView -----------------------------
(***************************************************************************)
(* What src/local/view.rs promises of one view path: a link creates the    *)
(* view where there is none or turns it to another tree, in one step; an   *)
(* unlink takes it away in one step; nobody else touches it, and an entry  *)
(* that is no view stays.  Observations, staged links and their names have *)
(* no place here.                                                          *)
(***************************************************************************)
EXTENDS FiniteSets

CONSTANTS Trees, Linkers, Unlinkers, Wants, Missing, File, Dir

VARIABLES
    view,       \* a tree, a foreign entry or nothing
    calling,    \* the linkers whose call is under way
    turned,     \* what a call's one change took the place of, or "nothing"
    told,       \* what each linker was told
    withdrawal  \* what each unlinker was told

avars == <<view, calling, turned, told, withdrawal>>

Init ==
    /\ view \in Trees \cup {Missing, File, Dir}
    /\ calling = {}
    /\ turned = [l \in Linkers |-> "nothing"]
    /\ told = [l \in Linkers |-> "none"]
    /\ withdrawal = [u \in Unlinkers |-> "none"]

Call(l) ==
    /\ l \notin calling
    /\ calling' = calling \cup {l}
    /\ turned' = [turned EXCEPT ![l] = "nothing"]
    /\ told' = [told EXCEPT ![l] = "none"]
    /\ UNCHANGED <<view, withdrawal>>

Return(l, answer) ==
    /\ l \in calling
    /\ calling' = calling \ {l}
    /\ told' = [told EXCEPT ![l] = answer]
    /\ UNCHANGED <<turned, withdrawal>>

Create(l) ==
    /\ view = Missing /\ turned[l] = "nothing"
    /\ view' = Wants[l]
    /\ Return(l, "Created")

(* A view that was withdrawn in the meantime is no obstacle.               *)
Turn(l) ==
    /\ l \in calling /\ turned[l] = "nothing"
    /\ view \in Trees \cup {Missing}
    /\ view' = Wants[l]
    /\ turned' = [turned EXCEPT ![l] = view]
    /\ UNCHANGED <<calling, told, withdrawal>>

Turned(l) ==
    /\ turned[l] # "nothing"
    /\ Return(l, "Replaced")
    /\ UNCHANGED view

(* The errors after which the view may have been turned.                   *)
Conflict(l) ==
    /\ \E answer \in {"ViewConflict", "BeforeLink"} : Return(l, answer)
    /\ UNCHANGED view

Refuse(l) ==
    /\ turned[l] = "nothing"
    /\ \E answer \in {"NotDirectory", "NoName"} : Return(l, answer)
    /\ UNCHANGED view

(* A process dies in the midst of its calls.                               *)
Die(dead) ==
    /\ calling' = calling \ dead
    /\ UNCHANGED <<view, turned, told, withdrawal>>

Withdraw(u, answer) ==
    /\ withdrawal' = [withdrawal EXCEPT ![u] = answer]
    /\ UNCHANGED <<calling, turned, told>>

Unlink(u) ==
    /\ view \in Trees
    /\ view' = Missing
    /\ Withdraw(u, "Removed")

Decline(u) ==
    /\ \/ view = Missing /\ Withdraw(u, "Unchanged")
       \/ view # Missing /\ Withdraw(u, "NotActiveView")
       \/ Withdraw(u, "Remove")
    /\ UNCHANGED view

Next ==
    \/ \E l \in Linkers :
         Call(l) \/ Create(l) \/ Turn(l) \/ Turned(l) \/ Conflict(l) \/ Refuse(l)
    \/ \E dead \in SUBSET calling : Die(dead)
    \/ \E u \in Unlinkers : Unlink(u) \/ Decline(u)

Spec == Init /\ [][Next]_avars
=============================================================================
