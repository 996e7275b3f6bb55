---------------------------- MODULE AtomicRecord ----------------------------
(***************************************************************************)
(* What src/local/record.rs promises of each record: a register that holds *)
(* a whole payload or nothing and changes in one step.  A power loss takes *)
(* back changes that were not yet durable, and never one the store         *)
(* confirmed.  Half-written files, stages and locks have no place here.    *)
(***************************************************************************)
EXTENDS Naturals

CONSTANTS Names, Payloads, Missing, Other

VARIABLES
    value,      \* what an inspection of the name finds
    survivors,  \* the values a power loss now may leave
    confirmed   \* the value was returned as created, replaced or removed

avars == <<value, survivors, confirmed>>

Init ==
    /\ value \in [Names -> Payloads \cup {Missing, Other}]
    /\ survivors = [n \in Names |-> {value[n]}]
    /\ confirmed = [n \in Names |-> FALSE]

Become(n, v) ==
    /\ value' = [value EXCEPT ![n] = v]
    /\ survivors' = [survivors EXCEPT ![n] = @ \cup {v}]
    /\ confirmed' = [confirmed EXCEPT ![n] = FALSE]

Create(n, v) == value[n] = Missing /\ Become(n, v)
Replace(n, v) == value[n] \in Payloads /\ Become(n, v)
Remove(n) == value[n] \in Payloads /\ Become(n, Missing)

(* The root directory is synced, and with it every name.                   *)
Settle ==
    /\ survivors' = [n \in Names |-> {value[n]}]
    /\ UNCHANGED <<value, confirmed>>

Confirm(n) ==
    /\ survivors[n] = {value[n]}
    /\ confirmed' = [confirmed EXCEPT ![n] = TRUE]
    /\ UNCHANGED <<value, survivors>>

PowerLoss ==
    /\ value' \in [Names -> UNION {survivors[n] : n \in Names}]
    /\ \A n \in Names : value'[n] \in survivors[n]
    /\ survivors' = [n \in Names |-> {value'[n]}]
    /\ UNCHANGED confirmed

Next ==
    \/ \E n \in Names, v \in Payloads : Create(n, v) \/ Replace(n, v)
    \/ \E n \in Names : Remove(n) \/ Confirm(n)
    \/ Settle
    \/ PowerLoss

Spec == Init /\ [][Next]_avars
=============================================================================
