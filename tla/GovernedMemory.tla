--------------------------- MODULE GovernedMemory ---------------------------
(***************************************************************************)
(* What the memory service promises of its items: an item is in force only *)
(* by a decision made on it while it was a candidate, one decision settles *)
(* it, and an item that left force, or was never in it, does not come back.*)
(***************************************************************************)
CONSTANT MemoryId

VARIABLES
    standing,   \* how each item stands
    granted,    \* the items a decision was made for
    refused     \* the items a decision was made against

Standing == {"none", "candidate", "inForce", "past"}

Init ==
    /\ standing = [m \in MemoryId |-> "none"]
    /\ granted = {}
    /\ refused = {}

Enter(m) ==
    /\ standing[m] = "none"
    /\ \E s \in {"candidate", "past"} : standing' = [standing EXCEPT ![m] = s]
    /\ UNCHANGED <<granted, refused>>

Grant(m) ==
    /\ standing[m] = "candidate"
    /\ standing' = [standing EXCEPT ![m] = "inForce"]
    /\ granted' = granted \cup {m}
    /\ UNCHANGED refused

Refuse(m) ==
    /\ standing[m] = "candidate"
    /\ standing' = [standing EXCEPT ![m] = "past"]
    /\ refused' = refused \cup {m}
    /\ UNCHANGED granted

Retire(m) ==
    /\ standing[m] \in {"candidate", "inForce"}
    /\ standing' = [standing EXCEPT ![m] = "past"]
    /\ UNCHANGED <<granted, refused>>

Next == \E m \in MemoryId : Enter(m) \/ Grant(m) \/ Refuse(m) \/ Retire(m)

Spec == Init /\ [][Next]_<<standing, granted, refused>>
=============================================================================
