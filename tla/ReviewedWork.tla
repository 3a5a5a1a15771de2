---------------------------- MODULE ReviewedWork ----------------------------
(***************************************************************************)
(* What delegation promises of each task, whoever runs its commands and in *)
(* whatever order they interleave: work goes through its phases one by     *)
(* one, it is reviewed only when some revision of it was captured, and it  *)
(* is accepted, and so promoted, only when somebody approved one of the    *)
(* captured revisions.  A phase that closes a task is never left.          *)
(***************************************************************************)
EXTENDS Naturals

CONSTANTS Task, Revision

VARIABLES
    phase,      \* how far each task has come
    captured,   \* the revisions of it that were captured
    approved    \* those a reviewer approved

(* Work is done and redone until it is submitted; what is accepted may be  *)
(* applied and, when that fails, be applied again, sent back or dropped.   *)
Follows ==
    [open      |-> {"reviewing", "closed"},
     reviewing |-> {"open", "accepted", "closed"},
     accepted  |-> {"applying"},
     applying  |-> {"unapplied", "closed"},
     unapplied |-> {"applying", "open", "closed"},
     closed    |-> {}]

Init ==
    /\ phase = [t \in Task |-> "open"]
    /\ captured = [t \in Task |-> {}]
    /\ approved = [t \in Task |-> {}]

Capture(t) ==
    /\ \E r \in Revision \ captured[t] :
         captured' = [captured EXCEPT ![t] = @ \cup {r}]
    /\ UNCHANGED <<phase, approved>>

Approve(t) ==
    /\ \E r \in captured[t] : approved' = [approved EXCEPT ![t] = @ \cup {r}]
    /\ UNCHANGED <<phase, captured>>

Advance(t) ==
    /\ \E next \in Follows[phase[t]] :
         /\ next = "reviewing" => captured[t] # {}
         /\ next = "accepted" => approved[t] # {}
         /\ phase' = [phase EXCEPT ![t] = next]
    /\ UNCHANGED <<captured, approved>>

Next == \E t \in Task : Capture(t) \/ Approve(t) \/ Advance(t)

vars == <<phase, captured, approved>>

Spec == Init /\ [][Next]_vars
=============================================================================
