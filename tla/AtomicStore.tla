----------------------------- MODULE AtomicStore -----------------------------
(***************************************************************************)
(* What a state store promises to the processes that call it: a call takes *)
(* effect at one moment between its beginning and its answer, or raises    *)
(* and has no effect.  A process that is killed leaves a call either done  *)
(* or not begun.                                                           *)
(***************************************************************************)
EXTENDS StoreCalls

CONSTANTS Proc,
          Calls,     \* the calls that are made, but for lists
          Start      \* the rows at the beginning

VARIABLES rows, ids,
          call,      \* per process: its call, or None
          answer     \* per process: what it is answered, "none yet" before

vars == <<rows, ids, call, answer>>

Init ==
    /\ rows \in Start /\ ids = {}
    /\ call = [p \in Proc |-> None]
    /\ answer = [p \in Proc |-> "none yet"]

Invoke(p, c) ==
    /\ call[p] = None
    /\ call' = [call EXCEPT ![p] = c]
    /\ UNCHANGED <<rows, ids, answer>>

Waits(p) == call[p] # None /\ answer[p] = "none yet"

Perform(p) ==
    /\ Waits(p)
    /\ answer' = [answer EXCEPT ![p] = AnswerOf(rows, ids, call[p])]
    /\ rows' = RowsAfter(rows, call[p])
    /\ ids' = IdsAfter(ids, call[p])
    /\ UNCHANGED call

Raise(p) ==
    /\ Waits(p)
    /\ answer' = [answer EXCEPT ![p] = "error"]
    /\ UNCHANGED <<rows, ids, call>>

(* The call returns, or its process is killed.                             *)
End(p) ==
    /\ call[p] # None
    /\ call' = [call EXCEPT ![p] = None]
    /\ answer' = [answer EXCEPT ![p] = "none yet"]
    /\ UNCHANGED <<rows, ids>>

Next == \E p \in Proc :
    \/ \E c \in Calls : Invoke(p, c)
    \/ Perform(p) \/ Raise(p) \/ End(p)

Spec == Init /\ [][Next]_vars
=============================================================================
