---------------------------- MODULE WriteLedger ----------------------------
(***************************************************************************)
(* What docs/write-provider-contract.md promises of live writes, without   *)
(* jobs, approvals or processes: a ledger with one entry per idempotency   *)
(* key.  A job acquires a free key for one change set, may write once, and *)
(* either settles the key for good or gives it back.  Jobs implements it.  *)
(***************************************************************************)
CONSTANTS JobId, Key, Digest, None

VARIABLES
    ledger,   \* the entry of each key
    written   \* the jobs whose write has begun

vars == <<ledger, written>>

Entry == [state: {"free", "held", "settled"},
          job: JobId \cup {None}, digest: Digest \cup {None}]

Free == [state |-> "free", job |-> None, digest |-> None]

Init ==
    /\ ledger = [k \in Key |-> Free]
    /\ written = {}

(* The second conjunct follows from the third, and lets TLC reject a step  *)
(* of Jobs before it tries every job and change set.                       *)
Acquire(k) ==
    /\ ledger[k].state = "free"
    /\ ledger'[k].state = "held"
    /\ \E j \in JobId \ written, d \in Digest :
          ledger' = [ledger EXCEPT ![k] = [state |-> "held", job |-> j, digest |-> d]]
    /\ UNCHANGED written

Write(k) ==
    /\ ledger[k].state = "held"
    /\ ledger[k].job \notin written
    /\ written' = written \cup {ledger[k].job}
    /\ UNCHANGED ledger

Settle(k) ==
    /\ ledger[k].state = "held"
    /\ ledger[k].job \in written
    /\ ledger' = [ledger EXCEPT ![k].state = "settled"]
    /\ UNCHANGED written

GiveBack(k) ==
    /\ ledger[k].state = "held"
    /\ ledger' = [ledger EXCEPT ![k] = Free]
    /\ UNCHANGED written

Next ==
    \E k \in Key :
        \/ Acquire(k) \/ Write(k) \/ Settle(k) \/ GiveBack(k)

Spec == Init /\ [][Next]_vars
=============================================================================
