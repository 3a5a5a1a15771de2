----------------------------- MODULE StoreCalls -----------------------------
(***************************************************************************)
(* The calls of the StateStore protocol (canto/core/state.py), and what    *)
(* each does to the rows and answers when nothing else runs.               *)
(*                                                                         *)
(* Of a row only its status is kept, which is all that a store looks at.   *)
(* An approval, a memory item and an idempotency record stand for the      *)
(* kinds of rows that the stores treat differently: rows that are found by *)
(* their key only, rows that are listed as well, and rows that are         *)
(* claimed.  Jobs, plans, artifacts and registry snapshots are kept like   *)
(* approvals; tasks, executor profiles, AI records and projects like       *)
(* memory items.                                                           *)
(***************************************************************************)
CONSTANTS
    Approval, Item, Claim,  \* keys of rows
    Id,                     \* ids of the records that are appended to a task
    None                    \* the absent value

Key == Approval \cup Item \cup Claim

Status == {"pending", "approved", "rejected", "proposed", "active", "running", "completed", "failed"}

(* A transition expects a status of each row that it writes; that of two   *)
(* rows is transition_memory_approval.                                     *)
Pair == {{a, i} : a \in Approval, i \in Item}

IsCall(c) ==
    \/ c \in [op: {"get"}, key: Key] \cup [op: {"list"}] \cup [op: {"delete"}, key: Item]
    \/ c \in [op: {"set"}, key: Key, value: Status] \cup [op: {"append"}, id: Id]
    \/ c \in [op: {"claim"}, key: Claim, value: Status]
    \/ /\ c.op = "transition"
       /\ DOMAIN c.writes \in Pair \cup {{k} : k \in Approval \cup Item}
       /\ c \in [op: {"transition"}, expects: [DOMAIN c.writes -> SUBSET Status],
                 writes: [DOMAIN c.writes -> Status]]

(* "error" is an exception.                                                *)
Answer == Status \cup {"yes", "no", "done", "error", None}

(* What callers see of a memory item also tells when it is gone.           *)
Holds(rows, c) == \A k \in DOMAIN c.expects : rows[k] \in c.expects[k]

MayClaim(row) == row \in {None, "failed"}

AnswerOf(rows, ids, c) ==
    CASE c.op = "get" -> rows[c.key]
      [] c.op = "set" -> "done"
      [] c.op = "delete" -> IF rows[c.key] # None THEN "yes" ELSE "no"
      [] c.op = "claim" -> IF MayClaim(rows[c.key]) THEN None ELSE rows[c.key]
      [] c.op = "transition" -> IF Holds(rows, c) THEN "yes" ELSE "no"
      [] c.op = "append" -> IF c.id \in ids THEN "error" ELSE "done"

RowsAfter(rows, c) ==
    CASE c.op = "set" -> [rows EXCEPT ![c.key] = c.value]
      [] c.op = "delete" -> [rows EXCEPT ![c.key] = None]
      [] c.op = "claim" /\ MayClaim(rows[c.key]) -> [rows EXCEPT ![c.key] = c.value]
      [] c.op = "transition" /\ Holds(rows, c) ->
             [k \in Key |-> IF k \in DOMAIN c.writes THEN c.writes[k] ELSE rows[k]]
      [] OTHER -> rows

IdsAfter(ids, c) == IF c.op = "append" THEN ids \cup {c.id} ELSE ids
=============================================================================
