---------------------------- MODULE MCStateStores ----------------------------
(* Small instances of StateStores for TLC: an approval and its item, an idempotency record, and
   a record to append. *)
EXTENDS StateStores, TLC

CONSTANTS p1, p2, a1, i1, c1, r1

Becomes(k, from, to) == [op |-> "transition", expects |-> k :> from, writes |-> k :> to]

Decides(to, active) ==
    [op |-> "transition",
     expects |-> a1 :> {"pending"} @@ i1 :> {"proposed"}, writes |-> a1 :> to @@ i1 :> active]

(* A decision about the approval and its item, one about the approval alone, and what else
   happens to an item, a claim and a record. *)
EachCall ==
    {Decides("approved", "active"), Becomes(a1, {"pending"}, "rejected"),
     [op |-> "set", key |-> i1, value |-> "proposed"], Becomes(i1, {"proposed"}, "rejected"),
     [op |-> "delete", key |-> i1], [op |-> "list"], [op |-> "get", key |-> i1],
     [op |-> "claim", key |-> c1, value |-> "running"],
     [op |-> "append", id |-> r1]}

(* Nothing; or an item that waits for a decision, and a claim whose job has failed. *)
StartOfEach ==
    {[k \in Key |-> None],
     [k \in Key |-> CASE k = a1 -> "pending" [] k = i1 -> "proposed" [] k = c1 -> "failed"]}
==============================================================================
