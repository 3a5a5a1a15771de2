----------------------------- MODULE RedisStore -----------------------------
(***************************************************************************)
(* RedisStateStore: every command of a call is a step of its own.  A       *)
(* transition watches its keys, reads them, and writes them in a MULTI     *)
(* that fails when a watched key was written since.  What is listed is     *)
(* found through a set of members, which is written after the row.         *)
(***************************************************************************)
EXTENDS StoreProcess

Watched(q) == IF at[q] \in {"watching", "reading", "executing"} THEN Writes(call[q]) ELSE {}

(* Writing a key spoils the transactions that watch it.                    *)
Put(p, r) ==
    LET keys == {k \in Key : rows[k] # None \/ r[k] # None} \cap Writes(call[p])
    IN /\ Publish(r)
       /\ local' = [q \in Proc |-> IF q = p THEN local[p]
                                   ELSE [local[q] EXCEPT !.clean = @ /\ Watched(q) \cap keys = {}]]

RedisOthers == UNCHANGED <<store, database, lock, call, calls, settled>>

RedisGet(p) ==
    /\ Called(p, "redis", "get")
    /\ Replied(p, rows[call[p].key])
    /\ Goto(p, "answered")
    /\ RedisOthers /\ UNCHANGED <<rows, index, ids, records, local, told>>

(* Mutated: an item is stored as an approval is, and not made a member.    *)
RedisSetUnlisted(p) ==
    /\ Called(p, "redis", "set")
    /\ Put(p, [rows EXCEPT ![call[p].key] = call[p].value])
    /\ Replied(p, "done") /\ Goto(p, "answered")
    /\ RedisOthers /\ UNCHANGED <<index, ids, records>>

RedisSet(p) ==
    /\ Called(p, "redis", "set")
    /\ Put(p, [rows EXCEPT ![call[p].key] = call[p].value])
    /\ Replied(p, "done")
    /\ Goto(p, IF call[p].key \in Item THEN "indexing" ELSE "answered")
    /\ RedisOthers /\ UNCHANGED <<index, ids, records>>

RedisAddMember(p) ==
    /\ at[p] = "indexing"
    /\ index' = [index EXCEPT ![call[p].key] = "member"]
    /\ Goto(p, "answered")
    /\ RedisOthers /\ UNCHANGED <<rows, ids, records, answer, local, told>>

RedisDelete(p) ==
    /\ Called(p, "redis", "delete")
    /\ Put(p, [rows EXCEPT ![call[p].key] = None])
    /\ Replied(p, IF rows[call[p].key] # None THEN "yes" ELSE "no")
    /\ Goto(p, "unindexing")
    /\ RedisOthers /\ UNCHANGED <<index, ids, records>>

RedisRemoveMember(p) ==
    /\ at[p] = "unindexing"
    /\ index' = [index EXCEPT ![call[p].key] = None]
    /\ Goto(p, "answered")
    /\ RedisOthers /\ UNCHANGED <<rows, ids, records, answer, local, told>>
-----------------------------------------------------------------------------
(* Transitions and claims. *)
RedisWatch(p) ==
    /\ store = "redis" /\ at[p] = "called" /\ call[p].op \in {"transition", "claim"}
    /\ local' = [local EXCEPT ![p].clean = TRUE]
    /\ Goto(p, "watching")
    /\ RedisOthers /\ UNCHANGED <<rows, index, ids, records, answer, told>>

Refuses(p, k) ==
    IF call[p].op = "claim" THEN ~MayClaim(rows[k]) ELSE rows[k] \notin call[p].expects[k]

(* The keys are read one after the other, an approval first.  A row that   *)
(* is not as expected decides the answer; what is read after it changes    *)
(* nothing.                                                                *)
RedisRead(p, k) ==
    /\ at[p] \in {"watching", "reading"}
    /\ k \in Writes(call[p])
    /\ at[p] = "watching" => k \in Approval \/ Writes(call[p]) = {k}
    /\ at[p] = "reading" => k \in Item
    /\ IF Refuses(p, k)
       THEN /\ Replied(p, IF call[p].op = "claim" THEN rows[k] ELSE "no")
            /\ Goto(p, "answered")
       ELSE /\ Goto(p, IF at[p] = "watching" /\ Writes(call[p]) # {k} THEN "reading" ELSE "executing")
            /\ UNCHANGED answer
    /\ RedisOthers /\ UNCHANGED <<rows, index, ids, records, local, told>>

Written(p) ==
    LET c == call[p]
    IN IF c.op = "claim" THEN [rows EXCEPT ![c.key] = c.value]
       ELSE [k \in Key |-> IF k \in DOMAIN c.writes THEN c.writes[k] ELSE rows[k]]

(* The transition of an item makes it a member again; that of an item and  *)
(* its approval does not.                                                  *)
Members(p) ==
    IF call[p].op = "transition" /\ Writes(call[p]) \subseteq Item
    THEN [i \in Item |-> IF i \in Writes(call[p]) THEN "member" ELSE index[i]]
    ELSE index

Executed(p) ==
    /\ at[p] = "executing" /\ local[p].clean
    /\ Put(p, Written(p))
    /\ index' = Members(p)
    /\ Replied(p, IF call[p].op = "claim" THEN None ELSE "yes")
    /\ Goto(p, "answered")
    /\ RedisOthers /\ UNCHANGED <<ids, records>>

(* Mutated: after a WatchError the MULTI is repeated, without a new WATCH. *)
RedisExecAgain(p) ==
    \/ Executed(p)
    \/ /\ at[p] = "executing" /\ ~local[p].clean
       /\ UNCHANGED svars

RedisExec(p) ==
    \/ Executed(p)
    \/ /\ at[p] = "executing" /\ ~local[p].clean
       /\ Goto(p, "called")
       /\ RedisOthers /\ UNCHANGED <<rows, index, ids, records, answer, local, told>>
-----------------------------------------------------------------------------
(* Records and lists. *)
(* Mutated: that the id was there already is overlooked.                   *)
RedisTakeAnyId(p) ==
    /\ Called(p, "redis", "append")
    /\ ids' = ids \cup {call[p].id}
    /\ Replied(p, "done") /\ Goto(p, "pushing")
    /\ RedisOthers /\ UNCHANGED <<rows, index, records, local, told>>

RedisTakeId(p) ==
    /\ Called(p, "redis", "append")
    /\ ids' = ids \cup {call[p].id}
    /\ IF call[p].id \in ids THEN Replied(p, "error") /\ Goto(p, "answered")
                             ELSE Replied(p, "done") /\ Goto(p, "pushing")
    /\ RedisOthers /\ UNCHANGED <<rows, index, records, local, told>>

RedisPush(p) ==
    /\ at[p] = "pushing"
    /\ records' = Append(records, call[p].id)
    /\ Goto(p, "answered")
    /\ RedisOthers /\ UNCHANGED <<rows, index, ids, answer, local, told>>

RedisMembers(p) ==
    /\ Called(p, "redis", "list")
    /\ local' = [local EXCEPT ![p].items = {i \in Item : index[i] # None}]
    /\ Goto(p, "getting")
    /\ RedisOthers /\ UNCHANGED <<rows, index, ids, records, answer, told>>

(* A member whose row is gone is left out.                                 *)
RedisGetMember(p, i) ==
    /\ at[p] = "getting" /\ i \in local[p].items
    /\ local' = [local EXCEPT ![p].items = @ \ {i},
                              ![p].found = IF rows[i] # None THEN @ \cup {i} ELSE @]
    /\ RedisOthers /\ UNCHANGED <<rows, index, ids, records, at, answer, told>>

RedisListed(p) ==
    /\ at[p] = "getting" /\ local[p].items = {}
    /\ Replied(p, "done") /\ Goto(p, "answered")
    /\ RedisOthers /\ UNCHANGED <<rows, index, ids, records, local, told>>

RedisStep(p) ==
    \/ RedisGet(p) \/ RedisSet(p) \/ RedisAddMember(p) \/ RedisDelete(p) \/ RedisRemoveMember(p)
    \/ RedisWatch(p) \/ RedisExec(p)
    \/ \E k \in Key : RedisRead(p, k)
    \/ RedisTakeId(p) \/ RedisPush(p)
    \/ RedisMembers(p) \/ RedisListed(p)
    \/ \E i \in Item : RedisGetMember(p, i)
=============================================================================
