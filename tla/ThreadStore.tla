----------------------------- MODULE ThreadStore -----------------------------
(***************************************************************************)
(* MemoryStateStore: dictionaries that threads share.  A call holds the    *)
(* lock from its beginning to its end.                                     *)
(***************************************************************************)
EXTENDS StoreProcess

ThreadOthers == UNCHANGED <<store, index, database, call, calls, settled>>

TakeLock(p) ==
    /\ store = "memory" /\ at[p] = "called" /\ lock = None
    /\ lock' = p
    /\ Goto(p, "locked")
    /\ ThreadOthers /\ UNCHANGED <<rows, ids, records, answer, local, told>>

Pairs(p) == call[p].op = "transition" /\ \E k, l \in DOMAIN call[p].writes : k # l

(* What concerns one dictionary is done at once.                           *)
Work(p) ==
    /\ at[p] = "locked" /\ call[p].op # "list" /\ ~Pairs(p)
    /\ Replied(p, AnswerOf(rows, ids, call[p]))
    /\ Publish(RowsAfter(rows, call[p]))
    /\ ids' = IdsAfter(ids, call[p])
    /\ records' = IF ids' = ids THEN records ELSE Append(records, call[p].id)
    /\ Goto(p, "unlocking")
    /\ ThreadOthers /\ UNCHANGED <<lock, local>>

WorkList(p) ==
    /\ Is(p, "locked", "list")
    /\ local' = [local EXCEPT ![p].found = Present(rows)]
    /\ Replied(p, "done") /\ Goto(p, "unlocking")
    /\ ThreadOthers /\ UNCHANGED <<rows, ids, records, lock, told>>

(* An approval and its item are two dictionaries, written in turn.         *)
WriteApproval(p) ==
    /\ at[p] = "locked" /\ Pairs(p)
    /\ IF Holds(rows, call[p])
       THEN /\ Publish([k \in Key |-> IF k \in DOMAIN call[p].writes \cap Approval
                                      THEN call[p].writes[k] ELSE rows[k]])
            /\ local' = [local EXCEPT ![p].rows = rows]
            /\ Goto(p, "writing")
            /\ UNCHANGED answer
       ELSE /\ Replied(p, "no") /\ Goto(p, "unlocking")
            /\ UNCHANGED <<rows, local, told>>
    /\ ThreadOthers /\ UNCHANGED <<ids, records, lock>>

WriteItem(p) ==
    /\ at[p] = "writing"
    /\ Publish([k \in Key |-> IF k \in DOMAIN call[p].writes \cap Item
                              THEN call[p].writes[k] ELSE rows[k]])
    /\ Replied(p, "yes") /\ Goto(p, "unlocking")
    /\ ThreadOthers /\ UNCHANGED <<ids, records, lock, local>>

ReleaseLock(p) ==
    /\ at[p] = "unlocking"
    /\ lock' = None
    /\ Goto(p, "answered")
    /\ ThreadOthers /\ UNCHANGED <<rows, ids, records, answer, local, told>>

ThreadStep(p) ==
    TakeLock(p) \/ Work(p) \/ WorkList(p) \/ WriteApproval(p) \/ WriteItem(p) \/ ReleaseLock(p)
=============================================================================
