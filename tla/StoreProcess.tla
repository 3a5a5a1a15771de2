---------------------------- MODULE StoreProcess ----------------------------
(***************************************************************************)
(* Processes that call a state store: a call begins, takes the steps of    *)
(* the implementation that the processes use, and returns.  Any process    *)
(* may be killed, except one that shares the memory of the others.         *)
(***************************************************************************)
EXTENDS StoreCalls, Naturals, Sequences

CONSTANTS
    Proc,
    Reader,      \* those that may have opened the store with read_only=True
    Calls,       \* the calls that are made
    Start,       \* what the rows may be at the beginning
    MaxCalls     \* bound: calls begun

ASSUME StoreAssumption ==
    /\ Approval \cap Item = {} /\ Approval \cap Claim = {} /\ Item \cap Claim = {}
    /\ None \notin Proc \cup Calls
    /\ None \notin Status \cup {"yes", "no", "done", "error", "none yet", "member"}
    /\ Reader \subseteq Proc
    /\ \A c \in Calls : IsCall(c)
    /\ \A rows \in Start : rows \in [Key -> Status \cup {None}]
    /\ MaxCalls \in Nat

VARIABLES
    store,       \* the implementation in use, which never changes
    rows,        \* what the store holds for all to see
    index,       \* Redis: the set of the items; SQLite: what the full-text index has of each item
    ids, records,\* record ids that are taken, and the records in their order
    database,    \* SQLite: the schema
    lock,        \* SQLite: who is in a write transaction; in memory: who holds the lock
    call, at, answer,
    local,       \* per process: the local variables of its call, and its open transaction
    calls,       \* calls begun so far
    settled,     \* history: items stored by a call that has returned, and not deleted since
    told         \* history, per process that lists: items there all the time, and at some time

svars == <<store, rows, index, ids, records, database, lock, call, at, answer, local, calls,
           settled, told>>

Rows == [Key -> Status \cup {None}]
Index == [Item -> Status \cup {"member", None}]

Local == [rows: Rows, index: Index,      \* the open transaction; in memory, the rows before it
          clean: BOOLEAN,                \* Redis: no watched key was written; else all rows matched
          items: SUBSET Item,            \* a list: members still to get
          found: SUBSET Item,            \* and what it has found
          open: {"no", "yes", "read only"}, \* SQLite: whether the store is initialized
         version: 0 .. 2]

NoLocal == [rows |-> [k \in Key |-> None], index |-> [i \in Item |-> None], clean |-> TRUE,
            items |-> {}, found |-> {}, open |-> "no", version |-> 0]

(* A call is over.                                                         *)
Over(l) == [NoLocal EXCEPT !.open = l.open]

Present(r) == {i \in Item : r[i] # None}

Is(p, where, op) == at[p] = where /\ call[p].op = op
Called(p, s, op) == store = s /\ Is(p, "called", op)
Writes(c) == IF c.op = "transition" THEN DOMAIN c.writes
             ELSE IF c.op \in {"set", "claim", "delete"} THEN {c.key} ELSE {}

IsList(p) == call[p] # None /\ call[p].op = "list"
IsSet(p) == call[p] # None /\ call[p].op = "set"

(* The rows change, and every list that is under way may see it.           *)
Publish(r) ==
    /\ rows' = r
    /\ told' = [q \in Proc |-> IF IsList(q) THEN [told[q] EXCEPT !.sometime = @ \cup Present(r)]
                             ELSE told[q]]

Replied(p, a) == answer' = [answer EXCEPT ![p] = a]
Goto(p, where) == at' = [at EXCEPT ![p] = where]

StoreTypeOK ==
    /\ store \in {"redis", "sqlite", "memory"}
    /\ rows \in Rows /\ index \in Index
    /\ ids \subseteq Id
    /\ records \in Seq(Id)
    /\ database \in [tables: SUBSET {"base", "memory"}, version: 0 .. 2]
    /\ lock \in Proc \cup {None}
    /\ call \in [Proc -> Calls \cup {None}]
    /\ answer \in [Proc -> Answer \cup {"none yet"}]
    /\ local \in [Proc -> Local]
    /\ calls \in 0 .. MaxCalls
    /\ settled \subseteq Item
    /\ told \in [Proc -> [always: SUBSET Item, sometime: SUBSET Item, alone: BOOLEAN]]

Nothing == [always |-> {}, sometime |-> {}, alone |-> TRUE]

(* A list is told what is there at its beginning.  A call that deletes an  *)
(* item disturbs those under way that store or list it.                    *)
Deletes(c) == IF c.op = "delete" THEN {c.key} \cap Item ELSE {}
Deleting == UNION {Deletes(call[q]) : q \in {q \in Proc : call[q] # None}}

Invoke(p, c) ==
    /\ calls < MaxCalls /\ at[p] = "idle"
    /\ local[p].open = "read only" => c.op \in {"get", "list"}
    /\ calls' = calls + 1
    /\ call' = [call EXCEPT ![p] = c]
    /\ Goto(p, "called")
    /\ settled' = settled \ Deletes(c)
    /\ told' = [q \in Proc |->
           IF q # p THEN [told[q] EXCEPT !.always = @ \ Deletes(c),
                                         !.alone = @ /\ ~(IsSet(q) /\ call[q].key \in Deletes(c))]
           ELSE IF c.op = "list" THEN [always |-> settled, sometime |-> Present(rows), alone |-> TRUE]
           ELSE [Nothing EXCEPT !.alone = c.op = "set" => c.key \notin Deleting]]
    /\ UNCHANGED <<store, rows, index, ids, records, database, lock, answer, local>>

Ended(p) ==
    /\ call' = [call EXCEPT ![p] = None]
    /\ Goto(p, "idle")
    /\ Replied(p, "none yet")
    /\ told' = [told EXCEPT ![p] = Nothing]

Return(p) ==
    /\ at[p] = "answered"
    /\ settled' = settled \cup (IF call[p].op = "set" /\ answer[p] = "done" /\ told[p].alone
                                THEN {call[p].key} \cap Item ELSE {})
    /\ local' = [local EXCEPT ![p] = Over(@)]
    /\ Ended(p)
    /\ UNCHANGED <<store, rows, index, ids, records, database, lock, calls>>

(* A transaction that is open is rolled back.                              *)
Crash(p) ==
    /\ store # "memory" /\ call[p] # None
    /\ lock' = IF lock = p THEN None ELSE lock
    /\ local' = [local EXCEPT ![p] = NoLocal]
    /\ Ended(p)
    /\ UNCHANGED <<store, rows, index, ids, records, database, calls, settled>>
=============================================================================
