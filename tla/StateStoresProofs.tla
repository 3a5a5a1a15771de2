--------------------------- MODULE StateStoresProofs ---------------------------
(***************************************************************************)
(* Proofs about StateStores, for every set of processes, rows and calls:   *)
(* types, the database, lists, and that Redis commands, SQLite statements  *)
(* and threads under a lock implement one AtomicStore.                     *)
(***************************************************************************)
EXTENDS StateStores, SequenceTheorems, TLAPS

(* Calls.                                                                  *)
IsPair(c) == DOMAIN c.writes \in Pair

LEMMA CallShape ==
    ASSUME NEW c \in Calls
    PROVE  /\ c # None
           /\ c.op \in {"get", "set", "list", "delete", "claim", "append", "transition"}
           /\ c.op = "get" => c.key \in Key
           /\ c.op = "set" => c.key \in Key /\ c.value \in Status
           /\ c.op = "delete" => c.key \in Item
           /\ c.op = "claim" => c.key \in Claim /\ c.value \in Status
           /\ c.op = "append" => c.id \in Id
           /\ c.op = "transition" =>
                 /\ c.writes \in [DOMAIN c.writes -> Status]
                 /\ c.expects \in [DOMAIN c.writes -> SUBSET Status]
                 /\ DOMAIN c.writes \in Pair \cup {{k} : k \in Approval \cup Item}
<1>1. IsCall(c) /\ c # None
    BY StoreAssumption
<1>2. CASE c \in [op: {"get"}, key: Key] \cup [op: {"list"}] \cup [op: {"delete"}, key: Item]
    BY <1>1, <1>2
<1>3. CASE c \in [op: {"set"}, key: Key, value: Status] \cup [op: {"append"}, id: Id]
    BY <1>1, <1>3
<1>4. CASE c \in [op: {"claim"}, key: Claim, value: Status]
    BY <1>1, <1>4
<1>5. CASE /\ c.op = "transition"
           /\ DOMAIN c.writes \in Pair \cup {{k} : k \in Approval \cup Item}
           /\ c \in [op: {"transition"}, expects: [DOMAIN c.writes -> SUBSET Status],
                     writes: [DOMAIN c.writes -> Status]]
    BY <1>1, <1>5
<1> QED BY <1>1, <1>2, <1>3, <1>4, <1>5 DEF IsCall

LEMMA PairShape ==
    ASSUME NEW D \in Pair \cup {{k} : k \in Approval \cup Item}
    PROVE  /\ D \subseteq Key /\ D \cap Claim = {}
           /\ (\E k, l \in D : k # l) <=> D \in Pair
           /\ D \in Pair => \E a \in Approval, i \in Item : D = {a, i} /\ a \notin Item /\ i \notin Approval
           /\ D \notin Pair => \E k \in Approval \cup Item : D = {k}
<1>1. CASE D \in Pair
  <2>1. PICK a \in Approval, i \in Item : D = {a, i}
    BY <1>1 DEF Pair
  <2>2. a # i /\ a \notin Item /\ i \notin Approval /\ a \notin Claim /\ i \notin Claim
    BY StoreAssumption
  <2> QED BY <1>1, <2>1, <2>2 DEF Key
<1>2. CASE D \notin Pair
  <2>1. PICK k \in Approval \cup Item : D = {k}
    BY <1>2
  <2>2. k \notin Claim
    BY StoreAssumption
  <2> QED BY <1>2, <2>1, <2>2 DEF Key
<1> QED BY <1>1, <1>2

(* What each call does and answers.                                        *)
LEMMA RowsAfterCall ==
    ASSUME NEW r, NEW c \in Calls
    PROVE  /\ c.op \in {"get", "list", "append"} => RowsAfter(r, c) = r
           /\ c.op = "set" => RowsAfter(r, c) = [r EXCEPT ![c.key] = c.value]
           /\ c.op = "delete" => RowsAfter(r, c) = [r EXCEPT ![c.key] = None]
           /\ c.op = "claim" => RowsAfter(r, c) =
                 IF MayClaim(r[c.key]) THEN [r EXCEPT ![c.key] = c.value] ELSE r
           /\ c.op = "transition" => RowsAfter(r, c) =
                 IF Holds(r, c)
                 THEN [k \in Key |-> IF k \in DOMAIN c.writes THEN c.writes[k] ELSE r[k]]
                 ELSE r
BY CallShape DEF RowsAfter

LEMMA AnswerOfCall ==
    ASSUME NEW r, NEW taken, NEW c \in Calls
    PROVE  /\ c.op = "get" => AnswerOf(r, taken, c) = r[c.key]
           /\ c.op = "set" => AnswerOf(r, taken, c) = "done"
           /\ c.op = "delete" => AnswerOf(r, taken, c) = IF r[c.key] # None THEN "yes" ELSE "no"
           /\ c.op = "claim" => AnswerOf(r, taken, c) = IF MayClaim(r[c.key]) THEN None ELSE r[c.key]
           /\ c.op = "transition" => AnswerOf(r, taken, c) = IF Holds(r, c) THEN "yes" ELSE "no"
           /\ c.op = "append" => AnswerOf(r, taken, c) = IF c.id \in taken THEN "error" ELSE "done"
BY CallShape DEF AnswerOf

LEMMA CallTypes ==
    ASSUME NEW r \in Rows, NEW taken \in SUBSET Id, NEW c \in Calls
    PROVE  /\ RowsAfter(r, c) \in Rows
           /\ c.op # "list" => AnswerOf(r, taken, c) \in Answer
           /\ IdsAfter(taken, c) \in SUBSET Id
<1>1. RowsAfter(r, c) \in Rows
  <2>1. CASE c.op \in {"get", "list", "append"}
    BY <2>1, RowsAfterCall
  <2>2. CASE c.op = "set"
    BY <2>2, RowsAfterCall, CallShape DEF Rows
  <2>3. CASE c.op = "delete"
    BY <2>3, RowsAfterCall DEF Rows
  <2>4. CASE c.op = "claim"
    BY <2>4, RowsAfterCall, CallShape DEF Rows
  <2>5. CASE c.op = "transition"
    <3>1. \A k \in DOMAIN c.writes : c.writes[k] \in Status
      BY <2>5, CallShape
    <3>2. [k \in Key |-> IF k \in DOMAIN c.writes THEN c.writes[k] ELSE r[k]] \in Rows
      BY <3>1 DEF Rows
    <3> QED BY <2>5, <3>2, RowsAfterCall
  <2> QED BY <2>1, <2>2, <2>3, <2>4, <2>5, CallShape
<1>2. c.op # "list" => AnswerOf(r, taken, c) \in Answer
  <2>1. c.op \in {"get", "claim"} => r[c.key] \in Status \cup {None}
    BY CallShape DEF Rows, Key
  <2> QED BY <2>1, AnswerOfCall, CallShape DEF Answer
<1>3. IdsAfter(taken, c) \in SUBSET Id
    BY CallShape DEF IdsAfter
<1> QED BY <1>1, <1>2, <1>3

-----------------------------------------------------------------------------
(* Where a process is in its call, and who is in a transaction.            *)
Common == {"idle", "called", "answered"}
RedisLabels == {"watching", "reading", "executing", "indexing", "unindexing", "pushing", "getting"}
SqliteLabels == {"creating", "inserting", "migrating", "migrated", "rolling back", "begun",
                 "approved", "committing"}
ThreadLabels == {"locked", "writing", "unlocking"}

Labels == Common \cup RedisLabels \cup SqliteLabels \cup ThreadLabels

Types == StoreTypeOK /\ at \in [Proc -> Labels]

(* Labels before a call is answered, and those that have the lock.         *)
Waiting == {"idle", "called", "watching", "reading", "executing", "getting", "creating", "inserting",
            "migrating", "migrated", "begun", "approved", "committing", "locked", "writing"}
Locked == {"inserting", "migrated", "rolling back", "begun", "approved", "committing"} \cup ThreadLabels

Double(c) == c.op = "transition" /\ \E k, l \in DOMAIN c.writes : k # l

Suits(c, w) ==
    /\ w \in {"watching", "executing"} => c.op \in {"transition", "claim"}
    /\ w \in {"reading", "approved", "writing"} => Double(c)
    /\ w = "begun" => c.op = "claim" \/ Double(c)
    /\ w = "indexing" => c.op = "set" /\ c.key \in Item
    /\ w = "unindexing" => c.op = "delete"
    /\ w = "pushing" => c.op = "append"
    /\ w = "getting" => c.op = "list"
    /\ w = "committing" => c.op \notin {"get", "list"}

Controlled(s, holds, c, w, a) ==
    /\ w \in Common \cup (CASE s = "redis" -> RedisLabels [] s = "sqlite" -> SqliteLabels
                            [] s = "memory" -> ThreadLabels)
    /\ c = None <=> w = "idle"
    /\ a = "none yet" <=> w \in Waiting
    /\ holds <=> w \in Locked
    /\ Suits(c, w)

Control(p) == Controlled(store, lock = p, call[p], at[p], answer[p])

ControlInv == Types /\ \A p \in Proc : Control(p)

(* A process takes a step of its call: it goes to w and has the answer a.  *)
LEMMA StepFrame ==
    ASSUME ControlInv, NEW p \in Proc, NEW w \in Labels, Goto(p, w),
           NEW a \in Answer \cup {"none yet"}, (UNCHANGED answer /\ a = answer[p]) \/ Replied(p, a),
           UNCHANGED <<store, call, calls, settled>>, rows' \in Rows, index' \in Index,
           ids' \in SUBSET Id, records' \in Seq(Id),
           database' \in [tables: SUBSET {"base", "memory"}, version: 0 .. 2],
           lock' \in Proc \cup {None}, \A q \in Proc : q # p => (lock' = q <=> lock = q),
           local' \in [Proc -> Local],
           told' \in [Proc -> [always: SUBSET Item, sometime: SUBSET Item, alone: BOOLEAN]],
           NEW holds \in BOOLEAN, (lock' = p) <=> holds,
           Controlled(store, holds, call[p], w, a)
    PROVE  /\ ControlInv'
           /\ at'[p] = w /\ answer'[p] = a
           /\ \A q \in Proc : q # p => at'[q] = at[q] /\ answer'[q] = answer[q]
<1>1. Types
    BY DEF ControlInv
<1>2. /\ at' \in [Proc -> Labels] /\ at'[p] = w
      /\ \A q \in Proc : q # p => at'[q] = at[q]
    BY <1>1 DEF Goto, Types
<1>3. /\ answer' \in [Proc -> Answer \cup {"none yet"}] /\ answer'[p] = a
      /\ \A q \in Proc : q # p => answer'[q] = answer[q]
  <2>1. answer \in [Proc -> Answer \cup {"none yet"}]
    BY <1>1 DEF Types, StoreTypeOK
  <2>2. CASE UNCHANGED answer /\ a = answer[p]
    BY <2>1, <2>2
  <2>3. CASE Replied(p, a)
    BY <2>1, <2>3 DEF Replied
  <2> QED BY <2>2, <2>3
<1>4. Types'
    BY <1>1, <1>2, <1>3 DEF Types, StoreTypeOK
<1>5. Control(p)'
    BY <1>2, <1>3 DEF Control, Controlled
<1>6. ASSUME NEW q \in Proc, q # p PROVE Control(q)'
  <2>1. /\ store' = store /\ call'[q] = call[q] /\ at'[q] = at[q] /\ answer'[q] = answer[q]
        /\ (lock' = q <=> lock = q) /\ Control(q)
    BY <1>2, <1>3, <1>6 DEF ControlInv
  <2> QED BY <2>1 DEF Control, Controlled
<1> QED BY <1>2, <1>3, <1>4, <1>5, <1>6 DEF ControlInv

(* ... and leaves the lock and the database alone, or the data.            *)
LEMMA TypesParts ==
    ASSUME ControlInv
    PROVE  /\ store \in {"redis", "sqlite", "memory"} /\ rows \in Rows /\ index \in Index
           /\ ids \in SUBSET Id /\ records \in Seq(Id)
           /\ database \in [tables: SUBSET {"base", "memory"}, version: 0 .. 2]
           /\ lock \in Proc \cup {None}
           /\ call \in [Proc -> Calls \cup {None}]
           /\ answer \in [Proc -> Answer \cup {"none yet"}]
           /\ local \in [Proc -> Local] /\ calls \in 0 .. MaxCalls /\ settled \in SUBSET Item
           /\ told \in [Proc -> [always: SUBSET Item, sometime: SUBSET Item, alone: BOOLEAN]]
           /\ at \in [Proc -> Labels]
BY DEF ControlInv, Types, StoreTypeOK

LEMMA OwnTypes ==
    ASSUME ControlInv, NEW p \in Proc
    PROVE  /\ local[p] \in Local /\ local[p].rows \in Rows /\ local[p].index \in Index
           /\ local[p].clean \in BOOLEAN /\ local[p].items \in SUBSET Item
           /\ local[p].found \in SUBSET Item /\ local[p].open \in {"no", "yes", "read only"}
           /\ local[p].version \in 0 .. 2
           /\ call[p] \in Calls \cup {None}
           /\ at[p] # "idle" => call[p] \in Calls
           /\ answer[p] \in Answer \cup {"none yet"}
           /\ Control(p)
<1>1. local[p] \in Local
    BY TypesParts
<1>2. call[p] \in Calls \cup {None} /\ answer[p] \in Answer \cup {"none yet"}
    BY TypesParts
<1>3. Control(p)
    BY DEF ControlInv
<1>4. at[p] # "idle" => call[p] \in Calls
    BY <1>2, <1>3 DEF Control, Controlled
<1> QED BY <1>1, <1>2, <1>3, <1>4 DEF Local

LEMMA PublishTyped ==
    ASSUME ControlInv, NEW r \in Rows, Publish(r)
    PROVE  /\ rows' = r
           /\ told' \in [Proc -> [always: SUBSET Item, sometime: SUBSET Item, alone: BOOLEAN]]
<1>1. Present(r) \in SUBSET Item
    BY DEF Present
<1>2. ASSUME NEW q \in Proc
      PROVE  [told[q] EXCEPT !.sometime = told[q].sometime \cup Present(r)]
                \in [always: SUBSET Item, sometime: SUBSET Item, alone: BOOLEAN]
    BY <1>1, TypesParts
<1> QED BY <1>1, <1>2, TypesParts DEF Publish

(* What a process keeps when its call is over.                             *)
LEMMA NoLocalTyped == NoLocal \in Local /\ NoLocal.open = "no"
<1>1. NoLocal \in Local
  <2>1. [k \in Key |-> None] \in Rows /\ [i \in Item |-> None] \in Index
    BY DEF Rows, Index
  <2> DEFINE r == [k \in Key |-> None]
             x == [i \in Item |-> None]
  <2>2. r \in Rows /\ x \in Index
    BY <2>1
  <2> HIDE DEF r, x
  <2>4. {} \in SUBSET Item /\ 0 \in 0 .. 2 /\ TRUE \in BOOLEAN /\ "no" \in {"no", "yes", "read only"}
    OBVIOUS
  <2>3. [rows |-> r, index |-> x, clean |-> TRUE, items |-> {}, found |-> {}, open |-> "no",
         version |-> 0] \in Local
    BY <2>2, <2>4 DEF Local
  <2> QED BY <2>3 DEF NoLocal, r, x
<1> QED BY <1>1 DEF NoLocal

LEMMA OverTyped ==
    ASSUME NEW l \in Local
    PROVE  Over(l) \in Local /\ NoLocal \in Local /\ Over(l).open = l.open /\ NoLocal.open = "no"
<1>1. NoLocal \in Local
    BY NoLocalTyped
<1>2. l.open \in {"no", "yes", "read only"}
    BY DEF Local
<1>3. Over(l) \in Local /\ Over(l).open = l.open
    BY <1>1, <1>2 DEF Over, Local
<1> QED BY <1>1, <1>3 DEF NoLocal

-----------------------------------------------------------------------------
(* Control of each action.                                                 *)
ToldType == [Proc -> [always: SUBSET Item, sometime: SUBSET Item, alone: BOOLEAN]]

(* A step by which p goes to w and has the answer a, and that has to do    *)
(* with neither the lock nor the schema.                                   *)
Moved(p, w, a) ==
    /\ Goto(p, w)
    /\ a \in Answer \cup {"none yet"} /\ ((UNCHANGED answer /\ a = answer[p]) \/ Replied(p, a))
    /\ UNCHANGED <<store, call, calls, settled, lock, database>>
    /\ rows' \in Rows /\ index' \in Index /\ ids' \in SUBSET Id /\ records' \in Seq(Id)
    /\ local' \in [Proc -> Local] /\ told' \in ToldType
    /\ Controlled(store, lock = p, call[p], w, a)

LEMMA Moves ==
    ASSUME ControlInv, NEW p \in Proc, NEW w, NEW a, Moved(p, w, a)
    PROVE  /\ ControlInv'
           /\ at'[p] = w /\ answer'[p] = a
           /\ \A q \in Proc : q # p => at'[q] = at[q] /\ answer'[q] = answer[q]
<1>1. /\ database' \in [tables: SUBSET {"base", "memory"}, version: 0 .. 2]
      /\ lock' \in Proc \cup {None} /\ \A q \in Proc : q # p => (lock' = q <=> lock = q)
      /\ lock' = p <=> lock = p
    BY TypesParts DEF Moved
<1>2. w \in Labels
    BY TypesParts DEF Moved, Controlled, Labels
<1> QED BY <1>1, <1>2, StepFrame DEF ToldType, Moved

LEMMA PutTyped ==
    ASSUME ControlInv, NEW p \in Proc, NEW r \in Rows, Put(p, r)
    PROVE  /\ rows' = r /\ told' \in ToldType /\ local' \in [Proc -> Local]
           /\ local'[p] = local[p]
           /\ \A q \in Proc : /\ local'[q] = [local[q] EXCEPT !.clean = local'[q].clean]
                              /\ local'[q].clean => local[q].clean
<1>1. Publish(r)
    BY DEF Put
<1>2. \A l \in Local, b \in BOOLEAN : /\ [l EXCEPT !.clean = b] \in Local
                                      /\ [l EXCEPT !.clean = b].clean = b
                                      /\ l = [l EXCEPT !.clean = l.clean]
    BY DEF Local
<1> DEFINE keys == {k \in Key : rows[k] # None \/ r[k] # None} \cap Writes(call[p])
           mine(q) == IF q = p THEN local[p].clean ELSE local[q].clean /\ Watched(q) \cap keys = {}
<1>3. local' = [q \in Proc |-> IF q = p THEN local[p] ELSE [local[q] EXCEPT !.clean = mine(q)]]
    BY DEF Put
<1>4. \A q \in Proc : local[q] \in Local /\ mine(q) \in BOOLEAN /\ (mine(q) => local[q].clean)
    BY OwnTypes DEF Local
<1> HIDE DEF mine
<1>5. ASSUME NEW q \in Proc
      PROVE  /\ local'[q] \in Local
             /\ local'[q] = [local[q] EXCEPT !.clean = local'[q].clean]
             /\ local'[q].clean => local[q].clean
  <2>1. CASE q = p
    BY <1>2, <1>3, <1>4, <2>1
  <2>2. CASE q # p
    <3>1. local'[q] = [local[q] EXCEPT !.clean = mine(q)]
      BY <1>3, <2>2
    <3>2. local'[q].clean = mine(q) /\ local'[q] \in Local
      BY <1>2, <1>4, <3>1
    <3> QED BY <1>4, <3>1, <3>2
  <2> QED BY <2>1, <2>2
<1> QED BY <1>1, <1>3, <1>5, PublishTyped DEF ToldType

LEMMA RedisKeyControl ==
    ASSUME ControlInv, NEW p \in Proc,
           RedisGet(p) \/ RedisSet(p) \/ RedisAddMember(p) \/ RedisDelete(p) \/ RedisRemoveMember(p)
    PROVE  ControlInv'
<1>1. call[p] \in Calls /\ Control(p)
    BY OwnTypes DEF RedisGet, RedisSet, RedisAddMember, RedisDelete, RedisRemoveMember, Called, Is
<1> DEFINE c == call[p]
<1>2. CASE RedisGet(p)
  <2>1. rows[c.key] \in Status \cup {None} /\ c.op = "get" /\ store = "redis" /\ at[p] = "called"
    BY <1>1, <1>2, TypesParts, CallShape DEF RedisGet, Called, Is, Rows
  <2>2. rows[c.key] # "none yet" /\ rows[c.key] \in Answer
    BY <2>1, StoreAssumption DEF Status, Answer
  <2>3. Controlled(store, lock = p, c, "answered", rows[c.key])
    BY <1>1, <2>1, <2>2 DEF Control, Controlled, Suits, Common, Waiting, Locked, ThreadLabels
  <2>4. Moved(p, "answered", rows[c.key])
    BY <1>2, <2>2, <2>3, TypesParts DEF RedisGet, RedisOthers, ToldType, Moved
  <2> QED BY <2>4, Moves
<1>3. CASE RedisSet(p)
  <2>1. /\ c.op = "set" /\ store = "redis" /\ at[p] = "called"
        /\ [rows EXCEPT ![c.key] = c.value] \in Rows
    BY <1>1, <1>3, TypesParts, CallShape DEF RedisSet, Called, Is, Rows
  <2>2. PICK w \in {"indexing", "answered"} : Goto(p, w) /\ (w = "indexing" => c.key \in Item)
    BY <1>3 DEF RedisSet
  <2>3. Controlled(store, lock = p, c, w, "done")
    BY <1>1, <2>1, <2>2
       DEF Control, Controlled, Suits, Common, Waiting, Locked, ThreadLabels, RedisLabels
  <2>4. /\ rows' \in Rows /\ told' \in ToldType /\ local' \in [Proc -> Local]
        /\ Replied(p, "done") /\ UNCHANGED <<store, call, calls, settled, lock, database>>
        /\ UNCHANGED <<index, ids, records>>
    BY <1>3, <2>1, PutTyped DEF RedisSet, RedisOthers
  <2>5. "done" \in Answer
    BY DEF Answer
  <2>6. Moved(p, w, "done")
    BY <2>2, <2>3, <2>4, <2>5, TypesParts DEF Moved
  <2> QED BY <2>6, Moves
<1>4. CASE RedisAddMember(p)
  <2>1. at[p] = "indexing" /\ store = "redis" /\ c.key \in Item
    BY <1>1, <1>4, TypesParts
       DEF RedisAddMember, Control, Controlled, Suits, Common, SqliteLabels, ThreadLabels
  <2>2. Controlled(store, lock = p, c, "answered", answer[p])
    BY <1>1, <2>1
       DEF Control, Controlled, Suits, Common, Waiting, Locked, ThreadLabels, RedisLabels
  <2>3. index' \in Index
    BY <1>4, <2>1, TypesParts DEF RedisAddMember, Index
  <2>4. Moved(p, "answered", answer[p])
    BY <1>4, <2>2, <2>3, TypesParts, OwnTypes DEF RedisAddMember, RedisOthers, ToldType, Moved
  <2> QED BY <2>4, Moves
<1>5. CASE RedisDelete(p)
  <2>1. /\ c.op = "delete" /\ store = "redis" /\ at[p] = "called"
        /\ [rows EXCEPT ![c.key] = None] \in Rows
    BY <1>1, <1>5, TypesParts, CallShape DEF RedisDelete, Called, Is, Rows
  <2>2. PICK a \in {"yes", "no"} : Replied(p, a)
    BY <1>5 DEF RedisDelete
  <2>3. Controlled(store, lock = p, c, "unindexing", a)
    BY <1>1, <2>1, <2>2
       DEF Control, Controlled, Suits, Common, Waiting, Locked, ThreadLabels, RedisLabels
  <2>4. /\ rows' \in Rows /\ told' \in ToldType /\ local' \in [Proc -> Local]
        /\ Goto(p, "unindexing") /\ UNCHANGED <<store, call, calls, settled, lock, database>>
        /\ UNCHANGED <<index, ids, records>>
    BY <1>5, <2>1, PutTyped DEF RedisDelete, RedisOthers
  <2>5. a \in Answer
    BY DEF Answer
  <2>6. Moved(p, "unindexing", a)
    BY <2>2, <2>3, <2>4, <2>5, TypesParts DEF Moved
  <2> QED BY <2>6, Moves
<1>6. CASE RedisRemoveMember(p)
  <2>1. at[p] = "unindexing" /\ store = "redis" /\ c.key \in Item
    BY <1>1, <1>6, CallShape, TypesParts
       DEF RedisRemoveMember, Control, Controlled, Suits, Common, SqliteLabels, ThreadLabels
  <2>2. Controlled(store, lock = p, c, "answered", answer[p])
    BY <1>1, <2>1
       DEF Control, Controlled, Suits, Common, Waiting, Locked, ThreadLabels, RedisLabels
  <2>3. index' \in Index
    BY <1>6, <2>1, TypesParts DEF RedisRemoveMember, Index
  <2>4. Moved(p, "answered", answer[p])
    BY <1>6, <2>2, <2>3, TypesParts, OwnTypes DEF RedisRemoveMember, RedisOthers, ToldType, Moved
  <2> QED BY <2>4, Moves
<1> QED BY <1>2, <1>3, <1>4, <1>5, <1>6

LEMMA RedisTransitionControl ==
    ASSUME ControlInv, NEW p \in Proc,
           RedisWatch(p) \/ RedisExec(p) \/ \E k \in Key : RedisRead(p, k)
    PROVE  ControlInv'
<1> DEFINE c == call[p]
<1>1. Control(p) /\ local[p] \in Local /\ (at[p] # "idle" => c \in Calls)
    BY OwnTypes
<1>2. CASE RedisWatch(p)
  <2>1. c.op \in {"transition", "claim"} /\ store = "redis" /\ at[p] = "called"
    BY <1>2 DEF RedisWatch
  <2>2. Controlled(store, lock = p, c, "watching", answer[p])
    BY <1>1, <2>1 DEF Control, Controlled, Suits, Common, Waiting, Locked, ThreadLabels, RedisLabels
  <2>3. [local[p] EXCEPT !.clean = TRUE] \in Local
    BY <1>1 DEF Local
  <2>4. local' \in [Proc -> Local]
    BY <1>2, <2>3, TypesParts DEF RedisWatch
  <2>5. Moved(p, "watching", answer[p])
    BY <1>2, <2>2, <2>4, TypesParts, OwnTypes DEF RedisWatch, RedisOthers, ToldType, Moved
  <2> QED BY <2>5, Moves
<1>3. ASSUME NEW k \in Key, RedisRead(p, k) PROVE ControlInv'
  <2>1. /\ at[p] \in {"watching", "reading"} /\ k \in Writes(c) /\ c \in Calls
        /\ store = "redis" /\ c.op \in {"transition", "claim"} /\ answer[p] = "none yet"
        /\ at[p] = "reading" => Double(c)
        /\ c # None /\ lock # p
    BY <1>1, <1>3, TypesParts
       DEF RedisRead, Control, Controlled, Suits, Common, Waiting, Locked, ThreadLabels, SqliteLabels,
           Double
  <2>2. PICK w \in {"answered", "reading", "executing"}, a \in {answer[p], "no", rows[k]} :
           /\ Goto(p, w)
           /\ IF w = "answered" THEN Replied(p, a) /\ a # answer[p]
                                ELSE UNCHANGED answer /\ a = answer[p]
           /\ w = "reading" => at[p] = "watching" /\ Writes(c) # {k}
    <3>1. rows[k] \in Status \cup {None}
      BY TypesParts DEF Rows
    <3>2. rows[k] # "none yet"
      BY <3>1, StoreAssumption DEF Status
    <3>3. CASE Refuses(p, k)
      <4>1. CASE c.op = "claim"
        BY <1>3, <2>1, <3>2, <3>3, <4>1 DEF RedisRead
      <4>2. CASE c.op # "claim"
        BY <1>3, <2>1, <3>3, <4>2 DEF RedisRead
      <4> QED BY <4>1, <4>2
    <3>4. CASE ~Refuses(p, k)
      BY <1>3, <2>1, <3>4 DEF RedisRead
    <3> QED BY <3>3, <3>4
  <2>3. w = "reading" => Double(c)
    <3>1. SUFFICES ASSUME w = "reading" PROVE Double(c)
      OBVIOUS
    <3>2. c.op = "transition" /\ k \in DOMAIN c.writes /\ DOMAIN c.writes # {k}
      BY <2>1, <2>2, <3>1 DEF Writes
    <3> QED BY <3>2 DEF Double
  <2>4. a \in Answer \cup {"none yet"} /\ (w = "answered" <=> a # "none yet")
    <3>1. rows[k] \in Status \cup {None}
      BY TypesParts DEF Rows
    <3> QED BY <2>1, <2>2, <3>1 DEF Answer
  <2>5. Controlled(store, lock = p, c, w, a)
    BY <2>1, <2>2, <2>3, <2>4, <1>1
       DEF Control, Controlled, Suits, Common, Waiting, Locked, ThreadLabels, RedisLabels
  <2>6. Moved(p, w, a)
    BY <1>3, <2>2, <2>4, <2>5, TypesParts DEF RedisRead, RedisOthers, ToldType, Moved
  <2> QED BY <2>6, Moves
<1>4. CASE RedisExec(p)
  <2>1. /\ at[p] = "executing" /\ c \in Calls /\ store = "redis" /\ c.op \in {"transition", "claim"}
        /\ answer[p] = "none yet" /\ c # None /\ lock # p
    BY <1>1, <1>4, TypesParts
       DEF RedisExec, Executed, Control, Controlled, Suits, Common, Waiting, Locked, ThreadLabels,
           SqliteLabels
  <2>2. CASE Executed(p)
    <3>1. Written(p) \in Rows
      <4>1. CASE c.op = "claim"
        BY <2>1, <4>1, CallShape, TypesParts DEF Written, Rows
      <4>2. CASE c.op = "transition"
        <5>1. \A k \in DOMAIN c.writes : c.writes[k] \in Status
          BY <2>1, <4>2, CallShape
        <5> QED BY <4>2, <5>1, TypesParts DEF Written, Rows
      <4> QED BY <2>1, <4>1, <4>2
    <3>2. Members(p) \in Index
      BY TypesParts DEF Members, Index
    <3>3. PICK a \in {None, "yes"} : Replied(p, a)
      BY <2>2 DEF Executed
    <3>4. a \in Answer /\ a # "none yet"
      BY <3>3, StoreAssumption DEF Answer
    <3>5. Controlled(store, lock = p, c, "answered", a)
      BY <2>1, <3>4 DEF Controlled, Suits, Common, Waiting, Locked, ThreadLabels
    <3>6. rows' \in Rows /\ told' \in ToldType /\ local' \in [Proc -> Local]
      BY <2>2, <3>1, PutTyped DEF Executed
    <3>7. Moved(p, "answered", a)
      BY <2>2, <3>2, <3>3, <3>4, <3>5, <3>6, TypesParts DEF Executed, RedisOthers, Moved
    <3> QED BY <3>7, Moves
  <2>3. CASE ~Executed(p)
    <3>1. Controlled(store, lock = p, c, "called", answer[p])
      BY <2>1 DEF Controlled, Suits, Common, Waiting, Locked, ThreadLabels
    <3>2. Moved(p, "called", answer[p])
      BY <1>4, <2>3, <3>1, TypesParts, OwnTypes DEF RedisExec, RedisOthers, ToldType, Moved
    <3> QED BY <3>2, Moves
  <2> QED BY <2>2, <2>3
<1> QED BY <1>2, <1>3, <1>4

LEMMA RedisListControl ==
    ASSUME ControlInv, NEW p \in Proc,
           \/ RedisTakeId(p) \/ RedisPush(p) \/ RedisMembers(p) \/ RedisListed(p)
           \/ \E i \in Item : RedisGetMember(p, i)
    PROVE  ControlInv'
<1> DEFINE c == call[p]
<1>1. Control(p) /\ local[p] \in Local /\ (at[p] # "idle" => c \in Calls)
    BY OwnTypes
<1> DEFINE Labelled == Control(p) /\ store \in {"redis", "sqlite", "memory"}
<1>2. Labelled
    BY <1>1, TypesParts
<1>3. CASE RedisTakeId(p)
  <2>1. c.op = "append" /\ store = "redis" /\ at[p] = "called" /\ c \in Calls
    BY <1>1, <1>3 DEF RedisTakeId, Called, Is
  <2>2. PICK w \in {"answered", "pushing"}, a \in {"error", "done"} : Goto(p, w) /\ Replied(p, a)
    BY <1>3 DEF RedisTakeId
  <2>3. Controlled(store, lock = p, c, w, a)
    BY <1>1, <2>1, <2>2
       DEF Control, Controlled, Suits, Common, Waiting, Locked, ThreadLabels, RedisLabels
  <2>4. ids' \in SUBSET Id
    BY <1>3, <2>1, CallShape, TypesParts DEF RedisTakeId
  <2>5. a \in Answer
    BY DEF Answer
  <2>6. Moved(p, w, a)
    BY <1>3, <2>2, <2>3, <2>4, <2>5, TypesParts DEF RedisTakeId, RedisOthers, ToldType, Moved
  <2> QED BY <2>6, Moves
<1>4. CASE RedisPush(p)
  <2>1. c.op = "append" /\ store = "redis" /\ at[p] = "pushing" /\ c \in Calls
    BY <1>1, <1>2, <1>4
       DEF RedisPush, Control, Controlled, Suits, Common, SqliteLabels, ThreadLabels
  <2>2. Controlled(store, lock = p, c, "answered", answer[p])
    BY <1>1, <2>1 DEF Control, Controlled, Suits, Common, Waiting, Locked, ThreadLabels
  <2>3. records' \in Seq(Id)
    <3>1. records' = Append(records, c.id) /\ c.id \in Id /\ records \in Seq(Id)
      BY <1>4, <2>1, CallShape, TypesParts DEF RedisPush
    <3> QED BY <3>1
  <2>4. Moved(p, "answered", answer[p])
    BY <1>4, <2>2, <2>3, TypesParts, OwnTypes DEF RedisPush, RedisOthers, ToldType, Moved
  <2> QED BY <2>4, Moves
<1>5. CASE RedisMembers(p)
  <2>1. c.op = "list" /\ store = "redis" /\ at[p] = "called"
    BY <1>5 DEF RedisMembers, Called, Is
  <2>2. Controlled(store, lock = p, c, "getting", answer[p])
    BY <1>1, <2>1 DEF Control, Controlled, Suits, Common, Waiting, Locked, ThreadLabels, RedisLabels
  <2>3. [local[p] EXCEPT !.items = {i \in Item : index[i] # None}] \in Local
    BY <1>1 DEF Local
  <2>4. local' \in [Proc -> Local]
    BY <1>5, <2>3, TypesParts DEF RedisMembers
  <2>5. Moved(p, "getting", answer[p])
    BY <1>5, <2>2, <2>4, TypesParts, OwnTypes DEF RedisMembers, RedisOthers, ToldType, Moved
  <2> QED BY <2>5, Moves
<1>6. CASE RedisListed(p)
  <2>1. c.op = "list" /\ store = "redis" /\ at[p] = "getting"
    BY <1>1, <1>2, <1>6
       DEF RedisListed, Control, Controlled, Suits, Common, SqliteLabels, ThreadLabels
  <2>2. Controlled(store, lock = p, c, "answered", "done")
    BY <1>1, <2>1 DEF Control, Controlled, Suits, Common, Waiting, Locked, ThreadLabels
  <2>3. "done" \in Answer
    BY DEF Answer
  <2>4. Moved(p, "answered", "done")
    BY <1>6, <2>2, <2>3, TypesParts DEF RedisListed, RedisOthers, ToldType, Moved
  <2> QED BY <2>4, Moves
<1>7. ASSUME NEW i \in Item, RedisGetMember(p, i) PROVE ControlInv'
  <2>1. at[p] = "getting" /\ store = "redis"
    BY <1>1, <1>2, <1>7 DEF RedisGetMember, Control, Controlled, Common, SqliteLabels, ThreadLabels
  <2>2. local[p].items \in SUBSET Item /\ local[p].found \in SUBSET Item
    BY OwnTypes
  <2>3. PICK found \in SUBSET Item :
           local' = [local EXCEPT ![p].items = @ \ {i}, ![p].found = found]
    BY <1>7, <2>2 DEF RedisGetMember
  <2>4. [local[p] EXCEPT !.items = local[p].items \ {i}, !.found = found] \in Local
    BY <1>1, <2>2 DEF Local
  <2>5. local' \in [Proc -> Local]
    BY <2>3, <2>4, TypesParts
  <2>6. UNCHANGED <<at, answer, store, call, calls, settled, lock, database, rows, index, ids, records, told>>
    BY <1>7 DEF RedisGetMember, RedisOthers
  <2> QED BY <2>5, <2>6, TypesParts DEF ControlInv, Control, Types, StoreTypeOK
<1> QED BY <1>3, <1>4, <1>5, <1>6, <1>7

LEMMA RedisControl ==
    ASSUME ControlInv, NEW p \in Proc, RedisStep(p)
    PROVE  ControlInv'
BY RedisKeyControl, RedisTransitionControl, RedisListControl DEF RedisStep

(* ... and one by which p takes or gives back the lock, or has it.         *)
Turned(p, w, a) ==
    /\ Goto(p, w)
    /\ a \in Answer \cup {"none yet"} /\ ((UNCHANGED answer /\ a = answer[p]) \/ Replied(p, a))
    /\ UNCHANGED <<store, call, calls, settled>>
    /\ rows' \in Rows /\ index' \in Index /\ ids' \in SUBSET Id /\ records' \in Seq(Id)
    /\ database' \in [tables: SUBSET {"base", "memory"}, version: 0 .. 2]
    /\ lock \in {None, p} /\ lock' \in {None, p}
    /\ local' \in [Proc -> Local] /\ told' \in ToldType
    /\ Controlled(store, lock' = p, call[p], w, a)

LEMMA Turns ==
    ASSUME ControlInv, NEW p \in Proc, NEW w, NEW a, Turned(p, w, a)
    PROVE  /\ ControlInv'
           /\ at'[p] = w /\ answer'[p] = a
           /\ \A q \in Proc : q # p => at'[q] = at[q] /\ answer'[q] = answer[q]
<1>0. None \notin Proc
    BY StoreAssumption
<1>1. /\ lock' \in Proc \cup {None} /\ \A q \in Proc : q # p => (lock' = q <=> lock = q)
      /\ lock' = p <=> lock' = p
    BY <1>0 DEF Turned
<1>2. w \in Labels
    BY TypesParts DEF Turned, Controlled, Labels
<1> QED BY <1>1, <1>2, StepFrame DEF ToldType, Turned

(* Where a process is tells the implementation.                            *)
LEMMA Where ==
    ASSUME ControlInv, NEW p \in Proc
    PROVE  /\ at[p] \in RedisLabels => store = "redis"
           /\ at[p] \in SqliteLabels => store = "sqlite"
           /\ at[p] \in ThreadLabels => store = "memory"
           /\ at[p] # "idle" => call[p] \in Calls /\ call[p] # None
           /\ at[p] \in Waiting <=> answer[p] = "none yet"
           /\ at[p] \in Locked <=> lock = p
           /\ Suits(call[p], at[p])
BY OwnTypes, TypesParts
   DEF Control, Controlled, Common, RedisLabels, SqliteLabels, ThreadLabels

LEMMA LocalTyped ==
    ASSUME NEW l \in Local
    PROVE  /\ \A r \in Rows, x \in Index : [l EXCEPT !.rows = r, !.index = x] \in Local
           /\ \A r \in Rows, x \in Index, b \in BOOLEAN :
                 [l EXCEPT !.rows = r, !.index = x, !.clean = b] \in Local
           /\ \A r \in Rows : [l EXCEPT !.rows = r] \in Local
           /\ \A r \in Rows, b \in BOOLEAN : [l EXCEPT !.clean = b, !.rows = r] \in Local
           /\ \A v \in 0 .. 2 : [l EXCEPT !.version = v] \in Local
           /\ \A o \in {"no", "yes", "read only"} : [l EXCEPT !.open = o] \in Local
           /\ \A o \in {"no", "yes", "read only"}, v \in 0 .. 2 :
                 [l EXCEPT !.open = o, !.version = v] \in Local
           /\ \A f \in SUBSET Item : [l EXCEPT !.found = f] \in Local
BY DEF Local

LEMMA SqliteSchemaControl ==
    ASSUME ControlInv, NEW p \in Proc,
           \/ CreateTables(p) \/ InsertVersion(p) \/ CommitVersion(p)
           \/ Migrate(p) \/ CommitMigration(p) \/ Rollback(p)
    PROVE  ControlInv'
<1> DEFINE c == call[p]
           Schema == [tables: SUBSET {"base", "memory"}, version: 0 .. 2]
<1>1. local[p] \in Local /\ rows \in Rows /\ index \in Index
    BY OwnTypes, TypesParts
<1>2. database \in Schema /\ database.tables \in SUBSET {"base", "memory"} /\ database.version \in 0 .. 2
    BY TypesParts
<1>3. ASSUME NEW l \in Local PROVE [local EXCEPT ![p] = l] \in [Proc -> Local]
    BY <1>3, TypesParts
<1>4. CASE CreateTables(p)
  <2>1. at[p] = "called" /\ store = "sqlite" /\ c # None /\ lock # p /\ answer[p] = "none yet"
    BY <1>4, Where DEF CreateTables, Waiting, Locked, ThreadLabels
  <2>2. Controlled(store, lock = p, c, "creating", answer[p])
    BY <2>1 DEF Controlled, Suits, Waiting, Locked, ThreadLabels, SqliteLabels
  <2>3. database' \in Schema
    BY <1>2, <1>4 DEF CreateTables
  <2>4. Controlled(store, lock = p, c, "creating", answer[p]) /\ "creating" \in Labels
    BY <2>2 DEF Labels, SqliteLabels
  <2>5. lock' = lock /\ \A q \in Proc : q # p => (lock' = q <=> lock = q)
    BY <1>4 DEF CreateTables
  <2>6. /\ Goto(p, "creating") /\ UNCHANGED answer /\ UNCHANGED <<store, call, calls, settled>>
        /\ UNCHANGED <<rows, index, ids, records, local, told>>
    BY <1>4 DEF CreateTables, SqliteOthers
  <2>7. answer[p] \in Answer \cup {"none yet"}
    BY OwnTypes
  <2> QED BY <2>3, <2>4, <2>5, <2>6, <2>7, StepFrame, TypesParts
<1>5. CASE InsertVersion(p)
  <2>1. at[p] = "creating" /\ store = "sqlite" /\ c # None /\ answer[p] = "none yet"
    BY <1>5, Where DEF InsertVersion, Waiting, SqliteLabels
  <2>2. Controlled(store, TRUE, c, "inserting", answer[p])
    BY <2>1 DEF Controlled, Suits, Waiting, Locked, ThreadLabels, SqliteLabels
  <2>3. PICK v \in 0 .. 2 : Locks(p, [local[p] EXCEPT !.version = v])
    BY <1>2, <1>5 DEF InsertVersion
  <2>4. [[local[p] EXCEPT !.version = v] EXCEPT !.rows = rows, !.index = index] \in Local
    BY <1>1, LocalTyped
  <2>5. local' \in [Proc -> Local] /\ lock = None /\ lock' = p
    BY <2>3, <2>4, <1>3 DEF Locks
  <2>6. Turned(p, "inserting", answer[p])
    BY <1>2, <1>5, <2>2, <2>5, TypesParts, OwnTypes DEF InsertVersion, SqliteOthers, ToldType, Turned
  <2> QED BY <2>6, Turns
<1>6. CASE CommitVersion(p)
  <2>1. at[p] = "inserting" /\ store = "sqlite" /\ c # None /\ answer[p] = "none yet" /\ lock = p
    BY <1>6, Where DEF CommitVersion, Waiting, SqliteLabels, Locked
  <2>2. PICK w \in {"called", "migrating"}, o \in {"yes", "no"} :
           Goto(p, w) /\ Unlocks([local[p] EXCEPT !.open = o], p)
    BY <1>6 DEF CommitVersion
  <2>3. lock' = None /\ None # p
    BY <2>2, StoreAssumption DEF Unlocks
  <2>4. Controlled(store, lock' = p, c, w, answer[p])
    BY <2>1, <2>2, <2>3 DEF Controlled, Suits, Common, Waiting, Locked, ThreadLabels, SqliteLabels
  <2>5. local' \in [Proc -> Local]
    BY <1>1, <1>3, <2>2, LocalTyped DEF Unlocks
  <2>6. database' \in Schema
    <3>1. local[p].version \in 0 .. 2
      BY OwnTypes
    <3> QED BY <1>2, <1>6, <3>1 DEF CommitVersion
  <2>7. Turned(p, w, answer[p])
    BY <1>6, <2>1, <2>2, <2>3, <2>4, <2>5, <2>6, TypesParts, OwnTypes
       DEF CommitVersion, SqliteOthers, ToldType, Turned
  <2> QED BY <2>7, Turns
<1>7. CASE Migrate(p)
  <2>1. at[p] = "migrating" /\ store = "sqlite" /\ c # None /\ answer[p] = "none yet"
    BY <1>7, Where DEF Migrate, Waiting, SqliteLabels
  <2>2. [local[p] EXCEPT !.rows = rows, !.index = index] \in Local
    BY <1>1, LocalTyped
  <2>3. local' \in [Proc -> Local] /\ lock = None /\ lock' = p
    BY <1>3, <1>7, <2>2 DEF Migrate, Locks
  <2>4. PICK w \in {"rolling back", "migrated"}, a \in {"error", "none yet"} :
           /\ Goto(p, w) /\ ((UNCHANGED answer /\ a = answer[p]) \/ Replied(p, a))
           /\ w = "migrated" <=> a = "none yet"
    BY <1>7, <2>1 DEF Migrate
  <2>5. Controlled(store, lock' = p, c, w, a)
    BY <2>1, <2>3, <2>4 DEF Controlled, Suits, Waiting, Locked, ThreadLabels, SqliteLabels
  <2>6. a \in Answer \cup {"none yet"}
    BY DEF Answer
  <2>7. Turned(p, w, a)
    BY <1>2, <1>7, <2>3, <2>4, <2>5, <2>6, TypesParts DEF Migrate, SqliteOthers, ToldType, Turned
  <2> QED BY <2>7, Turns
<1>8. CASE CommitMigration(p)
  <2>1. /\ at[p] = "migrated" /\ store = "sqlite" /\ c # None /\ answer[p] = "none yet"
        /\ lock = p
    BY <1>8, Where DEF CommitMigration, Waiting, SqliteLabels, Locked
  <2>2. lock' = None /\ None # p
    BY <1>8, StoreAssumption DEF CommitMigration, Unlocks
  <2>3. Controlled(store, lock' = p, c, "called", answer[p])
    BY <2>1, <2>2 DEF Controlled, Suits, Common, Waiting, Locked, ThreadLabels
  <2>4. local' \in [Proc -> Local]
    <3>1. [local[p] EXCEPT !.open = "yes", !.version = 2] \in Local
      <4>1. \A v \in 0 .. 2 : [local[p] EXCEPT !.open = "yes", !.version = v] \in Local
        BY <1>1 DEF Local
      <4>2. 2 \in 0 .. 2
        OBVIOUS
      <4> QED BY <4>1, <4>2
    <3> QED BY <1>3, <1>8, <3>1 DEF CommitMigration, Unlocks
  <2>5. database' \in Schema
    BY <1>2, <1>8 DEF CommitMigration
  <2>6. Turned(p, "called", answer[p])
    BY <1>8, <2>1, <2>2, <2>3, <2>4, <2>5, TypesParts, OwnTypes
       DEF CommitMigration, SqliteOthers, ToldType, Turned
  <2> QED BY <2>6, Turns
<1>9. CASE Rollback(p)
  <2>1. /\ at[p] = "rolling back" /\ store = "sqlite" /\ c # None /\ answer[p] # "none yet"
        /\ lock = p
    BY <1>9, Where DEF Rollback, Waiting, SqliteLabels, Locked
  <2>2. lock' = None /\ None # p
    BY <1>9, StoreAssumption DEF Rollback, Unlocks
  <2>3. Controlled(store, lock' = p, c, "answered", answer[p])
    BY <2>1, <2>2 DEF Controlled, Suits, Common, Waiting, Locked, ThreadLabels
  <2>4. local' \in [Proc -> Local]
    BY <1>1, <1>3, <1>9, OverTyped DEF Rollback, Unlocks
  <2>5. Turned(p, "answered", answer[p])
    BY <1>2, <1>9, <2>1, <2>2, <2>3, <2>4, TypesParts, OwnTypes
       DEF Rollback, SqliteOthers, ToldType, Turned
  <2> QED BY <2>5, Turns
<1> QED BY <1>4, <1>5, <1>6, <1>7, <1>8, <1>9

(* What a statement drafts is what its call does and answers, and keeps    *)
(* the full-text index exact.                                              *)
Promised(c, clean, a) ==
    /\ c.op \in {"set", "append"} => a = "done"
    /\ c.op = "claim" => a = None
    /\ c.op \in {"delete", "transition"} => a = IF clean THEN "yes" ELSE "no"

Exact(x, r) == \A i \in Item : x[i] = r[i]

Drafted(p, c, x, m) ==
    /\ Draft(p, RowsAfter(rows, c), x, m)
    /\ Promised(c, m, AnswerOf(rows, ids, c))
    /\ Exact(index, rows) => Exact(x, RowsAfter(rows, c))
    /\ c.op = "append" => c.id \notin ids
    /\ c.op \notin {"get", "list", "claim"} /\ ~Double(c)

DraftsIndex(p) == Upsert(p) \/ DeleteRow(p) \/ \E k \in Key : Update(p, k)

LEMMA SyncedTyped ==
    ASSUME NEW x \in Index, NEW r \in Rows, NEW k \in Key, NEW v \in Status \cup {None}
    PROVE  /\ Synced(x, k, v) \in Index
           /\ [r EXCEPT ![k] = v] \in Rows
           /\ Exact(x, r) => Exact(Synced(x, k, v), [r EXCEPT ![k] = v])
<1>1. Item \subseteq Key
    BY DEF Key
<1>2. Synced(x, k, v) \in Index /\ [r EXCEPT ![k] = v] \in Rows
    BY DEF Synced, Index, Rows
<1>3. ASSUME Exact(x, r) PROVE Exact(Synced(x, k, v), [r EXCEPT ![k] = v])
    BY <1>1, <1>3 DEF Exact, Synced, Index, Rows
<1> QED BY <1>2, <1>3

LEMMA StatementsDraft ==
    ASSUME ControlInv, NEW p \in Proc,
           DraftsIndex(p) \/ (InsertRecord(p) /\ call[p].id \notin ids)
    PROVE  /\ store = "sqlite" /\ at[p] = "called" /\ Opened(p)
           /\ \E x \in Index, m \in BOOLEAN : Drafted(p, call[p], x, m)
<1> DEFINE c == call[p]
<1>1. store = "sqlite" /\ at[p] = "called" /\ Opened(p)
    BY DEF DraftsIndex, Upsert, DeleteRow, Update, InsertRecord, Called, Is
<1>2. c \in Calls /\ rows \in Rows /\ index \in Index
    BY <1>1, Where, TypesParts
<1>3. CASE Upsert(p)
  <2>1. c.op = "set" /\ Draft(p, [rows EXCEPT ![c.key] = c.value], Synced(index, c.key, c.value), TRUE)
    BY <1>3 DEF Upsert, Called, Is
  <2>2. Drafted(p, c, Synced(index, c.key, c.value), TRUE)
    <3>1. RowsAfter(rows, c) = [rows EXCEPT ![c.key] = c.value]
      BY <1>2, <2>1, RowsAfterCall
    <3>2. Promised(c, TRUE, AnswerOf(rows, ids, c))
      BY <1>2, <2>1, AnswerOfCall DEF Promised
    <3>3. Exact(index, rows) =>
             Exact(Synced(index, c.key, c.value), [rows EXCEPT ![c.key] = c.value])
      BY <1>2, <2>1, SyncedTyped, CallShape
    <3> QED BY <2>1, <3>1, <3>2, <3>3 DEF Drafted, Double
  <2>3. Synced(index, c.key, c.value) \in Index
    BY <1>2, <2>1, SyncedTyped, CallShape
  <2> QED BY <1>1, <2>2, <2>3
<1>4. CASE DeleteRow(p)
  <2>1. /\ c.op = "delete" /\ c.key \in Key
        /\ Draft(p, [rows EXCEPT ![c.key] = None], Synced(index, c.key, None), rows[c.key] # None)
    BY <1>2, <1>4, CallShape DEF DeleteRow, Called, Is, Key
  <2> DEFINE m == rows[c.key] # None
  <2>2. Drafted(p, c, Synced(index, c.key, None), m)
    <3>1. RowsAfter(rows, c) = [rows EXCEPT ![c.key] = None]
      BY <1>2, <2>1, RowsAfterCall
    <3>2. Promised(c, m, AnswerOf(rows, ids, c))
      BY <1>2, <2>1, AnswerOfCall DEF Promised
    <3>3. Exact(index, rows) => Exact(Synced(index, c.key, None), [rows EXCEPT ![c.key] = None])
      BY <1>2, <2>1, SyncedTyped
    <3> QED BY <2>1, <3>1, <3>2, <3>3 DEF Drafted, Double
  <2>3. Synced(index, c.key, None) \in Index /\ m \in BOOLEAN
    BY <1>2, <2>1, SyncedTyped, CallShape
  <2> QED BY <1>1, <2>2, <2>3
<1>5. ASSUME NEW k \in Key, Update(p, k)
      PROVE  \E x \in Index, m \in BOOLEAN : Drafted(p, c, x, m)
  <2>1. c.op = "transition" /\ DOMAIN c.writes = {k} /\ c.writes[k] \in Status
    BY <1>2, <1>5, CallShape DEF Update, Called, Is
  <2>2. Holds(rows, c) <=> rows[k] \in c.expects[k]
    <3>1. DOMAIN c.expects = {k}
      BY <1>2, <2>1, CallShape
    <3> QED BY <3>1 DEF Holds
  <2>3. ~Double(c)
    BY <2>1 DEF Double
  <2>4. CASE rows[k] \in c.expects[k]
    <3>1. Draft(p, [rows EXCEPT ![k] = c.writes[k]], Synced(index, k, c.writes[k]), TRUE)
      BY <1>5, <2>4 DEF Update
    <3>2. RowsAfter(rows, c) = [rows EXCEPT ![k] = c.writes[k]]
      <4>1. RowsAfter(rows, c) = [l \in Key |-> IF l \in {k} THEN c.writes[l] ELSE rows[l]]
        BY <1>2, <2>1, <2>2, <2>4, RowsAfterCall
      <4>2. rows = [l \in Key |-> rows[l]]
        BY <1>2 DEF Rows
      <4> QED BY <4>1, <4>2
    <3>3. Drafted(p, c, Synced(index, k, c.writes[k]), TRUE)
      <4>1. Promised(c, TRUE, AnswerOf(rows, ids, c))
        BY <1>2, <2>1, <2>2, <2>4, AnswerOfCall DEF Promised
      <4>2. Exact(index, rows) => Exact(Synced(index, k, c.writes[k]), [rows EXCEPT ![k] = c.writes[k]])
        BY <1>2, <2>1, SyncedTyped
      <4> QED BY <2>1, <2>3, <3>1, <3>2, <4>1, <4>2 DEF Drafted
    <3>4. Synced(index, k, c.writes[k]) \in Index
      BY <1>2, <2>1, SyncedTyped
    <3> QED BY <3>3, <3>4
  <2>5. CASE rows[k] \notin c.expects[k]
    <3>1. Draft(p, rows, index, FALSE)
      BY <1>5, <2>5 DEF Update
    <3>2. Drafted(p, c, index, FALSE)
      <4>1. Promised(c, FALSE, AnswerOf(rows, ids, c))
        BY <1>2, <2>1, <2>2, <2>5, AnswerOfCall DEF Promised
      <4>2. RowsAfter(rows, c) = rows
        BY <1>2, <2>1, <2>2, <2>5, RowsAfterCall
      <4> QED BY <2>1, <2>3, <3>1, <4>1, <4>2 DEF Drafted
    <3> QED BY <1>2, <3>2
  <2> QED BY <2>4, <2>5
<1>6. CASE InsertRecord(p) /\ c.id \notin ids
  <2>1. c.op = "append" /\ Draft(p, rows, index, TRUE)
    BY <1>6 DEF InsertRecord, Called, Is
  <2>2. Drafted(p, c, index, TRUE)
    <3>1. RowsAfter(rows, c) = rows
      BY <1>2, <2>1, RowsAfterCall
    <3>2. Promised(c, TRUE, AnswerOf(rows, ids, c))
      BY <1>2, <1>6, <2>1, AnswerOfCall DEF Promised
    <3> QED BY <1>6, <2>1, <3>1, <3>2 DEF Drafted, Double
  <2> QED BY <1>1, <1>2, <2>2
<1> QED BY <1>1, <1>3, <1>4, <1>5, <1>6 DEF DraftsIndex

LEMMA DraftControl ==
    ASSUME ControlInv, NEW p \in Proc, NEW x \in Index, NEW m \in BOOLEAN,
           Drafted(p, call[p], x, m), store = "sqlite", at[p] = "called"
    PROVE  ControlInv'
<1> DEFINE c == call[p]
<1>1. c \in Calls /\ c # None /\ answer[p] = "none yet" /\ RowsAfter(rows, c) \in Rows
    BY Where, TypesParts, CallTypes DEF Waiting
<1>2. Draft(p, RowsAfter(rows, c), x, m) /\ c.op \notin {"get", "list"}
    BY DEF Drafted
<1>3. [local[p] EXCEPT !.rows = RowsAfter(rows, c), !.index = x, !.clean = m] \in Local
    BY <1>1, OwnTypes, LocalTyped
<1>4. local' \in [Proc -> Local] /\ lock = None /\ lock' = p
    BY <1>2, <1>3, TypesParts DEF Draft
<1>5. Controlled(store, TRUE, c, "committing", answer[p])
    BY <1>1, <1>2 DEF Controlled, Suits, Waiting, Locked, ThreadLabels, SqliteLabels
<1>6. Turned(p, "committing", answer[p])
    BY <1>2, <1>4, <1>5, TypesParts, OwnTypes DEF Draft, SqliteOthers, ToldType, Turned
<1> QED BY <1>6, Turns

LEMMA SqliteReadControl ==
    ASSUME ControlInv, NEW p \in Proc,
           SqliteGet(p) \/ SqliteList(p) \/ (InsertRecord(p) /\ call[p].id \in ids)
    PROVE  ControlInv'
<1> DEFINE c == call[p]
<1>1. store = "sqlite" /\ at[p] = "called"
    BY DEF SqliteGet, SqliteList, InsertRecord, Called, Is
<1>2. c \in Calls /\ c # None /\ answer[p] = "none yet" /\ lock # p
    BY <1>1, Where DEF Waiting, Locked, ThreadLabels
<1>3. \A a : a # "none yet" => Controlled(store, FALSE, c, "answered", a)
    BY <1>1, <1>2 DEF Controlled, Suits, Common, Waiting, Locked, ThreadLabels
<1>4. CASE SqliteGet(p)
  <2>1. rows[c.key] \in Status \cup {None}
    BY <1>2, <1>4, CallShape, TypesParts DEF SqliteGet, Called, Is, Rows
  <2>2. PICK a \in {"error", rows[c.key]} : Replied(p, a)
    BY <1>4 DEF SqliteGet
  <2>3. a \in Answer /\ a # "none yet"
    BY <2>1, <2>2, StoreAssumption DEF Answer, Status
  <2>4. Moved(p, "answered", a)
    BY <1>2, <1>3, <1>4, <2>2, <2>3, TypesParts DEF SqliteGet, SqliteOthers, ToldType, Moved
  <2> QED BY <2>4, Moves
<1>5. CASE SqliteList(p)
  <2>1. PICK a \in {"error", "done"} : Replied(p, a)
    BY <1>5 DEF SqliteList
  <2>2. a \in Answer /\ a # "none yet"
    BY <2>1 DEF Answer
  <2>3. [local[p] EXCEPT !.found = Present(rows)] \in Local
    BY OwnTypes, LocalTyped DEF Present
  <2>4. local' \in [Proc -> Local]
    BY <1>5, <2>3, TypesParts DEF SqliteList
  <2>5. Moved(p, "answered", a)
    BY <1>2, <1>3, <1>5, <2>1, <2>2, <2>4, TypesParts DEF SqliteList, SqliteOthers, ToldType, Moved
  <2> QED BY <2>5, Moves
<1>6. CASE InsertRecord(p) /\ c.id \in ids
  <2>1. Locks(p, local[p]) /\ Replied(p, "error") /\ Goto(p, "rolling back")
    BY <1>6 DEF InsertRecord
  <2>2. [local[p] EXCEPT !.rows = rows, !.index = index] \in Local
    BY OwnTypes, LocalTyped, TypesParts
  <2>3. local' \in [Proc -> Local] /\ lock = None /\ lock' = p
    BY <2>1, <2>2, TypesParts DEF Locks
  <2>4. Controlled(store, TRUE, c, "rolling back", "error") /\ "error" \in Answer
    BY <1>1, <1>2 DEF Controlled, Suits, Waiting, Locked, ThreadLabels, SqliteLabels, Answer
  <2>5. Turned(p, "rolling back", "error")
    BY <1>6, <2>1, <2>3, <2>4, TypesParts DEF InsertRecord, SqliteOthers, ToldType, Turned
  <2> QED BY <2>5, Turns
<1> QED BY <1>4, <1>5, <1>6

LEMMA SqliteTwoControl ==
    ASSUME ControlInv, NEW p \in Proc,
           \/ BeginImmediate(p) \/ SelectClaim(p)
           \/ \E k \in Key : UpdateApproval(p, k) \/ UpdateItem(p, k)
    PROVE  ControlInv'
<1> DEFINE c == call[p]
<1>1. local[p] \in Local /\ rows \in Rows /\ index \in Index
    BY OwnTypes, TypesParts
<1>2. ASSUME NEW l \in Local PROVE [local EXCEPT ![p] = l] \in [Proc -> Local]
    BY <1>2, TypesParts
<1>3. CASE BeginImmediate(p)
  <2>1. store = "sqlite" /\ at[p] = "called" /\ (c.op = "claim" \/ Double(c))
    BY <1>3 DEF BeginImmediate, TakesTwo, Double
  <2>2. c # None /\ answer[p] = "none yet"
    BY <2>1, Where DEF Waiting
  <2>3. Controlled(store, TRUE, c, "begun", answer[p])
    BY <2>1, <2>2 DEF Controlled, Suits, Waiting, Locked, ThreadLabels, SqliteLabels
  <2>4. [local[p] EXCEPT !.rows = rows, !.index = index] \in Local
    BY <1>1, LocalTyped
  <2>5. local' \in [Proc -> Local] /\ lock = None /\ lock' = p
    BY <1>2, <1>3, <2>4 DEF BeginImmediate, Locks
  <2>6. Turned(p, "begun", answer[p])
    BY <1>3, <2>3, <2>5, TypesParts, OwnTypes DEF BeginImmediate, SqliteOthers, ToldType, Turned
  <2> QED BY <2>6, Turns
<1>4. CASE SelectClaim(p)
  <2>1. at[p] = "begun" /\ c.op = "claim"
    BY <1>4 DEF SelectClaim, Is
  <2>2. /\ store = "sqlite" /\ c # None /\ answer[p] = "none yet" /\ lock = p /\ c \in Calls
        /\ local[p].rows \in Rows
    BY <2>1, Where, OwnTypes DEF Waiting, SqliteLabels, Locked
  <2> DEFINE row == local[p].rows[c.key]
  <2>3. row \in Status \cup {None} /\ c.key \in Key /\ c.value \in Status
    BY <2>1, <2>2, CallShape DEF Rows, Key
  <2>4. CASE MayClaim(row)
    <3>1. local' = [local EXCEPT ![p].rows[c.key] = c.value] /\ Goto(p, "committing") /\ UNCHANGED answer
      BY <1>4, <2>4 DEF SelectClaim
    <3>2. [local[p].rows EXCEPT ![c.key] = c.value] \in Rows
      BY <2>2, <2>3, SyncedTyped, <1>1
    <3>3. [local[p] EXCEPT !.rows = [local[p].rows EXCEPT ![c.key] = c.value]] \in Local
      BY <1>1, <3>2, LocalTyped
    <3>4. local' \in [Proc -> Local]
      BY <1>2, <3>1, <3>3
    <3>5. Controlled(store, TRUE, c, "committing", answer[p])
      BY <2>1, <2>2 DEF Controlled, Suits, Waiting, Locked, ThreadLabels, SqliteLabels
    <3>6. Moved(p, "committing", answer[p])
      BY <1>4, <2>2, <3>1, <3>4, <3>5, TypesParts DEF SelectClaim, SqliteOthers, ToldType, Moved
    <3> QED BY <3>6, Moves
  <2>5. CASE ~MayClaim(row)
    <3>1. Replied(p, row) /\ Goto(p, "rolling back") /\ UNCHANGED local
      BY <1>4, <2>5 DEF SelectClaim
    <3>2. row \in Answer /\ row # "none yet"
      BY <2>3, StoreAssumption DEF Answer, Status
    <3>3. Controlled(store, TRUE, c, "rolling back", row)
      BY <2>1, <2>2, <3>2 DEF Controlled, Suits, Waiting, Locked, ThreadLabels, SqliteLabels
    <3>4. Moved(p, "rolling back", row)
      BY <1>4, <2>2, <3>1, <3>2, <3>3, TypesParts DEF SelectClaim, SqliteOthers, ToldType, Moved
    <3> QED BY <3>4, Moves
  <2> QED BY <2>4, <2>5
<1>5. ASSUME NEW a \in Key, UpdateApproval(p, a) PROVE ControlInv'
  <2>1. at[p] = "begun" /\ c.op = "transition" /\ a \in DOMAIN c.writes
    BY <1>5 DEF UpdateApproval, Is
  <2>2. /\ store = "sqlite" /\ c # None /\ answer[p] = "none yet" /\ lock = p /\ c \in Calls
        /\ local[p].rows \in Rows /\ Double(c)
    BY <2>1, Where, OwnTypes DEF Waiting, SqliteLabels, Locked, Suits
  <2>3. c.writes[a] \in Status
    BY <2>1, <2>2, CallShape
  <2>4. PICK v \in Status \cup {None}, b \in BOOLEAN :
           local' = [local EXCEPT ![p].clean = b, ![p].rows[a] = v]
    <3>1. local[p].rows[a] \in Status \cup {None}
      BY <2>2 DEF Rows
    <3>2. CASE Matches(p, a)
      BY <1>5, <2>3, <3>2 DEF UpdateApproval
    <3>3. CASE ~Matches(p, a)
      <4>1. local' = [local EXCEPT ![p].clean = Matches(p, a), ![p].rows[a] = local[p].rows[a]]
        BY <1>5, <3>3 DEF UpdateApproval
      <4>2. Matches(p, a) = FALSE
        BY <3>3 DEF Matches
      <4> QED BY <3>1, <4>1, <4>2
    <3> QED BY <3>2, <3>3
  <2>5. [local[p].rows EXCEPT ![a] = v] \in Rows
    BY <2>2, SyncedTyped, <1>1
  <2>6. [local[p] EXCEPT !.clean = b, !.rows = [local[p].rows EXCEPT ![a] = v]] \in Local
    BY <1>1, <2>5, LocalTyped
  <2>7. local' = [local EXCEPT ![p] = [local[p] EXCEPT !.clean = b, !.rows = [local[p].rows EXCEPT ![a] = v]]]
    <3>1. local' = [[local EXCEPT ![p].clean = b] EXCEPT ![p].rows[a] = v]
      BY <2>4
    <3>2. [local EXCEPT ![p].clean = b][p] = [local[p] EXCEPT !.clean = b]
      BY TypesParts
    <3>3. [local[p] EXCEPT !.clean = b].rows = local[p].rows
      BY <1>1 DEF Local
    <3> DEFINE l == [local EXCEPT ![p].clean = b]
               r == [local[p].rows EXCEPT ![a] = v]
    <3>4. l[p].rows = local[p].rows /\ l[p] = [local[p] EXCEPT !.clean = b]
      BY <3>2, <3>3
    <3>5. local' = [l EXCEPT ![p] = [l[p] EXCEPT !.rows = [l[p].rows EXCEPT ![a] = v]]]
      BY <3>1
    <3>6. local' = [l EXCEPT ![p] = [[local[p] EXCEPT !.clean = b] EXCEPT !.rows = r]]
      BY <3>4, <3>5
    <3>7. [[local[p] EXCEPT !.clean = b] EXCEPT !.rows = r] = [local[p] EXCEPT !.clean = b, !.rows = r]
      BY <1>1 DEF Local
    <3>8. \A z : [l EXCEPT ![p] = z] = [local EXCEPT ![p] = z]
      BY TypesParts
    <3> QED BY <3>6, <3>7, <3>8
  <2>8. local' \in [Proc -> Local]
    BY <1>2, <2>6, <2>7
  <2>9. Controlled(store, TRUE, c, "approved", answer[p])
    BY <2>1, <2>2 DEF Controlled, Suits, Waiting, Locked, ThreadLabels, SqliteLabels
  <2>10. Moved(p, "approved", answer[p])
    BY <1>5, <2>2, <2>8, <2>9, TypesParts DEF UpdateApproval, SqliteOthers, ToldType, Moved
  <2> QED BY <2>10, Moves
<1>6. ASSUME NEW i \in Key, UpdateItem(p, i) PROVE ControlInv'
  <2>1. at[p] = "approved" /\ i \in DOMAIN c.writes
    BY <1>6 DEF UpdateItem
  <2>2. /\ store = "sqlite" /\ c # None /\ answer[p] = "none yet" /\ lock = p /\ c \in Calls
        /\ local[p].rows \in Rows /\ local[p].index \in Index /\ c.op = "transition"
    BY <2>1, Where, OwnTypes DEF Waiting, SqliteLabels, Locked, Suits, Double
  <2>3. c.writes[i] \in Status
    BY <2>1, <2>2, CallShape
  <2>4. CASE local[p].clean /\ Matches(p, i)
    <3> DEFINE r == [local[p].rows EXCEPT ![i] = c.writes[i]]
               x == Synced(local[p].index, i, c.writes[i])
    <3>1. /\ local' = [local EXCEPT ![p].rows[i] = c.writes[i],
                                   ![p].index = Synced(@, i, c.writes[i])]
          /\ Goto(p, "committing") /\ UNCHANGED answer
      BY <1>6, <2>4 DEF UpdateItem
    <3>2. r \in Rows /\ x \in Index
      BY <2>2, <2>3, SyncedTyped
    <3>3. [local[p] EXCEPT !.rows = r, !.index = x] \in Local
      BY <1>1, <3>2, LocalTyped
    <3>4. local' = [local EXCEPT ![p] = [local[p] EXCEPT !.rows = r, !.index = x]]
      BY <3>1, TypesParts, <1>1
    <3>5. local' \in [Proc -> Local]
      BY <1>2, <3>3, <3>4
    <3>6. Controlled(store, TRUE, c, "committing", answer[p])
      BY <2>1, <2>2 DEF Controlled, Suits, Waiting, Locked, ThreadLabels, SqliteLabels
    <3>7. Moved(p, "committing", answer[p])
      BY <1>6, <2>2, <3>1, <3>5, <3>6, TypesParts DEF UpdateItem, SqliteOthers, ToldType, Moved
    <3> QED BY <3>7, Moves
  <2>5. CASE ~(local[p].clean /\ Matches(p, i))
    <3>1. Replied(p, "no") /\ Goto(p, "rolling back") /\ UNCHANGED local
      BY <1>6, <2>5 DEF UpdateItem
    <3>2. Controlled(store, TRUE, c, "rolling back", "no") /\ "no" \in Answer
      BY <2>1, <2>2 DEF Controlled, Suits, Waiting, Locked, ThreadLabels, SqliteLabels, Answer
    <3>3. Moved(p, "rolling back", "no")
      BY <1>6, <2>2, <3>1, <3>2, TypesParts DEF UpdateItem, SqliteOthers, ToldType, Moved
    <3> QED BY <3>3, Moves
  <2> QED BY <2>4, <2>5
<1> QED BY <1>3, <1>4, <1>5, <1>6

LEMMA CommitAnswer ==
    ASSUME ControlInv, NEW p \in Proc, at[p] = "committing"
    PROVE  /\ AnswerAtCommit(p) \in Answer /\ AnswerAtCommit(p) # "none yet"
           /\ Promised(call[p], local[p].clean, AnswerAtCommit(p))
<1>1. call[p] \in Calls /\ call[p].op \notin {"get", "list"} /\ local[p].clean \in BOOLEAN
    BY Where, OwnTypes DEF Suits
<1>2. Promised(call[p], local[p].clean, AnswerAtCommit(p))
    BY <1>1 DEF Promised, AnswerAtCommit
<1>3. AnswerAtCommit(p) \in {"done", None, "yes", "no"}
    BY <1>1, <1>2, CallShape DEF Promised
<1> QED BY <1>2, <1>3, StoreAssumption DEF Answer

LEMMA SqliteEndControl ==
    ASSUME ControlInv, NEW p \in Proc, Commit(p) \/ BusyTimeout(p)
    PROVE  ControlInv'
<1> DEFINE c == call[p]
<1>1. CASE Commit(p)
  <2>1. at[p] = "committing"
    BY <1>1 DEF Commit
  <2>2. store = "sqlite" /\ c # None /\ lock = p /\ c \in Calls
    BY <2>1, Where DEF SqliteLabels, Locked
  <2>3. lock' = None /\ None # p /\ local' = [local EXCEPT ![p] = Over(local[p])]
    BY <1>1, StoreAssumption DEF Commit, Unlocks
  <2>4. Controlled(store, lock' = p, c, "answered", AnswerAtCommit(p))
    BY <2>1, <2>2, <2>3, CommitAnswer DEF Controlled, Suits, Common, Waiting, Locked, ThreadLabels
  <2>5. local' \in [Proc -> Local]
    BY <2>3, OwnTypes, OverTyped, TypesParts
  <2>6. rows' \in Rows /\ told' \in ToldType /\ index' \in Index
    BY <1>1, OwnTypes, PublishTyped DEF Commit, ToldType
  <2>7. ids' \in SUBSET Id
    BY <1>1, <2>2, TypesParts, CallTypes DEF Commit
  <2>8. records' \in Seq(Id)
    <3>1. c.op = "append" => Append(records, c.id) \in Seq(Id)
      BY <2>2, CallShape, TypesParts, AppendProperties
    <3> QED BY <1>1, <3>1, TypesParts DEF Commit
  <2>9. Turned(p, "answered", AnswerAtCommit(p))
    BY <1>1, <2>1, <2>2, <2>3, <2>4, <2>5, <2>6, <2>7, <2>8, TypesParts, CommitAnswer
       DEF Commit, SqliteOthers, Turned
  <2> QED BY <2>9, Turns
<1>2. CASE BusyTimeout(p)
  <2>1. store = "sqlite" /\ at[p] \in {"creating", "migrating", "called"} /\ lock # p
    BY <1>2 DEF BusyTimeout
  <2>2. c # None
    BY <2>1, Where
  <2>3. Controlled(store, lock = p, c, "answered", "error") /\ "error" \in Answer
    BY <2>1, <2>2 DEF Controlled, Suits, Common, Waiting, Locked, ThreadLabels, Answer
  <2>4. Moved(p, "answered", "error")
    BY <1>2, <2>3, TypesParts DEF BusyTimeout, SqliteOthers, ToldType, Moved
  <2> QED BY <2>4, Moves
<1> QED BY <1>1, <1>2

LEMMA SqliteControl ==
    ASSUME ControlInv, NEW p \in Proc, SqliteStep(p) \/ BusyTimeout(p)
    PROVE  ControlInv'
<1>1. CASE DraftsIndex(p) \/ (InsertRecord(p) /\ call[p].id \notin ids)
    BY <1>1, StatementsDraft, DraftControl
<1>2. CASE InsertRecord(p) /\ call[p].id \in ids
    BY <1>2, SqliteReadControl
<1> QED BY <1>1, <1>2, SqliteSchemaControl, SqliteReadControl, SqliteTwoControl, SqliteEndControl
        DEF SqliteStep, DraftsIndex

LEMMA ThreadControl ==
    ASSUME ControlInv, NEW p \in Proc, ThreadStep(p)
    PROVE  ControlInv'
<1> DEFINE c == call[p]
<1>1. rows \in Rows /\ local[p] \in Local /\ local \in [Proc -> Local]
    BY OwnTypes, TypesParts
<1>2. ASSUME NEW k \in Key, c \in Calls, c.op = "transition", k \in DOMAIN c.writes
      PROVE  c.writes[k] \in Status
    BY <1>2, CallShape
<1>3. CASE TakeLock(p)
  <2>1. store = "memory" /\ at[p] = "called" /\ lock = None /\ lock' = p
    BY <1>3 DEF TakeLock
  <2>2. c # None /\ answer[p] = "none yet"
    BY <2>1, Where DEF Waiting
  <2>3. Controlled(store, TRUE, c, "locked", answer[p])
    BY <2>1, <2>2 DEF Controlled, Suits, Waiting, Locked, ThreadLabels
  <2>4. Turned(p, "locked", answer[p])
    BY <1>3, <2>1, <2>3, TypesParts, OwnTypes DEF TakeLock, ThreadOthers, ToldType, Turned
  <2> QED BY <2>4, Turns
<1>4. CASE Work(p)
  <2>1. at[p] = "locked" /\ c.op # "list"
    BY <1>4 DEF Work
  <2>2. c # None /\ c \in Calls /\ store = "memory" /\ lock = p
    BY <2>1, Where DEF ThreadLabels, Locked
  <2> DEFINE a == AnswerOf(rows, ids, c)
  <2>3. RowsAfter(rows, c) \in Rows /\ a \in Answer /\ IdsAfter(ids, c) \in SUBSET Id
    BY <2>1, <2>2, CallTypes, TypesParts
  <2>4. a # "none yet"
    BY <2>3, StoreAssumption DEF Answer, Status
  <2>5. Controlled(store, TRUE, c, "unlocking", a)
    BY <2>1, <2>2, <2>4 DEF Controlled, Suits, Waiting, Locked, ThreadLabels
  <2>6. rows' \in Rows /\ told' \in ToldType
    BY <1>4, <2>3, PublishTyped DEF Work, ToldType
  <2>7. records' \in Seq(Id)
    <3>1. CASE c.op = "append"
      <4>1. Append(records, c.id) \in Seq(Id)
        BY <2>2, <3>1, CallShape, TypesParts, AppendProperties
      <4> QED BY <1>4, <4>1, TypesParts DEF Work
    <3>2. CASE c.op # "append"
      BY <1>4, <3>2, TypesParts DEF Work, IdsAfter
    <3> QED BY <3>1, <3>2
  <2>8. Moved(p, "unlocking", a)
    BY <1>4, <2>2, <2>3, <2>5, <2>6, <2>7, TypesParts DEF Work, ThreadOthers, Moved
  <2> QED BY <2>8, Moves
<1>5. CASE WorkList(p)
  <2>1. at[p] = "locked" /\ c.op = "list"
    BY <1>5 DEF WorkList, Is
  <2>2. c # None /\ store = "memory" /\ lock = p
    BY <2>1, Where DEF ThreadLabels, Locked
  <2>3. Controlled(store, TRUE, c, "unlocking", "done") /\ "done" \in Answer
    BY <2>1, <2>2 DEF Controlled, Suits, Waiting, Locked, ThreadLabels, Answer
  <2>4. [local[p] EXCEPT !.found = Present(rows)] \in Local
    BY <1>1, LocalTyped DEF Present
  <2>5. local' \in [Proc -> Local]
    BY <1>1, <1>5, <2>4 DEF WorkList
  <2>6. Moved(p, "unlocking", "done")
    BY <1>5, <2>2, <2>3, <2>5, TypesParts DEF WorkList, ThreadOthers, ToldType, Moved
  <2> QED BY <2>6, Moves
<1>6. CASE WriteApproval(p)
  <2>1. at[p] = "locked" /\ Double(c)
    BY <1>6 DEF WriteApproval, Pairs, Double
  <2>2. /\ c # None /\ c \in Calls /\ store = "memory" /\ lock = p /\ answer[p] = "none yet"
        /\ c.op = "transition"
    BY <2>1, Where DEF ThreadLabels, Locked, Waiting, Double
  <2>3. CASE Holds(rows, c)
    <3> DEFINE r == [k \in Key |-> IF k \in DOMAIN c.writes \cap Approval THEN c.writes[k] ELSE rows[k]]
    <3>1. r \in Rows
      BY <1>1, <1>2, <2>2 DEF Rows
    <3>2. Publish(r) /\ local' = [local EXCEPT ![p].rows = rows] /\ Goto(p, "writing") /\ UNCHANGED answer
      BY <1>6, <2>3 DEF WriteApproval
    <3>3. rows' \in Rows /\ told' \in ToldType
      BY <3>1, <3>2, PublishTyped DEF ToldType
    <3>4. [local[p] EXCEPT !.rows = rows] \in Local
      BY <1>1, LocalTyped
    <3>5. local' \in [Proc -> Local]
      BY <1>1, <3>2, <3>4
    <3>6. Controlled(store, TRUE, c, "writing", answer[p])
      BY <2>1, <2>2 DEF Controlled, Suits, Waiting, Locked, ThreadLabels
    <3>7. Moved(p, "writing", answer[p])
      BY <1>6, <2>2, <3>2, <3>3, <3>5, <3>6, TypesParts, OwnTypes DEF WriteApproval, ThreadOthers, Moved
    <3> QED BY <3>7, Moves
  <2>4. CASE ~Holds(rows, c)
    <3>1. Replied(p, "no") /\ Goto(p, "unlocking") /\ UNCHANGED <<rows, local, told>>
      BY <1>6, <2>4 DEF WriteApproval
    <3>2. Controlled(store, TRUE, c, "unlocking", "no") /\ "no" \in Answer
      BY <2>1, <2>2 DEF Controlled, Suits, Waiting, Locked, ThreadLabels, Answer
    <3>3. Moved(p, "unlocking", "no")
      BY <1>6, <2>2, <3>1, <3>2, TypesParts DEF WriteApproval, ThreadOthers, ToldType, Moved
    <3> QED BY <3>3, Moves
  <2> QED BY <2>3, <2>4
<1>7. CASE WriteItem(p)
  <2>1. at[p] = "writing"
    BY <1>7 DEF WriteItem
  <2>2. c # None /\ c \in Calls /\ store = "memory" /\ lock = p /\ c.op = "transition"
    BY <2>1, Where DEF ThreadLabels, Locked, Suits, Double
  <2> DEFINE r == [k \in Key |-> IF k \in DOMAIN c.writes \cap Item THEN c.writes[k] ELSE rows[k]]
  <2>3. r \in Rows
    BY <1>1, <1>2, <2>2 DEF Rows
  <2>4. rows' \in Rows /\ told' \in ToldType
    BY <1>7, <2>3, PublishTyped DEF WriteItem, ToldType
  <2>5. Controlled(store, TRUE, c, "unlocking", "yes") /\ "yes" \in Answer
    BY <2>1, <2>2 DEF Controlled, Suits, Waiting, Locked, ThreadLabels, Answer
  <2>6. Moved(p, "unlocking", "yes")
    BY <1>7, <2>2, <2>4, <2>5, TypesParts DEF WriteItem, ThreadOthers, Moved
  <2> QED BY <2>6, Moves
<1>8. CASE ReleaseLock(p)
  <2>1. at[p] = "unlocking"
    BY <1>8 DEF ReleaseLock
  <2>2. c # None /\ store = "memory" /\ lock = p /\ answer[p] # "none yet"
    BY <2>1, Where DEF ThreadLabels, Locked, Waiting
  <2>3. lock' = None /\ None # p
    BY <1>8, StoreAssumption DEF ReleaseLock
  <2>4. Controlled(store, lock' = p, c, "answered", answer[p])
    BY <2>1, <2>2, <2>3 DEF Controlled, Suits, Common, Waiting, Locked, ThreadLabels
  <2>5. Turned(p, "answered", answer[p])
    BY <1>8, <2>2, <2>3, <2>4, TypesParts, OwnTypes DEF ReleaseLock, ThreadOthers, ToldType, Turned
  <2> QED BY <2>5, Turns
<1> QED BY <1>3, <1>4, <1>5, <1>6, <1>7, <1>8 DEF ThreadStep

(* The beginning and the end of a call.                                    *)
LEMMA InvokeControl ==
    ASSUME ControlInv, NEW p \in Proc, NEW c \in Calls, Invoke(p, c)
    PROVE  ControlInv'
<1>1. at[p] = "idle" /\ c # None /\ answer[p] = "none yet" /\ lock # p
    BY CallShape, Where DEF Invoke, Waiting, Locked, ThreadLabels
<1>2. /\ call' \in [Proc -> Calls \cup {None}] /\ call'[p] = c
      /\ \A q \in Proc : q # p => call'[q] = call[q]
    BY TypesParts DEF Invoke
<1>3. /\ at' \in [Proc -> Labels] /\ at'[p] = "called"
      /\ \A q \in Proc : q # p => at'[q] = at[q]
    BY TypesParts DEF Invoke, Goto, Labels, Common
<1>4. calls' \in 0 .. MaxCalls
  <2>1. MaxCalls \in Nat /\ calls \in 0 .. MaxCalls /\ calls < MaxCalls /\ calls' = calls + 1
    BY TypesParts, StoreAssumption DEF Invoke
  <2> QED BY <2>1
<1>5. settled' \in SUBSET Item
    BY TypesParts DEF Invoke
<1>6. told' \in ToldType
  <2>1. Present(rows) \in SUBSET Item /\ settled \in SUBSET Item
    BY TypesParts DEF Present
  <2>2. \A q \in Proc : told[q] \in [always: SUBSET Item, sometime: SUBSET Item, alone: BOOLEAN]
    BY TypesParts
  <2> DEFINE mine(q) ==
          IF q # p THEN [told[q] EXCEPT !.always = @ \ Deletes(c),
                                        !.alone = @ /\ ~(IsSet(q) /\ call[q].key \in Deletes(c))]
          ELSE IF c.op = "list" THEN [always |-> settled, sometime |-> Present(rows), alone |-> TRUE]
          ELSE [Nothing EXCEPT !.alone = c.op = "set" => c.key \notin Deleting]
  <2>3. ASSUME NEW q \in Proc
        PROVE  mine(q) \in [always: SUBSET Item, sometime: SUBSET Item, alone: BOOLEAN]
    <3>1. CASE q # p
      BY <2>2, <3>1
    <3>2. CASE q = p /\ c.op = "list"
      BY <2>1, <3>2
    <3>3. CASE q = p /\ c.op # "list"
      <4>1. Nothing \in [always: SUBSET Item, sometime: SUBSET Item, alone: BOOLEAN]
        BY DEF Nothing
      <4> QED BY <3>3, <4>1
    <3> QED BY <3>1, <3>2, <3>3
  <2>4. told' = [q \in Proc |-> mine(q)]
    BY DEF Invoke
  <2> HIDE DEF mine
  <2> QED BY <2>3, <2>4 DEF ToldType
<1>7. UNCHANGED <<store, rows, index, ids, records, database, lock, answer, local>>
    BY DEF Invoke
<1>8. Types'
    BY <1>2, <1>3, <1>4, <1>5, <1>6, <1>7, TypesParts DEF Types, StoreTypeOK, ToldType
<1>9. Control(p)'
    BY <1>1, <1>2, <1>3, <1>7 DEF Control, Controlled, Suits, Common, Waiting, Locked, ThreadLabels
<1>10. ASSUME NEW q \in Proc, q # p PROVE Control(q)'
  <2>1. /\ store' = store /\ call'[q] = call[q] /\ at'[q] = at[q] /\ answer'[q] = answer[q]
        /\ (lock' = q <=> lock = q) /\ Control(q)
    BY <1>2, <1>3, <1>7, <1>10 DEF ControlInv
  <2> QED BY <2>1 DEF Control, Controlled
<1> QED BY <1>8, <1>9, <1>10 DEF ControlInv

LEMMA EndedControl ==
    ASSUME ControlInv, NEW p \in Proc, Ended(p),
           UNCHANGED <<store, rows, index, ids, records, database, calls>>,
           settled' \in SUBSET Item, local' \in [Proc -> Local], lock' \in Proc \cup {None},
           lock' # p, \A q \in Proc : q # p => (lock' = q <=> lock = q)
    PROVE  ControlInv'
<1>1. /\ call' \in [Proc -> Calls \cup {None}] /\ call'[p] = None
      /\ \A q \in Proc : q # p => call'[q] = call[q]
    BY TypesParts DEF Ended
<1>2. /\ at' \in [Proc -> Labels] /\ at'[p] = "idle"
      /\ \A q \in Proc : q # p => at'[q] = at[q]
    BY TypesParts DEF Ended, Goto, Labels, Common
<1>3. /\ answer' \in [Proc -> Answer \cup {"none yet"}] /\ answer'[p] = "none yet"
      /\ \A q \in Proc : q # p => answer'[q] = answer[q]
    BY TypesParts DEF Ended, Replied
<1>4. told' \in ToldType
  <2>1. Nothing \in [always: SUBSET Item, sometime: SUBSET Item, alone: BOOLEAN]
    BY DEF Nothing
  <2> QED BY <2>1, TypesParts DEF Ended, ToldType
<1>5. Types'
    BY <1>1, <1>2, <1>3, <1>4, TypesParts DEF Types, StoreTypeOK, ToldType
<1>6. Control(p)'
    BY <1>1, <1>2, <1>3 DEF Control, Controlled, Suits, Common, Waiting, Locked, ThreadLabels
<1>7. ASSUME NEW q \in Proc, q # p PROVE Control(q)'
  <2>1. /\ store' = store /\ call'[q] = call[q] /\ at'[q] = at[q] /\ answer'[q] = answer[q]
        /\ (lock' = q <=> lock = q) /\ Control(q)
    BY <1>1, <1>2, <1>3, <1>7 DEF ControlInv
  <2> QED BY <2>1 DEF Control, Controlled
<1> QED BY <1>5, <1>6, <1>7 DEF ControlInv

LEMMA EndControl ==
    ASSUME ControlInv, NEW p \in Proc, Return(p) \/ Crash(p)
    PROVE  ControlInv'
<1>0. None \notin Proc
    BY StoreAssumption
<1>1. CASE Return(p)
  <2>1. lock # p
    BY <1>1, Where DEF Return, Locked, ThreadLabels
  <2>2. settled' \in SUBSET Item
    BY <1>1, TypesParts DEF Return
  <2>3. local' \in [Proc -> Local]
    BY <1>1, OwnTypes, OverTyped, TypesParts DEF Return
  <2> QED BY <1>1, <2>1, <2>2, <2>3, EndedControl, TypesParts DEF Return
<1>2. CASE Crash(p)
  <2>1. local' \in [Proc -> Local]
    BY <1>2, OwnTypes, OverTyped, TypesParts DEF Crash
  <2>2. lock' \in Proc \cup {None} /\ lock' # p /\ \A q \in Proc : q # p => (lock' = q <=> lock = q)
    BY <1>0, <1>2, TypesParts DEF Crash
  <2> QED BY <1>2, <2>1, <2>2, EndedControl, TypesParts DEF Crash
<1> QED BY <1>1, <1>2

LEMMA ControlInit ==
    ASSUME Init PROVE ControlInv
<1>1. rows \in Rows
    BY StoreAssumption DEF Init, Rows
<1>2. index \in Index
    BY <1>1 DEF Init, Index, Rows, Key
<1>3. local \in [Proc -> Local]
  <2>1. NoLocal \in Local
    BY NoLocalTyped
  <2>2. [NoLocal EXCEPT !.open = "read only"] \in Local
    BY <2>1, LocalTyped
  <2> QED BY <2>1, <2>2 DEF Init
<1>4. database \in [tables: SUBSET {"base", "memory"}, version: 0 .. 2]
  <2>1. \A t \in SUBSET {"base", "memory"}, v \in 0 .. 2 :
           [tables |-> t, version |-> v] \in [tables: SUBSET {"base", "memory"}, version: 0 .. 2]
    OBVIOUS
  <2>2. 0 \in 0 .. 2 /\ 1 \in 0 .. 2 /\ 2 \in 0 .. 2
    OBVIOUS
  <2>3. \E t \in {{"base", "memory"}, {"base"}, {}}, v \in {0, 1, 2} :
           database = [tables |-> t, version |-> v]
    BY DEF Init, NoDatabase, Databases
  <2> QED BY <2>1, <2>2, <2>3
<1>5. told \in ToldType
  <2>1. Nothing \in [always: SUBSET Item, sometime: SUBSET Item, alone: BOOLEAN]
    BY DEF Nothing
  <2> QED BY <2>1 DEF Init, ToldType
<1>6. calls \in 0 .. MaxCalls
  <2>1. calls = 0 /\ MaxCalls \in Nat
    BY StoreAssumption DEF Init
  <2> QED BY <2>1
<1>7. records \in Seq(Id) /\ settled \in SUBSET Item
  <2>1. records = <<>> /\ settled = Present(rows)
    BY DEF Init
  <2> QED BY <2>1 DEF Present
<1>8. Types
    BY <1>1, <1>2, <1>3, <1>4, <1>5, <1>6, <1>7
       DEF Types, StoreTypeOK, Init, ToldType, Labels, Common
<1>9. ASSUME NEW p \in Proc PROVE Control(p)
  <2>1. /\ at[p] = "idle" /\ call[p] = None /\ answer[p] = "none yet" /\ lock # p
        /\ store \in {"redis", "sqlite", "memory"}
    BY StoreAssumption DEF Init
  <2> QED BY <2>1 DEF Control, Controlled, Suits, Common, Waiting, Locked, ThreadLabels
<1> QED BY <1>8, <1>9 DEF ControlInv

LEMMA ControlNext ==
    ASSUME ControlInv, [Next]_svars PROVE ControlInv'
<1>1. CASE UNCHANGED svars
    BY <1>1 DEF svars, ControlInv, Types, StoreTypeOK, Control
<1>2. ASSUME NEW p \in Proc, NEW c \in Calls, Invoke(p, c) PROVE ControlInv'
    BY <1>2, InvokeControl
<1>3. ASSUME NEW p \in Proc, Step(p) \/ BusyTimeout(p) \/ Crash(p) PROVE ControlInv'
    BY <1>3, RedisControl, SqliteControl, ThreadControl, EndControl DEF Step
<1> QED BY <1>1, <1>2, <1>3 DEF Next

-----------------------------------------------------------------------------
(* SQLite.  The schema as the steps of its initialization find it, and the *)
(* copies of the transaction that has the lock.                            *)
SchemaOf(d) ==
    /\ d.version = 2 <=> "memory" \in d.tables
    /\ d.version >= 1 => "base" \in d.tables

SchemaAt(d, w, l) ==
    /\ l.open = "yes" => d.version = 2
    /\ w \in {"creating", "inserting", "migrating", "migrated"} => "base" \in d.tables
    /\ w = "inserting" => l.version = IF d.version = 0 THEN 1 ELSE d.version
    /\ w \in {"migrating", "migrated"} => d.version >= 1
    /\ w = "migrated" => "memory" \notin d.tables

DraftAt(w, l, c, r, x, taken) ==
    /\ w = "begun" => l.rows = r /\ l.index = x
    /\ w = "approved" => \E a \in DOMAIN c.writes \cap Approval :
          /\ l.index = x
          /\ l.clean = (r[a] \in c.expects[a])
          /\ l.rows = IF l.clean THEN [r EXCEPT ![a] = c.writes[a]] ELSE r
    /\ w = "committing" =>
          /\ l.rows = RowsAfter(r, c)
          /\ Exact(x, r) => Exact(l.index, l.rows)
          /\ Promised(c, l.clean, AnswerOf(r, taken, c))
          /\ c.op = "append" => c.id \notin taken

SqliteAt(p) == /\ SchemaAt(database, at[p], local[p])
               /\ DraftAt(at[p], local[p], call[p], rows, index, ids)

SqliteInv ==
    store = "sqlite" => Exact(index, rows) /\ SchemaOf(database) /\ \A p \in Proc : SqliteAt(p)

LEMMA SchemaParts ==
    ASSUME ControlInv
    PROVE  /\ database.version \in 0 .. 2 /\ database.tables \in SUBSET {"base", "memory"}
           /\ \A t, v : [database EXCEPT !.tables = t].tables = t
           /\ \A t : [database EXCEPT !.tables = t].version = database.version
           /\ \A v : [database EXCEPT !.version = v].version = v
           /\ \A v : [database EXCEPT !.version = v].tables = database.tables
BY TypesParts

LEMMA Frames ==
    ASSUME ControlInv, NEW p \in Proc
    PROVE  /\ \A w : Goto(p, w) => at'[p] = w /\ \A q \in Proc : q # p => at'[q] = at[q]
           /\ \A l : local' = [local EXCEPT ![p] = l] =>
                        local'[p] = l /\ \A q \in Proc : q # p => local'[q] = local[q]
           /\ \A a : Replied(p, a) => answer'[p] = a /\ \A q \in Proc : q # p => answer'[q] = answer[q]
BY TypesParts DEF Goto, Replied

(* Those who do not have the lock find all as they have left it.           *)
LEMMA SqliteOthersKeep ==
    ASSUME ControlInv, ControlInv', SqliteInv, store = "sqlite", store' = store,
           NEW p \in Proc, NEW q \in Proc, q # p,
           at'[q] = at[q], call'[q] = call[q], local'[q] = local[q],
           UNCHANGED <<rows, index, ids>> \/ lock = p,
           \/ UNCHANGED database
           \/ database'.version = database.version /\ database'.tables = database.tables \cup {"base"}
           \/ /\ lock = p
              /\ database'.version >= database.version /\ database.tables \subseteq database'.tables
    PROVE  SqliteAt(q)'
<1>1. SqliteAt(q)
    BY DEF SqliteInv
<1>2. lock = p => at[q] \notin {"inserting", "migrated", "begun", "approved", "committing"}
    BY Where DEF Locked
<1>3. database.version \in 0 .. 2 /\ database'.version \in 0 .. 2
    BY TypesParts DEF ControlInv, Types, StoreTypeOK
<1>4. SchemaAt(database', at'[q], local'[q])
    BY <1>1, <1>2, <1>3 DEF SqliteAt, SchemaAt
<1>5. DraftAt(at'[q], local'[q], call'[q], rows', index', ids')
  <2>1. CASE UNCHANGED <<rows, index, ids>>
    BY <1>1, <2>1 DEF SqliteAt
  <2>2. CASE lock = p
    BY <1>2, <2>2 DEF DraftAt
  <2> QED BY <2>1, <2>2
<1> QED BY <1>4, <1>5 DEF SqliteAt

LEMMA SqliteSchemaStep ==
    ASSUME ControlInv, ControlInv', SqliteInv, store = "sqlite", NEW p \in Proc,
           \/ CreateTables(p) \/ InsertVersion(p) \/ CommitVersion(p)
           \/ Migrate(p) \/ CommitMigration(p) \/ Rollback(p)
    PROVE  SqliteInv'
<1>1. /\ Exact(index, rows) /\ SchemaOf(database) /\ SqliteAt(p)
      /\ local[p] \in Local
    BY OwnTypes DEF SqliteInv
<1>2. UNCHANGED <<store, call, rows, index, ids>>
    BY DEF CreateTables, InsertVersion, CommitVersion, Migrate, CommitMigration, Rollback, SqliteOthers
<1>3. Exact(index', rows')
    BY <1>1, <1>2
<1>4. \A w : w \notin {"begun", "approved", "committing"} =>
          DraftAt(w, local'[p], call'[p], rows', index', ids')
    BY DEF DraftAt
<1> DEFINE Kept == \/ UNCHANGED database
                   \/ /\ database'.version = database.version
                      /\ database'.tables = database.tables \cup {"base"}
                   \/ /\ lock = p
                      /\ database'.version >= database.version
                      /\ database.tables \subseteq database'.tables
<1>5. ASSUME NEW w, NEW l, Goto(p, w), w \notin {"begun", "approved", "committing"},
             local' = [local EXCEPT ![p] = l],
             Kept, SchemaOf(database'), SchemaAt(database', w, l)
      PROVE  SqliteInv'
  <2>1. /\ at'[p] = w /\ local'[p] = l
        /\ \A q \in Proc : q # p => at'[q] = at[q] /\ local'[q] = local[q]
    BY <1>5, Frames
  <2>2. SqliteAt(p)'
    BY <1>4, <1>5, <2>1 DEF SqliteAt
  <2>3. ASSUME NEW q \in Proc, q # p PROVE SqliteAt(q)'
    BY <1>2, <1>5, <2>1, <2>3, SqliteOthersKeep
  <2> QED BY <1>3, <1>5, <2>2, <2>3 DEF SqliteInv
<1>6. CASE CreateTables(p)
  <2>1. database'.version = database.version /\ database'.tables = database.tables \cup {"base"}
    BY <1>6, SchemaParts DEF CreateTables
  <2>2. SchemaOf(database') /\ SchemaAt(database', "creating", local[p])
    BY <1>1, <2>1 DEF SchemaOf, SchemaAt, SqliteAt
  <2>3. local' = [local EXCEPT ![p] = local[p]] /\ Goto(p, "creating")
    BY <1>6, TypesParts DEF CreateTables
  <2> QED BY <1>5, <2>1, <2>2, <2>3
<1>7. CASE InsertVersion(p)
  <2> DEFINE v == IF database.version = 0 THEN 1 ELSE database.version
             l == [[local[p] EXCEPT !.version = v] EXCEPT !.rows = rows, !.index = index]
  <2>1. local' = [local EXCEPT ![p] = l] /\ Goto(p, "inserting") /\ database' = database
    BY <1>7 DEF InsertVersion, Locks
  <2>2. l.open = local[p].open /\ l.version = v
    BY <1>1 DEF Local
  <2>3. "base" \in database.tables
    BY <1>1, <1>7 DEF SqliteAt, SchemaAt, InsertVersion
  <2>4. SchemaAt(database', "inserting", l)
    BY <1>1, <2>1, <2>2, <2>3 DEF SchemaAt, SqliteAt
  <2> HIDE DEF l
  <2> QED BY <1>1, <1>5, <2>1, <2>4
<1>8. CASE CommitVersion(p)
  <2>1. /\ lock = p /\ "base" \in database.tables
        /\ local[p].version = IF database.version = 0 THEN 1 ELSE database.version
    BY <1>1, <1>8, Where DEF CommitVersion, Locked, SqliteAt, SchemaAt
  <2>2. database'.version = local[p].version /\ database'.tables = database.tables
    BY <1>8, SchemaParts DEF CommitVersion
  <2>3. PICK w \in {"called", "migrating"}, o \in {"yes", "no"} :
           /\ Goto(p, w) /\ local' = [local EXCEPT ![p] = [local[p] EXCEPT !.open = o]]
           /\ o = "yes" => local[p].version = 2
    BY <1>8 DEF CommitVersion, Unlocks
  <2>4. [local[p] EXCEPT !.open = o].open = o
    BY <1>1 DEF Local
  <2>5. SchemaOf(database') /\ SchemaAt(database', w, [local[p] EXCEPT !.open = o])
    BY <1>1, <2>1, <2>2, <2>3, <2>4, SchemaParts DEF SchemaOf, SchemaAt
  <2>6. Kept
    BY <2>1, <2>2, SchemaParts
  <2> QED BY <1>5, <2>3, <2>5, <2>6
<1>9. CASE Migrate(p)
  <2> DEFINE l == [local[p] EXCEPT !.rows = rows, !.index = index]
  <2>1. local' = [local EXCEPT ![p] = l] /\ database' = database
    BY <1>9 DEF Migrate, Locks
  <2>2. PICK w \in {"rolling back", "migrated"} :
           Goto(p, w) /\ (w = "migrated" => "memory" \notin database.tables)
    BY <1>9 DEF Migrate
  <2>3. l.open = local[p].open
    BY <1>1 DEF Local
  <2>4. at[p] = "migrating"
    BY <1>9 DEF Migrate
  <2>5. SchemaAt(database', w, l)
    BY <1>1, <2>1, <2>2, <2>3, <2>4 DEF SchemaAt, SqliteAt
  <2> HIDE DEF l
  <2> QED BY <1>1, <1>5, <2>1, <2>2, <2>5
<1>10. CASE CommitMigration(p)
  <2> DEFINE l == [local[p] EXCEPT !.open = "yes", !.version = 2]
  <2>1. /\ local' = [local EXCEPT ![p] = l] /\ Goto(p, "called")
        /\ database'.version = 2 /\ database'.tables = database.tables \cup {"memory"}
    BY <1>10 DEF CommitMigration, Unlocks
  <2>2. lock = p /\ "base" \in database.tables
    BY <1>1, <1>10, Where DEF CommitMigration, Locked, SqliteAt, SchemaAt
  <2>3. SchemaOf(database') /\ SchemaAt(database', "called", l) /\ Kept
    BY <1>1, <2>1, <2>2, SchemaParts DEF SchemaOf, SchemaAt
  <2> HIDE DEF l
  <2> QED BY <1>5, <2>1, <2>3
<1>11. CASE Rollback(p)
  <2>1. local' = [local EXCEPT ![p] = Over(local[p])] /\ Goto(p, "answered") /\ database' = database
    BY <1>11 DEF Rollback, Unlocks
  <2>2. Over(local[p]).open = local[p].open
    BY <1>1, OverTyped
  <2>3. SchemaAt(database', "answered", Over(local[p]))
    BY <1>1, <2>1, <2>2 DEF SchemaAt, SqliteAt
  <2> QED BY <1>1, <1>5, <2>1, <2>3
<1> QED BY <1>6, <1>7, <1>8, <1>9, <1>10, <1>11

(* A transaction that works on its copy, and one that commits it.          *)
LEMMA SqliteCopyStep ==
    ASSUME ControlInv, ControlInv', SqliteInv, store = "sqlite", NEW p \in Proc,
           NEW w, NEW l, Goto(p, w), local' = [local EXCEPT ![p] = l],
           l.open = local[p].open,
           w \notin {"creating", "inserting", "migrating", "migrated"},
           UNCHANGED <<store, call, database, rows, index, ids>>,
           DraftAt(w, l, call[p], rows, index, ids)
    PROVE  SqliteInv'
<1>1. /\ Exact(index, rows) /\ SchemaOf(database) /\ SqliteAt(p)
    BY DEF SqliteInv
<1>2. /\ at'[p] = w /\ local'[p] = l
      /\ \A q \in Proc : q # p => at'[q] = at[q] /\ local'[q] = local[q]
    BY Frames
<1>3. SqliteAt(p)'
    BY <1>1, <1>2 DEF SqliteAt, SchemaAt
<1>4. ASSUME NEW q \in Proc, q # p PROVE SqliteAt(q)'
    BY <1>2, <1>4, SqliteOthersKeep
<1> QED BY <1>1, <1>3, <1>4 DEF SqliteInv

LEMMA SqliteStatementStep ==
    ASSUME ControlInv, ControlInv', SqliteInv, store = "sqlite", NEW p \in Proc,
           NEW x \in Index, NEW m \in BOOLEAN, Drafted(p, call[p], x, m)
    PROVE  SqliteInv'
<1> DEFINE c == call[p]
           l == [local[p] EXCEPT !.rows = RowsAfter(rows, c), !.index = x, !.clean = m]
<1>1. Draft(p, RowsAfter(rows, c), x, m)
    BY DEF Drafted
<1>2. local' = [local EXCEPT ![p] = l] /\ Goto(p, "committing")
    BY <1>1, TypesParts, OwnTypes DEF Draft
<1>3. l.rows = RowsAfter(rows, c) /\ l.index = x /\ l.clean = m /\ l.open = local[p].open
    BY OwnTypes DEF Local
<1>4. DraftAt("committing", l, c, rows, index, ids)
    BY <1>3 DEF DraftAt, Drafted
<1>5. UNCHANGED <<store, call, database, rows, index, ids>>
    BY <1>1 DEF Draft, SqliteOthers
<1> HIDE DEF l
<1> QED BY <1>2, <1>3, <1>4, <1>5, SqliteCopyStep

LEMMA SqliteReadStep ==
    ASSUME ControlInv, ControlInv', SqliteInv, store = "sqlite", NEW p \in Proc,
           \/ SqliteGet(p) \/ SqliteList(p) \/ BusyTimeout(p)
           \/ (InsertRecord(p) /\ call[p].id \in ids)
    PROVE  SqliteInv'
<1>1. \A w, l : w \notin {"begun", "approved", "committing"} => DraftAt(w, l, call[p], rows, index, ids)
    BY DEF DraftAt
<1>2. UNCHANGED <<store, call, database, rows, index, ids>>
    BY DEF SqliteGet, SqliteList, BusyTimeout, InsertRecord, SqliteOthers
<1>3. PICK w \in {"answered", "rolling back"} : Goto(p, w)
    BY DEF SqliteGet, SqliteList, BusyTimeout, InsertRecord
<1>4. PICK l : local' = [local EXCEPT ![p] = l] /\ l.open = local[p].open
  <2>1. CASE SqliteGet(p) \/ BusyTimeout(p)
    <3>1. local' = [local EXCEPT ![p] = local[p]]
      BY <2>1, TypesParts DEF SqliteGet, BusyTimeout
    <3> QED BY <3>1
  <2>2. CASE SqliteList(p)
    <3>1. local' = [local EXCEPT ![p] = [local[p] EXCEPT !.found = Present(rows)]]
      BY <2>2 DEF SqliteList
    <3>2. [local[p] EXCEPT !.found = Present(rows)].open = local[p].open
      BY OwnTypes DEF Local
    <3> QED BY <3>1, <3>2
  <2>3. CASE InsertRecord(p) /\ call[p].id \in ids
    <3>1. local' = [local EXCEPT ![p] = [local[p] EXCEPT !.rows = rows, !.index = index]]
      BY <2>3 DEF InsertRecord, Locks
    <3>2. [local[p] EXCEPT !.rows = rows, !.index = index].open = local[p].open
      BY OwnTypes DEF Local
    <3> QED BY <3>1, <3>2
  <2> QED BY <2>1, <2>2, <2>3
<1> QED BY <1>1, <1>2, <1>3, <1>4, SqliteCopyStep

(* Both rows of a pair, the approval first.                                *)
LEMMA PairAfter ==
    ASSUME NEW r \in Rows, NEW c \in Calls, c.op = "transition",
           NEW a \in DOMAIN c.writes \cap Approval, NEW i \in DOMAIN c.writes \cap Item
    PROVE  /\ a # i /\ DOMAIN c.writes = {a, i} /\ c.writes[a] \in Status /\ c.writes[i] \in Status
           /\ Holds(r, c) <=> r[a] \in c.expects[a] /\ r[i] \in c.expects[i]
           /\ Holds(r, c) =>
                 RowsAfter(r, c) = [[r EXCEPT ![a] = c.writes[a]] EXCEPT ![i] = c.writes[i]]
<1>1. DOMAIN c.writes \in Pair \cup {{k} : k \in Approval \cup Item} /\ a # i
    BY CallShape, StoreAssumption
<1>2. DOMAIN c.writes = {a, i}
  <2>1. DOMAIN c.writes \in Pair
    BY <1>1, PairShape
  <2>2. PICK b \in Approval, j \in Item : DOMAIN c.writes = {b, j} /\ b \notin Item /\ j \notin Approval
    BY <2>1, PairShape
  <2>3. a = b /\ i = j
    BY <2>2
  <2> QED BY <2>2, <2>3
<1>3. c.writes[a] \in Status /\ c.writes[i] \in Status /\ DOMAIN c.expects = {a, i}
    BY <1>2, CallShape
<1>4. Holds(r, c) <=> r[a] \in c.expects[a] /\ r[i] \in c.expects[i]
    BY <1>3 DEF Holds
<1>5. Holds(r, c) => RowsAfter(r, c) = [[r EXCEPT ![a] = c.writes[a]] EXCEPT ![i] = c.writes[i]]
  <2>1. SUFFICES ASSUME Holds(r, c)
                 PROVE RowsAfter(r, c) = [[r EXCEPT ![a] = c.writes[a]] EXCEPT ![i] = c.writes[i]]
    OBVIOUS
  <2>2. RowsAfter(r, c) = [k \in Key |-> IF k \in {a, i} THEN c.writes[k] ELSE r[k]]
    BY <1>2, <2>1, RowsAfterCall
  <2>3. r = [k \in Key |-> r[k]] /\ a \in Key /\ i \in Key
    BY DEF Rows, Key
  <2> QED BY <1>1, <2>2, <2>3
<1> QED BY <1>1, <1>2, <1>3, <1>4, <1>5

(* ... what the two statements about a pair make of their copy.            *)
LEMMA UpdatesOfPair ==
    ASSUME ControlInv, SqliteInv, store = "sqlite", NEW p \in Proc, NEW k \in Key
    PROVE  /\ UpdateApproval(p, k) =>
                 \E l : /\ local' = [local EXCEPT ![p] = l] /\ l.open = local[p].open
                        /\ DraftAt("approved", l, call[p], rows, index, ids)
           /\ UpdateItem(p, k) =>
                 IF Holds(rows, call[p])
                 THEN /\ Goto(p, "committing") /\ UNCHANGED answer
                      /\ \E l : /\ local' = [local EXCEPT ![p] = l] /\ l.open = local[p].open
                                /\ DraftAt("committing", l, call[p], rows, index, ids)
                 ELSE Goto(p, "rolling back") /\ Replied(p, "no") /\ UNCHANGED local
<1> DEFINE c == call[p]
<1>1. SqliteAt(p) /\ Exact(index, rows) /\ rows \in Rows /\ index \in Index
      /\ local \in [Proc -> Local] /\ local[p] \in Local
    BY TypesParts DEF SqliteInv
<1>2. ASSUME UpdateApproval(p, k)
      PROVE  \E l : /\ local' = [local EXCEPT ![p] = l] /\ l.open = local[p].open
                    /\ DraftAt("approved", l, c, rows, index, ids)
  <2>1. at[p] = "begun" /\ k \in DOMAIN c.writes \cap Approval
    BY <1>2 DEF UpdateApproval, Is
  <2>2. local[p].rows = rows /\ local[p].index = index
    BY <1>1, <2>1 DEF SqliteAt, DraftAt
  <2> DEFINE b == rows[k] \in c.expects[k]
             v == IF b THEN c.writes[k] ELSE rows[k]
             r == [rows EXCEPT ![k] = v]
             l == [local[p] EXCEPT !.clean = b, !.rows = r]
  <2>3. local' = [local EXCEPT ![p].clean = b, ![p].rows[k] = v]
    BY <1>2, <2>2 DEF UpdateApproval, Matches
  <2>4. local' = [local EXCEPT ![p] = l]
    <3> HIDE DEF b, v
    <3>1. local' = [[local EXCEPT ![p].clean = b] EXCEPT ![p].rows[k] = v]
      BY <2>3
    <3> DEFINE l1 == [local EXCEPT ![p].clean = b]
    <3>2. l1[p] = [local[p] EXCEPT !.clean = b]
      BY <1>1
    <3>3. l1[p].rows = rows
      BY <1>1, <2>2, <3>2 DEF Local
    <3>4. local' = [l1 EXCEPT ![p] = [l1[p] EXCEPT !.rows = [l1[p].rows EXCEPT ![k] = v]]]
      BY <3>1
    <3>5. local' = [l1 EXCEPT ![p] = [[local[p] EXCEPT !.clean = b] EXCEPT !.rows = r]]
      BY <3>2, <3>3, <3>4
    <3>6. [[local[p] EXCEPT !.clean = b] EXCEPT !.rows = r] = l
      BY <1>1 DEF Local
    <3>7. \A z : [l1 EXCEPT ![p] = z] = [local EXCEPT ![p] = z]
      BY <1>1
    <3> QED BY <3>5, <3>6, <3>7
  <2>5. l.rows = r /\ l.index = index /\ l.clean = b /\ l.open = local[p].open
    BY <1>1, <2>2 DEF Local
  <2>6. r = IF b THEN [rows EXCEPT ![k] = c.writes[k]] ELSE rows
    BY <1>1 DEF Rows
  <2> HIDE DEF l, r
  <2>7. DraftAt("approved", l, c, rows, index, ids)
    BY <2>1, <2>5, <2>6 DEF DraftAt
  <2> QED BY <2>4, <2>5, <2>7
<1>3. ASSUME UpdateItem(p, k)
      PROVE  IF Holds(rows, c)
             THEN /\ Goto(p, "committing") /\ UNCHANGED answer
                  /\ \E l : /\ local' = [local EXCEPT ![p] = l] /\ l.open = local[p].open
                            /\ DraftAt("committing", l, c, rows, index, ids)
             ELSE Goto(p, "rolling back") /\ Replied(p, "no") /\ UNCHANGED local
  <2>1. at[p] = "approved" /\ k \in DOMAIN c.writes \cap Item
    BY <1>3 DEF UpdateItem
  <2>2. c \in Calls /\ c.op = "transition"
    BY <2>1, Where DEF Suits, Double
  <2>3. PICK a \in DOMAIN c.writes \cap Approval :
          /\ local[p].index = index
          /\ local[p].clean = (rows[a] \in c.expects[a])
          /\ local[p].rows = IF local[p].clean THEN [rows EXCEPT ![a] = c.writes[a]] ELSE rows
    BY <1>1, <2>1 DEF SqliteAt, DraftAt
  <2>4. /\ a # k /\ c.writes[a] \in Status /\ c.writes[k] \in Status /\ a \in Key
        /\ Holds(rows, c) <=> rows[a] \in c.expects[a] /\ rows[k] \in c.expects[k]
        /\ Holds(rows, c) =>
              RowsAfter(rows, c) = [[rows EXCEPT ![a] = c.writes[a]] EXCEPT ![k] = c.writes[k]]
    BY <1>1, <2>1, <2>2, PairAfter DEF Key
  <2>5. local[p].rows[k] = rows[k]
    BY <1>1, <2>3, <2>4 DEF Rows
  <2>6. Holds(rows, c) <=> local[p].clean /\ Matches(p, k)
    BY <2>3, <2>4, <2>5 DEF Matches
  <2>7. CASE Holds(rows, c)
    <3> DEFINE r == [local[p].rows EXCEPT ![k] = c.writes[k]]
               x == Synced(index, k, c.writes[k])
               l == [local[p] EXCEPT !.rows = r, !.index = x]
    <3>1. /\ local' = [local EXCEPT ![p].rows[k] = c.writes[k],
                                   ![p].index = Synced(@, k, c.writes[k])]
          /\ Goto(p, "committing") /\ UNCHANGED answer
      BY <1>3, <2>6, <2>7 DEF UpdateItem
    <3>2. local' = [local EXCEPT ![p] = l]
      BY <1>1, <2>3, <3>1
    <3>3. l.rows = r /\ l.index = x /\ l.clean = local[p].clean /\ l.open = local[p].open
      BY <1>1 DEF Local
    <3>4. local[p].clean = TRUE /\ r = RowsAfter(rows, c)
      BY <2>3, <2>4, <2>6, <2>7
    <3>5. Exact(x, r)
      <4>1. [rows EXCEPT ![a] = c.writes[a]] \in Rows
        BY <1>1, <2>4, SyncedTyped
      <4>2. Exact(index, [rows EXCEPT ![a] = c.writes[a]])
        <5>1. a \notin Item
          BY StoreAssumption
        <5> QED BY <1>1, <5>1 DEF Exact, Rows, Key
      <4> QED BY <1>1, <2>3, <2>4, <3>4, <4>1, <4>2, SyncedTyped
    <3>6. Promised(c, TRUE, AnswerOf(rows, ids, c))
      BY <2>2, <2>7, AnswerOfCall DEF Promised
    <3> HIDE DEF l, x, r
    <3>7. DraftAt("committing", l, c, rows, index, ids)
      BY <2>2, <3>3, <3>4, <3>5, <3>6 DEF DraftAt
    <3> QED BY <2>7, <3>1, <3>2, <3>3, <3>7
  <2>8. CASE ~Holds(rows, c)
    BY <1>3, <2>6, <2>8 DEF UpdateItem
  <2> QED BY <2>7, <2>8
<1> QED BY <1>2, <1>3

LEMMA ClaimSelected ==
    ASSUME ControlInv, SqliteInv, store = "sqlite", NEW p \in Proc, SelectClaim(p)
    PROVE  /\ call[p] \in Calls /\ call[p].op = "claim" /\ local[p].rows = rows
           /\ IF MayClaim(rows[call[p].key])
              THEN /\ Goto(p, "committing") /\ UNCHANGED answer
                   /\ \E l : /\ local' = [local EXCEPT ![p] = l] /\ l.open = local[p].open
                             /\ DraftAt("committing", l, call[p], rows, index, ids)
              ELSE /\ Goto(p, "rolling back") /\ Replied(p, rows[call[p].key]) /\ UNCHANGED local
<1> DEFINE c == call[p]
           r == [rows EXCEPT ![c.key] = c.value]
           l == [local[p] EXCEPT !.rows = r]
<1>1. at[p] = "begun" /\ c.op = "claim" /\ c \in Calls
    BY Where DEF SelectClaim, Is
<1>2. local[p].rows = rows /\ local[p].index = index /\ local \in [Proc -> Local]
    BY <1>1, TypesParts DEF SqliteInv, SqliteAt, DraftAt
<1>3. CASE MayClaim(rows[c.key])
  <2>1. Goto(p, "committing") /\ UNCHANGED answer /\ local' = [local EXCEPT ![p].rows[c.key] = c.value]
    BY <1>2, <1>3 DEF SelectClaim
  <2>2. local' = [local EXCEPT ![p] = l]
    BY <1>2, <2>1
  <2>3. l.rows = r /\ l.index = index /\ l.open = local[p].open
    BY <1>2, OwnTypes DEF Local
  <2>4. RowsAfter(rows, c) = r
    BY <1>1, <1>3, RowsAfterCall
  <2>5. Promised(c, l.clean, AnswerOf(rows, ids, c))
    BY <1>1, <1>3, AnswerOfCall DEF Promised
  <2>6. Exact(index, rows) => Exact(index, r)
    <3>1. c.key \notin Item
      BY <1>1, CallShape, StoreAssumption
    <3> QED BY <3>1, TypesParts DEF Exact, Rows, Key
  <2> HIDE DEF l, r
  <2>7. DraftAt("committing", l, c, rows, index, ids)
    BY <1>1, <2>3, <2>4, <2>5, <2>6 DEF DraftAt
  <2> QED BY <1>1, <1>2, <1>3, <2>1, <2>2, <2>3, <2>7
<1>4. CASE ~MayClaim(rows[c.key])
    BY <1>1, <1>2, <1>4 DEF SelectClaim
<1> QED BY <1>3, <1>4

LEMMA SqliteTwoStep ==
    ASSUME ControlInv, ControlInv', SqliteInv, store = "sqlite", NEW p \in Proc,
           \/ BeginImmediate(p) \/ SelectClaim(p)
           \/ \E k \in Key : UpdateApproval(p, k) \/ UpdateItem(p, k)
    PROVE  SqliteInv'
<1> DEFINE c == call[p]
<1>1. UNCHANGED <<store, call, database, rows, index, ids>>
    BY DEF BeginImmediate, SelectClaim, UpdateApproval, UpdateItem, SqliteOthers
<1>2. \A l : DraftAt("rolling back", l, c, rows, index, ids)
    BY DEF DraftAt
<1>3. local = [local EXCEPT ![p] = local[p]]
    BY TypesParts
<1>4. CASE BeginImmediate(p)
  <2> DEFINE l == [local[p] EXCEPT !.rows = rows, !.index = index]
  <2>1. Goto(p, "begun") /\ local' = [local EXCEPT ![p] = l]
    BY <1>4 DEF BeginImmediate, Locks
  <2>2. l.rows = rows /\ l.index = index /\ l.open = local[p].open
    BY OwnTypes DEF Local
  <2>3. DraftAt("begun", l, c, rows, index, ids)
    BY <2>2 DEF DraftAt
  <2> HIDE DEF l
  <2> QED BY <1>1, <2>1, <2>2, <2>3, SqliteCopyStep
<1>5. CASE SelectClaim(p)
  <2>1. CASE MayClaim(rows[c.key])
    <3>1. PICK l : /\ local' = [local EXCEPT ![p] = l] /\ l.open = local[p].open
                   /\ DraftAt("committing", l, c, rows, index, ids)
      BY <1>5, <2>1, ClaimSelected
    <3>2. Goto(p, "committing")
      BY <1>5, <2>1, ClaimSelected
    <3> QED BY <1>1, <3>1, <3>2, SqliteCopyStep
  <2>2. CASE ~MayClaim(rows[c.key])
    <3>1. Goto(p, "rolling back") /\ UNCHANGED local
      BY <1>5, <2>2, ClaimSelected
    <3>2. local' = [local EXCEPT ![p] = local[p]]
      BY <1>3, <3>1
    <3> QED BY <1>1, <1>2, <3>1, <3>2, SqliteCopyStep
  <2> QED BY <2>1, <2>2
<1>6. ASSUME NEW k \in Key, UpdateApproval(p, k) PROVE SqliteInv'
  <2>1. Goto(p, "approved")
    BY <1>6 DEF UpdateApproval
  <2>2. PICK l : /\ local' = [local EXCEPT ![p] = l] /\ l.open = local[p].open
                 /\ DraftAt("approved", l, c, rows, index, ids)
    BY <1>6, UpdatesOfPair
  <2> QED BY <1>1, <2>1, <2>2, SqliteCopyStep
<1>7. ASSUME NEW k \in Key, UpdateItem(p, k) PROVE SqliteInv'
  <2>1. CASE Holds(rows, c)
    <3>1. PICK l : /\ local' = [local EXCEPT ![p] = l] /\ l.open = local[p].open
                   /\ DraftAt("committing", l, c, rows, index, ids)
      BY <1>7, <2>1, UpdatesOfPair
    <3>2. Goto(p, "committing")
      BY <1>7, <2>1, UpdatesOfPair
    <3> QED BY <1>1, <3>1, <3>2, SqliteCopyStep
  <2>2. CASE ~Holds(rows, c)
    <3>1. Goto(p, "rolling back") /\ UNCHANGED local
      BY <1>7, <2>2, UpdatesOfPair
    <3>2. local' = [local EXCEPT ![p] = local[p]]
      BY <1>3, <3>1
    <3> QED BY <1>1, <1>2, <3>1, <3>2, SqliteCopyStep
  <2> QED BY <2>1, <2>2
<1> QED BY <1>4, <1>5, <1>6, <1>7

LEMMA SqliteCommitStep ==
    ASSUME ControlInv, ControlInv', SqliteInv, store = "sqlite", NEW p \in Proc, Commit(p)
    PROVE  /\ SqliteInv'
           /\ lock = p /\ rows' = RowsAfter(rows, call[p]) /\ ids' = IdsAfter(ids, call[p])
           /\ AnswerAtCommit(p) = AnswerOf(rows, ids, call[p])
           /\ call[p].op = "append" => call[p].id \notin ids
<1> DEFINE c == call[p]
<1>1. Exact(index, rows) /\ SchemaOf(database) /\ SqliteAt(p) /\ at[p] = "committing" /\ lock = p
      /\ c \in Calls /\ c.op \notin {"get", "list"} /\ local[p].clean \in BOOLEAN
    BY Where, OwnTypes DEF SqliteInv, Commit, Locked, Suits
<1>2. /\ local[p].rows = RowsAfter(rows, c)
      /\ Exact(local[p].index, local[p].rows)
      /\ Promised(c, local[p].clean, AnswerOf(rows, ids, c))
      /\ c.op = "append" => c.id \notin ids
    BY <1>1 DEF SqliteAt, DraftAt
<1>3. AnswerAtCommit(p) = AnswerOf(rows, ids, c)
    BY <1>1, <1>2, CommitAnswer, CallShape DEF Promised
<1>4. /\ rows' = local[p].rows /\ index' = local[p].index /\ ids' = IdsAfter(ids, c)
      /\ local' = [local EXCEPT ![p] = Over(local[p])] /\ Goto(p, "answered")
      /\ UNCHANGED <<store, call, database>>
    BY DEF Commit, Publish, Unlocks, SqliteOthers
<1>5. /\ at'[p] = "answered" /\ local'[p] = Over(local[p])
      /\ \A q \in Proc : q # p => at'[q] = at[q] /\ local'[q] = local[q]
    BY <1>4, Frames
<1>6. local'[p].open = local[p].open
    BY <1>5, OwnTypes, OverTyped
<1>7. SqliteAt(p)'
    BY <1>1, <1>4, <1>5, <1>6 DEF SqliteAt, SchemaAt, DraftAt
<1>8. ASSUME NEW q \in Proc, q # p PROVE SqliteAt(q)'
    BY <1>1, <1>4, <1>5, <1>8, SqliteOthersKeep
<1>9. Exact(index', rows')
    BY <1>2, <1>4
<1>10. SqliteInv'
    BY <1>1, <1>4, <1>7, <1>8, <1>9 DEF SqliteInv
<1> QED BY <1>1, <1>2, <1>3, <1>4, <1>10

LEMMA SqliteCallStep ==
    ASSUME ControlInv, ControlInv', SqliteInv, store = "sqlite", NEW p \in Proc,
           (\E c \in Calls : Invoke(p, c)) \/ Return(p) \/ Crash(p)
    PROVE  SqliteInv'
<1>1. Exact(index, rows) /\ SchemaOf(database) /\ SqliteAt(p)
    BY DEF SqliteInv
<1>2. UNCHANGED <<store, rows, index, ids, database>>
    BY DEF Invoke, Return, Crash
<1>3. PICK w, c : w \in {"called", "idle"} /\ Goto(p, w) /\ call' = [call EXCEPT ![p] = c]
    BY DEF Invoke, Return, Crash, Ended
<1>4. PICK l : local' = [local EXCEPT ![p] = l] /\ (l.open = local[p].open \/ l.open = "no")
  <2>1. CASE \E d \in Calls : Invoke(p, d)
    <3>1. local' = [local EXCEPT ![p] = local[p]]
      BY <2>1, TypesParts DEF Invoke
    <3> QED BY <3>1
  <2>2. CASE Return(p)
    BY <2>2, OwnTypes, OverTyped DEF Return
  <2>3. CASE Crash(p)
    BY <2>3, NoLocalTyped DEF Crash
  <2> QED BY <2>1, <2>2, <2>3
<1>5. /\ at'[p] = w /\ local'[p] = l
      /\ \A q \in Proc : q # p => at'[q] = at[q] /\ local'[q] = local[q] /\ call'[q] = call[q]
    BY <1>3, <1>4, Frames, TypesParts
<1>6. SqliteAt(p)'
    BY <1>1, <1>2, <1>3, <1>4, <1>5 DEF SqliteAt, SchemaAt, DraftAt
<1>7. ASSUME NEW q \in Proc, q # p PROVE SqliteAt(q)'
    BY <1>2, <1>5, <1>7, SqliteOthersKeep
<1> QED BY <1>1, <1>2, <1>6, <1>7 DEF SqliteInv

(* Which implementation a step is one of.                                  *)
LEMMA StepOf ==
    ASSUME ControlInv, NEW p \in Proc
    PROVE  /\ RedisStep(p) => store = "redis"
           /\ SqliteStep(p) \/ BusyTimeout(p) => store = "sqlite"
           /\ ThreadStep(p) => store = "memory"
<1>1. /\ at[p] \in RedisLabels => store = "redis"
      /\ at[p] \in SqliteLabels => store = "sqlite"
      /\ at[p] \in ThreadLabels => store = "memory"
    BY Where
<1>2. RedisStep(p) => store = "redis" \/ at[p] \in RedisLabels
    BY DEF RedisStep, RedisGet, RedisSet, RedisAddMember, RedisDelete, RedisRemoveMember, RedisWatch,
           RedisExec, Executed, RedisRead, RedisTakeId, RedisPush, RedisMembers, RedisListed,
           RedisGetMember, Called, RedisLabels
<1>3. SqliteStep(p) \/ BusyTimeout(p) => store = "sqlite" \/ at[p] \in SqliteLabels
    BY DEF SqliteStep, BusyTimeout, CreateTables, InsertVersion, CommitVersion, Migrate,
           CommitMigration, Rollback, SqliteGet, SqliteList, Upsert, DeleteRow, InsertRecord,
           BeginImmediate, SelectClaim, Update, UpdateApproval, UpdateItem, Commit, Called, Is,
           SqliteLabels
<1>4. ThreadStep(p) => store = "memory" \/ at[p] \in ThreadLabels
    BY DEF ThreadStep, TakeLock, Work, WorkList, WriteApproval, WriteItem, ReleaseLock, Is,
           ThreadLabels
<1> QED BY <1>1, <1>2, <1>3, <1>4

LEMMA StoreStays ==
    ASSUME [Next]_svars PROVE store' = store
<1>1. ASSUME NEW p \in Proc, SqliteStep(p) \/ BusyTimeout(p) PROVE store' = store
    BY <1>1 DEF SqliteStep, BusyTimeout, CreateTables, InsertVersion, CommitVersion, Migrate,
           CommitMigration, Rollback, SqliteGet, SqliteList, Upsert, DeleteRow, InsertRecord,
           BeginImmediate, SelectClaim, Update, UpdateApproval, UpdateItem, Commit, Draft, SqliteOthers
<1>2. ASSUME NEW p \in Proc, RedisStep(p) PROVE store' = store
    BY <1>2 DEF RedisStep, RedisGet, RedisSet, RedisAddMember, RedisDelete, RedisRemoveMember,
           RedisWatch, RedisExec, Executed, RedisRead, RedisTakeId, RedisPush, RedisMembers,
           RedisListed, RedisGetMember, RedisOthers
<1>3. ASSUME NEW p \in Proc, ThreadStep(p) PROVE store' = store
    BY <1>3 DEF ThreadStep, TakeLock, Work, WorkList, WriteApproval, WriteItem, ReleaseLock,
           ThreadOthers
<1>4. ASSUME NEW p \in Proc, (\E c \in Calls : Invoke(p, c)) \/ Return(p) \/ Crash(p)
      PROVE store' = store
    BY <1>4 DEF Invoke, Return, Crash
<1> QED BY <1>1, <1>2, <1>3, <1>4 DEF Next, Step, svars

LEMMA SqliteNext ==
    ASSUME ControlInv, SqliteInv, [Next]_svars PROVE SqliteInv'
<1>1. ControlInv' /\ store' = store
    BY ControlNext, StoreStays
<1>2. CASE store # "sqlite"
    BY <1>1, <1>2 DEF SqliteInv
<1>3. CASE store = "sqlite"
  <2>1. CASE UNCHANGED svars
    BY <2>1 DEF svars, SqliteInv, SqliteAt
  <2>2. ASSUME NEW p \in Proc, SqliteStep(p) \/ BusyTimeout(p) PROVE SqliteInv'
    <3>1. CASE DraftsIndex(p) \/ (InsertRecord(p) /\ call[p].id \notin ids)
      <4>1. PICK x \in Index, m \in BOOLEAN : Drafted(p, call[p], x, m)
        BY <3>1, StatementsDraft
      <4> QED BY <1>1, <1>3, <4>1, SqliteStatementStep
    <3>2. CASE InsertRecord(p) /\ call[p].id \in ids
      BY <1>1, <1>3, <3>2, SqliteReadStep
    <3> QED BY <1>1, <1>3, <2>2, <3>1, <3>2, SqliteSchemaStep, SqliteReadStep, SqliteTwoStep,
               SqliteCommitStep DEF SqliteStep, DraftsIndex
  <2>3. ASSUME NEW p \in Proc, (\E c \in Calls : Invoke(p, c)) \/ Return(p) \/ Crash(p)
        PROVE  SqliteInv'
    BY <1>1, <1>3, <2>3, SqliteCallStep
  <2>4. \A p \in Proc : ~RedisStep(p) /\ ~ThreadStep(p)
    BY <1>3, StepOf
  <2> QED BY <2>1, <2>2, <2>3, <2>4 DEF Next, Step
<1> QED BY <1>2, <1>3

LEMMA SqliteInit ==
    ASSUME Init PROVE SqliteInv
<1>1. SUFFICES ASSUME store = "sqlite"
               PROVE Exact(index, rows) /\ SchemaOf(database) /\ \A p \in Proc : SqliteAt(p)
    BY DEF SqliteInv
<1>2. Exact(index, rows)
    BY <1>1 DEF Init, Exact
<1>3. SchemaOf(database)
  <2>1. \/ database = [tables |-> {"base", "memory"}, version |-> 2]
        \/ database = [tables |-> {"base"}, version |-> 1]
        \/ database = [tables |-> {}, version |-> 0]
    BY <1>1 DEF Init, Databases
  <2> QED BY <2>1 DEF SchemaOf
<1>4. ASSUME NEW p \in Proc PROVE SqliteAt(p)
  <2>1. at[p] = "idle" /\ local[p].open \in {"no", "read only"}
    <3>1. [NoLocal EXCEPT !.open = "read only"].open = "read only" /\ NoLocal.open = "no"
      BY DEF NoLocal
    <3> QED BY <3>1 DEF Init
  <2> QED BY <2>1 DEF SqliteAt, SchemaAt, DraftAt
<1> QED BY <1>2, <1>3, <1>4

-----------------------------------------------------------------------------
(* Threads: between the two dictionaries the thread keeps what was there   *)
(* before.                                                                 *)
HalfDone(c, before) ==
    [k \in Key |-> IF k \in DOMAIN c.writes \cap Approval THEN c.writes[k] ELSE before[k]]

WritingAt(w, l, c, r) == w = "writing" => Holds(l.rows, c) /\ r = HalfDone(c, l.rows)

ThreadInv == store = "memory" => \A p \in Proc : WritingAt(at[p], local[p], call[p], rows)

LEMMA ThreadNext ==
    ASSUME ControlInv, ThreadInv, [Next]_svars PROVE ThreadInv'
<1>1. ControlInv' /\ store' = store
    BY ControlNext, StoreStays
<1>2. CASE store # "memory"
    BY <1>1, <1>2 DEF ThreadInv
<1>3. CASE store = "memory"
  <2>1. CASE UNCHANGED svars
    BY <2>1 DEF svars, ThreadInv
  <2>2. ASSUME NEW p \in Proc,
               \A q \in Proc : q # p => at'[q] = at[q] /\ call'[q] = call[q] /\ local'[q] = local[q],
               rows' = rows \/ lock = p, WritingAt(at'[p], local'[p], call'[p], rows')
        PROVE  ThreadInv'
    <3>1. ASSUME NEW q \in Proc, q # p PROVE WritingAt(at'[q], local'[q], call'[q], rows')
      <4>1. CASE rows' = rows
        BY <1>3, <2>2, <3>1, <4>1 DEF ThreadInv
      <4>2. CASE lock = p
        <5>1. at[q] # "writing"
          BY <3>1, <4>2, Where DEF Locked, ThreadLabels
        <5> QED BY <2>2, <3>1, <5>1 DEF WritingAt
      <4> QED BY <2>2, <4>1, <4>2
    <3> QED BY <2>2, <3>1 DEF ThreadInv
  <2>3. ASSUME NEW p \in Proc, ThreadStep(p) PROVE ThreadInv'
    <3>1. UNCHANGED call
      BY <2>3 DEF ThreadStep, TakeLock, Work, WorkList, WriteApproval, WriteItem, ReleaseLock,
                  ThreadOthers
    <3>2. rows' = rows \/ lock = p
      <4>1. at[p] \in {"locked", "writing"} => lock = p
        BY Where DEF Locked, ThreadLabels
      <4> QED BY <2>3, <4>1 DEF ThreadStep, TakeLock, Work, WorkList, WriteApproval, WriteItem,
                                ReleaseLock, Is
    <3>3. /\ \A q \in Proc : q # p => at'[q] = at[q] /\ local'[q] = local[q]
          /\ WritingAt(at'[p], local'[p], call'[p], rows')
      <4>1. CASE WriteApproval(p) /\ Holds(rows, call[p])
        <5>1. /\ local' = [local EXCEPT ![p] = [local[p] EXCEPT !.rows = rows]]
              /\ Goto(p, "writing") /\ rows' = HalfDone(call[p], rows)
          BY <4>1 DEF WriteApproval, Publish, HalfDone
        <5>2. [local[p] EXCEPT !.rows = rows].rows = rows
          BY OwnTypes DEF Local
        <5>3. /\ at'[p] = "writing" /\ local'[p] = [local[p] EXCEPT !.rows = rows]
              /\ \A q \in Proc : q # p => at'[q] = at[q] /\ local'[q] = local[q]
          BY <5>1, Frames
        <5>4. local'[p].rows = rows
          BY <5>2, <5>3
        <5> QED BY <3>1, <4>1, <5>1, <5>3, <5>4 DEF WritingAt
      <4>2. CASE ~(WriteApproval(p) /\ Holds(rows, call[p]))
        <5>1. PICK w \in {"locked", "unlocking", "answered"} : Goto(p, w)
          BY <2>3, <4>2 DEF ThreadStep, TakeLock, Work, WorkList, WriteApproval, WriteItem, ReleaseLock
        <5>2. \E l : local' = [local EXCEPT ![p] = l]
          <6>1. local = [local EXCEPT ![p] = local[p]]
            BY TypesParts
          <6>2. UNCHANGED local \/ local' = [local EXCEPT ![p] = [local[p] EXCEPT !.found = Present(rows)]]
            BY <2>3, <4>2 DEF ThreadStep, TakeLock, Work, WorkList, WriteApproval, WriteItem, ReleaseLock
          <6> QED BY <6>1, <6>2
        <5> QED BY <5>1, <5>2, Frames DEF WritingAt
      <4> QED BY <4>1, <4>2
    <3> QED BY <2>2, <3>1, <3>2, <3>3
  <2>4. ASSUME NEW p \in Proc, (\E c \in Calls : Invoke(p, c)) \/ Return(p) \/ Crash(p)
        PROVE  ThreadInv'
    <3>1. PICK w, c : w \in {"called", "idle"} /\ Goto(p, w) /\ call' = [call EXCEPT ![p] = c]
      BY <2>4 DEF Invoke, Return, Crash, Ended
    <3>2. rows' = rows /\ \A q \in Proc : q # p => local'[q] = local[q]
      BY <2>4, TypesParts DEF Invoke, Return, Crash
    <3>3. at'[p] = w /\ \A q \in Proc : q # p => at'[q] = at[q] /\ call'[q] = call[q]
      BY <3>1, Frames, TypesParts
    <3> QED BY <2>2, <3>1, <3>2, <3>3 DEF WritingAt
  <2>5. \A p \in Proc : ~RedisStep(p) /\ ~SqliteStep(p) /\ ~BusyTimeout(p)
    BY <1>3, StepOf
  <2> QED BY <2>1, <2>3, <2>4, <2>5 DEF Next, Step
<1> QED BY <1>2, <1>3

-----------------------------------------------------------------------------
(* Redis: what a transaction has read is so still, unless a key that it    *)
(* watches was written.                                                    *)
WatchedAt(w, l, c, r) ==
    /\ w = "reading" /\ l.clean => \A k \in DOMAIN c.writes \cap Approval : r[k] \in c.expects[k]
    /\ w = "executing" /\ l.clean /\ c.op = "claim" => MayClaim(r[c.key])
    /\ w = "executing" /\ l.clean /\ c.op = "transition" => Holds(r, c)

RedisInv == store = "redis" => \A p \in Proc : WatchedAt(at[p], local[p], call[p], rows)

(* ... which the others' writing of other keys does not change.            *)
LEMMA PutSpoils ==
    ASSUME ControlInv, NEW p \in Proc, NEW r \in Rows, Put(p, r),
           \A k \in Key : r[k] # rows[k] => k \in Writes(call[p]),
           NEW q \in Proc, q # p, WatchedAt(at[q], local[q], call[q], rows)
    PROVE  WatchedAt(at[q], local'[q], call[q], r)
<1> DEFINE c == call[q]
           keys == {k \in Key : rows[k] # None \/ r[k] # None} \cap Writes(call[p])
<1>1. local'[q] = [local[q] EXCEPT !.clean = @ /\ Watched(q) \cap keys = {}]
    BY DEF Put
<1>2. local'[q].clean => local[q].clean /\ Watched(q) \cap keys = {}
    BY <1>1, OwnTypes DEF Local
<1>3. ASSUME local'[q].clean, at[q] \in {"reading", "executing"}, NEW k \in Writes(c), k \in Key
      PROVE  r[k] = rows[k]
  <2>1. k \notin keys
    BY <1>2, <1>3 DEF Watched
  <2> QED BY <1>3, <2>1
<1>4. at[q] \in {"reading", "executing"} => c \in Calls /\ c.op \in {"transition", "claim"}
    BY Where DEF Suits, Double
<1>5. at[q] \in {"reading", "executing"} /\ c.op = "transition" =>
         /\ Writes(c) = DOMAIN c.writes /\ DOMAIN c.writes \subseteq Key
         /\ DOMAIN c.expects = DOMAIN c.writes
  <2>1. SUFFICES ASSUME at[q] \in {"reading", "executing"}, c.op = "transition"
                 PROVE  /\ DOMAIN c.writes \subseteq Key /\ DOMAIN c.expects = DOMAIN c.writes
    BY DEF Writes
  <2>2. DOMAIN c.writes \in Pair \cup {{k} : k \in Approval \cup Item} /\ DOMAIN c.expects = DOMAIN c.writes
    BY <1>4, <2>1, CallShape
  <2> QED BY <2>2, PairShape
<1>6. at[q] = "executing" /\ c.op = "claim" => Writes(c) = {c.key} /\ c.key \in Key
    BY <1>4, CallShape DEF Writes, Key
<1>7. at[q] = "reading" => c.op = "transition"
    BY Where DEF Suits, Double
<1>8. at[q] = "reading" /\ local'[q].clean =>
          \A k \in DOMAIN c.writes \cap Approval : r[k] \in c.expects[k]
    BY <1>2, <1>3, <1>5, <1>7 DEF WatchedAt
<1>9. at[q] = "executing" /\ local'[q].clean /\ c.op = "claim" => MayClaim(r[c.key])
    BY <1>2, <1>3, <1>6 DEF WatchedAt
<1>10. at[q] = "executing" /\ local'[q].clean /\ c.op = "transition" => Holds(r, c)
  <2>1. SUFFICES ASSUME at[q] = "executing", local'[q].clean, c.op = "transition"
                 PROVE  Holds(r, c)
    OBVIOUS
  <2>2. Holds(rows, c)
    BY <1>2, <2>1 DEF WatchedAt
  <2>3. \A k \in DOMAIN c.expects : r[k] = rows[k]
    BY <1>3, <1>5, <2>1
  <2> QED BY <2>2, <2>3 DEF Holds
<1> QED BY <1>8, <1>9, <1>10 DEF WatchedAt

(* What Redis writes at one time, and that it is what the call does.       *)
LEMMA RedisWrites ==
    ASSUME ControlInv, RedisInv, NEW p \in Proc, RedisSet(p) \/ RedisDelete(p) \/ Executed(p)
    PROVE  /\ store = "redis" /\ call[p] \in Calls /\ answer[p] = "none yet"
           /\ Put(p, RowsAfter(rows, call[p])) /\ RowsAfter(rows, call[p]) \in Rows
           /\ \A k \in Key : RowsAfter(rows, call[p])[k] # rows[k] => k \in Writes(call[p])
           /\ Replied(p, AnswerOf(rows, ids, call[p]))
           /\ IdsAfter(ids, call[p]) = ids
<1> DEFINE c == call[p]
<1>1. /\ store = "redis" /\ c \in Calls /\ rows \in Rows /\ answer[p] = "none yet"
      /\ c.op \in {"set", "delete", "claim", "transition"}
    BY Where, TypesParts
       DEF RedisSet, RedisDelete, Executed, Called, Is, Suits, RedisLabels, Waiting
<1>2. RowsAfter(rows, c) \in Rows /\ IdsAfter(ids, c) = ids
    BY <1>1, CallTypes, TypesParts DEF IdsAfter
<1>3. CASE RedisSet(p)
  <2>1. c.op = "set" /\ Put(p, [rows EXCEPT ![c.key] = c.value]) /\ Replied(p, "done")
    BY <1>3 DEF RedisSet, Called, Is
  <2>2. RowsAfter(rows, c) = [rows EXCEPT ![c.key] = c.value] /\ AnswerOf(rows, ids, c) = "done"
    BY <1>1, <2>1, RowsAfterCall DEF AnswerOf
  <2>3. \A k \in Key : [rows EXCEPT ![c.key] = c.value][k] # rows[k] => k \in Writes(c)
    BY <1>1, <2>1 DEF Rows, Writes
  <2> QED BY <1>1, <1>2, <2>1, <2>2, <2>3
<1>4. CASE RedisDelete(p)
  <2>1. /\ c.op = "delete" /\ Put(p, [rows EXCEPT ![c.key] = None])
        /\ Replied(p, IF rows[c.key] # None THEN "yes" ELSE "no")
    BY <1>4 DEF RedisDelete, Called, Is
  <2>2. /\ RowsAfter(rows, c) = [rows EXCEPT ![c.key] = None]
        /\ AnswerOf(rows, ids, c) = IF rows[c.key] # None THEN "yes" ELSE "no"
    BY <1>1, <2>1, RowsAfterCall DEF AnswerOf
  <2>3. \A k \in Key : [rows EXCEPT ![c.key] = None][k] # rows[k] => k \in Writes(c)
    BY <1>1, <2>1 DEF Rows, Writes
  <2> QED BY <1>1, <1>2, <2>1, <2>2, <2>3
<1>5. CASE Executed(p)
  <2>1. /\ at[p] = "executing" /\ local[p].clean /\ Put(p, Written(p)) /\ c.op \in {"claim", "transition"}
        /\ Replied(p, IF c.op = "claim" THEN None ELSE "yes")
    BY <1>5, Where DEF Executed, Suits
  <2>2. WatchedAt("executing", local[p], c, rows)
    BY <1>1, <2>1 DEF RedisInv
  <2>3. CASE c.op = "claim"
    <3>1. MayClaim(rows[c.key])
      BY <2>1, <2>2, <2>3 DEF WatchedAt
    <3>2. Written(p) = RowsAfter(rows, c) /\ Written(p) = [rows EXCEPT ![c.key] = c.value]
      BY <1>1, <2>3, <3>1, RowsAfterCall DEF Written
    <3>3. AnswerOf(rows, ids, c) = None
      BY <1>1, <2>3, <3>1 DEF AnswerOf
    <3>4. \A k \in Key : [rows EXCEPT ![c.key] = c.value][k] # rows[k] => k \in Writes(c)
      BY <1>1, <2>3 DEF Rows, Writes
    <3> QED BY <1>1, <1>2, <2>1, <2>3, <3>2, <3>3, <3>4
  <2>4. CASE c.op = "transition"
    <3>1. Holds(rows, c)
      BY <2>1, <2>2, <2>4 DEF WatchedAt
    <3>2. /\ Written(p) = RowsAfter(rows, c)
          /\ Written(p) = [k \in Key |-> IF k \in DOMAIN c.writes THEN c.writes[k] ELSE rows[k]]
      BY <1>1, <2>4, <3>1, RowsAfterCall DEF Written
    <3>3. AnswerOf(rows, ids, c) = "yes"
      BY <1>1, <2>4, <3>1 DEF AnswerOf
    <3>4. \A k \in Key : Written(p)[k] # rows[k] => k \in Writes(c)
      BY <2>4, <3>2 DEF Writes
    <3> QED BY <1>1, <1>2, <2>1, <2>4, <3>2, <3>3, <3>4
  <2> QED BY <2>1, <2>3, <2>4
<1> QED BY <1>3, <1>4, <1>5

LEMMA RedisReads ==
    ASSUME ControlInv, RedisInv, NEW p \in Proc, NEW k \in Key, RedisRead(p, k)
    PROVE  /\ store = "redis" /\ call[p] \in Calls /\ answer[p] = "none yet"
           /\ UNCHANGED <<store, call, rows, ids, local>>
           /\ IF Refuses(p, k)
              THEN Goto(p, "answered") /\ Replied(p, AnswerOf(rows, ids, call[p]))
                   /\ RowsAfter(rows, call[p]) = rows /\ IdsAfter(ids, call[p]) = ids
              ELSE /\ UNCHANGED answer
                   /\ \E w \in {"reading", "executing"} :
                         Goto(p, w) /\ WatchedAt(w, local[p], call[p], rows)
<1> DEFINE c == call[p]
<1>1. /\ store = "redis" /\ c \in Calls /\ answer[p] = "none yet" /\ c.op \in {"transition", "claim"}
      /\ at[p] \in {"watching", "reading"} /\ k \in Writes(c)
      /\ at[p] = "watching" => k \in Approval \/ Writes(c) = {k}
      /\ at[p] = "reading" => k \in Item /\ Double(c)
    BY Where DEF RedisRead, Suits, RedisLabels, Waiting, Double
<1>2. UNCHANGED <<store, call, rows, ids, local>>
    BY DEF RedisRead, RedisOthers
<1>3. IdsAfter(ids, c) = ids
    BY <1>1 DEF IdsAfter
<1>4. WatchedAt(at[p], local[p], c, rows)
    BY <1>1 DEF RedisInv
<1>5. CASE c.op = "claim"
  <2>1. Writes(c) = {c.key} /\ k = c.key /\ at[p] = "watching"
    BY <1>1, <1>5 DEF Writes, Double
  <2>2. CASE Refuses(p, k)
    <3>1. ~MayClaim(rows[c.key])
      BY <1>5, <2>1, <2>2 DEF Refuses
    <3>2. AnswerOf(rows, ids, c) = rows[c.key]
      BY <1>5, <3>1 DEF AnswerOf
    <3>3. RowsAfter(rows, c) = rows
      BY <1>1, <1>5, <3>1, RowsAfterCall
    <3>4. Goto(p, "answered") /\ Replied(p, rows[c.key])
      BY <1>5, <2>1, <2>2 DEF RedisRead
    <3> QED BY <1>1, <1>2, <1>3, <2>2, <3>2, <3>3, <3>4
  <2>3. CASE ~Refuses(p, k)
    <3>1. MayClaim(rows[c.key])
      BY <1>5, <2>1, <2>3 DEF Refuses
    <3>2. Goto(p, "executing") /\ UNCHANGED answer
      BY <2>1, <2>3 DEF RedisRead
    <3>3. WatchedAt("executing", local[p], c, rows)
      BY <1>5, <3>1 DEF WatchedAt
    <3> QED BY <1>1, <1>2, <2>3, <3>2, <3>3
  <2> QED BY <2>2, <2>3
<1>6. CASE c.op = "transition"
  <2>1. /\ Writes(c) = DOMAIN c.writes /\ DOMAIN c.expects = DOMAIN c.writes /\ k \in DOMAIN c.writes
        /\ DOMAIN c.writes \in Pair \cup {{l} : l \in Approval \cup Item}
    BY <1>1, <1>6, CallShape DEF Writes
  <2>2. CASE Refuses(p, k)
    <3>1. ~Holds(rows, c)
      BY <1>6, <2>1, <2>2 DEF Refuses, Holds
    <3>2. AnswerOf(rows, ids, c) = "no"
      BY <1>6, <3>1 DEF AnswerOf
    <3>3. RowsAfter(rows, c) = rows
      BY <1>1, <1>6, <3>1, RowsAfterCall
    <3>4. Goto(p, "answered") /\ Replied(p, "no")
      BY <1>6, <2>2 DEF RedisRead
    <3> QED BY <1>1, <1>2, <1>3, <2>2, <3>2, <3>3, <3>4
  <2>3. CASE ~Refuses(p, k)
    <3>1. rows[k] \in c.expects[k] /\ UNCHANGED answer
      BY <1>6, <2>3 DEF Refuses, RedisRead
    <3>2. CASE at[p] = "watching" /\ Writes(c) # {k}
      <4>1. Goto(p, "reading") /\ k \in Approval
        BY <1>1, <2>3, <3>2 DEF RedisRead
      <4>2. DOMAIN c.writes \in Pair
        <5>1. \E m \in DOMAIN c.writes : m # k
          BY <2>1, <3>2
        <5> QED BY <2>1, <5>1, PairShape
      <4>3. PICK a \in Approval, i \in Item : DOMAIN c.writes = {a, i} /\ a \notin Item /\ i \notin Approval
        BY <2>1, <4>2, PairShape
      <4>4. DOMAIN c.writes \cap Approval = {k}
        BY <2>1, <4>1, <4>3
      <4>5. WatchedAt("reading", local[p], c, rows)
        BY <3>1, <4>4 DEF WatchedAt
      <4> QED BY <1>1, <1>2, <2>3, <3>1, <4>1, <4>5
    <3>3. CASE at[p] = "watching" /\ Writes(c) = {k}
      <4>1. Goto(p, "executing")
        BY <2>3, <3>3 DEF RedisRead
      <4>2. Holds(rows, c)
        BY <2>1, <3>1, <3>3 DEF Holds
      <4>3. WatchedAt("executing", local[p], c, rows)
        BY <1>6, <4>2 DEF WatchedAt
      <4> QED BY <1>1, <1>2, <2>3, <3>1, <4>1, <4>3
    <3>4. CASE at[p] = "reading"
      <4>1. Goto(p, "executing")
        BY <2>3, <3>4 DEF RedisRead
      <4>2. DOMAIN c.writes \in Pair
        BY <1>1, <2>1, <3>4, PairShape DEF Double
      <4>3. PICK a \in Approval, i \in Item : DOMAIN c.writes = {a, i} /\ a \notin Item /\ i \notin Approval
        BY <2>1, <4>2, PairShape
      <4>4. k = i
        BY <1>1, <2>1, <3>4, <4>3
      <4>5. local[p].clean => rows[a] \in c.expects[a]
        BY <1>4, <3>4, <4>3 DEF WatchedAt
      <4>6. local[p].clean => Holds(rows, c)
        BY <2>1, <3>1, <4>3, <4>4, <4>5 DEF Holds
      <4>7. WatchedAt("executing", local[p], c, rows)
        BY <1>6, <4>6 DEF WatchedAt
      <4> QED BY <1>1, <1>2, <2>3, <3>1, <4>1, <4>7
    <3> QED BY <1>1, <3>2, <3>3, <3>4
  <2> QED BY <2>2, <2>3
<1> QED BY <1>1, <1>5, <1>6

LEMMA RedisNext ==
    ASSUME ControlInv, RedisInv, [Next]_svars PROVE RedisInv'
<1>1. ControlInv' /\ store' = store
    BY ControlNext, StoreStays
<1>2. CASE store # "redis"
    BY <1>1, <1>2 DEF RedisInv
<1>3. CASE store = "redis"
  <2>1. CASE UNCHANGED svars
    BY <2>1 DEF svars, RedisInv
  <2>2. ASSUME NEW p \in Proc, rows' = rows,
               \A q \in Proc : q # p => at'[q] = at[q] /\ call'[q] = call[q] /\ local'[q] = local[q],
               at'[p] \in {"reading", "executing"} => WatchedAt(at'[p], local'[p], call'[p], rows')
        PROVE  RedisInv'
    <3>1. WatchedAt(at'[p], local'[p], call'[p], rows')
      BY <2>2 DEF WatchedAt
    <3> QED BY <1>3, <2>2, <3>1 DEF RedisInv
  <2>3. ASSUME NEW p \in Proc, RedisSet(p) \/ RedisDelete(p) \/ Executed(p)
        PROVE  RedisInv'
    <3> DEFINE r == RowsAfter(rows, call[p])
    <3>1. Put(p, r) /\ r \in Rows /\ \A k \in Key : r[k] # rows[k] => k \in Writes(call[p])
      BY <2>3, RedisWrites
    <3>2. PICK w \in {"indexing", "answered", "unindexing"} : Goto(p, w) /\ UNCHANGED call
      BY <2>3 DEF RedisSet, RedisDelete, Executed, RedisOthers
    <3>3. at'[p] = w /\ \A q \in Proc : q # p => at'[q] = at[q]
      BY <3>2, Frames
    <3>4. rows' = r
      BY <3>1, PutTyped
    <3> HIDE DEF r
    <3>5. ASSUME NEW q \in Proc, q # p PROVE WatchedAt(at'[q], local'[q], call'[q], rows')
      <4>1. WatchedAt(at[q], local[q], call[q], rows)
        BY <1>3 DEF RedisInv
      <4>2. WatchedAt(at[q], local'[q], call[q], r)
        BY <3>1, <3>5, <4>1, PutSpoils
      <4> QED BY <3>2, <3>3, <3>4, <3>5, <4>2
    <3>6. WatchedAt(at'[p], local'[p], call'[p], rows')
      BY <3>2, <3>3 DEF WatchedAt
    <3> QED BY <3>5, <3>6 DEF RedisInv
  <2>4. ASSUME NEW p \in Proc, NEW k \in Key, RedisRead(p, k) PROVE RedisInv'
    <3>1. UNCHANGED <<call, rows, local>>
      BY <2>4, RedisReads
    <3>2. CASE Refuses(p, k)
      <4>1. at'[p] = "answered" /\ \A q \in Proc : q # p => at'[q] = at[q]
        BY <2>4, <3>2, RedisReads, Frames
      <4> QED BY <2>2, <3>1, <4>1
    <3>3. CASE ~Refuses(p, k)
      <4>1. PICK w \in {"reading", "executing"} : Goto(p, w) /\ WatchedAt(w, local[p], call[p], rows)
        BY <2>4, <3>3, RedisReads
      <4>2. at'[p] = w /\ \A q \in Proc : q # p => at'[q] = at[q]
        BY <4>1, Frames
      <4> QED BY <2>2, <3>1, <4>1, <4>2
    <3> QED BY <3>2, <3>3
  <2>5. ASSUME NEW p \in Proc,
               \/ RedisGet(p) \/ RedisAddMember(p) \/ RedisRemoveMember(p) \/ RedisWatch(p)
               \/ (RedisExec(p) /\ ~Executed(p))
               \/ RedisTakeId(p) \/ RedisPush(p) \/ RedisMembers(p) \/ RedisListed(p)
        PROVE  RedisInv'
    <3>1. UNCHANGED <<call, rows>>
      BY <2>5 DEF RedisGet, RedisAddMember, RedisRemoveMember, RedisWatch, RedisExec, RedisTakeId,
                  RedisPush, RedisMembers, RedisListed, RedisOthers
    <3>2. PICK w \in {"answered", "watching", "called", "pushing", "getting"} : Goto(p, w)
      BY <2>5 DEF RedisGet, RedisAddMember, RedisRemoveMember, RedisWatch, RedisExec, RedisTakeId,
                  RedisPush, RedisMembers, RedisListed
    <3>3. at'[p] = w /\ \A q \in Proc : q # p => at'[q] = at[q]
      BY <3>2, Frames
    <3>4. \A q \in Proc : q # p => local'[q] = local[q]
      BY <2>5, TypesParts
         DEF RedisGet, RedisAddMember, RedisRemoveMember, RedisWatch, RedisExec, RedisTakeId,
                  RedisPush, RedisMembers, RedisListed
    <3> QED BY <2>2, <3>1, <3>2, <3>3, <3>4
  <2>6. ASSUME NEW p \in Proc, NEW i \in Item, RedisGetMember(p, i) PROVE RedisInv'
    <3>1. UNCHANGED <<call, rows, at>> /\ at[p] = "getting"
      BY <2>6 DEF RedisGetMember, RedisOthers
    <3>2. \A q \in Proc : q # p => local'[q] = local[q]
      BY <2>6, TypesParts DEF RedisGetMember
    <3> QED BY <2>2, <3>1, <3>2
  <2>7. ASSUME NEW p \in Proc, (\E c \in Calls : Invoke(p, c)) \/ Return(p) \/ Crash(p)
        PROVE  RedisInv'
    <3>1. PICK w, c : w \in {"called", "idle"} /\ Goto(p, w) /\ call' = [call EXCEPT ![p] = c]
      BY <2>7 DEF Invoke, Return, Crash, Ended
    <3>2. rows' = rows /\ \A q \in Proc : q # p => local'[q] = local[q]
      BY <2>7, TypesParts DEF Invoke, Return, Crash
    <3>3. at'[p] = w /\ \A q \in Proc : q # p => at'[q] = at[q] /\ call'[q] = call[q]
      BY <3>1, Frames, TypesParts
    <3> QED BY <2>2, <3>1, <3>2, <3>3
  <2>8. \A p \in Proc : ~ThreadStep(p) /\ ~SqliteStep(p) /\ ~BusyTimeout(p)
    BY <1>3, StepOf
  <2>9. ASSUME NEW p \in Proc, RedisStep(p) PROVE RedisInv'
    BY <2>9, <2>3, <2>4, <2>5, <2>6 DEF RedisStep, RedisExec
  <2> QED BY <2>1, <2>7, <2>8, <2>9 DEF Next, Step
<1> QED BY <1>2, <1>3

-----------------------------------------------------------------------------
(* Records.  An id that a process has taken is nobody else's until it has  *)
(* pushed its record.                                                      *)
Pushes(p) == at[p] = "pushing"

PushedLater(p) ==
    /\ call[p].id \in ids
    /\ \A n \in DOMAIN records : records[n] # call[p].id
    /\ \A q \in Proc : q # p /\ Pushes(q) => call[q].id # call[p].id

RecordsInv == RecordsAreOnce /\ \A p \in Proc : Pushes(p) => PushedLater(p)

LEMMA AppendElement ==
    ASSUME NEW s \in Seq(Id), NEW e \in Id
    PROVE  /\ DOMAIN Append(s, e) = DOMAIN s \cup {Len(s) + 1} /\ Len(s) + 1 \notin DOMAIN s
           /\ Append(s, e)[Len(s) + 1] = e /\ \A n \in DOMAIN s : Append(s, e)[n] = s[n]
BY AppendProperties, LenProperties

LEMMA RecordsKept ==
    ASSUME RecordsInv, UNCHANGED <<ids, records>>,
           \A q \in Proc : at'[q] = "pushing" => at[q] = "pushing" /\ call'[q] = call[q]
    PROVE  RecordsInv'
BY DEF RecordsInv, RecordsAreOnce, Pushes, PushedLater

(* A record that is appended as its id is taken, or by who has taken it.   *)
LEMMA RecordAppended ==
    ASSUME ControlInv, RecordsInv, NEW p \in Proc, NEW id \in Id,
           records' = Append(records, id), ids' = ids \cup {id}, id = call[p].id,
           id \notin ids \/ Pushes(p), at'[p] # "pushing",
           \A q \in Proc : q # p => at'[q] = at[q] /\ call'[q] = call[q]
    PROVE  RecordsInv'
<1>1. records \in Seq(Id)
    BY TypesParts
<1>2. \A n \in DOMAIN records : records[n] # id
    BY DEF RecordsInv, RecordsAreOnce, PushedLater
<1>3. /\ DOMAIN records' = DOMAIN records \cup {Len(records) + 1} /\ Len(records) + 1 \notin DOMAIN records
      /\ records'[Len(records) + 1] = id /\ \A n \in DOMAIN records : records'[n] = records[n]
    BY <1>1, AppendElement
<1>4. RecordsAreOnce'
    BY <1>2, <1>3 DEF RecordsInv, RecordsAreOnce
<1>5. ASSUME NEW q \in Proc, Pushes(q)' PROVE PushedLater(q)'
  <2>1. q # p /\ Pushes(q) /\ call'[q] = call[q]
    BY <1>5 DEF Pushes
  <2>2. PushedLater(q)
    BY <2>1 DEF RecordsInv
  <2>3. call[q].id # id
    BY <2>1, <2>2 DEF PushedLater
  <2>4. call'[q].id \in ids' /\ \A n \in DOMAIN records' : records'[n] # call'[q].id
    BY <1>3, <2>1, <2>2, <2>3 DEF PushedLater
  <2>5. \A s \in Proc : s # q /\ Pushes(s)' => call'[s].id # call'[q].id
    BY <2>1, <2>2 DEF PushedLater, Pushes
  <2> QED BY <2>4, <2>5 DEF PushedLater
<1> QED BY <1>4, <1>5 DEF RecordsInv

LEMMA IdTaken ==
    ASSUME ControlInv, RecordsInv, NEW p \in Proc, RedisTakeId(p)
    PROVE  RecordsInv'
<1>1. /\ ids' = ids \cup {call[p].id} /\ records' = records /\ call' = call
      /\ \A q \in Proc : q # p => at'[q] = at[q]
      /\ at'[p] = "pushing" => call[p].id \notin ids
      /\ at[p] = "called"
    BY Frames DEF RedisTakeId, RedisOthers, Called, Is
<1>2. RecordsAreOnce'
    BY <1>1 DEF RecordsInv, RecordsAreOnce
<1>3. ASSUME NEW q \in Proc, Pushes(q)' PROVE PushedLater(q)'
  <2>1. CASE q = p
    <3>1. call[p].id \notin ids
      BY <1>1, <1>3, <2>1 DEF Pushes
    <3>2. \A n \in DOMAIN records : records[n] # call[p].id
      BY <3>1 DEF RecordsInv, RecordsAreOnce
    <3>3. ASSUME NEW s \in Proc, s # p, Pushes(s)' PROVE call[s].id # call[p].id
      BY <1>1, <3>1, <3>3 DEF RecordsInv, PushedLater, Pushes
    <3> QED BY <1>1, <2>1, <3>2, <3>3 DEF PushedLater
  <2>2. CASE q # p
    <3>1. Pushes(q) /\ PushedLater(q)
      BY <1>1, <1>3, <2>2 DEF Pushes, RecordsInv
    <3>2. ASSUME NEW s \in Proc, s # q, Pushes(s)' PROVE call[s].id # call[q].id
      <4>1. CASE s = p
        BY <1>1, <3>1, <3>2, <4>1 DEF PushedLater, Pushes
      <4>2. CASE s # p
        BY <1>1, <3>1, <3>2, <4>2 DEF PushedLater, Pushes
      <4> QED BY <4>1, <4>2
    <3> QED BY <1>1, <3>1, <3>2 DEF PushedLater
  <2> QED BY <2>1, <2>2
<1> QED BY <1>2, <1>3 DEF RecordsInv

LEMMA RecordsNext ==
    ASSUME ControlInv, SqliteInv, RecordsInv, [Next]_svars
    PROVE  RecordsInv'
<1>1. CASE UNCHANGED svars
    BY <1>1, RecordsKept DEF svars
<1>2. ASSUME NEW p \in Proc, RedisPush(p) PROVE RecordsInv'
  <2>1. Pushes(p) /\ call[p] \in Calls /\ call[p].op = "append"
    BY <1>2, Where DEF RedisPush, Pushes, Suits
  <2>2. call[p].id \in Id /\ call[p].id \in ids
    BY <2>1, CallShape DEF RecordsInv, PushedLater
  <2>3. records' = Append(records, call[p].id) /\ ids' = ids /\ Goto(p, "answered") /\ call' = call
    BY <1>2 DEF RedisPush, RedisOthers
  <2>4. ids' = ids \cup {call[p].id}
    BY <2>2, <2>3
  <2>5. at'[p] = "answered" /\ \A q \in Proc : q # p => at'[q] = at[q]
    BY <2>3, Frames
  <2> QED BY <2>1, <2>2, <2>3, <2>4, <2>5, RecordAppended
<1>3. ASSUME NEW p \in Proc, NEW w \in {"answered", "unlocking"}, Goto(p, w), call' = call,
             call[p].op = "append", call[p] \in Calls, call[p].id \notin ids,
             ids' = ids \cup {call[p].id}, records' = Append(records, call[p].id)
      PROVE  RecordsInv'
  <2>1. call[p].id \in Id
    BY <1>3, CallShape
  <2>2. at'[p] = w /\ \A q \in Proc : q # p => at'[q] = at[q]
    BY <1>3, Frames
  <2> QED BY <1>3, <2>1, <2>2, RecordAppended
<1>4. ASSUME NEW p \in Proc, NEW w, Goto(p, w), w # "pushing", call' = call,
             UNCHANGED <<ids, records>>
      PROVE  RecordsInv'
  <2>1. at'[p] = w /\ \A q \in Proc : q # p => at'[q] = at[q]
    BY <1>4, Frames
  <2> QED BY <1>4, <2>1, RecordsKept
<1>5. ASSUME NEW p \in Proc, Commit(p) PROVE RecordsInv'
  <2>1. /\ call[p] \in Calls /\ Goto(p, "answered") /\ call' = call /\ ids' = IdsAfter(ids, call[p])
        /\ records' = IF call[p].op = "append" THEN Append(records, call[p].id) ELSE records
    BY <1>5, Where DEF Commit, SqliteOthers
  <2>2. CASE call[p].op = "append"
    <3>1. store = "sqlite"
      BY <1>5, StepOf DEF SqliteStep
    <3>2. call[p].id \notin ids
      BY <1>5, <2>2, <3>1, SqliteCommitStep, ControlNext DEF Next, Step, SqliteStep
    <3> QED BY <1>3, <2>1, <2>2, <3>2 DEF IdsAfter
  <2>3. CASE call[p].op # "append"
    BY <1>4, <2>1, <2>3 DEF IdsAfter
  <2> QED BY <2>2, <2>3
<1>6. ASSUME NEW p \in Proc, Work(p) PROVE RecordsInv'
  <2>1. /\ call[p] \in Calls /\ Goto(p, "unlocking") /\ call' = call /\ ids' = IdsAfter(ids, call[p])
        /\ records' = IF ids' = ids THEN records ELSE Append(records, call[p].id)
    BY <1>6, Where DEF Work, ThreadOthers
  <2>2. CASE call[p].op = "append" /\ call[p].id \notin ids
    BY <1>3, <2>1, <2>2 DEF IdsAfter
  <2>3. CASE ~(call[p].op = "append" /\ call[p].id \notin ids)
    <3>1. ids' = ids
      BY <2>1, <2>3 DEF IdsAfter
    <3> QED BY <1>4, <2>1, <3>1
  <2> QED BY <2>2, <2>3
<1>7. ASSUME NEW p \in Proc, RedisStep(p), ~RedisPush(p), ~RedisTakeId(p) PROVE RecordsInv'
  <2>1. UNCHANGED <<call, ids, records>>
    BY <1>7 DEF RedisStep, RedisGet, RedisSet, RedisAddMember, RedisDelete, RedisRemoveMember,
                RedisWatch, RedisExec, Executed, RedisRead, RedisMembers, RedisListed,
                RedisGetMember, RedisOthers
  <2>2. UNCHANGED at \/ \E w : w # "pushing" /\ Goto(p, w)
    BY <1>7 DEF RedisStep, RedisGet, RedisSet, RedisAddMember, RedisDelete, RedisRemoveMember,
                RedisWatch, RedisExec, Executed, RedisRead, RedisMembers, RedisListed,
                RedisGetMember
  <2> QED BY <1>4, <2>1, <2>2, RecordsKept
<1>8. ASSUME NEW p \in Proc, SqliteStep(p) \/ BusyTimeout(p), ~Commit(p) PROVE RecordsInv'
  <2>1. UNCHANGED <<call, ids, records>>
    BY <1>8 DEF SqliteStep, BusyTimeout, CreateTables, InsertVersion, CommitVersion, Migrate,
           CommitMigration, Rollback, SqliteGet, SqliteList, Upsert, DeleteRow, InsertRecord,
           BeginImmediate, SelectClaim, Update, UpdateApproval, UpdateItem, Draft, SqliteOthers
  <2>2. \E w : w # "pushing" /\ Goto(p, w)
    BY <1>8 DEF SqliteStep, BusyTimeout, CreateTables, InsertVersion, CommitVersion, Migrate,
           CommitMigration, Rollback, SqliteGet, SqliteList, Upsert, DeleteRow, InsertRecord,
           BeginImmediate, SelectClaim, Update, UpdateApproval, UpdateItem, Draft
  <2> QED BY <1>4, <2>1, <2>2
<1>9. ASSUME NEW p \in Proc, ThreadStep(p), ~Work(p) PROVE RecordsInv'
  <2>1. UNCHANGED <<call, ids, records>>
    BY <1>9 DEF ThreadStep, TakeLock, WorkList, WriteApproval, WriteItem, ReleaseLock, ThreadOthers
  <2>2. \E w : w # "pushing" /\ Goto(p, w)
    BY <1>9 DEF ThreadStep, TakeLock, WorkList, WriteApproval, WriteItem, ReleaseLock
  <2> QED BY <1>4, <2>1, <2>2
<1>10. ASSUME NEW p \in Proc, (\E c \in Calls : Invoke(p, c)) \/ Return(p) \/ Crash(p)
       PROVE  RecordsInv'
  <2>1. PICK w, c : w \in {"called", "idle"} /\ Goto(p, w) /\ call' = [call EXCEPT ![p] = c]
    BY <1>10 DEF Invoke, Return, Crash, Ended
  <2>2. UNCHANGED <<ids, records>>
    BY <1>10 DEF Invoke, Return, Crash
  <2>3. at'[p] = w /\ \A q \in Proc : q # p => at'[q] = at[q] /\ call'[q] = call[q]
    BY <2>1, Frames, TypesParts
  <2> QED BY <2>1, <2>2, <2>3, RecordsKept
<1> QED BY <1>1, <1>2, <1>5, <1>6, <1>7, <1>8, <1>9, <1>10, IdTaken DEF Next, Step

-----------------------------------------------------------------------------
(* All that holds in every state, but for lists.                           *)
StoreInv == ControlInv /\ SqliteInv /\ ThreadInv /\ RedisInv /\ RecordsInv

LEMMA StoreInit ==
    ASSUME Init PROVE StoreInv
<1>1. ControlInv /\ SqliteInv
    BY ControlInit, SqliteInit
<1>2. \A p \in Proc : at[p] = "idle"
    BY DEF Init
<1>3. ThreadInv /\ RedisInv
    BY <1>2 DEF ThreadInv, RedisInv, WritingAt, WatchedAt
<1>4. RecordsInv
  <2>1. records \in Seq(Id) /\ Len(records) = 0
    BY <1>1, TypesParts DEF Init
  <2>2. DOMAIN records = {}
    BY <2>1, LenProperties
  <2> QED BY <1>2, <2>2 DEF RecordsInv, RecordsAreOnce, Pushes
<1> QED BY <1>1, <1>3, <1>4 DEF StoreInv

LEMMA StoreNext ==
    ASSUME StoreInv, [Next]_svars PROVE StoreInv'
BY ControlNext, SqliteNext, ThreadNext, RedisNext, RecordsNext DEF StoreInv

LEMMA StoreHolds == Spec => []StoreInv
<1>1. Init => StoreInv
    BY StoreInit
<1>2. StoreInv /\ [Next]_svars => StoreInv'
    BY StoreNext
<1> QED BY <1>1, <1>2, PTL DEF Spec

(* The types hold, search finds the items as they are, the version of the  *)
(* schema says what tables there are, and no record is there twice:        *)
(* whichever store is used, whoever is killed, and however many start.     *)
THEOREM DatabaseStaysSound == Spec => []DatabaseIsSound
<1>1. StoreInv => DatabaseIsSound
  <2> SUFFICES ASSUME StoreInv PROVE DatabaseIsSound
    OBVIOUS
  <2>2. StoreTypeOK
    BY DEF StoreInv, ControlInv, Types
  <2>3. SearchIndexIsExact
    BY DEF StoreInv, SqliteInv, Exact, SearchIndexIsExact
  <2>4. SchemaIsWhole
    BY DEF StoreInv, SqliteInv, SqliteAt, SchemaAt, SchemaOf, SchemaIsWhole
  <2>5. RecordsAreOnce
    BY DEF StoreInv, RecordsInv
  <2> QED BY <2>2, <2>3, <2>4, <2>5 DEF DatabaseIsSound
<1> QED BY <1>1, StoreHolds, PTL

-----------------------------------------------------------------------------
(* The refinement.  What is seen of the rows, the calls and the answers.   *)
SeenOf(w, l, r) ==
    IF \E p \in Proc : w[p] = "writing" THEN l[CHOOSE p \in Proc : w[p] = "writing"].rows ELSE r

Lists(c) == c # None /\ c.op = "list"
SeenCalls(c) == [p \in Proc |-> IF Lists(c[p]) THEN None ELSE c[p]]
SeenAnswers(c, a) == [p \in Proc |-> IF Lists(c[p]) THEN "none yet" ELSE a[p]]

LEMMA SeenOne ==
    ASSUME NEW w, NEW l, NEW r
    PROVE  /\ (\A p \in Proc : w[p] # "writing") => SeenOf(w, l, r) = r
           /\ \A p \in Proc : w[p] = "writing" /\ (\A q \in Proc : q # p => w[q] # "writing") =>
                 SeenOf(w, l, r) = l[p].rows
<1>1. ASSUME \A p \in Proc : w[p] # "writing" PROVE SeenOf(w, l, r) = r
    BY <1>1 DEF SeenOf
<1>2. ASSUME NEW p \in Proc, w[p] = "writing", \A q \in Proc : q # p => w[q] # "writing"
      PROVE  SeenOf(w, l, r) = l[p].rows
  <2>1. (CHOOSE q \in Proc : w[q] = "writing") = p
    BY <1>2
  <2> QED BY <1>2, <2>1 DEF SeenOf
<1> QED BY <1>1, <1>2

LEMMA SeenNames ==
    /\ SeenRows = SeenOf(at, local, rows) /\ SeenRows' = SeenOf(at', local', rows')
BY DEF SeenRows, SeenOf

LEMMA SameCalls ==
    ASSUME NEW r, NEW taken, NEW c
    PROVE  /\ Atomic!AnswerOf(r, taken, c) = AnswerOf(r, taken, c)
           /\ Atomic!RowsAfter(r, c) = RowsAfter(r, c)
           /\ Atomic!IdsAfter(taken, c) = IdsAfter(taken, c)
<1>1. Atomic!Key = Key
    BY DEF Atomic!Key, Key
<1>2. /\ Atomic!Holds(r, c) <=> Holds(r, c)
      /\ \A row : Atomic!MayClaim(row) <=> MayClaim(row)
    BY DEF Atomic!Holds, Holds, Atomic!MayClaim, MayClaim
<1>3. Atomic!AnswerOf(r, taken, c) = AnswerOf(r, taken, c)
    BY <1>2 DEF Atomic!AnswerOf, AnswerOf
<1>4. Atomic!RowsAfter(r, c) = RowsAfter(r, c)
    BY <1>1, <1>2 DEF Atomic!RowsAfter, RowsAfter
<1>5. Atomic!IdsAfter(taken, c) = IdsAfter(taken, c)
    BY DEF Atomic!IdsAfter, IdsAfter
<1> QED BY <1>3, <1>4, <1>5

(* A call that is performed at a step of p, or raises.                     *)
Silent == /\ UNCHANGED <<call, ids>> /\ SeenRows' = SeenRows

Performed(p) ==
    /\ UNCHANGED call /\ call[p] \in Calls /\ call[p].op # "list" /\ answer[p] = "none yet"
    /\ Replied(p, AnswerOf(SeenRows, ids, call[p]))
    /\ SeenRows' = RowsAfter(SeenRows, call[p]) /\ ids' = IdsAfter(ids, call[p])

Failed(p) == Silent /\ call[p] \in Calls /\ answer[p] = "none yet" /\ Replied(p, "error")

Listed(p) == Silent /\ Lists(call[p]) /\ \E a : Replied(p, a)

LEMMA AtomicNames ==
    /\ Atomic!vars = <<SeenRows, ids, SeenCalls(call), SeenAnswers(call, answer)>>
    /\ Atomic!vars' = <<SeenRows', ids', SeenCalls(call'), SeenAnswers(call', answer')>>
BY DEF Atomic!vars, SeenCalls, SeenAnswers, Lists, IsList

LEMMA SilentMaps ==
    ASSUME Silent, UNCHANGED answer
    PROVE  UNCHANGED Atomic!vars
BY AtomicNames DEF Silent

LEMMA ListedMaps ==
    ASSUME ControlInv, NEW p \in Proc, Listed(p)
    PROVE  UNCHANGED Atomic!vars
<1>1. SeenAnswers(call', answer') = SeenAnswers(call, answer)
    BY Frames DEF Listed, Silent, SeenAnswers
<1> QED BY <1>1, AtomicNames DEF Listed, Silent

LEMMA PerformedMaps ==
    ASSUME ControlInv, NEW p \in Proc, Performed(p)
    PROVE  Atomic!Perform(p)
<1> DEFINE c == call[p]
           a == AnswerOf(SeenRows, ids, c)
<1>1. ~Lists(c) /\ c # None
    BY CallShape DEF Performed, Lists
<1>2. SeenCalls(call)[p] = c /\ SeenAnswers(call, answer)[p] = "none yet"
    BY <1>1 DEF Performed, SeenCalls, SeenAnswers
<1>3. SeenAnswers(call', answer') = [SeenAnswers(call, answer) EXCEPT ![p] = a]
    BY <1>1, TypesParts DEF Performed, SeenAnswers, Replied
<1>4. Atomic!Waits(p)
    BY <1>1, <1>2 DEF Atomic!Waits, SeenCalls, SeenAnswers, Lists, IsList
<1>5. /\ SeenRows' = RowsAfter(SeenRows, SeenCalls(call)[p])
      /\ ids' = IdsAfter(ids, SeenCalls(call)[p])
      /\ SeenAnswers(call', answer') =
            [SeenAnswers(call, answer) EXCEPT ![p] = AnswerOf(SeenRows, ids, SeenCalls(call)[p])]
      /\ SeenCalls(call') = SeenCalls(call)
    BY <1>2, <1>3 DEF Performed
<1>6. \/ ~ /\ Atomic!Waits(p)
           /\ SeenRows' = Atomic!RowsAfter(SeenRows, SeenCalls(call)[p])
           /\ ids' = Atomic!IdsAfter(ids, SeenCalls(call)[p])
           /\ SeenAnswers(call', answer') =
                 [SeenAnswers(call, answer) EXCEPT
                     ![p] = Atomic!AnswerOf(SeenRows, ids, SeenCalls(call)[p])]
           /\ SeenCalls(call') = SeenCalls(call)
      \/ Atomic!Perform(p)
    BY DEF Atomic!Perform, SeenCalls, SeenAnswers, Lists, IsList
<1> QED BY <1>4, <1>5, <1>6, SameCalls

LEMMA FailedMaps ==
    ASSUME ControlInv, NEW p \in Proc, Failed(p)
    PROVE  Atomic!Raise(p) \/ UNCHANGED Atomic!vars
<1> DEFINE c == call[p]
<1>1. CASE Lists(c)
    BY <1>1, ListedMaps DEF Failed, Listed
<1>2. CASE ~Lists(c)
  <2>1. c # None /\ answer[p] = "none yet"
    BY CallShape DEF Failed
  <2>2. SeenCalls(call)[p] = c /\ SeenAnswers(call, answer)[p] = "none yet"
    BY <1>2, <2>1 DEF SeenCalls, SeenAnswers
  <2>3. SeenAnswers(call', answer') = [SeenAnswers(call, answer) EXCEPT ![p] = "error"]
    BY <1>2, TypesParts DEF Failed, Silent, SeenAnswers, Replied
  <2>4. Atomic!Waits(p)
    BY <2>1, <2>2 DEF Atomic!Waits, SeenCalls, SeenAnswers, Lists, IsList
  <2>5. SeenRows' = SeenRows /\ ids' = ids /\ SeenCalls(call') = SeenCalls(call)
    BY DEF Failed, Silent
  <2> QED BY <2>3, <2>4, <2>5 DEF Atomic!Raise, SeenCalls, SeenAnswers, Lists, IsList
<1> QED BY <1>1, <1>2

LEMMA InvokeMaps ==
    ASSUME ControlInv, NEW p \in Proc, NEW c \in Calls, Invoke(p, c), SeenRows' = SeenRows
    PROVE  (c.op # "list" /\ Atomic!Invoke(p, c)) \/ UNCHANGED Atomic!vars
<1>1. /\ call[p] = None /\ answer[p] = "none yet" /\ c # None
      /\ call' = [call EXCEPT ![p] = c] /\ UNCHANGED <<ids, answer>>
    BY OwnTypes, CallShape DEF Invoke, Control, Controlled, Waiting
<1>2. SeenAnswers(call', answer') = SeenAnswers(call, answer)
    BY <1>1, TypesParts DEF SeenAnswers, Lists
<1>3. SeenCalls(call)[p] = None
    BY <1>1 DEF SeenCalls, Lists
<1>4. CASE c.op = "list"
  <2>1. SeenCalls(call') = SeenCalls(call)
    BY <1>1, <1>4, TypesParts DEF SeenCalls, Lists
  <2> QED BY <1>1, <1>2, <2>1, AtomicNames
<1>5. CASE c.op # "list"
  <2>1. SeenCalls(call') = [SeenCalls(call) EXCEPT ![p] = c]
    BY <1>1, <1>5, TypesParts DEF SeenCalls, Lists
  <2> QED BY <1>1, <1>2, <1>3, <1>5, <2>1 DEF Atomic!Invoke, SeenCalls, SeenAnswers, Lists, IsList
<1> QED BY <1>4, <1>5

LEMMA EndMaps ==
    ASSUME ControlInv, NEW p \in Proc, Ended(p), call[p] # None, UNCHANGED ids, SeenRows' = SeenRows
    PROVE  Atomic!End(p) \/ UNCHANGED Atomic!vars
<1>1. call' = [call EXCEPT ![p] = None] /\ answer' = [answer EXCEPT ![p] = "none yet"]
    BY DEF Ended, Replied
<1>2. SeenAnswers(call', answer') = [SeenAnswers(call, answer) EXCEPT ![p] = "none yet"]
    BY <1>1, TypesParts DEF SeenAnswers, Lists
<1>3. SeenCalls(call') = [SeenCalls(call) EXCEPT ![p] = None]
    BY <1>1, TypesParts DEF SeenCalls, Lists
<1>4. CASE Lists(call[p])
  <2>1. SeenCalls(call)[p] = None /\ SeenAnswers(call, answer)[p] = "none yet"
    BY <1>4 DEF SeenCalls, SeenAnswers
  <2>2. SeenCalls(call') = SeenCalls(call)
    BY <1>3, <2>1 DEF SeenCalls
  <2>3. SeenAnswers(call', answer') = SeenAnswers(call, answer)
    BY <1>2, <2>1 DEF SeenAnswers
  <2> QED BY <2>2, <2>3, AtomicNames
<1>5. CASE ~Lists(call[p])
  <2>1. SeenCalls(call)[p] # None
    BY <1>5 DEF SeenCalls
  <2> QED BY <1>2, <1>3, <2>1 DEF Atomic!End, SeenCalls, SeenAnswers, Lists, IsList
<1> QED BY <1>4, <1>5

(* Only a thread between the two dictionaries hides what it writes.        *)
LEMMA SeenIsHeld ==
    ASSUME ControlInv, ControlInv', store # "memory", store' = store
    PROVE  SeenRows = rows /\ SeenRows' = rows'
<1>1. \A p \in Proc : at[p] # "writing"
    BY Where DEF ThreadLabels
<1>2. \A p \in Proc : at'[p] # "writing"
  <2>1. ASSUME NEW p \in Proc, at'[p] = "writing" PROVE FALSE
    <3>1. Control(p)' /\ store' \in {"redis", "sqlite"}
      BY TypesParts DEF ControlInv
    <3> QED BY <2>1, <3>1 DEF Control, Controlled, Common, RedisLabels, SqliteLabels
  <2> QED BY <2>1
<1> QED BY <1>1, <1>2, SeenOne, SeenNames

Mapped(p) == \/ (Silent /\ UNCHANGED answer)
             \/ Performed(p) \/ Failed(p) \/ Listed(p)

LEMMA MappedMaps ==
    ASSUME ControlInv, NEW p \in Proc, Mapped(p)
    PROVE  Atomic!Perform(p) \/ Atomic!Raise(p) \/ UNCHANGED Atomic!vars
BY SilentMaps, PerformedMaps, FailedMaps, ListedMaps DEF Mapped

LEMMA RedisMaps ==
    ASSUME StoreInv, ControlInv', store' = store, NEW p \in Proc, RedisStep(p)
    PROVE  Mapped(p)
<1> DEFINE c == call[p]
<1>1. ControlInv /\ RedisInv /\ store = "redis"
    BY StepOf DEF StoreInv
<1>2. SeenRows = rows /\ SeenRows' = rows'
    BY <1>1, SeenIsHeld
<1>3. CASE RedisGet(p)
  <2>1. c \in Calls /\ c.op = "get" /\ answer[p] = "none yet"
    BY <1>1, <1>3, Where DEF RedisGet, Called, Is, Waiting
  <2>2. AnswerOf(rows, ids, c) = rows[c.key] /\ IdsAfter(ids, c) = ids
    BY <2>1 DEF AnswerOf, IdsAfter
  <2>3. RowsAfter(rows, c) = rows
    BY <2>1, RowsAfterCall
  <2>4. Replied(p, rows[c.key]) /\ UNCHANGED <<call, rows, ids>>
    BY <1>3 DEF RedisGet, RedisOthers
  <2> QED BY <1>2, <2>1, <2>2, <2>3, <2>4 DEF Mapped, Performed
<1>4. CASE RedisSet(p) \/ RedisDelete(p) \/ Executed(p)
  <2>1. /\ c \in Calls /\ answer[p] = "none yet" /\ Replied(p, AnswerOf(rows, ids, c))
        /\ Put(p, RowsAfter(rows, c)) /\ RowsAfter(rows, c) \in Rows /\ IdsAfter(ids, c) = ids
    BY <1>1, <1>4, RedisWrites
  <2>2. rows' = RowsAfter(rows, c)
    BY <1>1, <2>1, PutTyped
  <2>3. UNCHANGED <<call, ids>>
    BY <1>4 DEF RedisSet, RedisDelete, Executed, RedisOthers
  <2>4. c.op # "list"
    BY <1>1, <1>4, Where DEF RedisSet, RedisDelete, Executed, Called, Is, Suits
  <2> QED BY <1>2, <2>1, <2>2, <2>3, <2>4 DEF Mapped, Performed
<1>5. ASSUME NEW k \in Key, RedisRead(p, k) PROVE Mapped(p)
  <2>1. c \in Calls /\ answer[p] = "none yet" /\ UNCHANGED <<call, rows, ids>>
    BY <1>1, <1>5, RedisReads
  <2>2. c.op # "list"
    BY <1>1, <1>5, Where DEF RedisRead, Suits, Double
  <2>3. CASE Refuses(p, k)
    <3>1. /\ Replied(p, AnswerOf(rows, ids, c))
          /\ RowsAfter(rows, c) = rows /\ IdsAfter(ids, c) = ids
      BY <1>1, <1>5, <2>3, RedisReads
    <3> QED BY <1>2, <2>1, <2>2, <3>1 DEF Mapped, Performed
  <2>4. CASE ~Refuses(p, k)
    <3>1. UNCHANGED answer
      BY <1>1, <1>5, <2>4, RedisReads
    <3> QED BY <1>2, <2>1, <3>1 DEF Mapped, Silent
  <2> QED BY <2>3, <2>4
<1>6. CASE RedisTakeId(p)
  <2>1. c \in Calls /\ c.op = "append" /\ answer[p] = "none yet"
    BY <1>1, <1>6, Where DEF RedisTakeId, Called, Is, Waiting
  <2>2. /\ AnswerOf(rows, ids, c) = IF c.id \in ids THEN "error" ELSE "done"
        /\ IdsAfter(ids, c) = ids \cup {c.id}
    BY <2>1 DEF AnswerOf, IdsAfter
  <2>3. RowsAfter(rows, c) = rows
    BY <2>1, RowsAfterCall
  <2>4. /\ Replied(p, IF c.id \in ids THEN "error" ELSE "done")
        /\ ids' = ids \cup {c.id} /\ UNCHANGED <<call, rows>>
    BY <1>6 DEF RedisTakeId, RedisOthers
  <2> QED BY <1>2, <2>1, <2>2, <2>3, <2>4 DEF Mapped, Performed
<1>7. CASE RedisListed(p)
  <2>1. Lists(c)
    BY <1>1, <1>7, Where DEF RedisListed, Suits, Lists
  <2>2. UNCHANGED <<call, rows, ids>> /\ Replied(p, "done")
    BY <1>7 DEF RedisListed, RedisOthers
  <2> QED BY <1>2, <2>1, <2>2 DEF Mapped, Listed, Silent
<1>8. CASE \/ RedisAddMember(p) \/ RedisRemoveMember(p) \/ RedisWatch(p) \/ (RedisExec(p) /\ ~Executed(p))
           \/ RedisPush(p) \/ RedisMembers(p) \/ \E i \in Item : RedisGetMember(p, i)
  <2>1. UNCHANGED <<call, rows, ids, answer>>
    BY <1>8 DEF RedisAddMember, RedisRemoveMember, RedisWatch, RedisExec, RedisPush, RedisMembers,
                RedisGetMember, RedisOthers
  <2> QED BY <1>2, <2>1 DEF Mapped, Silent
<1> QED BY <1>3, <1>4, <1>5, <1>6, <1>7, <1>8 DEF RedisStep, RedisExec

LEMMA SqliteMaps ==
    ASSUME StoreInv, ControlInv', store' = store, NEW p \in Proc, SqliteStep(p) \/ BusyTimeout(p)
    PROVE  Mapped(p)
<1> DEFINE c == call[p]
<1>1. ControlInv /\ SqliteInv /\ store = "sqlite"
    BY StepOf DEF StoreInv
<1>2. SeenRows = rows /\ SeenRows' = rows'
    BY <1>1, SeenIsHeld
<1>3. CASE SqliteGet(p)
  <2>1. c \in Calls /\ c.op = "get" /\ answer[p] = "none yet" /\ UNCHANGED <<call, rows, ids>>
    BY <1>1, <1>3, Where DEF SqliteGet, Called, Is, Waiting, SqliteOthers
  <2>2. CASE NoTables
    BY <1>2, <1>3, <2>1, <2>2 DEF SqliteGet, Mapped, Failed, Silent
  <2>3. CASE ~NoTables
    <3>1. AnswerOf(rows, ids, c) = rows[c.key] /\ IdsAfter(ids, c) = ids
      BY <2>1 DEF AnswerOf, IdsAfter
    <3>2. RowsAfter(rows, c) = rows
      BY <2>1, RowsAfterCall
    <3>3. Replied(p, rows[c.key])
      BY <1>3, <2>3 DEF SqliteGet
    <3> QED BY <1>2, <2>1, <3>1, <3>2, <3>3 DEF Mapped, Performed
  <2> QED BY <2>2, <2>3
<1>4. CASE SqliteList(p)
  <2>1. Lists(c)
    BY <1>1, <1>4, Where DEF SqliteList, Called, Is, Lists
  <2>2. UNCHANGED <<call, rows, ids>> /\ \E a : Replied(p, a)
    BY <1>4 DEF SqliteList, SqliteOthers
  <2> QED BY <1>2, <2>1, <2>2 DEF Mapped, Listed, Silent
<1>5. CASE BusyTimeout(p)
  <2>1. at[p] \in {"called", "creating", "migrating"}
    BY <1>5 DEF BusyTimeout
  <2>2. c \in Calls /\ answer[p] = "none yet"
    BY <1>1, <2>1, Where DEF Waiting
  <2>3. Replied(p, "error") /\ UNCHANGED <<call, rows, ids>>
    BY <1>5 DEF BusyTimeout, SqliteOthers
  <2> QED BY <1>2, <2>2, <2>3 DEF Mapped, Failed, Silent
<1>6. CASE InsertRecord(p) /\ c.id \in ids
  <2>1. c \in Calls /\ answer[p] = "none yet"
    BY <1>1, <1>6, Where DEF InsertRecord, Called, Is, Waiting
  <2>2. Replied(p, "error") /\ UNCHANGED <<call, rows, ids>>
    BY <1>6 DEF InsertRecord, SqliteOthers
  <2> QED BY <1>2, <2>1, <2>2 DEF Mapped, Failed, Silent
<1>7. CASE DraftsIndex(p) \/ (InsertRecord(p) /\ c.id \notin ids)
  <2>1. UNCHANGED <<call, rows, ids, answer>>
    BY <1>7 DEF DraftsIndex, Upsert, DeleteRow, Update, InsertRecord, Draft, SqliteOthers
  <2> QED BY <1>2, <2>1 DEF Mapped, Silent
<1>8. CASE Migrate(p)
  <2>1. c \in Calls /\ answer[p] = "none yet" /\ UNCHANGED <<call, rows, ids>>
    BY <1>1, <1>8, Where DEF Migrate, Waiting, SqliteOthers
  <2>2. Replied(p, "error") \/ UNCHANGED answer
    BY <1>8 DEF Migrate
  <2> QED BY <1>2, <2>1, <2>2 DEF Mapped, Failed, Silent
<1>9. CASE \/ CreateTables(p) \/ InsertVersion(p) \/ CommitVersion(p) \/ CommitMigration(p) \/ Rollback(p)
           \/ BeginImmediate(p) \/ \E k \in Key : UpdateApproval(p, k)
  <2>1. UNCHANGED <<call, rows, ids, answer>>
    BY <1>9 DEF CreateTables, InsertVersion, CommitVersion, CommitMigration, Rollback, BeginImmediate,
                UpdateApproval, SqliteOthers
  <2> QED BY <1>2, <2>1 DEF Mapped, Silent
<1>10. CASE SelectClaim(p)
  <2>1. c \in Calls /\ c.op = "claim" /\ answer[p] = "none yet" /\ UNCHANGED <<call, rows, ids>>
    BY <1>1, <1>10, Where DEF SelectClaim, Is, Waiting, SqliteOthers
  <2>2. CASE MayClaim(rows[c.key])
    <3>1. UNCHANGED answer
      BY <1>1, <1>10, <2>2, ClaimSelected
    <3> QED BY <1>2, <2>1, <3>1 DEF Mapped, Silent
  <2>3. CASE ~MayClaim(rows[c.key])
    <3>1. Replied(p, rows[c.key])
      BY <1>1, <1>10, <2>3, ClaimSelected
    <3>2. AnswerOf(rows, ids, c) = rows[c.key] /\ IdsAfter(ids, c) = ids
      BY <2>1, <2>3 DEF AnswerOf, IdsAfter
    <3>3. RowsAfter(rows, c) = rows
      BY <2>1, <2>3, RowsAfterCall
    <3> QED BY <1>2, <2>1, <3>1, <3>2, <3>3 DEF Mapped, Performed
  <2> QED BY <2>2, <2>3
<1>11. ASSUME NEW i \in Key, UpdateItem(p, i) PROVE Mapped(p)
  <2>1. c \in Calls /\ c.op = "transition" /\ answer[p] = "none yet" /\ UNCHANGED <<call, rows, ids>>
    BY <1>1, <1>11, Where DEF UpdateItem, Waiting, SqliteOthers, Suits, Double
  <2>2. CASE Holds(rows, c)
    <3>1. UNCHANGED answer
      BY <1>1, <1>11, <2>2, UpdatesOfPair
    <3> QED BY <1>2, <2>1, <3>1 DEF Mapped, Silent
  <2>3. CASE ~Holds(rows, c)
    <3>1. Replied(p, "no")
      BY <1>1, <1>11, <2>3, UpdatesOfPair
    <3>2. AnswerOf(rows, ids, c) = "no" /\ IdsAfter(ids, c) = ids
      BY <2>1, <2>3 DEF AnswerOf, IdsAfter
    <3>3. RowsAfter(rows, c) = rows
      BY <2>1, <2>3, RowsAfterCall
    <3> QED BY <1>2, <2>1, <3>1, <3>2, <3>3 DEF Mapped, Performed
  <2> QED BY <2>2, <2>3
<1>12. CASE Commit(p)
  <2>1. /\ rows' = RowsAfter(rows, c) /\ ids' = IdsAfter(ids, c)
        /\ AnswerAtCommit(p) = AnswerOf(rows, ids, c)
    BY <1>1, <1>12, SqliteCommitStep
  <2>2. c \in Calls /\ c.op # "list" /\ answer[p] = "none yet" /\ call' = call /\ Replied(p, AnswerAtCommit(p))
    BY <1>1, <1>12, Where DEF Commit, Waiting, Suits, SqliteOthers
  <2> QED BY <1>2, <2>1, <2>2 DEF Mapped, Performed
<1> QED BY <1>3, <1>4, <1>5, <1>6, <1>7, <1>8, <1>9, <1>10, <1>11, <1>12 DEF SqliteStep, DraftsIndex

LEMMA WriterIsAlone ==
    ASSUME ControlInv, NEW p \in Proc
    PROVE  /\ at[p] = "writing" => lock = p
           /\ lock \in {p, None} => \A q \in Proc : q # p => at[q] # "writing"
BY Where, StoreAssumption DEF Locked, ThreadLabels

(* Nobody begins or ends to write.                                         *)
LEMMA SeenKept ==
    ASSUME ControlInv, rows' = rows,
           \A q \in Proc : at'[q] = "writing" <=> at[q] = "writing",
           \A q \in Proc : at[q] = "writing" => local'[q] = local[q]
    PROVE  SeenRows' = SeenRows
<1>1. CASE \A q \in Proc : at[q] # "writing"
    BY <1>1, SeenOne, SeenNames
<1>2. ASSUME NEW p \in Proc, at[p] = "writing" PROVE SeenRows' = SeenRows
  <2>1. \A q \in Proc : q # p => at[q] # "writing"
    BY <1>2, WriterIsAlone
  <2>2. SeenRows = local[p].rows
    BY <1>2, <2>1, SeenOne, SeenNames
  <2>3. SeenRows' = local'[p].rows
    BY <1>2, <2>1, SeenOne, SeenNames
  <2> QED BY <1>2, <2>2, <2>3
<1> QED BY <1>1, <1>2

LEMMA ThreadMaps ==
    ASSUME StoreInv, ControlInv', store' = store, NEW p \in Proc, ThreadStep(p)
    PROVE  Mapped(p)
<1> DEFINE c == call[p]
<1>1. ControlInv /\ ThreadInv /\ store = "memory" /\ rows \in Rows
    BY StepOf, TypesParts DEF StoreInv
<1>2. lock \in {p, None} /\ \A q \in Proc : q # p => at[q] # "writing"
  <2>1. at[p] \in {"locked", "writing", "unlocking"} => lock = p
    BY <1>1, Where DEF Locked, ThreadLabels
  <2>2. lock \in {p, None}
    BY <2>1 DEF ThreadStep, TakeLock, Work, WorkList, WriteApproval, WriteItem, ReleaseLock, Is
  <2> QED BY <1>1, <2>2, WriterIsAlone
<1>3. at[p] # "writing" => SeenRows = rows
    BY <1>2, SeenOne, SeenNames
<1>4. ASSUME NEW w, w # "writing", Goto(p, w) PROVE SeenRows' = rows'
  <2>1. \A q \in Proc : at'[q] # "writing"
    BY <1>1, <1>2, <1>4, Frames
  <2> QED BY <2>1, SeenOne, SeenNames
<1>5. CASE TakeLock(p) \/ ReleaseLock(p)
  <2>1. /\ UNCHANGED <<call, ids, rows, answer>> /\ at[p] # "writing"
        /\ Goto(p, "locked") \/ Goto(p, "answered")
    BY <1>5 DEF TakeLock, ReleaseLock, ThreadOthers
  <2> QED BY <1>3, <1>4, <2>1 DEF Mapped, Silent
<1>6. CASE Work(p)
  <2>1. /\ Replied(p, AnswerOf(rows, ids, c)) /\ rows' = RowsAfter(rows, c) /\ ids' = IdsAfter(ids, c)
        /\ at[p] = "locked" /\ Goto(p, "unlocking") /\ c.op # "list" /\ call' = call
    BY <1>6 DEF Work, Publish, ThreadOthers
  <2>2. c \in Calls /\ answer[p] = "none yet"
    BY <1>1, <2>1, Where DEF Waiting
  <2>3. SeenRows = rows /\ SeenRows' = rows'
    BY <1>3, <1>4, <2>1
  <2> QED BY <2>1, <2>2, <2>3 DEF Mapped, Performed
<1>7. CASE WorkList(p)
  <2>1. /\ UNCHANGED <<call, ids, rows>> /\ at[p] = "locked" /\ c.op = "list"
        /\ Goto(p, "unlocking") /\ Replied(p, "done")
    BY <1>7 DEF WorkList, Is, ThreadOthers
  <2>2. Lists(c)
    BY <1>1, <2>1, Where DEF Lists
  <2>3. SeenRows = rows /\ SeenRows' = rows'
    BY <1>3, <1>4, <2>1
  <2> QED BY <2>1, <2>2, <2>3 DEF Mapped, Listed, Silent
<1>8. CASE WriteApproval(p) /\ Holds(rows, c)
  <2>1. /\ UNCHANGED <<call, ids, answer>> /\ at[p] = "locked" /\ Goto(p, "writing")
        /\ local' = [local EXCEPT ![p] = [local[p] EXCEPT !.rows = rows]]
    BY <1>8 DEF WriteApproval, ThreadOthers
  <2>2. at'[p] = "writing" /\ \A q \in Proc : q # p => at'[q] # "writing"
    BY <1>1, <1>2, <2>1, Frames
  <2>3. local'[p].rows = rows
    <3>1. local'[p] = [local[p] EXCEPT !.rows = rows]
      BY <1>1, <2>1, Frames
    <3> QED BY <1>1, <3>1, OwnTypes DEF Local
  <2>4. SeenRows' = rows /\ SeenRows = rows
    BY <1>3, <2>1, <2>2, <2>3, SeenOne, SeenNames
  <2> QED BY <2>1, <2>4 DEF Mapped, Silent
<1>9. CASE WriteApproval(p) /\ ~Holds(rows, c)
  <2>1. /\ UNCHANGED <<call, ids, rows>> /\ at[p] = "locked" /\ Double(c)
        /\ Goto(p, "unlocking") /\ Replied(p, "no")
    BY <1>9 DEF WriteApproval, Pairs, Double, ThreadOthers
  <2>2. c \in Calls /\ answer[p] = "none yet" /\ c.op = "transition"
    BY <1>1, <2>1, Where DEF Waiting, Double
  <2>3. SeenRows = rows /\ SeenRows' = rows'
    BY <1>3, <1>4, <2>1
  <2>4. AnswerOf(rows, ids, c) = "no" /\ IdsAfter(ids, c) = ids
    BY <1>9, <2>2 DEF AnswerOf, IdsAfter
  <2>5. RowsAfter(rows, c) = rows
    BY <1>9, <2>2, RowsAfterCall
  <2> QED BY <2>1, <2>2, <2>3, <2>4, <2>5 DEF Mapped, Performed
<1>10. CASE WriteItem(p)
  <2> DEFINE before == local[p].rows
             after == [k \in Key |-> IF k \in DOMAIN c.writes \cap Item THEN c.writes[k] ELSE rows[k]]
  <2>1. /\ UNCHANGED <<call, ids>> /\ at[p] = "writing" /\ Goto(p, "unlocking") /\ Replied(p, "yes")
        /\ rows' = after
    BY <1>10 DEF WriteItem, ThreadOthers, Publish
  <2>2. c \in Calls /\ answer[p] = "none yet" /\ c.op = "transition" /\ before \in Rows
    BY <1>1, <2>1, Where, OwnTypes DEF Waiting, Suits, Double
  <2>3. SeenRows = before /\ SeenRows' = rows'
    BY <1>2, <1>4, <2>1, SeenOne, SeenNames
  <2>4. Holds(before, c) /\ rows = HalfDone(c, before)
    BY <1>1, <2>1 DEF ThreadInv, WritingAt
  <2>5. RowsAfter(before, c) = after
    <3>1. RowsAfter(before, c) = [k \in Key |-> IF k \in DOMAIN c.writes THEN c.writes[k] ELSE before[k]]
      BY <2>2, <2>4, RowsAfterCall
    <3>2. DOMAIN c.writes \subseteq Key /\ DOMAIN c.writes \cap Claim = {}
      <4>1. DOMAIN c.writes \in Pair \cup {{k} : k \in Approval \cup Item}
        BY <2>2, CallShape
      <4> QED BY <4>1, PairShape
    <3>3. ASSUME NEW k \in Key
          PROVE  (IF k \in DOMAIN c.writes \cap Item THEN c.writes[k] ELSE rows[k])
                   = IF k \in DOMAIN c.writes THEN c.writes[k] ELSE before[k]
      <4>1. rows[k] = IF k \in DOMAIN c.writes \cap Approval THEN c.writes[k] ELSE before[k]
        BY <2>4, <3>3 DEF HalfDone
      <4>2. k \in DOMAIN c.writes => k \in Approval \cup Item
        BY <3>2 DEF Key
      <4> QED BY <4>1, <4>2
    <3> QED BY <3>1, <3>3
  <2>6. AnswerOf(before, ids, c) = "yes" /\ IdsAfter(ids, c) = ids
    BY <2>2, <2>4 DEF AnswerOf, IdsAfter
  <2> HIDE DEF after
  <2> QED BY <2>1, <2>2, <2>3, <2>5, <2>6 DEF Mapped, Performed
<1> QED BY <1>5, <1>6, <1>7, <1>8, <1>9, <1>10 DEF ThreadStep

LEMMA CallEndsMap ==
    ASSUME StoreInv, NEW p \in Proc, (\E c \in Calls : Invoke(p, c)) \/ Return(p) \/ Crash(p)
    PROVE  \/ \E c \in {c \in Calls : c.op # "list"} : Atomic!Invoke(p, c)
           \/ Atomic!End(p) \/ UNCHANGED Atomic!vars
<1>1. ControlInv
    BY DEF StoreInv
<1>2. PICK w \in {"called", "idle"} : Goto(p, w)
    BY DEF Invoke, Return, Crash, Ended
<1>3. at'[p] = w /\ \A q \in Proc : q # p => at'[q] = at[q]
    BY <1>1, <1>2, Frames
<1>4. at[p] # "writing"
  <2>1. CASE Crash(p)
    <3>1. store # "memory"
      BY <2>1 DEF Crash
    <3> QED BY <1>1, <3>1, Where DEF ThreadLabels
  <2>2. CASE ~Crash(p)
    BY <2>2 DEF Invoke, Return
  <2> QED BY <2>1, <2>2
<1>5. rows' = rows /\ UNCHANGED ids /\ \A q \in Proc : q # p => local'[q] = local[q]
    BY <1>1, TypesParts DEF Invoke, Return, Crash
<1>6. SeenRows' = SeenRows
    BY <1>1, <1>3, <1>4, <1>5, SeenKept
<1>7. ASSUME NEW c \in Calls, Invoke(p, c)
      PROVE  \/ \E d \in {d \in Calls : d.op # "list"} : Atomic!Invoke(p, d)
             \/ UNCHANGED Atomic!vars
    BY <1>1, <1>6, <1>7, InvokeMaps
<1>8. CASE Return(p) \/ Crash(p)
  <2>1. Ended(p) /\ call[p] # None
    BY <1>1, <1>8, Where DEF Return, Crash
  <2> QED BY <1>1, <1>5, <1>6, <2>1, EndMaps
<1> QED BY <1>7, <1>8

(* Watched transactions, BEGIN IMMEDIATE, one statement and a lock all     *)
(* make a call but a list happen at one moment, or not at all: for every   *)
(* set of processes, keys and calls, whoever is killed or times out.       *)
THEOREM StoresAreAtomic == Spec => ImplementsAtomicStore
<1>1. Init => Atomic!Init
  <2> SUFFICES ASSUME Init PROVE Atomic!Init
    OBVIOUS
  <2>1. /\ rows \in Rows /\ ids = {} /\ \A p \in Proc : at[p] # "writing"
        /\ call = [p \in Proc |-> None] /\ answer = [p \in Proc |-> "none yet"]
    BY ControlInit, TypesParts DEF Init
  <2>2. SeenRows \in Rows
    BY <2>1, SeenOne, SeenNames
  <2>3. SeenCalls(call) = [p \in Proc |-> None] /\ SeenAnswers(call, answer) = [p \in Proc |-> "none yet"]
    BY <2>1 DEF SeenCalls, SeenAnswers, Lists
  <2> QED BY <2>1, <2>2, <2>3 DEF Atomic!Init, SeenCalls, SeenAnswers, Lists, IsList
<1>2. StoreInv /\ [Next]_svars => [Atomic!Next]_Atomic!vars
  <2> SUFFICES ASSUME StoreInv, [Next]_svars PROVE [Atomic!Next]_Atomic!vars
    OBVIOUS
  <2>1. ControlInv /\ ControlInv' /\ store' = store
    BY StoreNext, StoreStays DEF StoreInv
  <2>2. CASE UNCHANGED svars
    <3>1. SeenRows' = SeenRows
      BY <2>1, <2>2, SeenKept DEF svars
    <3> QED BY <2>2, <3>1, SilentMaps DEF svars, Silent
  <2>3. ASSUME NEW p \in Proc, RedisStep(p) \/ SqliteStep(p) \/ BusyTimeout(p) \/ ThreadStep(p)
        PROVE  Atomic!Perform(p) \/ Atomic!Raise(p) \/ UNCHANGED Atomic!vars
    <3>1. Mapped(p)
      BY <2>1, <2>3, RedisMaps, SqliteMaps, ThreadMaps
    <3> QED BY <2>1, <3>1, MappedMaps
  <2>4. ASSUME NEW p \in Proc, (\E c \in Calls : Invoke(p, c)) \/ Return(p) \/ Crash(p)
        PROVE  \/ \E c \in {c \in Calls : c.op # "list"} : Atomic!Invoke(p, c)
               \/ Atomic!End(p) \/ UNCHANGED Atomic!vars
    BY <2>4, CallEndsMap
  <2> QED BY <2>2, <2>3, <2>4 DEF Next, Step, Atomic!Next
<1> QED BY <1>1, <1>2, StoreHolds, PTL DEF ImplementsAtomicStore, Atomic!Spec, Spec

-----------------------------------------------------------------------------
(* Lists.  An item that is to be found has its row, in Redis is a member,  *)
(* and nobody is deleting it; it stays so until a delete begins.           *)
Safe(i) == rows[i] # None /\ (store = "redis" => index[i] # None) /\ i \notin Deleting

Stored(q) ==
    IsSet(q) /\ answer[q] = "done" /\ told[q].alone /\ call[q].key \in Item =>
        /\ rows[call[q].key] # None
        /\ store = "redis" /\ at[q] # "indexing" => index[call[q].key] # None

FoundAt(q) ==
    /\ ~IsList(q) => local[q].found = {}
    /\ IsList(q) =>
          /\ local[q].found \subseteq told[q].sometime
          /\ at[q] = "getting" => told[q].always \subseteq local[q].items \cup local[q].found
          /\ answer[q] = "done" => /\ at[q] \in {"answered", "unlocking"}
                                   /\ told[q].always \subseteq local[q].found

ToldAt(q) ==
    /\ \A i \in told[q].always : Safe(i)
    /\ IsSet(q) /\ told[q].alone => call[q].key \notin Deleting
    /\ IsList(q) => Present(rows) \subseteq told[q].sometime

ListInv ==
    /\ \A i \in settled : Safe(i)
    /\ \A q \in Proc : ToldAt(q) /\ FoundAt(q) /\ Stored(q)

LEMMA DeletingParts ==
    ASSUME NEW i
    PROVE  i \in Deleting <=> \E q \in Proc : call[q] # None /\ i \in Deletes(call[q])
BY DEF Deleting

(* What a step of a call leaves of the rows, or of the members.            *)
Kept(c, r, s) == \A i \in Item : r[i] # None /\ i \notin Deletes(c) => s[i] # None

Worked(p) ==
    /\ UNCHANGED <<store, call, settled>>
    /\ UNCHANGED <<rows, told>> \/ \E r \in Rows : Publish(r)
    /\ Kept(call[p], rows, rows')
    /\ store = "redis" => Kept(call[p], index, index')
    /\ \A q \in Proc : q # p => /\ at'[q] = at[q] /\ answer'[q] = answer[q]
                                /\ local'[q].found = local[q].found
                                /\ local'[q].items = local[q].items

LEMMA PublishTold ==
    ASSUME ControlInv, NEW q \in Proc,
           UNCHANGED <<rows, told>> \/ \E r \in Rows : Publish(r)
    PROVE  /\ told'[q].always = told[q].always /\ told'[q].alone = told[q].alone
           /\ told[q].sometime \subseteq told'[q].sometime
           /\ IsList(q) /\ Present(rows) \subseteq told[q].sometime =>
                 Present(rows') \subseteq told'[q].sometime
<1>1. told[q] \in [always: SUBSET Item, sometime: SUBSET Item, alone: BOOLEAN]
    BY TypesParts
<1>2. CASE UNCHANGED <<rows, told>>
    BY <1>2 DEF Present
<1>3. ASSUME NEW r \in Rows, Publish(r)
      PROVE  /\ told'[q].always = told[q].always /\ told'[q].alone = told[q].alone
             /\ told[q].sometime \subseteq told'[q].sometime
             /\ IsList(q) => Present(rows') \subseteq told'[q].sometime
  <2>1. rows' = r /\ told'[q] = IF IsList(q)
                                THEN [told[q] EXCEPT !.sometime = told[q].sometime \cup Present(r)]
                                ELSE told[q]
    BY <1>3 DEF Publish
  <2>2. Present(rows') = Present(r)
    BY <2>1 DEF Present
  <2> QED BY <1>1, <2>1, <2>2
<1> QED BY <1>2, <1>3

LEMMA WorkedKeeps ==
    ASSUME ControlInv, ListInv, NEW p \in Proc, at[p] # "idle", Worked(p), Stored(p)', FoundAt(p)'
    PROVE  ListInv'
<1>1. /\ store' = store /\ call' = call /\ settled' = settled
      /\ UNCHANGED <<rows, told>> \/ \E r \in Rows : Publish(r)
      /\ Kept(call[p], rows, rows')
      /\ store = "redis" => Kept(call[p], index, index')
      /\ \A q \in Proc : q # p => /\ at'[q] = at[q] /\ answer'[q] = answer[q]
                                  /\ local'[q].found = local[q].found
                                  /\ local'[q].items = local[q].items
    BY DEF Worked
<1>2. \A i : i \in Deleting' <=> i \in Deleting
    BY <1>1 DEF Deleting
<1>3. \A i : i \in Deletes(call[p]) => i \in Deleting
    BY Where, DeletingParts
<1>4. ASSUME NEW i \in Item, i \notin Deletes(call[p])
      PROVE  /\ rows[i] # None => rows'[i] # None
             /\ store = "redis" /\ index[i] # None => index'[i] # None
    BY <1>1, <1>4 DEF Kept
<1>5. ASSUME NEW i \in Item, Safe(i) PROVE Safe(i)'
    BY <1>1, <1>2, <1>3, <1>4, <1>5 DEF Safe
<1>6. \A i \in settled' : Safe(i)'
  <2>1. settled \subseteq Item
    BY TypesParts
  <2> QED BY <1>1, <1>5, <2>1 DEF ListInv
<1>7. ASSUME NEW q \in Proc PROVE ToldAt(q)'
  <2>1. /\ told'[q].always = told[q].always /\ told'[q].alone = told[q].alone
        /\ IsList(q) /\ Present(rows) \subseteq told[q].sometime =>
              Present(rows') \subseteq told'[q].sometime
    BY <1>1, PublishTold
  <2>2. ToldAt(q)
    BY DEF ListInv
  <2>3. told[q].always \subseteq Item
    BY TypesParts
  <2>4. \A i \in told'[q].always : Safe(i)'
    BY <1>5, <2>1, <2>2, <2>3 DEF ToldAt
  <2>5. IsSet(q)' /\ told'[q].alone => call'[q].key \notin Deleting'
    BY <1>1, <1>2, <2>1, <2>2 DEF ToldAt, IsSet
  <2>6. IsList(q)' => Present(rows') \subseteq told'[q].sometime
    BY <1>1, <2>1, <2>2 DEF ToldAt, IsList
  <2>7. IsList(q)' => Present(rows)' \subseteq told'[q].sometime
    BY <2>6 DEF Present
  <2> QED BY <2>4, <2>5, <2>7 DEF ToldAt
<1>8. ASSUME NEW q \in Proc, q # p PROVE FoundAt(q)'
  <2>1. /\ told'[q].always = told[q].always /\ told[q].sometime \subseteq told'[q].sometime
    BY <1>1, PublishTold
  <2>2. FoundAt(q)
    BY DEF ListInv
  <2> QED BY <1>1, <1>8, <2>1, <2>2 DEF FoundAt, IsList
<1>9. ASSUME NEW q \in Proc, q # p PROVE Stored(q)'
  <2>1. told'[q].alone = told[q].alone
    BY <1>1, PublishTold
  <2>2. SUFFICES ASSUME IsSet(q), answer[q] = "done", told[q].alone, call[q].key \in Item
                 PROVE  /\ rows'[call[q].key] # None
                        /\ store = "redis" /\ at[q] # "indexing" => index'[call[q].key] # None
    BY <1>1, <1>9, <2>1 DEF Stored, IsSet
  <2>3. call[q].key \notin Deletes(call[p])
    BY <1>3, <2>2 DEF ListInv, ToldAt
  <2> QED BY <1>4, <2>2, <2>3 DEF ListInv, Stored
<1> QED BY <1>6, <1>7, <1>8, <1>9 DEF ListInv

(* A call that does what it promises leaves what it does not delete.       *)
LEMMA RowsAreKept ==
    ASSUME NEW r \in Rows, NEW c \in Calls
    PROVE  Kept(c, r, RowsAfter(r, c))
<1> SUFFICES ASSUME NEW i \in Item, r[i] # None, i \notin Deletes(c)
             PROVE  RowsAfter(r, c)[i] # None
    BY DEF Kept
<1>1. i \in Key /\ None \notin Status
    BY StoreAssumption DEF Key
<1>2. CASE c.op \in {"get", "list", "append"}
    BY <1>2, RowsAfterCall
<1>3. CASE c.op = "set"
    BY <1>1, <1>3, RowsAfterCall, CallShape DEF Rows
<1>4. CASE c.op = "delete"
    BY <1>1, <1>4, RowsAfterCall, CallShape DEF Rows, Deletes
<1>5. CASE c.op = "claim"
    BY <1>1, <1>5, RowsAfterCall, CallShape DEF Rows
<1>6. CASE c.op = "transition"
  <2>1. \A k \in DOMAIN c.writes : c.writes[k] \in Status
    BY <1>6, CallShape
  <2> QED BY <1>1, <1>6, <2>1, RowsAfterCall
<1> QED BY <1>2, <1>3, <1>4, <1>5, <1>6, CallShape

(* A step that leaves the members, and what lists have found.              *)
LEMMA DoneSteps ==
    ASSUME ControlInv, ListInv, NEW p \in Proc, at[p] # "idle",
           UNCHANGED <<store, call, settled>>,
           NEW w, Goto(p, w), w # "getting",
           NEW a, Replied(p, a) \/ (UNCHANGED answer /\ a = answer[p]),
           \/ UNCHANGED <<rows, told>> /\ (call[p].op = "set" => a # "done" \/ a = answer[p])
           \/ Publish(RowsAfter(rows, call[p])),
           store = "redis" =>
              /\ Kept(call[p], index, index')
              /\ call[p].op = "set" /\ a = "done" /\ call[p].key \in Item =>
                    w = "indexing" \/ (at[p] # "indexing" /\ a = answer[p]) \/ index'[call[p].key] # None,
           call[p].op = "list" /\ a = "done" =>
              /\ at[p] \in {"answered", "unlocking"} /\ w \in {"answered", "unlocking"}
              /\ local'[p].found = local[p].found /\ a = answer[p],
           \A q \in Proc : \/ local'[q].found = local[q].found /\ local'[q].items = local[q].items
                           \/ q = p /\ local'[q].found = {}
    PROVE  ListInv'
<1> DEFINE c == call[p]
<1>1. c \in Calls /\ c # None /\ rows \in Rows
    BY Where, TypesParts
<1>2. /\ at'[p] = w /\ answer'[p] = a
      /\ \A q \in Proc : q # p => at'[q] = at[q] /\ answer'[q] = answer[q]
    BY Frames
<1>3. UNCHANGED <<rows, told>> \/ \E r \in Rows : Publish(r)
    BY <1>1, CallTypes, TypesParts
<1>4. Kept(c, rows, rows')
  <2>1. CASE UNCHANGED rows
    BY <2>1 DEF Kept
  <2>2. CASE Publish(RowsAfter(rows, c))
    BY <1>1, <2>2, RowsAreKept DEF Publish
  <2> QED BY <2>1, <2>2
<1>5. \A q \in Proc : q # p => local'[q].found = local[q].found /\ local'[q].items = local[q].items
    OBVIOUS
<1>6. Worked(p)
    BY <1>2, <1>3, <1>4, <1>5 DEF Worked
<1>7. told'[p].always = told[p].always /\ told'[p].alone = told[p].alone
      /\ told[p].sometime \subseteq told'[p].sometime
    BY <1>3, PublishTold
<1>8. FoundAt(p)'
  <2>1. FoundAt(p) /\ call' = call
    BY DEF ListInv
  <2>2. CASE ~IsList(p)
    BY <2>1, <2>2 DEF FoundAt, IsList
  <2>3. CASE IsList(p)
    <3>1. local'[p].found \subseteq told'[p].sometime
      BY <1>7, <2>1, <2>3 DEF FoundAt
    <3>2. a = "done" => /\ w \in {"answered", "unlocking"} /\ local'[p].found = local[p].found
                        /\ answer[p] = "done"
      BY <2>3 DEF IsList
    <3> QED BY <1>2, <1>7, <2>1, <2>3, <3>1, <3>2 DEF FoundAt, IsList
  <2> QED BY <2>2, <2>3
<1>9. Stored(p)'
  <2>1. SUFFICES ASSUME c.op = "set", a = "done", told[p].alone, c.key \in Item
                 PROVE  /\ rows'[c.key] # None
                        /\ store = "redis" /\ w # "indexing" => index'[c.key] # None
    BY <1>2, <1>7 DEF Stored, IsSet
  <2>2. answer[p] = "done" => /\ rows[c.key] # None
                              /\ store = "redis" /\ at[p] # "indexing" => index[c.key] # None
    BY <1>1, <2>1 DEF ListInv, Stored, IsSet
  <2>3. c.key \notin Deletes(c)
    BY <2>1 DEF Deletes
  <2>4. rows'[c.key] # None
    <3>1. CASE UNCHANGED rows /\ a = answer[p]
      BY <2>1, <2>2, <3>1
    <3>2. CASE Publish(RowsAfter(rows, c))
      <4>1. rows' = [rows EXCEPT ![c.key] = c.value] /\ c.value \in Status /\ c.key \in Key
        BY <1>1, <2>1, <3>2, RowsAfterCall, CallShape DEF Publish
      <4> QED BY <1>1, <4>1, StoreAssumption DEF Rows
    <3> QED BY <2>1, <3>1, <3>2
  <2>5. store = "redis" /\ w # "indexing" => index'[c.key] # None
    BY <2>1, <2>2, <2>3 DEF Kept
  <2> QED BY <2>4, <2>5
<1> QED BY <1>6, <1>8, <1>9, WorkedKeeps

(* Lists that go on.                                                       *)
LEMMA ListSteps ==
    ASSUME ControlInv, ListInv, NEW p \in Proc,
           RedisMembers(p) \/ RedisListed(p) \/ (\E i \in Item : RedisGetMember(p, i))
             \/ SqliteList(p) \/ WorkList(p)
    PROVE  ListInv'
<1> DEFINE c == call[p]
<1>1. /\ at[p] # "idle" /\ c \in Calls /\ c.op = "list"
      /\ local \in [Proc -> Local] /\ local[p] \in Local /\ at \in [Proc -> Labels]
      /\ answer[p] = "none yet"
    BY Where, OwnTypes, TypesParts
       DEF RedisMembers, RedisListed, RedisGetMember, SqliteList, WorkList, Called, Is, Suits, Waiting
<1>2. UNCHANGED <<store, call, settled, rows, told, index>>
    BY DEF RedisMembers, RedisListed, RedisGetMember, SqliteList, WorkList, RedisOthers, SqliteOthers,
           ThreadOthers
<1>3. IsList(p) /\ ~IsSet(p) /\ IsList(p)' /\ ~IsSet(p)'
    BY <1>1, <1>2, Where DEF IsList, IsSet
<1>4. \E w, a, l : /\ at' = [at EXCEPT ![p] = w] /\ answer' = [answer EXCEPT ![p] = a]
                   /\ local' = [local EXCEPT ![p] = l]
  <2>1. \E w : at' = [at EXCEPT ![p] = w]
    <3>1. at = [at EXCEPT ![p] = at[p]]
      BY <1>1
    <3> QED BY <3>1 DEF RedisMembers, RedisListed, RedisGetMember, SqliteList, WorkList, Goto
  <2>2. \E a : answer' = [answer EXCEPT ![p] = a]
    <3>1. answer = [answer EXCEPT ![p] = answer[p]]
      BY TypesParts
    <3> QED BY <3>1 DEF RedisMembers, RedisListed, RedisGetMember, SqliteList, WorkList, Replied
  <2>3. \E l : local' = [local EXCEPT ![p] = l]
    <3>1. CASE RedisListed(p)
      <4>1. local' = [local EXCEPT ![p] = local[p]]
        BY <1>1, <3>1 DEF RedisListed
      <4> QED BY <4>1
    <3>2. CASE RedisMembers(p)
      BY <3>2 DEF RedisMembers
    <3>3. ASSUME NEW i \in Item, RedisGetMember(p, i) PROVE \E l : local' = [local EXCEPT ![p] = l]
      <4> DEFINE found == IF rows[i] # None THEN local[p].found \cup {i} ELSE local[p].found
      <4>1. local' = [local EXCEPT ![p] = [local[p] EXCEPT !.items = local[p].items \ {i},
                                                           !.found = found]]
        BY <1>1, <3>3 DEF RedisGetMember, Local
      <4> QED BY <4>1
    <3>4. CASE SqliteList(p) \/ WorkList(p)
      BY <3>4 DEF SqliteList, WorkList
    <3> QED BY <3>1, <3>2, <3>3, <3>4
  <2> QED BY <2>1, <2>2, <2>3
<1>5. \A q \in Proc : q # p => at'[q] = at[q] /\ answer'[q] = answer[q] /\ local'[q] = local[q]
    BY <1>4, TypesParts
<1>6. Worked(p)
    BY <1>2, <1>5 DEF Worked, Kept
<1>7. ToldAt(p) /\ FoundAt(p)
    BY DEF ListInv
<1>8. /\ \A i \in told[p].always : i \in Item /\ rows[i] # None /\ (store = "redis" => index[i] # None)
      /\ Present(rows) \subseteq told[p].sometime /\ local[p].found \subseteq told[p].sometime
      /\ told[p].always \subseteq Present(rows)
    BY <1>3, <1>7, TypesParts DEF ToldAt, FoundAt, Safe, Present
<1>9. ASSUME NEW w, NEW a, at'[p] = w, answer'[p] = a, local'[p].found \subseteq told[p].sometime,
             w = "getting" => told[p].always \subseteq local'[p].items \cup local'[p].found,
             a = "done" => w \in {"answered", "unlocking"} /\ told[p].always \subseteq local'[p].found
      PROVE  ListInv'
  <2>1. FoundAt(p)'
    BY <1>2, <1>3, <1>9 DEF FoundAt
  <2>2. Stored(p)'
    BY <1>3 DEF Stored
  <2> QED BY <1>1, <1>6, <2>1, <2>2, WorkedKeeps
<1>10. CASE RedisMembers(p)
  <2>1. /\ local'[p] = [local[p] EXCEPT !.items = {i \in Item : index[i] # None}]
        /\ at'[p] = "getting" /\ answer'[p] = "none yet" /\ store = "redis"
    BY <1>1, <1>10 DEF RedisMembers, Goto, Called
  <2>2. local'[p].found = local[p].found /\ told[p].always \subseteq local'[p].items
    BY <1>1, <1>8, <2>1 DEF Local
  <2> QED BY <1>8, <1>9, <2>1, <2>2
<1>11. CASE RedisListed(p)
  <2>1. at[p] = "getting" /\ local'[p] = local[p] /\ local[p].items = {}
        /\ at'[p] = "answered" /\ answer'[p] = "done"
    BY <1>11, Frames DEF RedisListed
  <2>2. told[p].always \subseteq local'[p].found
    BY <1>3, <1>7, <2>1 DEF FoundAt
  <2> QED BY <1>8, <1>9, <2>1, <2>2
<1>12. ASSUME NEW i \in Item, RedisGetMember(p, i) PROVE ListInv'
  <2> DEFINE found == IF rows[i] # None THEN local[p].found \cup {i} ELSE local[p].found
  <2>1. /\ at[p] = "getting" /\ at'[p] = "getting" /\ answer'[p] = "none yet"
        /\ local'[p] = [local[p] EXCEPT !.items = local[p].items \ {i}, !.found = found]
    BY <1>1, <1>12 DEF RedisGetMember, Local
  <2>2. local'[p].found = found /\ local'[p].items = local[p].items \ {i}
    BY <1>1, <2>1 DEF Local
  <2>3. told[p].always \subseteq local'[p].items \cup local'[p].found
    BY <1>3, <1>7, <1>8, <2>1, <2>2 DEF FoundAt
  <2>4. local'[p].found \subseteq told[p].sometime
    BY <1>8, <2>2 DEF Present
  <2> QED BY <1>9, <2>1, <2>3, <2>4
<1>13. CASE SqliteList(p) \/ WorkList(p)
  <2>1. local'[p] = [local[p] EXCEPT !.found = Present(rows)]
    BY <1>1, <1>13 DEF SqliteList, WorkList
  <2>2. local'[p].found = Present(rows)
    BY <1>1, <2>1 DEF Local
  <2>3. at'[p] \in {"answered", "unlocking"}
    BY <1>13, Frames DEF SqliteList, WorkList
  <2> QED BY <1>8, <1>9, <2>2, <2>3
<1> QED BY <1>10, <1>11, <1>12, <1>13

(* What the others keep of their own when a command writes a key.          *)
LEMMA PutKeepsLists ==
    ASSUME ControlInv, NEW p \in Proc, NEW r \in Rows, Put(p, r)
    PROVE  \A q \in Proc : local'[q].found = local[q].found /\ local'[q].items = local[q].items
<1>1. \A q \in Proc : local'[q] = [local[q] EXCEPT !.clean = local'[q].clean]
    BY PutTyped
<1>2. ASSUME NEW q \in Proc
      PROVE  local'[q].found = local[q].found /\ local'[q].items = local[q].items
  <2>1. local[q] \in Local
    BY OwnTypes
  <2>2. \A b : /\ [local[q] EXCEPT !.clean = b].found = local[q].found
               /\ [local[q] EXCEPT !.clean = b].items = local[q].items
    BY <2>1 DEF Local
  <2>3. local'[q] = [local[q] EXCEPT !.clean = local'[q].clean]
    BY <1>1
  <2> QED BY <2>2, <2>3
<1> QED BY <1>2

LEMMA RedisLists ==
    ASSUME ControlInv, RedisInv, ListInv, NEW p \in Proc, RedisStep(p)
    PROVE  ListInv'
<1> DEFINE c == call[p]
<1>1. /\ at[p] # "idle" /\ c \in Calls /\ c # None /\ index \in Index
      /\ Suits(c, at[p])
  <2>1. at[p] # "idle"
    BY DEF RedisStep, RedisGet, RedisSet, RedisAddMember, RedisDelete, RedisRemoveMember,
           RedisWatch, RedisExec, Executed, RedisRead, RedisTakeId, RedisPush, RedisMembers,
           RedisListed, RedisGetMember, Called, Is
  <2> QED BY <2>1, Where, TypesParts
<1>2. UNCHANGED <<store, call, settled>>
    BY DEF RedisStep, RedisGet, RedisSet, RedisAddMember, RedisDelete, RedisRemoveMember,
           RedisWatch, RedisExec, Executed, RedisRead, RedisTakeId, RedisPush, RedisMembers,
           RedisListed, RedisGetMember, RedisOthers
<1>3. \A q \in Proc : local[q].found = local[q].found /\ local[q].items = local[q].items
    OBVIOUS
<1>4. Kept(c, index, index)
    BY DEF Kept
<1>5. CASE RedisSet(p) \/ RedisDelete(p) \/ Executed(p)
  <2> DEFINE r == RowsAfter(rows, c)
             a == AnswerOf(rows, ids, c)
  <2>1. Put(p, r) /\ r \in Rows /\ Replied(p, a)
    BY <1>5, RedisWrites
  <2>2. /\ Publish(r)
        /\ \A q \in Proc : local'[q].found = local[q].found /\ local'[q].items = local[q].items
    BY <2>1, PutKeepsLists DEF Put
  <2>3. c.op # "list"
    BY <1>1, <1>5 DEF RedisSet, RedisDelete, Executed, Called, Is, Suits
  <2>4. CASE RedisSet(p)
    <3>1. c.op = "set" /\ UNCHANGED index
          /\ Goto(p, IF c.key \in Item THEN "indexing" ELSE "answered")
      BY <2>4 DEF RedisSet, Called, Is
    <3>2. PICK w : /\ Goto(p, w) /\ w = IF c.key \in Item THEN "indexing" ELSE "answered"
      BY <3>1
    <3>3. w # "getting"
      BY <3>2
    <3> HIDE DEF r, a
    <3> QED BY <1>1, <1>2, <1>4, <2>1, <2>2, <2>3, <3>1, <3>2, <3>3, DoneSteps DEF r
  <2>5. CASE RedisDelete(p)
    <3>1. c.op = "delete" /\ UNCHANGED index /\ Goto(p, "unindexing")
      BY <2>5 DEF RedisDelete, Called, Is
    <3> HIDE DEF r, a
    <3> QED BY <1>1, <1>2, <1>4, <2>1, <2>2, <2>3, <3>1, DoneSteps DEF r
  <2>6. CASE Executed(p)
    <3>1. c.op \in {"transition", "claim"} /\ index' = Members(p) /\ Goto(p, "answered")
      BY <1>1, <2>6 DEF Executed, Suits
    <3>2. Kept(c, index, index')
      <4>1. "member" # None
        BY StoreAssumption
      <4> QED BY <1>1, <3>1, <4>1 DEF Members, Kept, Index
    <3> HIDE DEF r, a
    <3> QED BY <1>1, <1>2, <2>1, <2>2, <2>3, <3>1, <3>2, DoneSteps DEF r
  <2> QED BY <1>5, <2>4, <2>5, <2>6
<1>6. CASE RedisAddMember(p)
  <2>1. /\ c.op = "set" /\ c.key \in Item /\ index' = [index EXCEPT ![c.key] = "member"]
        /\ Goto(p, "answered") /\ UNCHANGED <<rows, answer, local, told>>
    BY <1>1, <1>6 DEF RedisAddMember, Suits
  <2>2. Kept(c, index, index') /\ index'[c.key] # None
    <3>1. "member" # None
      BY StoreAssumption
    <3> QED BY <1>1, <2>1, <3>1 DEF Kept, Index
  <2> QED BY <1>1, <1>2, <1>3, <2>1, <2>2, DoneSteps
<1>7. CASE RedisRemoveMember(p)
  <2>1. /\ c.op = "delete" /\ c.key \in Item /\ index' = [index EXCEPT ![c.key] = None]
        /\ Goto(p, "answered") /\ UNCHANGED <<rows, answer, local, told>>
    BY <1>1, <1>7, CallShape DEF RedisRemoveMember, Suits
  <2>2. Kept(c, index, index')
    BY <1>1, <2>1 DEF Kept, Index, Deletes
  <2> QED BY <1>1, <1>2, <1>3, <2>1, <2>2, DoneSteps
<1>8. ASSUME NEW w, Goto(p, w), w # "getting", c.op \notin {"set", "list"},
             UNCHANGED <<rows, told, index>>,
             \A q \in Proc : local'[q].found = local[q].found /\ local'[q].items = local[q].items,
             UNCHANGED answer \/ \E a : Replied(p, a)
      PROVE  ListInv'
    BY <1>1, <1>2, <1>4, <1>8, DoneSteps
<1>9. CASE RedisGet(p) \/ RedisWatch(p) \/ RedisTakeId(p) \/ RedisPush(p)
           \/ (RedisExec(p) /\ ~Executed(p)) \/ \E k \in Key : RedisRead(p, k)
  <2>1. /\ c.op \notin {"set", "list"} /\ UNCHANGED <<rows, told, index>>
        /\ \E w : Goto(p, w) /\ w # "getting"
        /\ UNCHANGED answer \/ \E a : Replied(p, a)
    BY <1>1, <1>9 DEF RedisGet, RedisWatch, RedisTakeId, RedisPush, RedisExec, RedisRead, Called, Is,
                      Suits, Double
  <2>2. \A q \in Proc : local'[q].found = local[q].found /\ local'[q].items = local[q].items
    <3>1. CASE UNCHANGED local
      BY <3>1
    <3>2. CASE RedisWatch(p)
      <4>1. local' = [local EXCEPT ![p] = [local[p] EXCEPT !.clean = TRUE]]
        BY <3>2, TypesParts DEF RedisWatch
      <4>2. [local[p] EXCEPT !.clean = TRUE].found = local[p].found
            /\ [local[p] EXCEPT !.clean = TRUE].items = local[p].items
        BY OwnTypes DEF Local
      <4> QED BY <4>1, <4>2, Frames
    <3> QED BY <1>9, <3>1, <3>2 DEF RedisGet, RedisTakeId, RedisPush, RedisExec, RedisRead
  <2> QED BY <1>8, <2>1, <2>2
<1>10. CASE RedisMembers(p) \/ RedisListed(p) \/ \E i \in Item : RedisGetMember(p, i)
    BY <1>10, ListSteps
<1> QED BY <1>5, <1>6, <1>7, <1>9, <1>10 DEF RedisStep, RedisExec

LEMMA SqliteLists ==
    ASSUME ControlInv, SqliteInv, ListInv, NEW p \in Proc, SqliteStep(p) \/ BusyTimeout(p)
    PROVE  ListInv'
<1> DEFINE c == call[p]
           Others == \A q \in Proc : q # p => local'[q] = local[q]
           Mine == \/ local'[p].found = local[p].found /\ local'[p].items = local[p].items
                   \/ local'[p].found = {}
<1>1. /\ at[p] # "idle" /\ c \in Calls /\ c # None /\ store = "sqlite" /\ Suits(c, at[p])
      /\ UNCHANGED <<store, call, settled>>
  <2>1. at[p] # "idle"
    BY DEF SqliteStep, BusyTimeout, CreateTables, InsertVersion, CommitVersion, Migrate,
           CommitMigration, Rollback, SqliteGet, SqliteList, Upsert, DeleteRow, InsertRecord,
           BeginImmediate, SelectClaim, Update, UpdateApproval, UpdateItem, Commit, Called, Is
  <2>2. UNCHANGED <<store, call, settled>>
    BY DEF SqliteStep, BusyTimeout, CreateTables, InsertVersion, CommitVersion, Migrate,
           CommitMigration, Rollback, SqliteGet, SqliteList, Upsert, DeleteRow, InsertRecord,
           BeginImmediate, SelectClaim, Update, UpdateApproval, UpdateItem, Commit, Draft, SqliteOthers
  <2> QED BY <2>1, <2>2, Where, StepOf
<1>2. /\ local \in [Proc -> Local] /\ local[p] \in Local /\ store # "redis"
      /\ c.op = "list" => (answer[p] = "done" => at[p] \in {"answered", "unlocking"})
    BY <1>1, OwnTypes, TypesParts DEF ListInv, FoundAt, IsList
<1>3. ASSUME NEW w, Goto(p, w), w # "getting", UNCHANGED <<rows, told>>, Others, Mine,
             at[p] \notin {"answered", "unlocking"},
             UNCHANGED answer \/ \E a : Replied(p, a) /\ a # "done"
      PROVE  ListInv'
  <2>1. PICK a : /\ Replied(p, a) \/ (UNCHANGED answer /\ a = answer[p])
                 /\ a # "done" \/ a = answer[p]
    BY <1>3
  <2>2. c.op = "list" => a # "done"
    BY <1>2, <1>3, <2>1
  <2> QED BY <1>1, <1>2, <1>3, <2>1, <2>2, DoneSteps
<1>4. ASSUME NEW l, local' = [local EXCEPT ![p] = l],
             \/ l.found = local[p].found /\ l.items = local[p].items
             \/ l.found = {}
      PROVE  Others /\ Mine
    BY <1>4, Frames
<1>5. CASE CreateTables(p) \/ SqliteGet(p) \/ BusyTimeout(p)
  <2>1. /\ UNCHANGED <<rows, told, local>> /\ at[p] \notin {"answered", "unlocking"}
        /\ \E w : Goto(p, w) /\ w # "getting"
    BY <1>5 DEF CreateTables, SqliteGet, BusyTimeout, Called, Is
  <2>2. UNCHANGED answer \/ \E a : Replied(p, a) /\ a # "done"
    <3>1. CASE CreateTables(p)
      BY <3>1 DEF CreateTables
    <3>2. CASE BusyTimeout(p)
      BY <3>2 DEF BusyTimeout
    <3>3. CASE SqliteGet(p)
      <4>1. rows[c.key] # "done"
        <5>1. c.key \in Key
          BY <1>1, <3>3, CallShape DEF SqliteGet, Called, Is
        <5>2. rows[c.key] \in Status \cup {None} /\ "done" \notin Status /\ None # "done"
          BY <5>1, TypesParts, StoreAssumption DEF Rows, Status
        <5> QED BY <5>2
      <4> QED BY <3>3, <4>1 DEF SqliteGet
    <3> QED BY <1>5, <3>1, <3>2, <3>3
  <2>3. Others /\ Mine
    BY <2>1
  <2> QED BY <1>3, <2>1, <2>2, <2>3
<1>6. CASE InsertVersion(p) \/ CommitVersion(p) \/ Migrate(p) \/ CommitMigration(p) \/ Rollback(p)
  <2>1. /\ UNCHANGED <<rows, told>> /\ at[p] \notin {"answered", "unlocking"}
        /\ UNCHANGED answer \/ Replied(p, "error")
    BY <1>6 DEF InsertVersion, CommitVersion, Migrate, CommitMigration, Rollback
  <2>4. \E w \in {"inserting", "called", "migrating", "rolling back", "migrated", "answered"} : Goto(p, w)
    BY <1>6 DEF InsertVersion, CommitVersion, Migrate, CommitMigration, Rollback
  <2>2. Others /\ Mine
    <3>1. \A r, x, v, o : /\ [local[p] EXCEPT !.rows = r, !.index = x].found = local[p].found
                          /\ [local[p] EXCEPT !.rows = r, !.index = x].items = local[p].items
                          /\ [local[p] EXCEPT !.open = o].found = local[p].found
                          /\ [local[p] EXCEPT !.open = o].items = local[p].items
                          /\ [local[p] EXCEPT !.open = o, !.version = v].found = local[p].found
                          /\ [local[p] EXCEPT !.open = o, !.version = v].items = local[p].items
                          /\ [[local[p] EXCEPT !.version = v] EXCEPT !.rows = r, !.index = x].found
                                = local[p].found
                          /\ [[local[p] EXCEPT !.version = v] EXCEPT !.rows = r, !.index = x].items
                                = local[p].items
      BY <1>2 DEF Local
    <3>2. Over(local[p]).found = {}
      BY DEF Over, NoLocal
    <3>3. CASE InsertVersion(p)
      <4> DEFINE v == IF database.version = 0 THEN 1 ELSE database.version
      <4>1. local' = [local EXCEPT ![p] = [[local[p] EXCEPT !.version = v]
                                              EXCEPT !.rows = rows, !.index = index]]
        BY <3>3 DEF InsertVersion, Locks
      <4> HIDE DEF v
      <4> QED BY <1>4, <3>1, <4>1
    <3>4. CASE CommitVersion(p)
      <4>1. \E o : local' = [local EXCEPT ![p] = [local[p] EXCEPT !.open = o]]
        BY <3>4 DEF CommitVersion, Unlocks
      <4> QED BY <1>4, <3>1, <4>1
    <3>5. CASE Migrate(p)
      <4>1. local' = [local EXCEPT ![p] = [local[p] EXCEPT !.rows = rows, !.index = index]]
        BY <3>5 DEF Migrate, Locks
      <4> QED BY <1>4, <3>1, <4>1
    <3>6. CASE CommitMigration(p)
      <4>1. local' = [local EXCEPT ![p] = [local[p] EXCEPT !.open = "yes", !.version = 2]]
        BY <3>6 DEF CommitMigration, Unlocks
      <4> QED BY <1>4, <3>1, <4>1
    <3>7. CASE Rollback(p)
      <4>1. local' = [local EXCEPT ![p] = Over(local[p])]
        BY <3>7 DEF Rollback, Unlocks
      <4> QED BY <1>4, <3>2, <4>1
    <3> QED BY <1>6, <3>3, <3>4, <3>5, <3>6, <3>7
  <2>3. UNCHANGED answer \/ \E a : Replied(p, a) /\ a # "done"
    BY <2>1
  <2> HIDE DEF Others, Mine
  <2>5. PICK w \in {"inserting", "called", "migrating", "rolling back", "migrated", "answered"} :
           Goto(p, w)
    BY <2>4
  <2> QED BY <1>3, <2>1, <2>2, <2>3, <2>5
<1>7. CASE DraftsIndex(p) \/ (InsertRecord(p) /\ c.id \notin ids)
  <2>1. PICK x \in Index, m \in BOOLEAN : Drafted(p, c, x, m)
    BY <1>7, StatementsDraft
  <2> DEFINE r == RowsAfter(rows, c)
  <2>2. /\ local' = [local EXCEPT ![p] = [local[p] EXCEPT !.rows = r, !.index = x, !.clean = m]]
        /\ UNCHANGED <<rows, told, answer>> /\ Goto(p, "committing")
    BY <1>2, <2>1 DEF Drafted, Draft
  <2>3. at[p] = "called"
    BY <1>7, StatementsDraft
  <2> HIDE DEF r
  <2>4. /\ [local[p] EXCEPT !.rows = r, !.index = x, !.clean = m].found = local[p].found
        /\ [local[p] EXCEPT !.rows = r, !.index = x, !.clean = m].items = local[p].items
    BY <1>2 DEF Local
  <2> QED BY <1>3, <1>4, <2>2, <2>3, <2>4
<1>8. CASE (InsertRecord(p) /\ c.id \in ids) \/ BeginImmediate(p)
  <2>1. /\ local' = [local EXCEPT ![p] = [local[p] EXCEPT !.rows = rows, !.index = index]]
        /\ UNCHANGED <<rows, told>> /\ at[p] = "called"
        /\ Goto(p, "rolling back") \/ Goto(p, "begun")
    BY <1>8 DEF InsertRecord, BeginImmediate, Locks, Called, Is
  <2>2. /\ [local[p] EXCEPT !.rows = rows, !.index = index].found = local[p].found
        /\ [local[p] EXCEPT !.rows = rows, !.index = index].items = local[p].items
    BY <1>2 DEF Local
  <2>3. UNCHANGED answer \/ \E a : Replied(p, a) /\ a # "done"
    <3>1. UNCHANGED answer \/ Replied(p, "error")
      BY <1>8 DEF InsertRecord, BeginImmediate
    <3> QED BY <3>1
  <2>4. Others /\ Mine
    BY <1>4, <2>1, <2>2
  <2>5. PICK w \in {"rolling back", "begun"} : Goto(p, w)
    BY <2>1
  <2> HIDE DEF Others, Mine
  <2> QED BY <1>3, <2>1, <2>3, <2>4, <2>5
<1>9. CASE SelectClaim(p) \/ \E k \in Key : UpdateApproval(p, k) \/ UpdateItem(p, k)
  <2>1. UNCHANGED <<rows, told>> /\ c.op \in {"claim", "transition"}
    BY <1>1, <1>9 DEF SelectClaim, UpdateApproval, UpdateItem, Is, Suits, Double
  <2>2. \E w \in {"committing", "rolling back", "approved"} : Goto(p, w)
    BY <1>9 DEF SelectClaim, UpdateApproval, UpdateItem
  <2>3. \E a : Replied(p, a) \/ (UNCHANGED answer /\ a = answer[p])
    BY <1>9 DEF SelectClaim, UpdateApproval, UpdateItem
  <2>4. Others /\ Mine
    <3>1. CASE UNCHANGED local
      BY <3>1
    <3>2. CASE SelectClaim(p) /\ local' # local
      <4>1. local' = [local EXCEPT ![p].rows[c.key] = c.value]
        BY <3>2 DEF SelectClaim
      <4> QED BY <1>2, <4>1 DEF Local
    <3>3. ASSUME NEW k \in Key, UpdateApproval(p, k) PROVE Others /\ Mine
      <4>1. PICK b, v : local' = [local EXCEPT ![p].clean = b, ![p].rows[k] = v]
        BY <3>3 DEF UpdateApproval
      <4> QED BY <1>2, <4>1 DEF Local
    <3>4. ASSUME NEW k \in Key, UpdateItem(p, k), local' # local PROVE Others /\ Mine
      <4>1. local' = [local EXCEPT ![p].rows[k] = c.writes[k],
                                   ![p].index = Synced(@, k, c.writes[k])]
        BY <3>4 DEF UpdateItem
      <4> QED BY <1>2, <4>1 DEF Local
    <3> QED BY <1>9, <3>1, <3>2, <3>3, <3>4
  <2>5. ASSUME NEW w, Goto(p, w), w # "getting", NEW a,
               Replied(p, a) \/ (UNCHANGED answer /\ a = answer[p])
        PROVE  ListInv'
    BY <1>1, <1>2, <2>1, <2>4, <2>5, DoneSteps
  <2> QED BY <2>2, <2>3, <2>5
<1>10. CASE Commit(p)
  <2>1. /\ Publish(local[p].rows) /\ Goto(p, "answered") /\ at[p] = "committing"
        /\ local' = [local EXCEPT ![p] = Over(local[p])] /\ Replied(p, AnswerAtCommit(p))
    BY <1>10 DEF Commit, Unlocks
  <2>2. local[p].rows = RowsAfter(rows, c)
    BY <1>1, <2>1 DEF SqliteInv, SqliteAt, DraftAt
  <2>3. Over(local[p]).found = {}
    BY DEF Over, NoLocal
  <2>4. Others /\ local'[p].found = {}
    BY <2>1, <2>3, Frames
  <2>5. c.op # "list"
    BY <1>1, <2>1 DEF Suits
  <2>6. Publish(RowsAfter(rows, c))
    BY <2>1, <2>2
  <2> QED BY <1>1, <1>2, <2>1, <2>4, <2>5, <2>6, DoneSteps
<1>11. CASE SqliteList(p)
    BY <1>11, ListSteps
<1> QED BY <1>5, <1>6, <1>7, <1>8, <1>9, <1>10, <1>11 DEF SqliteStep, DraftsIndex

LEMMA ThreadLists ==
    ASSUME ControlInv, ThreadInv, ListInv, NEW p \in Proc, ThreadStep(p)
    PROVE  ListInv'
<1> DEFINE c == call[p]
<1>1. /\ at[p] # "idle" /\ c \in Calls /\ c # None /\ store = "memory" /\ Suits(c, at[p])
      /\ UNCHANGED <<store, call, settled>> /\ store # "redis" /\ rows \in Rows
  <2>1. at[p] # "idle" /\ UNCHANGED <<store, call, settled>>
    BY DEF ThreadStep, TakeLock, Work, WorkList, WriteApproval, WriteItem, ReleaseLock, ThreadOthers, Is
  <2> QED BY <2>1, Where, StepOf, TypesParts
<1>2. \A q \in Proc : local[q].found = local[q].found /\ local[q].items = local[q].items
    OBVIOUS
<1>3. CASE TakeLock(p)
  <2>1. /\ Goto(p, "locked") /\ UNCHANGED <<rows, told, local, answer>> /\ at[p] = "called"
    BY <1>3 DEF TakeLock
  <2>2. answer[p] # "done"
    BY <1>1, <2>1, Where DEF Waiting
  <2> QED BY <1>1, <2>1, <2>2, DoneSteps
<1>4. CASE Work(p)
  <2> DEFINE a == AnswerOf(rows, ids, c)
             r == RowsAfter(rows, c)
  <2>1. /\ Goto(p, "unlocking") /\ Publish(r) /\ UNCHANGED local /\ c.op # "list" /\ Replied(p, a)
    BY <1>4 DEF Work
  <2> HIDE DEF a, r
  <2> QED BY <1>1, <2>1, DoneSteps DEF r
<1>5. CASE ReleaseLock(p)
  <2>1. /\ Goto(p, "answered") /\ UNCHANGED <<rows, told, local, answer>> /\ at[p] = "unlocking"
    BY <1>5 DEF ReleaseLock
  <2> QED BY <1>1, <2>1, DoneSteps
<1>6. CASE WriteApproval(p) \/ WriteItem(p)
  <2>1. c.op = "transition" /\ \A k \in DOMAIN c.writes : c.writes[k] \in Status
    <3>1. c.op = "transition"
      BY <1>1, <1>6 DEF WriteApproval, WriteItem, Pairs, Suits, Double
    <3> QED BY <1>1, <3>1, CallShape
  <2>2. ASSUME NEW D \in SUBSET (DOMAIN c.writes)
        PROVE  /\ [k \in Key |-> IF k \in D THEN c.writes[k] ELSE rows[k]] \in Rows
               /\ Kept(c, rows, [k \in Key |-> IF k \in D THEN c.writes[k] ELSE rows[k]])
    <3>1. None \notin Status /\ Item \subseteq Key
      BY StoreAssumption DEF Key
    <3> QED BY <1>1, <2>1, <3>1 DEF Rows, Kept
  <2>3. /\ UNCHANGED <<rows, told>> \/ \E r \in Rows : Publish(r)
        /\ Kept(c, rows, rows')
    <3>1. ASSUME NEW D \in SUBSET (DOMAIN c.writes),
                 Publish([k \in Key |-> IF k \in D THEN c.writes[k] ELSE rows[k]])
          PROVE  (\E r \in Rows : Publish(r)) /\ Kept(c, rows, rows')
      BY <2>2, <3>1 DEF Publish
    <3>2. CASE UNCHANGED <<rows, told>>
      BY <3>2 DEF Kept
    <3>3. DOMAIN c.writes \cap Approval \in SUBSET (DOMAIN c.writes)
          /\ DOMAIN c.writes \cap Item \in SUBSET (DOMAIN c.writes)
      OBVIOUS
    <3>4. CASE WriteItem(p)
      <4>1. Publish([k \in Key |-> IF k \in DOMAIN c.writes \cap Item
                                   THEN c.writes[k] ELSE rows[k]])
        BY <3>4 DEF WriteItem
      <4> QED BY <3>1, <3>3, <4>1
    <3>5. CASE WriteApproval(p) /\ ~UNCHANGED <<rows, told>>
      <4>1. Publish([k \in Key |-> IF k \in DOMAIN c.writes \cap Approval
                                   THEN c.writes[k] ELSE rows[k]])
        BY <3>5 DEF WriteApproval
      <4> QED BY <3>1, <3>3, <4>1
    <3> QED BY <1>6, <3>2, <3>4, <3>5
  <2>4. \A q \in Proc : local'[q].found = local[q].found /\ local'[q].items = local[q].items
    <3>1. CASE UNCHANGED local
      BY <3>1
    <3>2. CASE WriteApproval(p) /\ local' # local
      <4>1. local' = [local EXCEPT ![p].rows = rows] /\ local \in [Proc -> Local]
        BY <3>2, TypesParts DEF WriteApproval
      <4> QED BY <4>1 DEF Local
    <3> QED BY <1>6, <3>1, <3>2 DEF WriteItem
  <2>5. \A q \in Proc : q # p => at'[q] = at[q] /\ answer'[q] = answer[q]
    <3>1. (\E w : Goto(p, w)) /\ (UNCHANGED answer \/ \E a : Replied(p, a))
      BY <1>6 DEF WriteApproval, WriteItem
    <3> QED BY <3>1, Frames
  <2>6. Worked(p)
    BY <1>1, <2>3, <2>4, <2>5 DEF Worked
  <2>7. ~IsSet(p)' /\ ~IsList(p)' /\ ~IsList(p)
    BY <1>1, <2>1 DEF IsSet, IsList
  <2>8. Stored(p)' /\ FoundAt(p)'
    BY <2>4, <2>7 DEF Stored, FoundAt, ListInv
  <2> QED BY <1>1, <2>6, <2>8, WorkedKeeps
<1>7. CASE WorkList(p)
    BY <1>7, ListSteps
<1> QED BY <1>3, <1>4, <1>5, <1>6, <1>7 DEF ThreadStep

LEMMA NothingTold ==
    /\ Nothing.always = {} /\ Nothing.sometime = {} /\ Nothing.alone = TRUE
    /\ \A b : [Nothing EXCEPT !.alone = b].always = {} /\ [Nothing EXCEPT !.alone = b].alone = b
BY DEF Nothing

(* A call begins or is over.                                               *)
LEMMA InvokeLists ==
    ASSUME ControlInv, ListInv, NEW p \in Proc, NEW c \in Calls, Invoke(p, c)
    PROVE  ListInv'
<1> DEFINE gone == Deletes(c)
<1>1. /\ at[p] = "idle" /\ call' = [call EXCEPT ![p] = c] /\ Goto(p, "called")
      /\ settled' = settled \ gone
      /\ UNCHANGED <<store, rows, index, answer, local>>
      /\ call \in [Proc -> Calls \cup {None}] /\ told \in ToldType /\ c # None
  <2>1. call \in [Proc -> Calls \cup {None}] /\ told \in ToldType
    BY TypesParts DEF ToldType
  <2>2. c # None
    BY StoreAssumption
  <2> QED BY <2>1, <2>2 DEF Invoke
<1>2. /\ call'[p] = c /\ at'[p] = "called"
      /\ \A q \in Proc : q # p => call'[q] = call[q] /\ at'[q] = at[q]
    BY <1>1, Frames
<1>3. call[p] = None /\ answer[p] = "none yet"
    BY <1>1, OwnTypes DEF Control, Controlled, Waiting
<1>4. ASSUME NEW i PROVE i \in Deleting' <=> i \in Deleting \/ i \in gone
    BY <1>1, <1>2, <1>3 DEF Deleting
<1>5. ASSUME NEW i, Safe(i), i \notin gone PROVE Safe(i)'
    BY <1>1, <1>4, <1>5 DEF Safe
<1>6. \A i \in settled' : Safe(i)'
    BY <1>1, <1>5 DEF ListInv
<1>7. ASSUME NEW q \in Proc, q # p PROVE ToldAt(q)' /\ FoundAt(q)' /\ Stored(q)'
  <2>1. told'[q] = [told[q] EXCEPT !.always = told[q].always \ gone,
                                   !.alone = told[q].alone /\ ~(IsSet(q) /\ call[q].key \in gone)]
    BY <1>1, <1>7 DEF Invoke, ToldType
  <2>2. /\ told'[q].always = told[q].always \ gone /\ told'[q].sometime = told[q].sometime
        /\ told'[q].alone = (told[q].alone /\ ~(IsSet(q) /\ call[q].key \in gone))
    BY <1>1, <2>1 DEF ToldType
  <2>3. (IsSet(q)' <=> IsSet(q)) /\ (IsList(q)' <=> IsList(q)) /\ call'[q] = call[q] /\ at'[q] = at[q]
    BY <1>2, <1>7 DEF IsSet, IsList
  <2>4. ToldAt(q) /\ FoundAt(q) /\ Stored(q)
    BY DEF ListInv
  <2>5. ToldAt(q)'
    <3>1. \A i \in told'[q].always : Safe(i)'
      BY <1>5, <2>2, <2>4 DEF ToldAt
    <3>2. IsSet(q)' /\ told'[q].alone => call'[q].key \notin Deleting'
      BY <1>4, <2>2, <2>3, <2>4 DEF ToldAt
    <3>3. IsList(q)' => Present(rows)' \subseteq told'[q].sometime
      BY <1>1, <2>2, <2>3, <2>4 DEF ToldAt, Present
    <3> QED BY <3>1, <3>2, <3>3 DEF ToldAt
  <2>6. FoundAt(q)'
    BY <1>1, <2>2, <2>3, <2>4 DEF FoundAt
  <2>7. Stored(q)'
    BY <1>1, <2>2, <2>3, <2>4 DEF Stored
  <2> QED BY <2>5, <2>6, <2>7
<1>8. ToldAt(p)' /\ FoundAt(p)' /\ Stored(p)'
  <2>1. told'[p] = IF c.op = "list"
                   THEN [always |-> settled, sometime |-> Present(rows), alone |-> TRUE]
                   ELSE [Nothing EXCEPT !.alone = c.op = "set" => c.key \notin Deleting]
    BY DEF Invoke
  <2>2. /\ c.op = "list" => told'[p].always = settled /\ told'[p].sometime = Present(rows)
        /\ c.op # "list" => told'[p].always = {}
        /\ c.op = "set" /\ told'[p].alone => c.key \notin Deleting
    <3>1. CASE c.op = "list"
      BY <2>1, <3>1
    <3>2. CASE c.op # "list"
      <4> DEFINE b == c.op = "set" => c.key \notin Deleting
      <4>1. told'[p] = [Nothing EXCEPT !.alone = b]
        BY <2>1, <3>2
      <4> HIDE DEF b
      <4>2. told'[p].always = {} /\ told'[p].alone = b
        BY <4>1, NothingTold
      <4> QED BY <3>2, <4>2 DEF b
    <3> QED BY <3>1, <3>2
  <2>3. (IsSet(p)' <=> c.op = "set") /\ (IsList(p)' <=> c.op = "list")
    BY <1>1, <1>2 DEF IsSet, IsList
  <2>4. local[p].found = {}
    BY <1>3 DEF ListInv, FoundAt, IsList
  <2>5. c.op \in {"list", "set"} => gone = {}
    BY DEF Deletes
  <2>6. ToldAt(p)'
    <3>1. \A i \in told'[p].always : Safe(i)'
      BY <1>5, <2>2, <2>5 DEF ListInv
    <3>2. IsSet(p)' /\ told'[p].alone => call'[p].key \notin Deleting'
      BY <1>2, <1>4, <2>2, <2>3, <2>5
    <3>3. IsList(p)' => Present(rows)' \subseteq told'[p].sometime
      BY <1>1, <2>2, <2>3 DEF Present
    <3> QED BY <3>1, <3>2, <3>3 DEF ToldAt
  <2>7. FoundAt(p)' /\ Stored(p)'
    BY <1>1, <1>2, <1>3, <2>4 DEF FoundAt, Stored
  <2> QED BY <2>6, <2>7
<1> QED BY <1>6, <1>7, <1>8 DEF ListInv

LEMMA EndLists ==
    ASSUME ControlInv, ListInv, NEW p \in Proc, Return(p) \/ Crash(p)
    PROVE  ListInv'
<1>1. /\ call' = [call EXCEPT ![p] = None] /\ Goto(p, "idle") /\ Replied(p, "none yet")
      /\ told' = [told EXCEPT ![p] = Nothing]
      /\ UNCHANGED <<store, rows, index>>
      /\ call \in [Proc -> Calls \cup {None}] /\ told \in ToldType
  <2>1. call \in [Proc -> Calls \cup {None}] /\ told \in ToldType
    BY TypesParts DEF ToldType
  <2> QED BY <2>1 DEF Return, Crash, Ended
<1>2. /\ call'[p] = None /\ at'[p] = "idle" /\ answer'[p] = "none yet" /\ told'[p] = Nothing
      /\ \A q \in Proc : q # p => /\ call'[q] = call[q] /\ at'[q] = at[q] /\ answer'[q] = answer[q]
                                  /\ told'[q] = told[q]
    BY <1>1, Frames DEF ToldType
<1>3. local'[p].found = {} /\ \A q \in Proc : q # p => local'[q] = local[q]
  <2>1. \E l : local' = [local EXCEPT ![p] = l] /\ l.found = {}
    <3>1. Over(local[p]).found = {} /\ NoLocal.found = {}
      BY DEF Over, NoLocal
    <3> QED BY <3>1 DEF Return, Crash
  <2> QED BY <2>1, Frames
<1>4. ASSUME NEW i, i \in Deleting' PROVE i \in Deleting
    BY <1>2, <1>4 DEF Deleting
<1>5. ASSUME NEW i, Safe(i) PROVE Safe(i)'
    BY <1>1, <1>4, <1>5 DEF Safe
<1>6. ASSUME NEW i \in settled' PROVE Safe(i)'
  <2>1. CASE i \in settled
    BY <1>5, <2>1 DEF ListInv
  <2>2. CASE i \notin settled
    <3>1. /\ at[p] = "answered" /\ call[p].op = "set" /\ answer[p] = "done" /\ told[p].alone
          /\ i = call[p].key /\ i \in Item
      BY <2>2 DEF Return, Crash
    <3>2. IsSet(p)
      BY <3>1, Where DEF IsSet
    <3>3. ToldAt(p) /\ Stored(p)
      BY DEF ListInv
    <3>4. i \notin Deleting
      BY <3>1, <3>2, <3>3 DEF ToldAt
    <3>5. rows[i] # None /\ (store = "redis" => index[i] # None)
      BY <3>1, <3>2, <3>3 DEF Stored
    <3> QED BY <1>5, <3>4, <3>5 DEF Safe
  <2> QED BY <2>1, <2>2
<1>7. ASSUME NEW q \in Proc, q # p PROVE ToldAt(q)' /\ FoundAt(q)' /\ Stored(q)'
  <2>1. ToldAt(q) /\ FoundAt(q) /\ Stored(q)
    BY DEF ListInv
  <2>2. ToldAt(q)'
    BY <1>1, <1>2, <1>4, <1>5, <1>7, <2>1 DEF ToldAt, IsSet, IsList, Present
  <2>3. FoundAt(q)' /\ Stored(q)'
    BY <1>1, <1>2, <1>3, <1>7, <2>1 DEF FoundAt, Stored, IsSet, IsList
  <2> QED BY <2>2, <2>3
<1>8. ToldAt(p)' /\ FoundAt(p)' /\ Stored(p)'
  <2>1. ~IsSet(p)' /\ ~IsList(p)'
    BY <1>2 DEF IsSet, IsList
  <2>2. told'[p].always = {}
    BY <1>2, NothingTold
  <2> QED BY <1>3, <2>1, <2>2 DEF ToldAt, FoundAt, Stored
<1> QED BY <1>6, <1>7, <1>8 DEF ListInv

LEMMA ListInit ==
    ASSUME Init PROVE ListInv
<1>1. \A p \in Proc : /\ call[p] = None /\ answer[p] = "none yet" /\ told[p] = Nothing
                      /\ local[p].found = {}
  <2>1. [NoLocal EXCEPT !.open = "read only"].found = {} /\ NoLocal.found = {}
    BY DEF NoLocal
  <2> QED BY <2>1 DEF Init
<1>2. \A i : i \notin Deleting
    BY <1>1 DEF Deleting
<1>3. \A i \in settled : Safe(i)
  <2>1. "member" # None
    BY StoreAssumption
  <2> QED BY <1>2, <2>1 DEF Init, Present, Safe
<1>4. \A p \in Proc : ToldAt(p) /\ FoundAt(p) /\ Stored(p)
    BY <1>1, NothingTold DEF ToldAt, FoundAt, Stored, IsList, IsSet
<1> QED BY <1>3, <1>4 DEF ListInv

LEMMA ListNext ==
    ASSUME StoreInv, ListInv, [Next]_svars PROVE ListInv'
<1>1. ControlInv /\ SqliteInv /\ RedisInv /\ ThreadInv
    BY DEF StoreInv
<1>2. CASE UNCHANGED svars
  <2>1. /\ \A i : Safe(i)' = Safe(i)
        /\ \A q : ToldAt(q)' = ToldAt(q) /\ FoundAt(q)' = FoundAt(q) /\ Stored(q)' = Stored(q)
    BY <1>2 DEF svars, Safe, ToldAt, FoundAt, Stored, Deleting, Present, IsSet, IsList
  <2> QED BY <1>2, <2>1 DEF svars, ListInv
<1>3. ASSUME NEW p \in Proc, Step(p) \/ BusyTimeout(p) \/ Crash(p) \/ \E c \in Calls : Invoke(p, c)
      PROVE  ListInv'
    BY <1>1, <1>3, RedisLists, SqliteLists, ThreadLists, EndLists, InvokeLists DEF Step
<1> QED BY <1>2, <1>3 DEF Next

(* A list finds every item that was stored by a call that had returned     *)
(* before it began, and that nobody deletes meanwhile; and none that was   *)
(* not there at some time while it ran.                                    *)
THEOREM ListsStayRegular == Spec => []ListIsRegular
<1>1. Init => StoreInv /\ ListInv
    BY StoreInit, ListInit
<1>2. (StoreInv /\ ListInv) /\ [Next]_svars => (StoreInv /\ ListInv)'
    BY StoreNext, ListNext
<1>3. ListInv => ListIsRegular
    BY DEF ListInv, FoundAt, ListIsRegular
<1> QED BY <1>1, <1>2, <1>3, PTL DEF Spec
=============================================================================
