----------------------------- MODULE StateStores -----------------------------
(***************************************************************************)
(* The three implementations of the StateStore protocol, each with several *)
(* processes that call it, and what they promise in common.                *)
(***************************************************************************)
EXTENDS RedisStore, SqliteStore, ThreadStore

(* A database may be absent, or left by an earlier version, without rows   *)
(* for what it has no tables for.                                          *)
Databases(r) ==
    {[tables |-> {"base", "memory"}, version |-> 2]}
    \cup (IF Present(r) = {} THEN {[tables |-> {"base"}, version |-> 1]} ELSE {})
    \cup (IF \A k \in Key : r[k] = None THEN {[tables |-> {}, version |-> 0]} ELSE {})

NoDatabase == [tables |-> {}, version |-> 0]

Init ==
    /\ rows \in Start
    /\ \/ store = "redis" /\ database = NoDatabase
          /\ index = [i \in Item |-> IF rows[i] # None THEN "member" ELSE None]
       \/ store = "sqlite" /\ database \in Databases(rows)
          /\ index = [i \in Item |-> rows[i]]
       \/ store = "memory" /\ database = NoDatabase /\ index = [i \in Item |-> None]
    /\ ids = {} /\ records = <<>>
    /\ lock = None
    /\ call = [p \in Proc |-> None]
    /\ at = [p \in Proc |-> "idle"]
    /\ answer = [p \in Proc |-> "none yet"]
    /\ \E readers \in SUBSET (IF store = "sqlite" THEN Reader ELSE {}) :
           local = [p \in Proc |-> IF p \in readers THEN [NoLocal EXCEPT !.open = "read only"]
                                   ELSE NoLocal]
    /\ calls = 0
    /\ settled = Present(rows)
    /\ told = [p \in Proc |-> Nothing]

Step(p) == RedisStep(p) \/ SqliteStep(p) \/ ThreadStep(p) \/ Return(p)

Next == \E p \in Proc :
    \/ \E c \in Calls : Invoke(p, c)
    \/ Step(p)
    \/ BusyTimeout(p) \/ Crash(p)

(* A process goes on with its call; it may not count on a timeout.         *)
Spec == Init /\ [][Next]_svars /\ \A p \in Proc : SF_svars(Step(p))
-----------------------------------------------------------------------------
(* Properties. *)

(* What all see while a thread is between the two dictionaries is what was *)
(* there before: nobody else holds the lock.                               *)
SeenRows == IF \E p \in Proc : at[p] = "writing"
            THEN local[CHOOSE p \in Proc : at[p] = "writing"].rows
            ELSE rows

Atomic == INSTANCE AtomicStore WITH
    rows <- SeenRows,
    Start <- Rows,
    Calls <- {c \in Calls : c.op # "list"},
    call <- [p \in Proc |-> IF IsList(p) THEN None ELSE call[p]],
    answer <- [p \in Proc |-> IF IsList(p) THEN "none yet" ELSE answer[p]]

(* "act on affected-row count", "optimistic compare-and-set"               *)
(* (docs/adr-state-store.md:19-26), "BEGIN IMMEDIATE", a lock: by whatever *)
(* means, every call but a list happens at one moment, all or nothing.     *)
ImplementsAtomicStore == Atomic!Spec

(* A list is not taken at one moment: Redis gets the members one by one.   *)
(* Still it has every item that was stored before it began and that nobody *)
(* deletes, and none that was not there at some time while it ran.         *)
ListIsRegular ==
    \A p \in Proc : at[p] = "answered" /\ IsList(p) /\ answer[p] = "done" =>
        told[p].always \subseteq local[p].found /\ local[p].found \subseteq told[p].sometime

(* memory_fts is kept by hand beside the table that it indexes: whatever   *)
(* is rolled back or killed, search finds the items as they are.           *)
SearchIndexIsExact ==
    store = "sqlite" => \A i \in Item : index[i] = rows[i]

(* "ordered, transactional schema migrations", "a failed migration leaves  *)
(* the prior database recoverable"                                         *)
(* (docs/canto-memory-service-implementation-plan.md:61,69): the version   *)
(* says what tables there are, whenever a process is killed and however    *)
(* many start at once; and a process that writes has the tables.           *)
SchemaIsWhole ==
    store = "sqlite" =>
        /\ database.version = 2 <=> "memory" \in database.tables
        /\ database.version >= 1 => "base" \in database.tables
        /\ \A p \in Proc : local[p].open = "yes" => database.version = 2

(* An id is taken before its record is pushed, and by one call only: no    *)
(* record is there twice, and every one has its id.                        *)
RecordsAreOnce ==
    /\ \A n \in DOMAIN records : records[n] \in ids
    /\ \A m, n \in DOMAIN records : records[m] = records[n] => m = n

(* The database as a whole, whoever was killed in it.                      *)
DatabaseIsSound == StoreTypeOK /\ SearchIndexIsExact /\ SchemaIsWhole /\ RecordsAreOnce

(* Every call ends: a lock is given back on every path, and a watched      *)
(* transaction that was spoiled is tried anew.                             *)
CallsEnd == \A p \in Proc : at[p] # "idle" ~> at[p] = "idle"
=============================================================================
