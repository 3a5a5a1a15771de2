----------------------------- MODULE SqliteStore -----------------------------
(***************************************************************************)
(* SqliteStateStore: a database in WAL mode.  A statement that writes      *)
(* opens a transaction, waits for the one writer there may be, and works   *)
(* on a copy of the rows until the commit; a read sees what is committed.  *)
(* The first call of a process creates the tables and brings the schema    *)
(* from version 1 to version 2, which adds the tables of the memory.       *)
(***************************************************************************)
EXTENDS StoreProcess

SqliteOthers == UNCHANGED <<store, call, calls, settled>>
NoTables == database.tables = {}

Opened(p) == local[p].open # "no"

(* The transaction of p begins with a new copy of what is committed.       *)
Locks(p, l) ==
    /\ lock = None /\ lock' = p
    /\ local' = [local EXCEPT ![p] = [l EXCEPT !.rows = rows, !.index = index]]

Unlocks(l, p) == lock' = None /\ local' = [local EXCEPT ![p] = l]
-----------------------------------------------------------------------------
(* _ensure_initialized and _migrate. *)
CreateTables(p) ==
    /\ store = "sqlite" /\ at[p] = "called" /\ ~Opened(p)
    /\ lock = None \/ "base" \in database.tables
    /\ database' = [database EXCEPT !.tables = @ \cup {"base"}]
    /\ Goto(p, "creating")
    /\ SqliteOthers /\ UNCHANGED <<rows, index, ids, records, lock, answer, local, told>>

(* INSERT OR IGNORE, and the version that is found in its transaction.     *)
InsertVersion(p) ==
    /\ at[p] = "creating"
    /\ Locks(p, [local[p] EXCEPT !.version = IF database.version = 0 THEN 1 ELSE database.version])
    /\ Goto(p, "inserting")
    /\ SqliteOthers /\ UNCHANGED <<rows, index, ids, records, database, answer, told>>

CommitVersion(p) ==
    /\ at[p] = "inserting"
    /\ database' = [database EXCEPT !.version = local[p].version]
    /\ Unlocks([local[p] EXCEPT !.open = IF local[p].version = 2 THEN "yes" ELSE "no"], p)
    /\ Goto(p, IF local[p].version = 2 THEN "called" ELSE "migrating")
    /\ SqliteOthers /\ UNCHANGED <<rows, index, ids, records, answer, told>>

(* Mutated: the tables are created outside of a transaction.               *)
MigrateStepwise(p) ==
    /\ at[p] = "migrating"
    /\ Locks(p, local[p])
    /\ IF "memory" \in database.tables
       THEN Replied(p, "error") /\ Goto(p, "rolling back") /\ UNCHANGED database
       ELSE /\ database' = [database EXCEPT !.tables = @ \cup {"memory"}]
            /\ Goto(p, "migrated") /\ UNCHANGED answer
    /\ SqliteOthers /\ UNCHANGED <<rows, index, ids, records, told>>

(* The first CREATE TABLE waits for other writers; when one of them has    *)
(* migrated meanwhile, it fails.                                           *)
Migrate(p) ==
    /\ at[p] = "migrating"
    /\ Locks(p, local[p])
    /\ IF "memory" \in database.tables
       THEN Replied(p, "error") /\ Goto(p, "rolling back")
       ELSE Goto(p, "migrated") /\ UNCHANGED answer
    /\ SqliteOthers /\ UNCHANGED <<rows, index, ids, records, database, told>>

CommitMigration(p) ==
    /\ at[p] = "migrated"
    /\ database' = [tables |-> database.tables \cup {"memory"}, version |-> 2]
    /\ Unlocks([local[p] EXCEPT !.open = "yes", !.version = 2], p)
    /\ Goto(p, "called")
    /\ SqliteOthers /\ UNCHANGED <<rows, index, ids, records, answer, told>>

Rollback(p) ==
    /\ at[p] = "rolling back"
    /\ Unlocks(Over(local[p]), p)
    /\ Goto(p, "answered")
    /\ SqliteOthers /\ UNCHANGED <<rows, index, ids, records, database, answer, told>>
-----------------------------------------------------------------------------
(* Reads.  A reader does not create a database, and finds no memory in one *)
(* that has no tables for it.                                              *)
SqliteGet(p) ==
    /\ Called(p, "sqlite", "get") /\ Opened(p)
    /\ Replied(p, IF NoTables THEN "error" ELSE rows[call[p].key])
    /\ Goto(p, "answered")
    /\ SqliteOthers /\ UNCHANGED <<rows, index, ids, records, database, lock, local, told>>

SqliteList(p) ==
    /\ Called(p, "sqlite", "list") /\ Opened(p)
    /\ local' = [local EXCEPT ![p].found = Present(rows)]
    /\ Replied(p, IF NoTables THEN "error" ELSE "done")
    /\ Goto(p, "answered")
    /\ SqliteOthers /\ UNCHANGED <<rows, index, ids, records, database, lock, told>>
-----------------------------------------------------------------------------
(* Writes of one statement, with the full-text index of an item. *)
Draft(p, r, x, matched) ==
    /\ lock = None /\ lock' = p
    /\ local' = [local EXCEPT ![p].rows = r, ![p].index = x, ![p].clean = matched]
    /\ Goto(p, "committing")
    /\ SqliteOthers /\ UNCHANGED <<rows, index, ids, records, database, answer, told>>

Synced(x, i, value) == IF i \in Item THEN [x EXCEPT ![i] = value] ELSE x

Upsert(p) ==
    /\ Called(p, "sqlite", "set") /\ Opened(p)
    /\ Draft(p, [rows EXCEPT ![call[p].key] = call[p].value],
             Synced(index, call[p].key, call[p].value), TRUE)

(* Mutated: a transition leaves the full-text index as it is.              *)
UpdateUnsynced(p, k) ==
    /\ Called(p, "sqlite", "transition") /\ Opened(p) /\ DOMAIN call[p].writes = {k}
    /\ IF rows[k] \in call[p].expects[k]
       THEN Draft(p, [rows EXCEPT ![k] = call[p].writes[k]], index, TRUE)
       ELSE Draft(p, rows, index, FALSE)

Update(p, k) ==
    /\ Called(p, "sqlite", "transition") /\ Opened(p) /\ DOMAIN call[p].writes = {k}
    /\ IF rows[k] \in call[p].expects[k]
       THEN Draft(p, [rows EXCEPT ![k] = call[p].writes[k]],
                  Synced(index, k, call[p].writes[k]), TRUE)
       ELSE Draft(p, rows, index, FALSE)

DeleteRow(p) ==
    /\ Called(p, "sqlite", "delete") /\ Opened(p)
    /\ Draft(p, [rows EXCEPT ![call[p].key] = None], Synced(index, call[p].key, None),
             rows[call[p].key] # None)

InsertRecord(p) ==
    /\ Called(p, "sqlite", "append") /\ Opened(p)
    /\ IF call[p].id \notin ids THEN Draft(p, rows, index, TRUE)
       ELSE /\ Locks(p, local[p])
            /\ Replied(p, "error") /\ Goto(p, "rolling back")
            /\ SqliteOthers /\ UNCHANGED <<rows, index, ids, records, database, told>>
-----------------------------------------------------------------------------
(* Writes that begin with BEGIN IMMEDIATE: claims, and decisions about an  *)
(* approval and its item.                                                  *)
TakesTwo(p) == \/ call[p].op = "claim"
               \/ call[p].op = "transition" /\ \E k, l \in DOMAIN call[p].writes : k # l

(* Mutated: BEGIN takes no lock; the copy is that of the moment.           *)
BeginDeferred(p) ==
    /\ store = "sqlite" /\ at[p] = "called" /\ Opened(p) /\ TakesTwo(p)
    /\ local' = [local EXCEPT ![p].rows = rows, ![p].index = index]
    /\ Goto(p, "begun")
    /\ SqliteOthers /\ UNCHANGED <<rows, index, ids, records, database, lock, answer, told>>

BeginImmediate(p) ==
    /\ store = "sqlite" /\ at[p] = "called" /\ Opened(p) /\ TakesTwo(p)
    /\ Locks(p, local[p])
    /\ Goto(p, "begun")
    /\ SqliteOthers /\ UNCHANGED <<rows, index, ids, records, database, answer, told>>

(* A claim that is refused leaves the with block, which commits.           *)
SelectClaim(p) ==
    /\ Is(p, "begun", "claim")
    /\ LET row == local[p].rows[call[p].key]
       IN IF MayClaim(row)
          THEN /\ local' = [local EXCEPT ![p].rows[call[p].key] = call[p].value]
               /\ Goto(p, "committing") /\ UNCHANGED answer
          ELSE /\ Replied(p, row) /\ Goto(p, "rolling back") /\ UNCHANGED local
    /\ SqliteOthers /\ UNCHANGED <<rows, index, ids, records, database, lock, told>>

Matches(p, k) == local[p].rows[k] \in call[p].expects[k]

UpdateApproval(p, a) ==
    /\ Is(p, "begun", "transition") /\ a \in DOMAIN call[p].writes \cap Approval
    /\ LET row == IF Matches(p, a) THEN call[p].writes[a] ELSE local[p].rows[a]
       IN local' = [local EXCEPT ![p].clean = Matches(p, a), ![p].rows[a] = row]
    /\ Goto(p, "approved")
    /\ SqliteOthers /\ UNCHANGED <<rows, index, ids, records, database, lock, answer, told>>

(* Unless both rows were as expected all is rolled back.                   *)
UpdateItem(p, i) ==
    /\ at[p] = "approved" /\ i \in DOMAIN call[p].writes \cap Item
    /\ IF local[p].clean /\ Matches(p, i)
       THEN /\ local' = [local EXCEPT ![p].rows[i] = call[p].writes[i],
                                      ![p].index = Synced(@, i, call[p].writes[i])]
            /\ Goto(p, "committing") /\ UNCHANGED answer
       ELSE /\ Replied(p, "no") /\ Goto(p, "rolling back") /\ UNCHANGED local
    /\ SqliteOthers /\ UNCHANGED <<rows, index, ids, records, database, lock, told>>
-----------------------------------------------------------------------------
AnswerAtCommit(p) ==
    CASE call[p].op \in {"set", "append"} -> "done"
      [] call[p].op = "claim" -> None
      [] OTHER -> IF local[p].clean THEN "yes" ELSE "no"

Commit(p) ==
    /\ at[p] = "committing"
    /\ Publish(local[p].rows)
    /\ index' = local[p].index
    /\ ids' = IdsAfter(ids, call[p])
    /\ records' = IF call[p].op = "append" THEN Append(records, call[p].id) ELSE records
    /\ Replied(p, AnswerAtCommit(p))
    /\ Unlocks(Over(local[p]), p)
    /\ Goto(p, "answered")
    /\ SqliteOthers /\ UNCHANGED database

(* A writer that has waited for 30 seconds raises.                         *)
BusyTimeout(p) ==
    /\ store = "sqlite"
    /\ \/ at[p] \in {"creating", "migrating"}
       \/ at[p] = "called" /\ (~Opened(p) \/ call[p].op \notin {"get", "list"})
    /\ lock \notin {None, p}
    /\ Replied(p, "error") /\ Goto(p, "answered")
    /\ SqliteOthers /\ UNCHANGED <<rows, index, ids, records, database, lock, local, told>>

SqliteStep(p) ==
    \/ CreateTables(p) \/ InsertVersion(p) \/ CommitVersion(p)
    \/ Migrate(p) \/ CommitMigration(p) \/ Rollback(p)
    \/ SqliteGet(p) \/ SqliteList(p)
    \/ Upsert(p) \/ DeleteRow(p) \/ InsertRecord(p)
    \/ BeginImmediate(p) \/ SelectClaim(p)
    \/ \E k \in Key : Update(p, k) \/ UpdateApproval(p, k) \/ UpdateItem(p, k)
    \/ Commit(p)
=============================================================================
