--------------------------- MODULE StateMigration ---------------------------
(***************************************************************************)
(* The one-time copy of legacy state, Redis and plan files, into SQLite    *)
(* (canto/core/state_migration.py).  What the target has is not copied     *)
(* again.  Every call of the target is a transaction of its own; the       *)
(* migration may be killed between two of them and be repeated, and the    *)
(* service may already work on what was copied, and puts the snapshot of   *)
(* its own registry there whenever it starts or the registry changes.      *)
(*                                                                         *)
(* Nobody writes the legacy state any more, and one migration runs at a    *)
(* time.  Of a row it is kept whether it is the legacy one or what a       *)
(* service has made of it later; of an event, its number in the legacy     *)
(* log, or 0 for one that a service has appended.                          *)
(***************************************************************************)
EXTENDS Naturals, Sequences

CONSTANTS JobIds, ApprovalIds, PlanIds,  \* the legacy ids, sorted
          None,
          MaxEvents,     \* bound: events of a legacy job
          MaxRuns        \* bound: migrations begun

Elements(log) == {log[n] : n \in DOMAIN log}

Job == Elements(JobIds)
Approval == Elements(ApprovalIds)
Plan == Elements(PlanIds)

ASSUME MigrationAssumption ==
    /\ JobIds \in Seq(Job) /\ ApprovalIds \in Seq(Approval) /\ PlanIds \in Seq(Plan)
    /\ None \notin {"legacy", "later", "unreadable", "completed"}
    /\ MaxEvents \in Nat /\ MaxRuns \in Nat

VARIABLES
    legacy, legacyEvents,    \* the rows of the source, and how many events a job has
    finished,                \* the legacy jobs that have ended
    state, events,           \* the rows and the events of the target
    at,                      \* the step the migration is at, 0 when none runs
    absent,                  \* it has found that the target lacks this
    copied,                  \* the events it has appended at this step
    outcome,                 \* of the last migration
    runs,
    unlogged,                \* jobs that a service has moved on, and not yet logged that
    disturbed                \* history: jobs that had events when, or lost the migration while,
                             \* their log was being copied

source == <<legacy, legacyEvents, finished>>
mvars == <<legacy, legacyEvents, finished, state, events, at, absent, copied, outcome, runs,
           unlogged, disturbed>>

Kind == {"job", "events", "artifacts", "approval", "registry", "plan"}
Row == ({"job", "artifacts"} \X Job) \cup ({"approval"} \X Approval)
       \cup ({"registry"} \X {None}) \cup ({"plan"} \X Plan)
Registry == <<"registry", None>>

Parts == <<"job", "events", "artifacts">>
Each(kind, ids) == [n \in DOMAIN ids |-> <<kind, ids[n]>>]

Steps ==
    [n \in 1 .. 3 * Len(JobIds) |-> <<Parts[1 + ((n - 1) % 3)], JobIds[1 + ((n - 1) \div 3)]>>]
    \o Each("approval", ApprovalIds) \o <<Registry>> \o Each("plan", PlanIds)

Runs == at \in 1 .. Len(Steps)
Here == Steps[at]
InLog == Here[1] = "events"

MigrationTypeOK ==
    /\ legacy \in [Row -> {"legacy", "unreadable", None}]
    /\ legacyEvents \in [Job -> 0 .. MaxEvents]
    /\ finished \subseteq Job
    /\ state \in [Row -> {"legacy", "later", None}]
    /\ events \in [Job -> Seq(0 .. MaxEvents)] /\ \A j \in Job : Len(events[j]) <= MaxEvents + 1
    /\ at \in 0 .. Len(Steps) + 1
    /\ absent \in BOOLEAN /\ copied \in 0 .. MaxEvents
    /\ outcome \in {"completed", "failed", "killed", None}
    /\ runs \in 0 .. MaxRuns
    /\ unlogged \subseteq Job /\ disturbed \subseteq Job

(* A job that has not ended has no artifacts yet; one that was killed      *)
(* while it was created has no event.                                      *)
Init ==
    /\ legacy \in [Row -> {"legacy", "unreadable", None}]
    /\ legacyEvents \in [Job -> 0 .. MaxEvents]
    /\ finished \in SUBSET Job
    /\ \A r \in Row : legacy[r] = "unreadable" => r[1] = "plan"
    /\ \A j \in Job :
           /\ legacy[<<"job", j>>] = None => legacyEvents[j] = 0 /\ j \notin finished
           /\ j \notin finished => legacy[<<"artifacts", j>>] = None
    /\ state = [r \in Row |-> None]
    /\ events = [j \in Job |-> <<>>]
    /\ at = 0 /\ absent = FALSE /\ copied = 0 /\ outcome = None /\ runs = 0
    /\ unlogged = {} /\ disturbed = {}
-----------------------------------------------------------------------------
(* The migration. *)
Start ==
    /\ at = 0 /\ runs < MaxRuns
    /\ at' = 1 /\ runs' = runs + 1 /\ outcome' = None
    /\ UNCHANGED <<source, state, events, absent, copied, unlogged, disturbed>>

GoOn == at' = at + 1 /\ absent' = FALSE /\ copied' = 0

Missing == IF InLog THEN legacyEvents[Here[2]] = 0 ELSE legacy[Here] = None
InTarget == IF InLog THEN events[Here[2]] # <<>> ELSE state[Here] # None
Unreadable == Here[1] = "plan" /\ legacy[Here] = "unreadable"

(* Mutated: a job that the target has is skipped with all that belongs to  *)
(* it.                                                                     *)
SkipWholeJob ==
    /\ Runs /\ ~absent /\ ~Unreadable
    /\ Missing \/ InTarget
    /\ at' = IF Here[1] = "job" THEN at + 3 ELSE at + 1
    /\ UNCHANGED <<source, state, events, absent, copied, outcome, runs, unlogged, disturbed>>

SkipThis ==
    /\ Runs /\ ~absent /\ ~Unreadable
    /\ Missing \/ InTarget
    /\ disturbed' = IF InLog /\ ~Missing /\ 0 \in Elements(events[Here[2]])
                    THEN disturbed \cup {Here[2]} ELSE disturbed
    /\ GoOn
    /\ UNCHANGED <<source, state, events, outcome, runs, unlogged>>

(* Mutated: what the target has is copied over.                            *)
FindAny ==
    /\ Runs /\ ~absent /\ ~Missing /\ ~Unreadable
    /\ absent' = TRUE
    /\ UNCHANGED <<source, state, events, at, copied, outcome, runs, unlogged, disturbed>>

FindAbsent ==
    /\ Runs /\ ~absent /\ ~Missing /\ ~InTarget /\ ~Unreadable
    /\ absent' = TRUE
    /\ UNCHANGED <<source, state, events, at, copied, outcome, runs, unlogged, disturbed>>

CopyRow ==
    /\ Runs /\ absent /\ ~InLog
    /\ state' = [state EXCEPT ![Here] = "legacy"]
    /\ GoOn
    /\ UNCHANGED <<source, events, outcome, runs, unlogged, disturbed>>

(* Mutated: one event too many.                                            *)
CopyOneEventMore ==
    /\ Runs /\ absent /\ InLog
    /\ events' = [events EXCEPT ![Here[2]] = Append(@, copied + 1)]
    /\ IF copied = legacyEvents[Here[2]] THEN GoOn
       ELSE copied' = copied + 1 /\ UNCHANGED <<at, absent>>
    /\ UNCHANGED <<source, state, outcome, runs, unlogged, disturbed>>

CopyEvent ==
    /\ Runs /\ absent /\ InLog
    /\ events' = [events EXCEPT ![Here[2]] = Append(@, copied + 1)]
    /\ IF copied + 1 = legacyEvents[Here[2]] THEN GoOn
       ELSE copied' = copied + 1 /\ UNCHANGED <<at, absent>>
    /\ UNCHANGED <<source, state, outcome, runs, unlogged, disturbed>>

Stops(how) == outcome' = how /\ at' = 0 /\ absent' = FALSE /\ copied' = 0

ReadPlanFails ==
    /\ Runs /\ Unreadable
    /\ Stops("failed")
    /\ UNCHANGED <<source, state, events, runs, unlogged, disturbed>>

Complete ==
    /\ at = Len(Steps) + 1
    /\ Stops("completed")
    /\ UNCHANGED <<source, state, events, runs, unlogged, disturbed>>

Kill ==
    /\ at # 0
    /\ Stops("killed")
    /\ disturbed' = IF Runs /\ copied > 0 THEN disturbed \cup {Here[2]} ELSE disturbed
    /\ UNCHANGED <<source, state, events, runs, unlogged>>

(* The operator repairs or removes the file.                               *)
RepairPlan(q) ==
    /\ at = 0 /\ legacy[<<"plan", q>>] = "unreadable"
    /\ \E r \in {"legacy", None} : legacy' = [legacy EXCEPT ![<<"plan", q>>] = r]
    /\ UNCHANGED <<legacyEvents, finished, state, events, at, absent, copied, outcome, runs,
                   unlogged, disturbed>>
-----------------------------------------------------------------------------
(* The service: a transition of a job, its event, and in the end the       *)
(* artifacts.                                                              *)
MoveOn(j) ==
    /\ state[<<"job", j>>] = "legacy" /\ j \notin finished
    /\ state' = [state EXCEPT ![<<"job", j>>] = "later"]
    /\ unlogged' = unlogged \cup {j}
    /\ UNCHANGED <<source, events, at, absent, copied, outcome, runs, disturbed>>

Log(j) ==
    /\ j \in unlogged
    /\ unlogged' = unlogged \ {j}
    /\ events' = [events EXCEPT ![j] = Append(@, 0)]
    /\ UNCHANGED <<source, state, at, absent, copied, outcome, runs, disturbed>>

SetArtifacts(j) ==
    /\ state[<<"job", j>>] = "later" /\ j \notin unlogged /\ state[<<"artifacts", j>>] = None
    /\ state' = [state EXCEPT ![<<"artifacts", j>>] = "later"]
    /\ UNCHANGED <<source, events, at, absent, copied, outcome, runs, unlogged, disturbed>>

(* The promotion or the recovery of a job that has ended is requested,     *)
(* which is only an event; here, once for each job.                        *)
Request(j) ==
    /\ state[<<"job", j>>] = "legacy" /\ j \in finished /\ 0 \notin Elements(events[j])
    /\ events' = [events EXCEPT ![j] = Append(@, 0)]
    /\ UNCHANGED <<source, state, at, absent, copied, outcome, runs, unlogged, disturbed>>

(* An approval is decided, or a plan goes on.                              *)
Change(r) ==
    /\ r[1] \in {"approval", "plan"} /\ state[r] = "legacy"
    /\ state' = [state EXCEPT ![r] = "later"]
    /\ UNCHANGED <<source, events, at, absent, copied, outcome, runs, unlogged, disturbed>>

(* The snapshot is written whatever there is.                              *)
SetRegistry ==
    /\ state' = [state EXCEPT ![Registry] = "later"]
    /\ UNCHANGED <<source, events, at, absent, copied, outcome, runs, unlogged, disturbed>>

Serves ==
    \/ \E j \in Job : MoveOn(j) \/ Log(j) \/ SetArtifacts(j) \/ Request(j)
    \/ \E r \in Row : Change(r)
    \/ SetRegistry

Migrates == Start \/ SkipThis \/ FindAbsent \/ CopyRow \/ CopyEvent \/ ReadPlanFails \/ Complete

Next ==
    \/ Migrates \/ Kill \/ Serves
    \/ \E q \in Plan : RepairPlan(q)

Spec == Init /\ [][Next]_mvars
-----------------------------------------------------------------------------
(* Properties. *)

(* "Existing destination identifiers are skipped"                          *)
(* (docs/state-migration.md:22): what a service has made of a row is never *)
(* set back to the legacy one, at whatever moment a migration is killed,   *)
(* fails or is repeated, but for one that the migration had already found  *)
(* absent.  Only the snapshot of the registry can come that late, as the   *)
(* service writes every other row after it has read it.                    *)
FoundNoRegistry == Runs /\ absent /\ Here = Registry
LaterStays ==
    [][\A r \in Row :
           state[r] = "later" => state'[r] = "later" \/ (r = Registry /\ FoundNoRegistry)]_state

(* "ordered events" (docs/state-migration.md:20): however often the copy   *)
(* is repeated, no event of a job appears twice, out of order, or after    *)
(* one that is left out.                                                   *)
EventsInOrder == \A j \in Job : \A n \in DOMAIN events[j] :
    /\ \A m \in 1 .. n - 1 : 0 \in {events[j][m], events[j][n]} \/ events[j][m] < events[j][n]
    /\ 1 .. events[j][n] \subseteq Elements(events[j])
    /\ events[j][n] <= legacyEvents[j]

Copied(j) == 1 .. legacyEvents[j] \subseteq Elements(events[j])

(* A migration that completes, be it after others that failed or were      *)
(* killed, has copied everything, except for the logs that it may find     *)
(* begun: by one that was killed in it, or by a service.                   *)
CompletedCopyHasAll ==
    outcome = "completed" =>
        /\ \A r \in Row : legacy[r] # None => state[r] # None
        /\ \A j \in Job \ disturbed : Copied(j)

(* The copy, as far as it has come.                                        *)
CopyIsFaithful == MigrationTypeOK /\ EventsInOrder /\ CompletedCopyHasAll
=============================================================================
