----------------------------- MODULE Delegation -----------------------------
(***************************************************************************)
(* Delegated tasks from creation to review: DelegationService and the      *)
(* workspace, executor, artifact and review services around it             *)
(* (canto/core/delegation*.py).  Every CLI command is a process of its     *)
(* own; all of them share the state store and the task's directory, in     *)
(* which an executor edits a git worktree at any time.                     *)
(*                                                                         *)
(* A store call, or a file operation others can see, is one step.  Reads   *)
(* of the task's row and of its results are one step, since results only   *)
(* grow and are looked up by revision; so is a reading of the worktree     *)
(* with them, since others change it at any time anyway.                   *)
(* DelegationService.transition is two steps: it reads the task, checks    *)
(* the table and then compares and sets, so what a service read before it  *)
(* may be stale.                                                           *)
(*                                                                         *)
(* A patch stands for everything an executor changed in the worktree, and  *)
(* for the artifacts and checksums captured from it.  Messages, sessions,  *)
(* events and command records have no influence here and are left out.     *)
(***************************************************************************)
EXTENDS Naturals, Sequences

CONSTANTS
    Proc,          \* running commands
    Mortal,        \* those that may die between two steps
    Task,          \* task identifiers
    Patch,         \* what a worktree may differ from its base by
    Scope,         \* the patches within each task's allowed paths
    MaxRevision,   \* bound on the revisions captured for a task
    None           \* the absent value

ASSUME DelegationAssumption ==
    /\ Mortal \subseteq Proc
    /\ Scope \in [Task -> SUBSET Patch]
    /\ MaxRevision \in Nat
    /\ None \notin Patch \cup Task \cup Nat
    /\ None \notin [revision: 1 .. MaxRevision, patch: Patch]

(* TRANSITIONS.  No operation of the code asks for "cancelled".            *)
Transitions ==
    [draft              |-> {"assigned"},
     assigned           |-> {"workspace_ready"},
     workspace_ready    |-> {"executor_working"},
     executor_working   |-> {"executor_blocked", "executor_done", "failed", "cancelled"},
     executor_blocked   |-> {"executor_working", "failed", "cancelled"},
     executor_done      |-> {"reviewing", "revision_requested"},
     reviewing          |-> {"revision_requested", "accepted", "rejected"},
     revision_requested |-> {"executor_working"},
     accepted           |-> {"promoting", "cancelled"},
     promoting          |-> {"promoted", "promotion_failed"},
     promotion_failed   |-> {"promoting", "revision_requested", "rejected", "cancelled"}]

TerminalStatus == {"promoted", "rejected", "cancelled", "failed"}
TaskStatus == {"absent"} \cup DOMAIN Transitions \cup TerminalStatus

MayMove(from, to) == from \in DOMAIN Transitions /\ to \in Transitions[from]

Revision == 1 .. MaxRevision
TaskRow  == [status: TaskStatus, latest: 0 .. MaxRevision,
             accepted: Revision \cup {None}]
Result   == [revision: Revision, patch: Patch]
Decision == {"revision_requested", "accepted", "rejected"}
Review   == [revision: Revision, decision: Decision]

AbsentTask == [status |-> "absent", latest |-> 0, accepted |-> None]

VARIABLES
    tasks,      \* the delegation_tasks table
    results,    \* the "results" records of each task, in order
    reviews,    \* its "reviews" records
    workless,   \* whether its last "launches" record says that no work was left
    root,       \* whether its directory exists
    prepared,   \* whether it has a "workspaces" record
    worktree,   \* what its worktree differs from its base by
    revdirs,    \* the revision directories under its artifacts
    pc,         \* where each process is in its command
    tid,        \* the task it works on
    row,        \* the task row its transition read
    res,        \* the result it captures, reviews or promotes
    to, next    \* the status its transition asks for, and where it goes on

records == <<results, reviews, workless>>
files   == <<root, prepared, worktree, revdirs>>
locals  == <<pc, tid, row, res, to, next>>
dvars   == <<tasks, records, files, locals>>

(* The steps of a command: of this module, WorkerSelection and Promotion.  *)
Label == {"idle", "move", "set", "root", "worktree", "executor",
          "capture", "record", "review",
          "save", "launch", "select", "attempt", "attempted", "raised",
          "enqueue", "promote", "check",
          "apply", "verify", "rollback", "promoted", "rolled_back", "stranded"}

Init ==
    /\ tasks = [t \in Task |-> AbsentTask]
    /\ results = [t \in Task |-> <<>>]
    /\ reviews = [t \in Task |-> {}]
    /\ workless = [t \in Task |-> FALSE]
    /\ root = [t \in Task |-> FALSE]
    /\ prepared = [t \in Task |-> FALSE]
    /\ worktree = [t \in Task |-> None]
    /\ revdirs = [t \in Task |-> {}]
    /\ pc = [p \in Proc |-> "idle"]
    /\ tid = [p \in Proc |-> None]
    /\ row = [p \in Proc |-> AbsentTask]
    /\ res = [p \in Proc |-> None]
    /\ to = [p \in Proc |-> None]
    /\ next = [p \in Proc |-> "idle"]

-----------------------------------------------------------------------------
(* Control, and DelegationService.transition.                              *)

Goto(p, label) == pc' = [pc EXCEPT ![p] = label]

(* The command ends: with a result, an error, or its death.                *)
Return(p) ==
    /\ Goto(p, "idle")
    /\ tid' = [tid EXCEPT ![p] = None]
    /\ row' = [row EXCEPT ![p] = AbsentTask]
    /\ res' = [res EXCEPT ![p] = None]
    /\ to' = [to EXCEPT ![p] = None]
    /\ next' = [next EXCEPT ![p] = "idle"]

(* It goes on, and forgets the row it has written.                         *)
GoOn(p, label) ==
    /\ Goto(p, label)
    /\ row' = [row EXCEPT ![p] = AbsentTask]
    /\ to' = [to EXCEPT ![p] = None]
    /\ next' = [next EXCEPT ![p] = "idle"]
    /\ UNCHANGED <<tid, res>>

(* The process goes on with a transition to s, and then at label.          *)
Ask(p, s, label) ==
    /\ Goto(p, "move")
    /\ to' = [to EXCEPT ![p] = s]
    /\ next' = [next EXCEPT ![p] = label]

(* A command that starts with the transition.                              *)
Begin(p, t, s, label) ==
    /\ pc[p] = "idle"
    /\ tasks[t].status # "absent"
    /\ tid' = [tid EXCEPT ![p] = t]
    /\ Ask(p, s, label)
    /\ UNCHANGED <<tasks, records, files, row, res>>

(* The transition raises, which ends the command; an API worker's run goes *)
(* on to record the failure (WorkerSelection).                             *)
Refused(p) ==
    IF next[p] = "attempted"
    THEN GoOn(p, "raised")
    ELSE Return(p)

(* get_task, and the check of the table.                                   *)
Move(p) ==
    /\ pc[p] = "move"
    /\ IF MayMove(tasks[tid[p]].status, to[p])
       THEN /\ row' = [row EXCEPT ![p] = tasks[tid[p]]]
            /\ Goto(p, "set")
            /\ UNCHANGED <<tid, res, to, next>>
       ELSE Refused(p)
    /\ UNCHANGED <<tasks, records, files>>

(* Mutant: acceptance takes the revision from the row.                     *)
UpdatedToLatest(p) ==
    [row[p] EXCEPT
        !.status = to[p],
        !.latest = IF to[p] = "reviewing" THEN res[p].revision ELSE @,
        !.accepted = CASE to[p] = "accepted" -> row[p].latest
                       [] to[p] \in {"revision_requested", "rejected"} -> None
                       [] OTHER -> @]

(* The row to write: the one that was read, with its status and updates.   *)
Updated(p) ==
    [row[p] EXCEPT
        !.status = to[p],
        !.latest = IF to[p] = "reviewing" THEN res[p].revision ELSE @,
        !.accepted = CASE to[p] = "accepted" -> res[p].revision
                       [] to[p] \in {"revision_requested", "rejected"} -> None
                       [] OTHER -> @]

(* Mutant: the row is written whatever its status has become.              *)
SetTaskBlindly(p) ==
    /\ pc[p] = "set"
    /\ tasks' = [tasks EXCEPT ![tid[p]] = Updated(p)]
    /\ IF next[p] = "idle"
       THEN Return(p)
       ELSE GoOn(p, next[p])
    /\ UNCHANGED <<records, files>>

(* transition_delegation_task: compare-and-set on the status that was read.*)
SetTask(p) ==
    /\ pc[p] = "set"
    /\ IF tasks[tid[p]].status = row[p].status
       THEN /\ tasks' = [tasks EXCEPT ![tid[p]] = Updated(p)]
            /\ IF next[p] = "idle"
               THEN Return(p)
               ELSE GoOn(p, next[p])
       ELSE Refused(p) /\ UNCHANGED tasks
    /\ UNCHANGED <<records, files>>

-----------------------------------------------------------------------------
(* Creation, assignment and the workspace.                                 *)

(* Mutant: a status that the table does not know.                          *)
CreateReady(t) ==
    /\ tasks[t].status = "absent"
    /\ tasks' = [tasks EXCEPT ![t].status = "ready"]
    /\ UNCHANGED <<records, files, locals>>

(* Identifiers are random: creating a task never meets another one.        *)
Create(t) ==
    /\ tasks[t].status = "absent"
    /\ tasks' = [tasks EXCEPT ![t].status = "draft"]
    /\ UNCHANGED <<records, files, locals>>

Assign(p, t) == Begin(p, t, "assigned", "idle")

Prepare(p, t) ==
    /\ pc[p] = "idle"
    /\ tasks[t].status = "assigned"
    /\ tid' = [tid EXCEPT ![p] = t]
    /\ Goto(p, "root")
    /\ UNCHANGED <<tasks, records, files, row, res, to, next>>

(* mkdir(exist_ok=False): somebody else, or a command that died, was here. *)
MakeRoot(p) ==
    /\ pc[p] = "root"
    /\ IF root[tid[p]]
       THEN Return(p) /\ UNCHANGED root
       ELSE /\ root' = [root EXCEPT ![tid[p]] = TRUE]
            /\ Goto(p, "worktree")
            /\ UNCHANGED <<tid, row, res, to, next>>
    /\ UNCHANGED <<tasks, records, prepared, worktree, revdirs>>

(* git fails: the worktree and the directory are removed.                  *)
WorktreeFails(p) ==
    /\ pc[p] = "worktree"
    /\ root' = [root EXCEPT ![tid[p]] = FALSE]
    /\ Return(p)
    /\ UNCHANGED <<tasks, records, prepared, worktree, revdirs>>

AddWorkspace(p) ==
    /\ pc[p] = "worktree"
    /\ prepared' = [prepared EXCEPT ![tid[p]] = TRUE]
    /\ Ask(p, "workspace_ready", "idle")
    /\ UNCHANGED <<tasks, records, root, worktree, revdirs, tid, row, res>>

(* Whoever works in the worktree changes it, at any time.                  *)
Edit(t, c) ==
    /\ prepared[t]
    /\ worktree' = [worktree EXCEPT ![t] = c]
    /\ UNCHANGED <<tasks, records, root, prepared, revdirs, locals>>

-----------------------------------------------------------------------------
(* Executors.                                                              *)

Ready == {"workspace_ready", "revision_requested"}

(* delegate start, resume, block and done: a human reports the executor.   *)
Report(p, t) ==
    \E s \in {"executor_working", "executor_blocked", "executor_done"} :
        Begin(p, t, s, "idle")

(* delegate launch: the process runs the executor itself.                  *)
Launch(p, t) ==
    /\ tasks[t].status \in Ready
    /\ Begin(p, t, "executor_working", "executor")

(* classify_worker_outcome, after an exit with code 0.                     *)
WorkOutcome(t) ==
    IF worktree[t] # None /\ worktree[t] \in Scope[t] THEN "completed_work" ELSE "advisory"

(* The launch record is appended, then the task moves on.                  *)
ExecutorEnds(p) ==
    /\ pc[p] = "executor"
    /\ \E outcome \in {"failed", WorkOutcome(tid[p])} :
         /\ workless' = [workless EXCEPT ![tid[p]] = outcome = "advisory"]
         /\ Ask(p, IF outcome = "failed" THEN "failed" ELSE "executor_done", "idle")
    /\ UNCHANGED <<tasks, results, reviews, files, tid, row, res>>

(* Running the executable raises: nothing is recorded.                     *)
ExecutorRaises(p) ==
    /\ pc[p] = "executor"
    /\ Return(p)
    /\ UNCHANGED <<tasks, records, files>>

-----------------------------------------------------------------------------
(* DelegationArtifactService.capture                                       *)

Capture(p, t) ==
    /\ pc[p] = "idle"
    /\ tasks[t].status = "executor_done"
    /\ tasks[t].latest < MaxRevision
    /\ tid' = [tid EXCEPT ![p] = t]
    /\ row' = [row EXCEPT ![p] = tasks[t]]
    /\ Goto(p, "capture")
    /\ UNCHANGED <<tasks, records, files, res, to, next>>

(* Mutant: the revision directory may exist already.                       *)
IsWorkToCapture(p, revision) == worktree[tid[p]] \in Scope[tid[p]]

(* Changes within the scope, for a revision nobody captured before.        *)
IsNewRevision(p, revision) ==
    /\ worktree[tid[p]] \in Scope[tid[p]]
    /\ revision \notin revdirs[tid[p]]

(* The last launch must not have ended without work.  The patch is read    *)
(* and the revision's directory made, or capture raises.                   *)
LeftWork(t) == ~workless[t]

CaptureRevision(p) ==
    /\ pc[p] = "capture"
    /\ LET t == tid[p]
           revision == row[p].latest + 1
       IN IF LeftWork(t) /\ IsNewRevision(p, revision)
          THEN /\ revdirs' = [revdirs EXCEPT ![t] = @ \cup {revision}]
               /\ res' = [res EXCEPT ![p] = [revision |-> revision, patch |-> worktree[t]]]
               /\ row' = [row EXCEPT ![p] = AbsentTask]
               /\ Goto(p, "record")
               /\ UNCHANGED <<tid, to, next>>
          ELSE Return(p) /\ UNCHANGED revdirs
    /\ UNCHANGED <<tasks, records, root, prepared, worktree>>

AddResult(p) ==
    /\ pc[p] = "record"
    /\ results' = [results EXCEPT ![tid[p]] = Append(@, res[p])]
    /\ Ask(p, "reviewing", "idle")
    /\ UNCHANGED <<tasks, reviews, workless, files, tid, row, res>>

-----------------------------------------------------------------------------
(* DelegationReviewService                                                 *)

(* The service looks a result up by revision, or takes the last one.       *)
ResultOf(t, revision) ==
    results[t][CHOOSE i \in DOMAIN results[t] : results[t][i].revision = revision]
LastResult(t) == results[t][Len(results[t])]

(* _reviewable                                                             *)
Reviewable(t) ==
    /\ tasks[t].status = "reviewing"
    /\ results[t] # <<>>
    /\ LastResult(t).revision = tasks[t].latest

BeginReview(p, t, result, decision) ==
    /\ pc[p] = "idle"
    /\ tid' = [tid EXCEPT ![p] = t]
    /\ res' = [res EXCEPT ![p] = result]
    /\ to' = [to EXCEPT ![p] = decision]
    /\ Goto(p, "review")
    /\ UNCHANGED <<tasks, records, files, row, next>>

(* accept compares the worktree with what was captured.                    *)
Accept(p, t) ==
    /\ Reviewable(t)
    /\ worktree[t] = LastResult(t).patch
    /\ BeginReview(p, t, LastResult(t), "accepted")

Reject(p, t) == Reviewable(t) /\ BeginReview(p, t, LastResult(t), "rejected")

(* request_revision, of work without a result ...                          *)
Revisable(t) == tasks[t].status = "executor_done" /\ tasks[t].latest = 0

ReviseWork(p, t) == Revisable(t) /\ Begin(p, t, "revision_requested", "idle")

(* ... and of a result under review (Promotion has the third case).        *)
ReviseResult(p, t) ==
    Reviewable(t) /\ BeginReview(p, t, LastResult(t), "revision_requested")

(* _record, before the transition.                                         *)
AddReview(p) ==
    /\ pc[p] = "review"
    /\ reviews' = [reviews EXCEPT ![tid[p]] =
                      @ \cup {[revision |-> res[p].revision, decision |-> to[p]]}]
    /\ Ask(p, to[p], "idle")
    /\ UNCHANGED <<tasks, results, workless, files, tid, row, res>>

-----------------------------------------------------------------------------
(* The specification.                                                      *)

(* A command dies; nothing takes over what it was doing.                   *)
Crash(p) ==
    /\ p \in Mortal
    /\ pc[p] # "idle"
    /\ Return(p)
    /\ UNCHANGED <<tasks, records, files>>

Command(p, t) ==
    \/ Assign(p, t) \/ Prepare(p, t) \/ Report(p, t) \/ Launch(p, t)
    \/ Capture(p, t) \/ Accept(p, t) \/ Reject(p, t)
    \/ ReviseWork(p, t) \/ ReviseResult(p, t)

Step(p) ==
    \/ Move(p) \/ SetTask(p)
    \/ MakeRoot(p) \/ WorktreeFails(p) \/ AddWorkspace(p)
    \/ ExecutorEnds(p) \/ ExecutorRaises(p)
    \/ CaptureRevision(p) \/ AddResult(p) \/ AddReview(p)

Next ==
    \/ \E t \in Task : Create(t)
    \/ \E t \in Task, c \in Patch \cup {None} : Edit(t, c)
    \/ \E p \in Proc, t \in Task : Command(p, t)
    \/ \E p \in Proc : Step(p) \/ Crash(p)

Spec == Init /\ [][Next]_dvars

-----------------------------------------------------------------------------
(* Properties.                                                             *)

(* Types: of the tables, of the files and of what a process remembers.     *)
TypeOK ==
    /\ tasks \in [Task -> TaskRow]
    /\ results \in [Task -> Seq(Result)]
    /\ reviews \in [Task -> SUBSET Review]
    /\ workless \in [Task -> BOOLEAN]
    /\ root \in [Task -> BOOLEAN]
    /\ prepared \in [Task -> BOOLEAN]
    /\ worktree \in [Task -> Patch \cup {None}]
    /\ revdirs \in [Task -> SUBSET Revision]
    /\ pc \in [Proc -> Label]
    /\ tid \in [Proc -> Task \cup {None}]
    /\ row \in [Proc -> TaskRow]
    /\ res \in [Proc -> Result \cup {None}]
    /\ to \in [Proc -> TaskStatus \cup {None}]
    /\ next \in [Proc -> Label]

(* A revision is captured once, however many captures run at once: a later *)
(* result of a task always has a higher revision.                          *)
RevisionsIncrease ==
    \A t \in Task : \A i, j \in DOMAIN results[t] :
        i < j => results[t][i].revision < results[t][j].revision

(* An accepted revision was captured, and approved by a review of it.      *)
AcceptedWasApproved ==
    \A t \in Task : tasks[t].accepted # None =>
        /\ \E i \in DOMAIN results[t] : results[t][i].revision = tasks[t].accepted
        /\ [revision |-> tasks[t].accepted, decision |-> "accepted"] \in reviews[t]

(* Every status change anybody makes is one that reviewed work may make.   *)
Phase(status) ==
    CASE status \in {"reviewing", "accepted"} -> status
      [] status = "promoting" -> "applying"
      [] status = "promotion_failed" -> "unapplied"
      [] status \in TerminalStatus -> "closed"
      [] OTHER -> "open"

Reviewed == INSTANCE ReviewedWork WITH
    phase <- [t \in Task |-> Phase(tasks[t].status)],
    captured <- [t \in Task |-> {results[t][i].revision : i \in DOMAIN results[t]}],
    approved <- [t \in Task |-> {r \in Revision :
                   [revision |-> r, decision |-> "accepted"] \in reviews[t]}]
=============================================================================
