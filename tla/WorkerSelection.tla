--------------------------- MODULE WorkerSelection ---------------------------
(***************************************************************************)
(* worker launch: Canto chooses who works on a task.                       *)
(* CliWorkerSelectionService assigns a profile to the task and launches    *)
(* it; AIWorkerAssignmentService tries one model after the other until one *)
(* of them finishes.  Both write what they chose into the task's row, and  *)
(* unless it is the transition to "executor_working" that does so they     *)
(* write the whole row they have read, whatever it has become.             *)
(*                                                                         *)
(* Which profile or model is chosen has no influence here; that there is   *)
(* one more to try is left open.                                           *)
(***************************************************************************)
EXTENDS Delegation

(* The row read, to be saved with the choice before going on at label.     *)
SaveNext(p, t, label) ==
    /\ row' = [row EXCEPT ![p] = tasks[t]]
    /\ next' = [next EXCEPT ![p] = label]
    /\ Goto(p, "save")

(* launch_first_allowed: _assign_profile reads the task ...                *)
AssignProfile(p, t) ==
    /\ pc[p] = "idle"
    /\ tasks[t].status \in Ready
    /\ tid' = [tid EXCEPT ![p] = t]
    /\ SaveNext(p, t, "launch")
    /\ UNCHANGED <<tasks, records, files, res, to>>

(* ... set_delegation_task, with no condition on the row it replaces ...   *)
SaveSelection(p) ==
    /\ pc[p] = "save"
    /\ tasks' = [tasks EXCEPT ![tid[p]] = row[p]]
    /\ GoOn(p, next[p])
    /\ UNCHANGED <<records, files>>

(* ... and DelegationCliExecutor.launch.                                   *)
LaunchSelected(p) ==
    /\ pc[p] = "launch"
    /\ IF tasks[tid[p]].status \in Ready
       THEN Ask(p, "executor_working", "executor") /\ UNCHANGED <<tid, row, res>>
       ELSE Return(p)
    /\ UNCHANGED <<tasks, records, files>>

(* AIWorkerAssignmentService.launch                                        *)
LaunchApi(p, t) ==
    /\ pc[p] = "idle"
    /\ tasks[t].status \in Ready
    /\ tid' = [tid EXCEPT ![p] = t]
    /\ Goto(p, "select")
    /\ UNCHANGED <<tasks, records, files, row, res, to, next>>

(* _record_selection, of the next model.                                   *)
RecordSelection(p) ==
    /\ pc[p] = "select"
    /\ IF tasks[tid[p]].status \in Ready
       THEN Ask(p, "executor_working", "attempt") /\ UNCHANGED row
       ELSE SaveNext(p, tid[p], "attempt") /\ UNCHANGED to
    /\ UNCHANGED <<tasks, records, files, tid, res>>

(* No model is left, or the last one changed the worktree.                 *)
GiveUp(p) ==
    /\ pc[p] = "select"
    /\ IF tasks[tid[p]].status = "executor_working"
       THEN Ask(p, "failed", "idle") /\ UNCHANGED <<tid, row, res>>
       ELSE Return(p)
    /\ UNCHANGED <<tasks, records, files>>

(* _run_attempt: the worker finishes and the task moves on ...             *)
AttemptEnds(p) ==
    /\ pc[p] = "attempt"
    /\ workless' = [workless EXCEPT ![tid[p]] = WorkOutcome(tid[p]) = "advisory"]
    /\ Ask(p, "executor_done", "attempted")
    /\ UNCHANGED <<tasks, results, reviews, files, tid, row, res>>

AttemptReturns(p) ==
    /\ pc[p] = "attempted"
    /\ Return(p)
    /\ UNCHANGED <<tasks, records, files>>

(* ... or it fails, or its task does not move on: a launch without outcome *)
(* is recorded and the next model is tried.                                *)
AttemptRaises(p) ==
    /\ pc[p] \in {"attempt", "raised"}
    /\ workless' = [workless EXCEPT ![tid[p]] = FALSE]
    /\ Goto(p, "select")
    /\ UNCHANGED <<tasks, results, reviews, files, tid, row, res, to, next>>

SelectionStep(p) ==
    \/ SaveSelection(p) \/ LaunchSelected(p) \/ RecordSelection(p) \/ GiveUp(p)
    \/ AttemptEnds(p) \/ AttemptReturns(p) \/ AttemptRaises(p)

NextSelection ==
    \/ Next
    \/ \E p \in Proc, t \in Task : AssignProfile(p, t) \/ LaunchApi(p, t)
    \/ \E p \in Proc : SelectionStep(p)

SpecSelection == Init /\ [][NextSelection]_dvars

-----------------------------------------------------------------------------
(* Properties.  What the directories of the revisions and the reviews      *)
(* guarantee holds with worker selection too: RevisionsIncrease and        *)
(* AcceptedWasApproved of Delegation.                                      *)

(* Every command moves a task on in the order of ReviewedWork: nobody      *)
(* reviews what was not captured, accepts what was not approved, or        *)
(* promotes what was not accepted.  Only the save of a selection may set a *)
(* task back to what it was when its row was read.                         *)
ImplementsReviewedWorkButForSaves ==
    /\ Reviewed!Init
    /\ [][Reviewed!Next \/ \E p \in Proc : SaveSelection(p)]_(Reviewed!vars)

=============================================================================
