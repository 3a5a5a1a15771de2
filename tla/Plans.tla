------------------------------- MODULE Plans -------------------------------
(***************************************************************************)
(* Orchestrator (canto/core/orchestration.py) over JobService: plans whose *)
(* steps become jobs, with approvals asked for the gated steps before the  *)
(* plan may run.                                                           *)
(*                                                                         *)
(* A plan is read and written as a whole, without any compare-and-set:     *)
(* plan[p] is the copy p read, and every save writes that copy back.       *)
(*                                                                         *)
(* The job service appears as module Jobs promises it: a decision on an    *)
(* approval is final and made once (DecisionIsFinal), a job is processed   *)
(* once (ProviderStartsOnce) and comes to rest (JobComesToRest).  What     *)
(* process_job does between two store calls of its own is one step here.   *)
(***************************************************************************)
EXTENDS Naturals, Sequences

CONSTANTS
    Proc,        \* processes: CLI invocations, API requests and their tasks
    Mortal,      \* those that may die between two store calls
    JobId,       \* job identifiers that may be handed out
    ApprovalId,  \* approval identifiers that may be handed out
    None,        \* the absent value
    Plan,        \* plan identifiers that may be handed out
    StepCount,   \* steps of a plan
    Gates,       \* for a plan, its steps whose manifest or provider asks for an
                 \* approval, before the plan runs
    Api,         \* requests of the API; the others are CLI invocations
    LateSteps    \* steps whose inputs, once known, may ask for one as well

ASSUME PlanConstantsAssumption ==
    /\ StepCount \in Nat \ {0}
    /\ Gates \subseteq SUBSET (1..StepCount) /\ LateSteps \subseteq 1..StepCount
    /\ Mortal \cup Api \subseteq Proc /\ None \notin JobId \cup ApprovalId \cup Plan

PlanStep == 1..StepCount

PlanStatus == {"absent", "draft", "waiting_for_approval", "approved", "running",
               "completed", "failed", "rejected"}

(* queued: not processed yet.  failed: process_job ended in failed or in   *)
(* waiting_for_dependency, both of them for good.                          *)
JobStatus == {"absent", "queued", "completed", "failed", "waiting_for_approval", "rejected"}

JobRow == [status: JobStatus, approval: ApprovalId \cup {None}]
ApprovalRow == [status: {"absent", "pending", "approved", "rejected"},
                job: JobId \cup {None}]

(* ready: no input is missing.  approval: step_approval_ids.  jobs:        *)
(* step_jobs, in the order they were created.                              *)
PlanRow == [status: PlanStatus, ready: BOOLEAN, gated: SUBSET PlanStep,
            approval: [PlanStep -> ApprovalId \cup {None}],
            jobs: Seq([step: PlanStep, job: JobId, status: JobStatus])]

AbsentPlan == [status |-> "absent", ready |-> FALSE, gated |-> {},
               approval |-> [i \in PlanStep |-> None], jobs |-> <<>>]

VARIABLES
    jobs,       \* the jobs table
    approvals,  \* the approvals table
    plans,      \* the plans table
    pc,         \* where each process is in a method
    op,         \* the method it was called for
    pid,        \* the plan it works on
    plan,       \* its copy of the row
    step        \* the step it is at, in approving or in executing

service == <<jobs, approvals>>
locals  == <<pc, op, pid, plan, step>>
vars    == <<service, plans, locals>>

Label == {"idle", "request", "create", "grant", "refresh", "save", "approve",
          "prepare", "start", "execute", "load", "step", "created", "process",
          "stopped", "complete", "failed"}
Method == {"none", "create", "approve", "get", "execute_api", "execute_cli",
           "run"}

Init ==
    /\ jobs = [j \in JobId |-> [status |-> "absent", approval |-> None]]
    /\ approvals = [a \in ApprovalId |-> [status |-> "absent", job |-> None]]
    /\ plans = [x \in Plan |-> AbsentPlan]
    /\ pc = [p \in Proc |-> "idle"]
    /\ op = [p \in Proc |-> "none"]
    /\ pid = [p \in Proc |-> None]
    /\ plan = [p \in Proc |-> AbsentPlan]
    /\ step = [p \in Proc |-> 1]

-----------------------------------------------------------------------------
(* Local control.                                                          *)

Goto(p, label) == pc' = [pc EXCEPT ![p] = label]

Return(p) ==
    /\ Goto(p, "idle")
    /\ op' = [op EXCEPT ![p] = "none"]
    /\ pid' = [pid EXCEPT ![p] = None]
    /\ plan' = [plan EXCEPT ![p] = AbsentPlan]
    /\ step' = [step EXCEPT ![p] = 1]

(* A method starts on plan x at a label, with a copy of the row or none.   *)
Begin(p, method, label, x, row) ==
    /\ pc[p] = "idle"
    /\ Goto(p, label)
    /\ op' = [op EXCEPT ![p] = method]
    /\ pid' = [pid EXCEPT ![p] = x]
    /\ plan' = [plan EXCEPT ![p] = row]
    /\ UNCHANGED <<step, plans, service>>

(* PlanStore.save: the whole row, unconditionally.                         *)
SavePlan(p, row) == plans' = [plans EXCEPT ![pid[p]] = row]

(* Identifiers are random and never collide: which of those not handed out *)
(* yet comes next makes no difference, so a fixed one does.                *)
FreshJobs == {j \in JobId : jobs[j].status = "absent"}
NextJob == CHOOSE j \in JobId : jobs[j].status = "absent"
FreshApprovals == {a \in ApprovalId : approvals[a].status = "absent"}
NextApproval == CHOOSE a \in ApprovalId : approvals[a].status = "absent"
PendingApproval(j) == [status |-> "pending", job |-> j]

-----------------------------------------------------------------------------
(* create_plan and approve_plan                                            *)

Draft(ready, gated) ==
    [AbsentPlan EXCEPT !.status = "draft", !.ready = ready, !.gated = gated]

CreatePlan(p, x, ready, gated) ==
    /\ pc[p] = "idle"
    /\ plans[x].status = "absent" /\ \A q \in Proc : pid[q] # x
    /\ plans' = [plans EXCEPT ![x] = Draft(ready, gated)]
    /\ UNCHANGED <<locals, service>>

(* canto plan --approve: the approvals are stored before the plan is.          *)
CreateApproved(p, x, ready, gated) ==
    /\ p \notin Api
    /\ plans[x].status = "absent" /\ \A q \in Proc : pid[q] # x
    /\ Begin(p, "create", "request", x, Draft(ready, gated))

ApprovePlan(p, x) ==
    /\ p \in Api /\ plans[x].status = "draft"
    /\ Begin(p, "approve", "request", x, plans[x])

Unasked(p) == {i \in plan[p].gated : plan[p].approval[i] = None}

Lowest(S) == CHOOSE i \in S : \A k \in S : i <= k

(* _request_plan_approvals, one set_approval per gated step.  (Bounds: when *)
(* no approval or job identifier is left, RequestFails and StepFails still *)
(* end the method.)                                                        *)
RequestApproval(p) ==
    /\ pc[p] = "request" /\ Unasked(p) # {} /\ FreshApprovals # {}
    /\ approvals' = [approvals EXCEPT ![NextApproval] = PendingApproval(None)]
    /\ plan' = [plan EXCEPT ![p].approval[Lowest(Unasked(p))] = NextApproval]
    /\ UNCHANGED <<jobs, plans, pc, op, pid, step>>

(* A provider that is not executable, or a policy that denies the step.    *)
RequestFails(p) ==
    /\ pc[p] = "request"
    /\ Return(p)
    /\ UNCHANGED <<plans, service>>

Requested(p) ==
    /\ pc[p] = "request" /\ Unasked(p) = {}
    /\ plan' = [plan EXCEPT ![p].status =
                   IF plan[p].gated = {} THEN "approved" ELSE "waiting_for_approval"]
    /\ Goto(p, IF op[p] = "create" THEN "create" ELSE "grant")
    /\ UNCHANGED <<plans, op, pid, step, service>>

SaveCreated(p) ==
    /\ pc[p] = "create"
    /\ SavePlan(p, plan[p])
    /\ Return(p)
    /\ UNCHANGED service

(* The steps that still have an approval to decide, from the current one.  *)
Ungranted(p) == {i \in plan[p].gated : i >= step[p]}

(* job_service.approve, for each approval in turn; somebody else may have  *)
(* decided it, and the error leaves the stored plan as it was read.  A     *)
(* plan's approval has no job yet, so approve returns at once.             *)
GrantStep(p) ==
    /\ pc[p] = "grant" /\ Ungranted(p) # {}
    /\ LET i == Lowest(Ungranted(p))  a == plan[p].approval[i] IN
       IF approvals[a].status = "pending"
       THEN /\ approvals' = [approvals EXCEPT ![a].status = "approved"]
            /\ step' = [step EXCEPT ![p] = i + 1]
            /\ UNCHANGED <<pc, op, pid, plan>>
       ELSE Return(p) /\ UNCHANGED approvals
    /\ UNCHANGED <<jobs, plans>>

AllGranted(p) ==
    /\ pc[p] = "grant" /\ Ungranted(p) = {}
    /\ Goto(p, "refresh")
    /\ step' = [step EXCEPT ![p] = 1]
    /\ UNCHANGED <<plans, op, pid, plan, service>>

(* approved_at and the event are saved with the status refreshed before.   *)
SaveApproved(p) ==
    /\ pc[p] = "approve"
    /\ SavePlan(p, plan[p])
    /\ Return(p)
    /\ UNCHANGED service

-----------------------------------------------------------------------------
(* _refresh_approval_status, in get_plan, explain, approve_plan,           *)
(* prepare_execution and _execute.                                         *)

GetPlan(p, x) ==
    /\ p \in Api /\ plans[x].status # "absent"
    /\ Begin(p, "get", "refresh", x, plans[x])

Granted(i, row) == approvals[row.approval[i]].status = "approved"
Refused(i, row) == approvals[row.approval[i]].status = "rejected"
AskedSteps(row) == {i \in PlanStep : row.approval[i] # None}

(* Mutant: what was not rejected counts as approved.                       *)
RefreshedUnlessRejected(row) ==
    IF \E i \in AskedSteps(row) : Refused(i, row) THEN "rejected" ELSE "approved"

(* Mutant: the status of the first approval that is not approved is taken  *)
(* over as it is, a pending one too.                                       *)
RefreshedToApprovalStatus(row) ==
    IF \A i \in AskedSteps(row) : Granted(i, row)
    THEN "approved"
    ELSE approvals[row.approval[CHOOSE i \in AskedSteps(row) : ~Granted(i, row)]].status

(* The approvals are read one by one; a decision is final, so what they    *)
(* say together is what they said at one moment of the reading.            *)
Refreshed(row) ==
    CASE \E i \in AskedSteps(row) : Refused(i, row) -> "rejected"
      [] \A i \in AskedSteps(row) : Granted(i, row) -> "approved"
      [] OTHER -> "waiting_for_approval"

(* Only a plan with approvals that has not started is refreshed.           *)
NeedsRefresh(row) ==
    AskedSteps(row) # {} /\ row.status \in {"draft", "waiting_for_approval", "approved"}

(* Where the method goes on once the status is known.                      *)
AfterRefresh(p, status) ==
    CASE op[p] = "approve" -> "approve"
      [] op[p] \in {"execute_api", "execute_cli"} /\ status = "approved" /\ plan[p].ready -> "start"
      [] op[p] = "run" /\ status \in {"approved", "running"} /\ plan[p].ready -> "step"
      [] OTHER -> "idle"

Proceed(p, status) ==
    IF AfterRefresh(p, status) = "idle"
    THEN Return(p)
    ELSE /\ Goto(p, AfterRefresh(p, status))
         /\ UNCHANGED <<op, pid, plan, step>>

RefreshStatus(p) ==
    /\ pc[p] = "refresh"
    /\ IF NeedsRefresh(plan[p])
       THEN /\ plan' = [plan EXCEPT ![p].status = Refreshed(plan[p])]
            /\ Goto(p, "save")
            /\ UNCHANGED <<op, pid, step>>
       ELSE Proceed(p, plan[p].status)
    /\ UNCHANGED <<plans, service>>

(* The copy that was read is saved, on a read as well.                     *)
SaveRefreshed(p) ==
    /\ pc[p] = "save"
    /\ SavePlan(p, plan[p])
    /\ Proceed(p, plan[p].status)
    /\ UNCHANGED service

-----------------------------------------------------------------------------
(* prepare_execution, execute, _execute                                    *)

(* POST .../execute prepares, then leaves execute to a background task.    *)
ExecuteOverApi(p, x) ==
    /\ p \in Api /\ plans[x].status # "absent"
    /\ Begin(p, "execute_api", "prepare", x, AbsentPlan)

(* canto execute: prepares only a plan that it reads as approved.          *)
ExecuteFromCli(p, x) ==
    /\ p \notin Api /\ plans[x].status # "absent"
    /\ Begin(p, "execute_cli", IF plans[x].status = "approved" THEN "prepare" ELSE "load",
             x, AbsentPlan)

Prepare(p) ==
    /\ pc[p] = "prepare"
    /\ plan' = [plan EXCEPT ![p] = plans[pid[p]]]
    /\ Goto(p, "refresh")
    /\ UNCHANGED <<plans, op, pid, step, service>>

StartPlan(p) ==
    /\ pc[p] = "start"
    /\ SavePlan(p, [plan[p] EXCEPT !.status = "running"])
    /\ Goto(p, IF op[p] = "execute_api" THEN "execute" ELSE "load")
    /\ plan' = [plan EXCEPT ![p] = AbsentPlan]
    /\ UNCHANGED <<op, pid, step, service>>

(* The background task: execute reads the plan and prepares it once more   *)
(* if it is approved (again).                                              *)
ExecuteInBackground(p) ==
    /\ pc[p] = "execute"
    /\ Goto(p, IF plans[pid[p]].status = "approved" THEN "prepare" ELSE "load")
    /\ op' = [op EXCEPT ![p] = "execute_cli"]
    /\ UNCHANGED <<plans, pid, plan, step, service>>

LoadToRun(p) ==
    /\ pc[p] = "load"
    /\ plan' = [plan EXCEPT ![p] = plans[pid[p]]]
    /\ op' = [op EXCEPT ![p] = "run"]
    /\ Goto(p, "refresh")
    /\ UNCHANGED <<plans, pid, step, service>>

(* Mutant: the approvals are counted from the next step on.                *)
StepApprovalOfNext(p) ==
    IF step[p] < StepCount THEN plan[p].approval[step[p] + 1] ELSE None

StepApproval(p) == plan[p].approval[step[p]]

(* create_job refuses a request whose approval is not approved.            *)
MayCreate(p) == StepApproval(p) # None => approvals[StepApproval(p)].status = "approved"

(* create_job for the step: the job, and the approval it is linked to.     *)
CreateStepJob(p) ==
    /\ pc[p] = "step" /\ MayCreate(p) /\ FreshJobs # {}
    /\ jobs' = [jobs EXCEPT ![NextJob] = [status |-> "queued", approval |-> StepApproval(p)]]
    /\ approvals' = [a \in ApprovalId |->
           IF a = StepApproval(p) THEN [approvals[a] EXCEPT !.job = NextJob] ELSE approvals[a]]
    /\ plan' = [plan EXCEPT ![p].jobs =
                   Append(@, [step |-> step[p], job |-> NextJob, status |-> "queued"])]
    /\ Goto(p, "created")
    /\ UNCHANGED <<plans, op, pid, step>>

(* An input no earlier step produced, a request create_job refuses, or a   *)
(* registry that cannot be loaded when process_job refreshes it: the job   *)
(* stays queued.                                                           *)
StepFails(p) ==
    /\ pc[p] \in {"step", "process"}
    /\ Goto(p, "failed")
    /\ UNCHANGED <<plans, op, pid, plan, step, service>>

(* The plan records the job before the job is processed.                   *)
RecordJob(p) ==
    /\ pc[p] = "created"
    /\ SavePlan(p, plan[p])
    /\ Goto(p, "process")
    /\ UNCHANGED <<op, pid, plan, step, service>>

LastJob(p) == Len(plan[p].jobs)

(* Mutant: the status process_job returned is not looked at.               *)
StepSucceededAnyway(p) == TRUE

StepSucceeded(p) == plan[p].jobs[LastJob(p)].status = "completed"

(* process_job runs the job to where it rests, and returns that status.    *)
ProcessStepJob(p, status) ==
    /\ pc[p] = "process"
    /\ LET j == plan[p].jobs[LastJob(p)].job IN
       jobs' = [jobs EXCEPT ![j].status = status]
    /\ plan' = [plan EXCEPT ![p].jobs[LastJob(p)].status = status]
    /\ Goto(p, "stopped")
    /\ UNCHANGED <<approvals, plans, op, pid, step>>

(* Inputs that earlier steps produced ask for an approval: the job waits.  *)
StepJobWaits(p) ==
    /\ pc[p] = "process" /\ step[p] \in LateSteps /\ StepApproval(p) = None
    /\ FreshApprovals # {}
    /\ LET j == plan[p].jobs[LastJob(p)].job IN
       /\ jobs' = [jobs EXCEPT ![j] = [status |-> "waiting_for_approval", approval |-> NextApproval]]
       /\ approvals' = [approvals EXCEPT ![NextApproval] = PendingApproval(j)]
    /\ plan' = [plan EXCEPT ![p].jobs[LastJob(p)].status = "waiting_for_approval"]
    /\ Goto(p, "stopped")
    /\ UNCHANGED <<plans, op, pid, step>>

(* process_job returned: its status is recorded, and only a completed job  *)
(* lets the plan go on.                                                    *)
RecordStop(p) ==
    /\ pc[p] = "stopped"
    /\ SavePlan(p, plan[p])
    /\ Goto(p, CASE ~StepSucceeded(p) -> "failed"
                     [] StepSucceeded(p) /\ step[p] < StepCount -> "step"
                     [] OTHER -> "complete")
    /\ step' = [step EXCEPT ![p] = IF step[p] < StepCount THEN @ + 1 ELSE @]
    /\ UNCHANGED <<op, pid, plan, service>>

(* An output the step declares is not among the job's artifacts.           *)
OutputMissing(p) ==
    /\ pc[p] = "stopped" /\ StepSucceeded(p)
    /\ SavePlan(p, plan[p])
    /\ Goto(p, "failed")
    /\ UNCHANGED <<op, pid, plan, step, service>>

FailPlan(p) ==
    /\ pc[p] = "failed"
    /\ SavePlan(p, [plan[p] EXCEPT !.status = "failed"])
    /\ Return(p)
    /\ UNCHANGED service

(* Mutant: the last step's record is the last save.                        *)
CompleteUnsaved(p) ==
    /\ pc[p] = "complete"
    /\ Return(p)
    /\ UNCHANGED <<plans, service>>

CompletePlan(p) ==
    /\ pc[p] = "complete"
    /\ SavePlan(p, [plan[p] EXCEPT !.status = "completed"])
    /\ Return(p)
    /\ UNCHANGED service

-----------------------------------------------------------------------------
(* Others, and the specification.                                          *)

(* POST /approvals/{id}/approve and /reject, by anybody at any time.  The  *)
(* approver of a waiting job processes it, unless the registry cannot be   *)
(* loaded; a plan's approval has no job before the plan runs.              *)
Decide(a, decision, status) ==
    /\ approvals[a].status = "pending"
    /\ approvals' = [approvals EXCEPT ![a].status = decision]
    /\ jobs' = [j \in JobId |->
           IF j = approvals[a].job THEN [jobs[j] EXCEPT !.status = status] ELSE jobs[j]]
    /\ UNCHANGED <<plans, locals>>

DecideApproval(a) ==
    \/ Decide(a, "rejected", "rejected")
    \/ \E status \in {"completed", "failed", "waiting_for_approval"} : Decide(a, "approved", status)

Die(p) ==
    /\ p \in Mortal /\ pc[p] # "idle"
    /\ Return(p)
    /\ UNCHANGED <<service, plans>>

ApprovalStep(p) ==
    \/ RequestApproval(p) \/ RequestFails(p) \/ Requested(p) \/ SaveCreated(p)
    \/ GrantStep(p) \/ AllGranted(p) \/ SaveApproved(p)
    \/ RefreshStatus(p) \/ SaveRefreshed(p)

ExecutionStep(p) ==
    \/ Prepare(p) \/ StartPlan(p) \/ ExecuteInBackground(p) \/ LoadToRun(p)
    \/ CreateStepJob(p) \/ StepFails(p) \/ RecordJob(p)
    \/ \E status \in {"completed", "failed"} : ProcessStepJob(p, status)
    \/ StepJobWaits(p) \/ RecordStop(p) \/ OutputMissing(p)
    \/ FailPlan(p) \/ CompletePlan(p)

Call(p) == \E x \in Plan :
    \/ \E ready \in BOOLEAN, gated \in Gates :
         CreatePlan(p, x, ready, gated) \/ CreateApproved(p, x, ready, gated)
    \/ ApprovePlan(p, x) \/ GetPlan(p, x)
    \/ ExecuteOverApi(p, x) \/ ExecuteFromCli(p, x)

Step(p) == ApprovalStep(p) \/ ExecutionStep(p)

Next ==
    \/ \E p \in Proc : Call(p) \/ Step(p) \/ Die(p)
    \/ \E a \in ApprovalId : DecideApproval(a)

Spec == Init /\ [][Next]_vars

(* A method that was called runs to its end; nobody has to call one.       *)
FairSpec == Spec /\ \A p \in Proc : WF_vars(Step(p))

-----------------------------------------------------------------------------
(* Properties                                                              *)

(* Type invariant of the plans table and of the processes' copies.         *)
TypeOK ==
    /\ jobs \in [JobId -> JobRow]
    /\ approvals \in [ApprovalId -> ApprovalRow]
    /\ plans \in [Plan -> PlanRow]
    /\ pc \in [Proc -> Label]
    /\ op \in [Proc -> Method]
    /\ pid \in [Proc -> Plan \cup {None}]
    /\ plan \in [Proc -> PlanRow]
    /\ step \in [Proc -> PlanStep \cup {StepCount + 1}]

(* A plan that may run, runs or has run has an approved approval for every *)
(* gated step, whatever stale copies of the plan were saved in between.    *)
ApprovedPlanHasGrants ==
    \A x \in Plan : plans[x].status \in {"approved", "running", "completed"} =>
        \A i \in plans[x].gated : plans[x].approval[i] # None /\ Granted(i, plans[x])

(* The job of a gated step carries an approved approval, also when two     *)
(* approvals or two executions of the plan overlap.                        *)
PlanGateHolds ==
    \A x \in Plan : \A k \in DOMAIN plans[x].jobs :
        LET e == plans[x].jobs[k] IN
        e.step \in plans[x].gated =>
            /\ jobs[e.job].approval # None
            /\ approvals[jobs[e.job].approval].status = "approved"

(* Steps run in order: a job of a later step is recorded only behind a     *)
(* completed job of the step before, in the plan and in the jobs table;    *)
(* and a completed plan has such a job for every step.                     *)
Completed(e) == e.status = "completed" /\ jobs[e.job].status = "completed"

StepsRanInOrder ==
    \A x \in Plan : LET js == plans[x].jobs IN
        /\ \A k \in DOMAIN js : js[k].step > 1 =>
             \E m \in 1..(k - 1) : js[m].step = js[k].step - 1 /\ Completed(js[m])
        /\ plans[x].status = "completed" =>
             \A i \in PlanStep : \E k \in DOMAIN js : js[k].step = i /\ Completed(js[k])

(* An execution that started and whose process does not die brings the     *)
(* plan to completed or failed.                                            *)
ExecutionEnds ==
    \A p \in Proc \ Mortal, x \in Plan :
        (pid[p] = x /\ pc[p] = "step") ~> plans[x].status \in {"completed", "failed"}

(* The state invariant of the plans table and of the copies of its rows.   *)
PlansAreGranted == TypeOK /\ ApprovedPlanHasGrants
=============================================================================
