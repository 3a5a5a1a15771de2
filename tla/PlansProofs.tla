---------------------------- MODULE PlansProofs ----------------------------
(***************************************************************************)
(* Proofs about Plans, for every set of processes, plans and identifiers,  *)
(* any number of steps and any gates, with any process dying at any point. *)
(***************************************************************************)
EXTENDS Plans, FiniteSetTheorems, TLAPS

(* What is true of a row of the plans table and of every copy of one,      *)
(* however old: it is judged by the jobs and the approvals of today.       *)
HasGrants(r) ==
    r.status \in {"approved", "running", "completed"} =>
        \A i \in r.gated : r.approval[i] # None /\ approvals[r.approval[i]].status = "approved"

GatedEntry(r, e) ==
    e.step \in r.gated =>
        jobs[e.job].approval # None /\ approvals[jobs[e.job].approval].status = "approved"

FollowsStep(r, k) ==
    r.jobs[k].step > 1 =>
        \E m \in DOMAIN r.jobs : m < k /\ r.jobs[m].step = r.jobs[k].step - 1 /\ Completed(r.jobs[m])

HasRun(r, i) == \E k \in DOMAIN r.jobs : r.jobs[k].step = i /\ Completed(r.jobs[k])

SoundRow(r) ==
    /\ r \in PlanRow
    /\ HasGrants(r)
    /\ \A k \in DOMAIN r.jobs :
          jobs[r.jobs[k].job].status # "absent" /\ GatedEntry(r, r.jobs[k]) /\ FollowsStep(r, k)
    /\ r.status = "completed" => \A i \in PlanStep : HasRun(r, i)

(* Approvals are asked for all the gated steps or for none.                *)
AllOrNoneAsked(r) ==
    (\E i \in PlanStep : r.approval[i] # None) => \A i \in r.gated : r.approval[i] # None

LastEntry(r) == r.jobs[Len(r.jobs)]

(* What a process at label l and step s knows of its copy r.               *)
StepLabels == {"step", "created", "process", "stopped"}
OpenLabels == {"created", "process"}

StepFits(l, s) ==
    /\ l \in StepLabels \cup {"complete", "failed"} => s \in PlanStep
    /\ l \notin StepLabels \cup {"complete", "failed", "grant"} => s = 1
    /\ l = "grant" => s \in PlanStep \cup {StepCount + 1}

HoldsOpenJob(s, r) ==
    /\ Len(r.jobs) > 0 /\ LastEntry(r).step = s /\ LastEntry(r).status = "queued"
    /\ jobs[LastEntry(r).job] = [status |-> "queued", approval |-> r.approval[s]]

HoldsStoppedJob(s, r) ==
    /\ Len(r.jobs) > 0 /\ LastEntry(r).step = s
    /\ LastEntry(r).status = "completed" => Completed(LastEntry(r))

CopyFits(l, s, r) ==
    /\ SoundRow(r)
    /\ StepFits(l, s)
    /\ l # "request" => AllOrNoneAsked(r)
    /\ l = "start" => r.status = "approved"
    /\ l \in StepLabels \cup {"complete"} => r.status \in {"approved", "running"}
    /\ l \in StepLabels => \A i \in PlanStep : i < s => HasRun(r, i)
    /\ l = "complete" => \A i \in PlanStep : HasRun(r, i)
    /\ l \in OpenLabels => HoldsOpenJob(s, r)
    /\ l = "stopped" => HoldsStoppedJob(s, r)

(* A pending approval that has a job is the only one, and the job waits.   *)
Waiting(a) == approvals[a].status = "pending" /\ approvals[a].job # None

WaitingJobs ==
    /\ \A a \in ApprovalId : Waiting(a) => jobs[approvals[a].job].status = "waiting_for_approval"
    /\ \A a, b \in ApprovalId :
          Waiting(a) /\ Waiting(b) /\ approvals[a].job = approvals[b].job => a = b

(* Two executions never have one job open.                                 *)
OpenApart ==
    \A p, q \in Proc :
        p # q /\ pc[p] \in OpenLabels /\ pc[q] \in OpenLabels =>
            LastEntry(plan[p]).job # LastEntry(plan[q]).job

PlansSound == \A x \in Plan : SoundRow(plans[x]) /\ AllOrNoneAsked(plans[x])

CopiesFit ==
    \A p \in Proc : CopyFits(pc[p], step[p], plan[p]) /\ (pc[p] # "idle" => pid[p] \in Plan)

PlansInv == TypeOK /\ WaitingJobs /\ OpenApart /\ PlansSound /\ CopiesFit

-----------------------------------------------------------------------------
(* Lemmas about the operators.                                             *)

(* A set of numbers that is not empty has a lowest one.                    *)
LEMMA LowestOf ==
    ASSUME NEW S \in SUBSET Nat, S # {}
    PROVE  Lowest(S) \in S
<1> DEFINE T == {0..i : i \in S}
<1>1. T \subseteq FiniteSubsetsOf(Nat)
  <2> SUFFICES ASSUME NEW i \in S PROVE 0..i \in FiniteSubsetsOf(Nat)
    OBVIOUS
  <2>1. IsFiniteSet(0..i)
    BY FS_Interval
  <2> QED BY <2>1 DEF FiniteSubsetsOf
<1>2. PICK t \in T : \A u \in T : <<u, t>> \notin StrictSubsetOrdering(Nat)
  <2>1. T # {}
    OBVIOUS
  <2> QED BY <1>1, <2>1, WFMin, FS_StrictSubsetOrderingWellFounded
<1>3. PICK i \in S : t = 0..i
  OBVIOUS
<1>4. ASSUME NEW k \in S PROVE i <= k
  <2> SUFFICES ASSUME k < i PROVE FALSE
    OBVIOUS
  <2>1. 0..k \in SUBSET Nat /\ 0..i \in SUBSET Nat /\ 0..k \subseteq 0..i /\ i \in 0..i /\ i \notin 0..k
    OBVIOUS
  <2>2. <<0..k, t>> \in StrictSubsetOrdering(Nat)
    BY <2>1, <1>3 DEF StrictSubsetOrdering
  <2> QED BY <1>2, <2>2
<1> QED BY <1>4 DEF Lowest

LEMMA FreshJob ==
    ASSUME FreshJobs # {}
    PROVE  NextJob \in JobId /\ jobs[NextJob].status = "absent"
BY DEF FreshJobs, NextJob

LEMMA FreshApproval ==
    ASSUME FreshApprovals # {}
    PROVE  NextApproval \in ApprovalId /\ approvals[NextApproval].status = "absent"
BY DEF FreshApprovals, NextApproval

LEMMA FirstStep == 1 \in PlanStep /\ PlanStep \subseteq Nat /\ StepCount \in PlanStep
BY PlanConstantsAssumption DEF PlanStep

LEMMA AbsentPlanTyped ==
    /\ AbsentPlan \in PlanRow /\ AbsentPlan.status = "absent" /\ AbsentPlan.jobs = <<>>
    /\ \A i \in PlanStep : AbsentPlan.approval[i] = None
BY DEF AbsentPlan, PlanRow, PlanStatus

(* The entries of a row, and the last one of a copy that has one.          *)
LEMMA EntryTyped ==
    ASSUME NEW r \in PlanRow
    PROVE  /\ DOMAIN r.jobs = 1..Len(r.jobs) /\ Len(r.jobs) \in Nat
           /\ \A k \in DOMAIN r.jobs :
                 r.jobs[k].step \in PlanStep /\ r.jobs[k].job \in JobId /\ r.jobs[k].status \in JobStatus
<1> DEFINE Entry == [step: PlanStep, job: JobId, status: JobStatus]
<1>1. r.jobs \in Seq(Entry)
  BY DEF PlanRow
<1>2. ASSUME NEW e \in Entry PROVE e.step \in PlanStep /\ e.job \in JobId /\ e.status \in JobStatus
  OBVIOUS
<1> HIDE DEF Entry
<1>3. DOMAIN r.jobs = 1..Len(r.jobs) /\ Len(r.jobs) \in Nat /\ \A k \in DOMAIN r.jobs : r.jobs[k] \in Entry
  BY <1>1
<1> QED BY <1>2, <1>3

LEMMA LastEntryTyped ==
    ASSUME NEW r \in PlanRow, Len(r.jobs) > 0
    PROVE  Len(r.jobs) \in DOMAIN r.jobs /\ LastEntry(r).job \in JobId /\ LastEntry(r).step \in PlanStep
BY EntryTyped DEF LastEntry

-----------------------------------------------------------------------------
(* What a step may do to the jobs and the approvals.                       *)

Forward ==
    /\ \A a \in ApprovalId : approvals[a].status = "approved" => approvals'[a].status = "approved"
    /\ \A j \in JobId : jobs[j].status # "absent" =>
          /\ jobs'[j].status # "absent"
          /\ jobs[j].approval # None => jobs'[j].approval = jobs[j].approval
          /\ jobs[j].status = "completed" => jobs'[j].status = "completed"

LEMMA ForwardUnlessServed == ASSUME UNCHANGED service PROVE Forward
BY DEF Forward, service

LEMMA RunStays ==
    ASSUME Forward, NEW r \in PlanRow, NEW i, HasRun(r, i)
    PROVE  HasRun(r, i)'
<1>1. PICK k \in DOMAIN r.jobs : r.jobs[k].step = i /\ Completed(r.jobs[k])
  BY DEF HasRun
<1>2. r.jobs[k].job \in JobId
  BY EntryTyped
<1>3. Completed(r.jobs[k])'
  BY <1>1, <1>2 DEF Completed, Forward
<1> QED BY <1>1, <1>3 DEF HasRun

LEMMA RowStays ==
    ASSUME TypeOK, Forward, NEW r, SoundRow(r)
    PROVE  SoundRow(r)'
<1> r \in PlanRow
  BY DEF SoundRow
<1>1. HasGrants(r)'
  <2> SUFFICES ASSUME r.status \in {"approved", "running", "completed"}, NEW i \in r.gated
               PROVE  r.approval[i] # None /\ approvals'[r.approval[i]].status = "approved"
    BY DEF HasGrants
  <2>1. r.approval[i] \in ApprovalId \cup {None}
    BY DEF PlanRow
  <2>2. r.approval[i] # None /\ approvals[r.approval[i]].status = "approved"
    BY DEF SoundRow, HasGrants
  <2> QED BY <2>1, <2>2 DEF Forward
<1>2. ASSUME NEW k \in DOMAIN r.jobs
      PROVE  (jobs[r.jobs[k].job].status # "absent" /\ GatedEntry(r, r.jobs[k]) /\ FollowsStep(r, k))'
  <2>1. r.jobs[k].job \in JobId
    BY EntryTyped
  <2>2. jobs[r.jobs[k].job].status # "absent" /\ GatedEntry(r, r.jobs[k]) /\ FollowsStep(r, k)
    BY DEF SoundRow
  <2>3. (jobs[r.jobs[k].job].status # "absent")'
    BY <2>1, <2>2 DEF Forward
  <2>4. GatedEntry(r, r.jobs[k])'
    <3> SUFFICES ASSUME r.jobs[k].step \in r.gated
                 PROVE  /\ jobs'[r.jobs[k].job].approval # None
                        /\ approvals'[jobs'[r.jobs[k].job].approval].status = "approved"
      BY DEF GatedEntry
    <3>1. jobs[r.jobs[k].job].approval # None /\ approvals[jobs[r.jobs[k].job].approval].status = "approved"
      BY <2>2 DEF GatedEntry
    <3>2. jobs[r.jobs[k].job].approval \in ApprovalId
      BY <2>1, <3>1 DEF TypeOK, JobRow
    <3> QED BY <2>1, <2>2, <3>1, <3>2 DEF Forward
  <2>5. FollowsStep(r, k)'
    <3> SUFFICES ASSUME r.jobs[k].step > 1
                 PROVE  \E m \in DOMAIN r.jobs :
                          m < k /\ r.jobs[m].step = r.jobs[k].step - 1 /\ Completed(r.jobs[m])'
      BY DEF FollowsStep
    <3>1. PICK m \in DOMAIN r.jobs : m < k /\ r.jobs[m].step = r.jobs[k].step - 1 /\ Completed(r.jobs[m])
      BY <2>2 DEF FollowsStep
    <3>2. r.jobs[m].job \in JobId
      BY EntryTyped
    <3> QED BY <3>1, <3>2 DEF Completed, Forward
  <2> QED BY <2>3, <2>4, <2>5
<1>3. (r.status = "completed" => \A i \in PlanStep : HasRun(r, i))'
  BY RunStays DEF SoundRow
<1> QED BY <1>1, <1>2, <1>3 DEF SoundRow

(* A copy goes on fitting its process when the job it has open, if it has  *)
(* one, is left alone.                                                     *)
LEMMA CopyStays ==
    ASSUME TypeOK, Forward, NEW l, NEW s, NEW r, CopyFits(l, s, r),
           l \in OpenLabels => jobs'[LastEntry(r).job] = jobs[LastEntry(r).job]
    PROVE  CopyFits(l, s, r)'
<1> SoundRow(r) /\ r \in PlanRow
  BY DEF CopyFits, SoundRow
<1>1. SoundRow(r)'
  BY RowStays
<1>2. \A i \in PlanStep : HasRun(r, i) => HasRun(r, i)'
  BY RunStays
<1>3. l \in OpenLabels => HoldsOpenJob(s, r)'
  BY DEF CopyFits, HoldsOpenJob, LastEntry
<1>4. l = "stopped" => HoldsStoppedJob(s, r)'
  <2> SUFFICES ASSUME l = "stopped", LastEntry(r).status = "completed"
               PROVE  HoldsStoppedJob(s, r)'
    BY DEF CopyFits, HoldsStoppedJob, LastEntry
  <2>1. HoldsStoppedJob(s, r)
    BY DEF CopyFits
  <2>2. LastEntry(r).job \in JobId
    BY <2>1, LastEntryTyped DEF HoldsStoppedJob
  <2> QED BY <2>1, <2>2 DEF HoldsStoppedJob, Completed, Forward, LastEntry
<1>5. StepFits(l, s)' /\ (l # "request" => AllOrNoneAsked(r))'
  BY DEF CopyFits, StepFits, AllOrNoneAsked
<1>6. /\ l = "start" => r.status = "approved"
      /\ l \in StepLabels \cup {"complete"} => r.status \in {"approved", "running"}
      /\ l \in StepLabels => \A i \in PlanStep : i < s => HasRun(r, i)'
      /\ l = "complete" => \A i \in PlanStep : HasRun(r, i)'
  BY <1>2 DEF CopyFits
<1> QED BY <1>1, <1>3, <1>4, <1>5, <1>6 DEF CopyFits

-----------------------------------------------------------------------------
(* A step of one process: what it has to establish.                        *)

OthersStand(p) ==
    \A q \in Proc \ {p} :
        /\ pc'[q] = pc[q] /\ plan'[q] = plan[q] /\ step'[q] = step[q] /\ pid'[q] = pid[q]
        /\ pc[q] \in OpenLabels => jobs'[LastEntry(plan[q]).job] = jobs[LastEntry(plan[q]).job]

(* The plans table is left alone or gets a sound row.                      *)
SavesSoundRow ==
    \A x \in Plan : plans'[x] # plans[x] => SoundRow(plans[x])' /\ AllOrNoneAsked(plans[x])'

(* The job of the last entry.                                            *)
OpenJob(r) == LastEntry(r).job

LEMMA ProcessSteps ==
    ASSUME PlansInv, TypeOK', WaitingJobs', Forward, NEW p \in Proc, OthersStand(p), SavesSoundRow,
           CopyFits(pc[p], step[p], plan[p])', (pc[p] # "idle" => pid[p] \in Plan)',
           pc'[p] \in OpenLabels =>
               \A q \in Proc \ {p} : pc[q] \in OpenLabels => OpenJob(plan'[p]) # OpenJob(plan[q])
    PROVE  PlansInv'
<1> TypeOK
  BY DEF PlansInv
<1>1. PlansSound'
  <2> SUFFICES ASSUME NEW x \in Plan PROVE (SoundRow(plans[x]) /\ AllOrNoneAsked(plans[x]))'
    BY DEF PlansSound
  <2>1. CASE plans'[x] # plans[x]
    BY <2>1 DEF SavesSoundRow
  <2>2. CASE plans'[x] = plans[x]
    <3>1. PICK r : r = plans[x]
      OBVIOUS
    <3>2. SoundRow(r) /\ AllOrNoneAsked(r)
      BY <3>1 DEF PlansInv, PlansSound
    <3>3. SoundRow(r)' /\ AllOrNoneAsked(r)'
      BY <3>2, RowStays DEF AllOrNoneAsked
    <3>4. plans'[x] = r
      BY <2>2, <3>1
    <3> QED BY <3>3, <3>4
  <2> QED BY <2>1, <2>2
<1>2. CopiesFit'
  <2> SUFFICES ASSUME NEW q \in Proc
               PROVE  (CopyFits(pc[q], step[q], plan[q]) /\ (pc[q] # "idle" => pid[q] \in Plan))'
    BY DEF CopiesFit
  <2>1. CASE q = p
    BY <2>1
  <2>2. CASE q # p
    <3>1. PICK l, s, r : l = pc[q] /\ s = step[q] /\ r = plan[q]
      OBVIOUS
    <3>2. CopyFits(l, s, r) /\ (l # "idle" => pid[q] \in Plan)
      BY <3>1 DEF PlansInv, CopiesFit
    <3>3. pc'[q] = l /\ step'[q] = s /\ plan'[q] = r /\ pid'[q] = pid[q]
          /\ (l \in OpenLabels => jobs'[LastEntry(r).job] = jobs[LastEntry(r).job])
      BY <2>2, <3>1 DEF OthersStand
    <3>4. CopyFits(l, s, r)'
      BY <3>2, <3>3, CopyStays
    <3> QED BY <3>2, <3>3, <3>4
  <2> QED BY <2>1, <2>2
<1>3. OpenApart'
  <2> SUFFICES ASSUME NEW q \in Proc, NEW o \in Proc, q # o, pc'[q] \in OpenLabels, pc'[o] \in OpenLabels
               PROVE  OpenJob(plan'[q]) # OpenJob(plan'[o])
    BY DEF OpenApart, OpenJob, LastEntry
  <2>1. CASE q # p /\ o # p
    BY <2>1 DEF OthersStand, PlansInv, OpenApart, OpenJob
  <2>2. CASE q = p
    BY <2>2 DEF OthersStand
  <2>3. CASE o = p
    BY <2>3 DEF OthersStand
  <2> QED BY <2>1, <2>2, <2>3
<1> QED BY <1>1, <1>2, <1>3 DEF PlansInv

(* What fits before a step fits after it, if the jobs and the approvals    *)
(* are left alone.                                                         *)
LEMMA SameService ==
    ASSUME UNCHANGED service
    PROVE  /\ \A r : SoundRow(r)' <=> SoundRow(r)
           /\ \A l, s, r : CopyFits(l, s, r)' <=> CopyFits(l, s, r)
           /\ WaitingJobs' <=> WaitingJobs
BY DEF service, SoundRow, CopyFits, WaitingJobs, Waiting, HasGrants, GatedEntry, FollowsStep, HasRun,
       Completed, HoldsOpenJob, HoldsStoppedJob, AllOrNoneAsked, StepFits, LastEntry

LEMMA AbsentPlanFits == CopyFits("idle", 1, AbsentPlan) /\ AllOrNoneAsked(AbsentPlan)
<1>1. DOMAIN AbsentPlan.jobs = {}
  BY AbsentPlanTyped
<1>2. SoundRow(AbsentPlan)
  BY <1>1, AbsentPlanTyped DEF SoundRow, HasGrants
<1>3. AllOrNoneAsked(AbsentPlan)
  BY DEF AbsentPlan, AllOrNoneAsked
<1> QED BY <1>2, <1>3 DEF CopyFits, StepFits, StepLabels, OpenLabels

LEMMA AbsentPlanFitsAfter == CopyFits("idle", 1, AbsentPlan)' /\ AllOrNoneAsked(AbsentPlan)'
<1>1. DOMAIN AbsentPlan.jobs = {}
  BY AbsentPlanTyped
<1>2. SoundRow(AbsentPlan)'
  BY <1>1, AbsentPlanTyped DEF SoundRow, HasGrants
<1>3. AllOrNoneAsked(AbsentPlan)'
  BY DEF AbsentPlan, AllOrNoneAsked
<1> QED BY <1>2, <1>3 DEF CopyFits, StepFits, StepLabels, OpenLabels

(* A step of a process that leaves the jobs and the approvals alone.       *)
LEMMA LocalSteps ==
    ASSUME PlansInv, TypeOK', UNCHANGED service, NEW p \in Proc,
           \A q \in Proc \ {p} : pc'[q] = pc[q] /\ plan'[q] = plan[q] /\ step'[q] = step[q] /\ pid'[q] = pid[q],
           \A x \in Plan : plans'[x] # plans[x] => SoundRow(plans'[x]) /\ AllOrNoneAsked(plans'[x]),
           CopyFits(pc'[p], step'[p], plan'[p]), pc'[p] # "idle" => pid'[p] \in Plan,
           pc'[p] \in OpenLabels => pc[p] \in OpenLabels /\ plan'[p] = plan[p]
    PROVE  PlansInv'
<1>1. Forward /\ WaitingJobs'
  BY ForwardUnlessServed, SameService DEF PlansInv
<1>2. OthersStand(p)
  BY DEF OthersStand, service
<1>3. SavesSoundRow
  <2> SUFFICES ASSUME NEW x \in Plan, plans'[x] # plans[x]
               PROVE  SoundRow(plans[x])' /\ AllOrNoneAsked(plans[x])'
    BY DEF SavesSoundRow
  <2>1. PICK r : r = plans'[x]
    OBVIOUS
  <2>2. SoundRow(r)' /\ AllOrNoneAsked(r)'
    BY <2>1, SameService DEF AllOrNoneAsked
  <2> QED BY <2>1, <2>2
<1>4. CopyFits(pc[p], step[p], plan[p])'
  <2>1. PICK l, s, r : l = pc'[p] /\ s = step'[p] /\ r = plan'[p]
    OBVIOUS
  <2>2. CopyFits(l, s, r)'
    BY <2>1, SameService
  <2> QED BY <2>1, <2>2
<1>5. pc'[p] \in OpenLabels =>
          \A q \in Proc \ {p} : pc[q] \in OpenLabels => OpenJob(plan'[p]) # OpenJob(plan[q])
  BY DEF PlansInv, OpenApart, OpenJob
<1> QED BY <1>1, <1>2, <1>3, <1>4, <1>5, ProcessSteps

LEMMA Returns ==
    ASSUME PlansInv, TypeOK', UNCHANGED service, NEW p \in Proc, Return(p),
           \A x \in Plan : plans'[x] # plans[x] => SoundRow(plans'[x]) /\ AllOrNoneAsked(plans'[x])
    PROVE  PlansInv'
<1>1. \A q \in Proc \ {p} : pc'[q] = pc[q] /\ plan'[q] = plan[q] /\ step'[q] = step[q] /\ pid'[q] = pid[q]
  BY DEF Return, Goto, PlansInv, TypeOK
<1>2. pc'[p] = "idle" /\ step'[p] = 1 /\ plan'[p] = AbsentPlan
  BY DEF Return, Goto, PlansInv, TypeOK
<1> QED BY <1>1, <1>2, AbsentPlanFits, LocalSteps DEF OpenLabels

-----------------------------------------------------------------------------
(* Types.                                                                  *)

LocalTypes ==
    /\ pc \in [Proc -> Label] /\ op \in [Proc -> Method] /\ pid \in [Proc -> Plan \cup {None}]
    /\ plan \in [Proc -> PlanRow] /\ step \in [Proc -> PlanStep \cup {StepCount + 1}]

ServiceTypes == jobs \in [JobId -> JobRow] /\ approvals \in [ApprovalId -> ApprovalRow]

LEMMA TypesSplit == TypeOK <=> ServiceTypes /\ LocalTypes /\ plans \in [Plan -> PlanRow]
BY DEF TypeOK, ServiceTypes, LocalTypes

LEMMA TypesSplitAfter == TypeOK' <=> ServiceTypes' /\ LocalTypes' /\ plans' \in [Plan -> PlanRow]
BY DEF TypeOK, ServiceTypes, LocalTypes

LEMMA StatusTyped ==
    ASSUME NEW r \in PlanRow, NEW status \in PlanStatus
    PROVE  [r EXCEPT !.status = status] \in PlanRow
BY DEF PlanRow

LEMMA AskedTyped ==
    ASSUME NEW r \in PlanRow, NEW i, NEW a \in ApprovalId
    PROVE  [r EXCEPT !.approval[i] = a] \in PlanRow
BY DEF PlanRow

LEMMA AppendTyped ==
    ASSUME NEW r \in PlanRow, NEW i \in PlanStep, NEW j \in JobId
    PROVE  [r EXCEPT !.jobs = Append(@, [step |-> i, job |-> j, status |-> "queued"])] \in PlanRow
<1> DEFINE Entry == [step: PlanStep, job: JobId, status: JobStatus]
<1> DEFINE e == [step |-> i, job |-> j, status |-> "queued"]
<1>1. e \in Entry
  BY DEF JobStatus
<1>2. r.jobs \in Seq(Entry)
  BY DEF PlanRow
<1>3. Append(r.jobs, e) \in Seq(Entry)
  <2> HIDE DEF Entry, e
  <2> QED BY <1>1, <1>2
<1> QED BY <1>3 DEF PlanRow

(* The copy after its last job came to rest.                               *)
WithStatus(e, status) == [e EXCEPT !.status = status]
Rested(r, status) == [r EXCEPT !.jobs[Len(r.jobs)].status = status]

LEMMA RestedRow ==
    ASSUME NEW r \in PlanRow, Len(r.jobs) > 0, NEW status \in JobStatus,
           NEW m, m = Rested(r, status)
    PROVE  /\ m \in PlanRow
           /\ m.status = r.status /\ m.gated = r.gated
           /\ m.approval = r.approval /\ Len(m.jobs) = Len(r.jobs)
           /\ DOMAIN m.jobs = DOMAIN r.jobs
           /\ \A k \in DOMAIN r.jobs :
                 m.jobs[k] =
                    IF k = Len(r.jobs) THEN WithStatus(r.jobs[k], status) ELSE r.jobs[k]
<1> DEFINE Entry == [step: PlanStep, job: JobId, status: JobStatus]
<1> DEFINE n == Len(r.jobs)
<1> DEFINE js == [r.jobs EXCEPT ![n].status = status]
<1>1. r.jobs \in Seq(Entry)
  BY DEF PlanRow
<1>2. m = [r EXCEPT !.jobs = js]
  BY DEF Rested
<1>3. n \in Nat \ {0} /\ DOMAIN r.jobs = 1..n /\ n \in DOMAIN r.jobs /\ \A k \in 1..n : r.jobs[k] \in Entry
  <2> HIDE DEF Entry
  <2> QED BY <1>1
<1>4. js = [k \in 1..n |-> IF k = n THEN WithStatus(r.jobs[k], status) ELSE r.jobs[k]]
  BY <1>3 DEF WithStatus
<1>5. \A k \in 1..n : WithStatus(r.jobs[k], status) \in Entry
  BY <1>3 DEF WithStatus
<1>6. js \in Seq(Entry) /\ Len(js) = n /\ DOMAIN js = 1..n
  <2> HIDE DEF Entry
  <2>1. js \in [1..n -> Entry]
    BY <1>3, <1>4, <1>5
  <2> QED BY <2>1, <1>3
<1>7. [r EXCEPT !.jobs = js] \in PlanRow
  <2> HIDE DEF js
  <2> QED BY <1>6 DEF PlanRow
<1>8. /\ [r EXCEPT !.jobs = js].status = r.status /\ [r EXCEPT !.jobs = js].gated = r.gated
      /\ [r EXCEPT !.jobs = js].approval = r.approval /\ [r EXCEPT !.jobs = js].jobs = js
  <2> HIDE DEF js
  <2> QED BY DEF PlanRow
<1> HIDE DEF js
<1> QED BY <1>2, <1>3, <1>4, <1>6, <1>7, <1>8

LEMMA ReturnTypes ==
    ASSUME LocalTypes, NEW p \in Proc, Return(p)
    PROVE  LocalTypes'
BY AbsentPlanTyped, FirstStep DEF LocalTypes, Return, Goto, Label, Method

LEMMA CallTypes ==
    ASSUME PlansInv, NEW p \in Proc, Call(p)
    PROVE  TypeOK'
<1> USE DEF Label, Method
<1>1. ServiceTypes /\ LocalTypes /\ plans \in [Plan -> PlanRow]
  BY TypesSplit DEF PlansInv
<1>2. ASSUME NEW ready \in BOOLEAN, NEW gated \in Gates PROVE Draft(ready, gated) \in PlanRow
  <2>1. gated \in SUBSET PlanStep
    BY PlanConstantsAssumption DEF PlanStep
  <2> QED BY <2>1, AbsentPlanTyped DEF Draft, PlanRow, PlanStatus
<1>3. ASSUME NEW m \in Method, NEW l \in Label, NEW x \in Plan, NEW r \in PlanRow, Begin(p, m, l, x, r)
      PROVE  TypeOK'
  <2>1. LocalTypes'
    BY <1>1, <1>3 DEF Begin, Goto, LocalTypes
  <2>2. ServiceTypes' /\ plans' \in [Plan -> PlanRow]
    BY <1>1, <1>3 DEF Begin, ServiceTypes, service
  <2> QED BY <2>1, <2>2, TypesSplitAfter
<1>4. PICK x \in Plan :
        \/ \E ready \in BOOLEAN, gated \in Gates :
             CreatePlan(p, x, ready, gated) \/ CreateApproved(p, x, ready, gated)
        \/ ApprovePlan(p, x) \/ GetPlan(p, x)
        \/ ExecuteOverApi(p, x) \/ ExecuteFromCli(p, x)
  BY DEF Call
<1>5. CASE \E ready \in BOOLEAN, gated \in Gates : CreatePlan(p, x, ready, gated)
  <2>1. LocalTypes' /\ ServiceTypes' /\ plans' \in [Plan -> PlanRow]
    BY <1>1, <1>2, <1>5 DEF CreatePlan, LocalTypes, ServiceTypes, locals, service
  <2> QED BY <2>1, TypesSplitAfter
<1>6. CASE \E ready \in BOOLEAN, gated \in Gates : CreateApproved(p, x, ready, gated)
  BY <1>2, <1>3, <1>6 DEF CreateApproved
<1>7. CASE ApprovePlan(p, x) \/ GetPlan(p, x)
  BY <1>1, <1>3, <1>7 DEF ApprovePlan, GetPlan
<1>8. CASE ExecuteOverApi(p, x) \/ ExecuteFromCli(p, x)
  BY <1>1, <1>3, <1>8, AbsentPlanTyped DEF ExecuteOverApi, ExecuteFromCli
<1> QED BY <1>4, <1>5, <1>6, <1>7, <1>8

LEMMA ApprovalStepTypes ==
    ASSUME PlansInv, NEW p \in Proc, ApprovalStep(p)
    PROVE  TypeOK'
<1> USE DEF Label, Method
<1>1. ServiceTypes /\ LocalTypes /\ plans \in [Plan -> PlanRow] /\ plan[p] \in PlanRow
  BY TypesSplit DEF PlansInv, TypeOK
<1>2. CASE RequestApproval(p)
  <2>1. LocalTypes'
    BY <1>1, <1>2, FreshApproval, AskedTyped DEF RequestApproval, LocalTypes
  <2>2. ServiceTypes' /\ plans' \in [Plan -> PlanRow]
    BY <1>1, <1>2, FreshApproval DEF RequestApproval, ServiceTypes, PendingApproval, ApprovalRow
  <2> QED BY <2>1, <2>2, TypesSplitAfter
<1>3. CASE RequestFails(p)
  BY <1>1, <1>3, ReturnTypes, TypesSplitAfter DEF RequestFails, service, ServiceTypes
<1>4. CASE Requested(p)
  <2>1. LocalTypes'
    BY <1>1, <1>4, StatusTyped DEF Requested, LocalTypes, Goto, PlanStatus
  <2> QED BY <1>1, <1>4, <2>1, TypesSplitAfter DEF Requested, service, ServiceTypes
<1>5. CASE SaveCreated(p) \/ SaveApproved(p)
  <2>1. LocalTypes'
    BY <1>1, <1>5, ReturnTypes DEF SaveCreated, SaveApproved
  <2> QED BY <1>1, <1>5, <2>1, TypesSplitAfter DEF SaveCreated, SaveApproved, SavePlan, service, ServiceTypes
<1>6. CASE GrantStep(p)
  <2> DEFINE i == Lowest(Ungranted(p))
             a == plan[p].approval[i]
  <2>1. i \in PlanStep
    <3>1. Ungranted(p) # {} /\ Ungranted(p) \subseteq PlanStep
      BY <1>1, <1>6 DEF GrantStep, Ungranted, PlanRow
    <3> QED BY <3>1, LowestOf, FirstStep
  <2>2. i + 1 \in PlanStep \cup {StepCount + 1}
    BY <2>1, PlanConstantsAssumption DEF PlanStep
  <2> HIDE DEF i, a
  <2>3. CASE approvals[a].status = "pending"
    <3>1. approvals' = [approvals EXCEPT ![a].status = "approved"]
          /\ step' = [step EXCEPT ![p] = i + 1] /\ UNCHANGED <<pc, op, pid, plan, jobs, plans>>
      BY <1>6, <2>3 DEF GrantStep, i, a
    <3>2. LocalTypes'
      BY <1>1, <2>2, <3>1 DEF LocalTypes
    <3>3. ServiceTypes' /\ plans' \in [Plan -> PlanRow]
      BY <1>1, <3>1 DEF ServiceTypes, ApprovalRow
    <3> QED BY <3>2, <3>3, TypesSplitAfter
  <2>4. CASE approvals[a].status # "pending"
    <3>1. Return(p) /\ UNCHANGED <<approvals, jobs, plans>>
      BY <1>6, <2>4 DEF GrantStep, i, a
    <3> QED BY <1>1, <3>1, ReturnTypes, TypesSplitAfter DEF ServiceTypes
  <2> QED BY <2>3, <2>4
<1>7. CASE AllGranted(p)
  <2>1. LocalTypes'
    BY <1>1, <1>7, FirstStep DEF AllGranted, LocalTypes, Goto
  <2> QED BY <1>1, <1>7, <2>1, TypesSplitAfter DEF AllGranted, service, ServiceTypes
<1>8. ASSUME NEW status, Proceed(p, status) PROVE LocalTypes'
  <2>1. AfterRefresh(p, status) \in Label
    BY DEF AfterRefresh
  <2>2. CASE AfterRefresh(p, status) = "idle"
    BY <1>1, <1>8, <2>2, ReturnTypes DEF Proceed
  <2>3. CASE AfterRefresh(p, status) # "idle"
    <3> HIDE DEF Label
    <3> QED BY <1>1, <1>8, <2>1, <2>3 DEF Proceed, Goto, LocalTypes
  <2> QED BY <2>2, <2>3
<1>9. CASE RefreshStatus(p)
  <2>1. Refreshed(plan[p]) \in PlanStatus
    BY DEF Refreshed, PlanStatus
  <2>2. LocalTypes'
    <3>1. CASE NeedsRefresh(plan[p])
      BY <1>1, <1>9, <2>1, <3>1, StatusTyped DEF RefreshStatus, LocalTypes, Goto
    <3>2. CASE ~NeedsRefresh(plan[p])
      BY <1>8, <1>9, <3>2 DEF RefreshStatus
    <3> QED BY <3>1, <3>2
  <2> QED BY <1>1, <1>9, <2>2, TypesSplitAfter DEF RefreshStatus, service, ServiceTypes
<1>10. CASE SaveRefreshed(p)
  <2>1. LocalTypes'
    BY <1>8, <1>10 DEF SaveRefreshed
  <2> QED BY <1>1, <1>10, <2>1, TypesSplitAfter DEF SaveRefreshed, SavePlan, service, ServiceTypes
<1> QED BY <1>2, <1>3, <1>4, <1>5, <1>6, <1>7, <1>9, <1>10 DEF ApprovalStep

LEMMA ExecutionStepTypes ==
    ASSUME PlansInv, NEW p \in Proc, ExecutionStep(p)
    PROVE  TypeOK'
<1> USE DEF Label, Method
<1>1. /\ ServiceTypes /\ LocalTypes /\ plans \in [Plan -> PlanRow] /\ plan[p] \in PlanRow
      /\ CopyFits(pc[p], step[p], plan[p]) /\ (pc[p] # "idle" => pid[p] \in Plan)
  BY TypesSplit DEF PlansInv, TypeOK, CopiesFit
<1>2. CASE Prepare(p)
  <2>1. LocalTypes'
    BY <1>1, <1>2 DEF Prepare, LocalTypes, Goto
  <2> QED BY <1>1, <1>2, <2>1, TypesSplitAfter DEF Prepare, service, ServiceTypes
<1>3. CASE StartPlan(p)
  <2>1. LocalTypes'
    BY <1>1, <1>3, AbsentPlanTyped DEF StartPlan, LocalTypes, Goto
  <2>2. plans' \in [Plan -> PlanRow]
    BY <1>1, <1>3, StatusTyped DEF StartPlan, SavePlan, PlanStatus
  <2> QED BY <1>1, <1>3, <2>1, <2>2, TypesSplitAfter DEF StartPlan, service, ServiceTypes
<1>4. CASE ExecuteInBackground(p) \/ LoadToRun(p) \/ StepFails(p)
  <2>1. LocalTypes'
    BY <1>1, <1>4 DEF ExecuteInBackground, LoadToRun, StepFails, LocalTypes, Goto
  <2> QED BY <1>1, <1>4, <2>1, TypesSplitAfter
          DEF ExecuteInBackground, LoadToRun, StepFails, service, ServiceTypes
<1>5. CASE CreateStepJob(p)
  <2>1. step[p] \in PlanStep /\ StepApproval(p) \in ApprovalId \cup {None}
    BY <1>1, <1>5 DEF CreateStepJob, CopyFits, StepFits, StepLabels, StepApproval, PlanRow
  <2>2. NextJob \in JobId
    BY <1>5, FreshJob DEF CreateStepJob
  <2>3. ServiceTypes'
    <3>1. jobs' \in [JobId -> JobRow]
      BY <1>1, <1>5, <2>1, <2>2 DEF CreateStepJob, ServiceTypes, JobRow, JobStatus
    <3>2. approvals' \in [ApprovalId -> ApprovalRow]
      BY <1>1, <1>5, <2>2 DEF CreateStepJob, ServiceTypes, ApprovalRow
    <3> QED BY <3>1, <3>2 DEF ServiceTypes
  <2>4. LocalTypes'
    <3> DEFINE r == [plan[p] EXCEPT !.jobs = Append(@, [step |-> step[p], job |-> NextJob, status |-> "queued"])]
    <3>1. r \in PlanRow
      BY <1>1, <2>1, <2>2, AppendTyped
    <3>2. plan' = [plan EXCEPT ![p] = r]
      BY <1>1, <1>5 DEF CreateStepJob, LocalTypes
    <3> HIDE DEF r
    <3>3. pc' = [pc EXCEPT ![p] = "created"] /\ UNCHANGED <<op, pid, step>>
      BY <1>5 DEF CreateStepJob, Goto
    <3> QED BY <1>1, <3>1, <3>2, <3>3 DEF LocalTypes
  <2> QED BY <1>1, <1>5, <2>3, <2>4, TypesSplitAfter DEF CreateStepJob
<1>6. ASSUME pc[p] = "process" PROVE Len(plan[p].jobs) > 0
  BY <1>1, <1>6 DEF CopyFits, OpenLabels, HoldsOpenJob
<1>7. ASSUME NEW status \in {"completed", "failed"}, ProcessStepJob(p, status) PROVE TypeOK'
  <2>1. Rested(plan[p], status) \in PlanRow
    BY <1>1, <1>6, <1>7, RestedRow DEF ProcessStepJob, JobStatus
  <2>2. plan' = [plan EXCEPT ![p] = Rested(plan[p], status)]
    BY <1>1, <1>7 DEF ProcessStepJob, LocalTypes, LastJob, Rested
  <2>3. LocalTypes'
    BY <1>1, <1>7, <2>1, <2>2 DEF ProcessStepJob, LocalTypes, Goto
  <2>4. ServiceTypes'
    BY <1>1, <1>7 DEF ProcessStepJob, ServiceTypes, JobRow, JobStatus
  <2> QED BY <1>1, <1>7, <2>3, <2>4, TypesSplitAfter DEF ProcessStepJob
<1>8. CASE StepJobWaits(p)
  <2>1. Rested(plan[p], "waiting_for_approval") \in PlanRow
    BY <1>1, <1>6, <1>8, RestedRow DEF StepJobWaits, JobStatus
  <2>2. plan' = [plan EXCEPT ![p] = Rested(plan[p], "waiting_for_approval")]
    BY <1>1, <1>8 DEF StepJobWaits, LocalTypes, LastJob, Rested
  <2>3. LocalTypes'
    BY <1>1, <1>8, <2>1, <2>2 DEF StepJobWaits, LocalTypes, Goto
  <2>4. ServiceTypes'
    <3>1. plan[p].jobs[LastJob(p)].job \in JobId
      BY <1>1, <1>6, <1>8, LastEntryTyped DEF StepJobWaits, LastJob, LastEntry
    <3>2. NextApproval \in ApprovalId
      BY <1>8, FreshApproval DEF StepJobWaits
    <3> QED BY <1>1, <1>8, <3>1, <3>2
            DEF StepJobWaits, ServiceTypes, JobRow, JobStatus, ApprovalRow, PendingApproval
  <2> QED BY <1>1, <1>8, <2>3, <2>4, TypesSplitAfter DEF StepJobWaits
<1>9. CASE RecordJob(p) \/ OutputMissing(p)
  <2>1. LocalTypes'
    BY <1>1, <1>9 DEF RecordJob, OutputMissing, LocalTypes, Goto
  <2> QED BY <1>1, <1>9, <2>1, TypesSplitAfter DEF RecordJob, OutputMissing, SavePlan, service, ServiceTypes
<1>10. CASE RecordStop(p)
  <2>1. step[p] \in PlanStep
    BY <1>1, <1>10 DEF RecordStop, CopyFits, StepFits, StepLabels
  <2>2. (IF step[p] < StepCount THEN step[p] + 1 ELSE step[p]) \in PlanStep
    BY <2>1, PlanConstantsAssumption DEF PlanStep
  <2>3. LocalTypes'
    BY <1>1, <1>10, <2>2 DEF RecordStop, LocalTypes, Goto
  <2> QED BY <1>1, <1>10, <2>3, TypesSplitAfter DEF RecordStop, SavePlan, service, ServiceTypes
<1>11. CASE FailPlan(p) \/ CompletePlan(p)
  <2>1. LocalTypes'
    BY <1>1, <1>11, ReturnTypes DEF FailPlan, CompletePlan
  <2>2. plans' \in [Plan -> PlanRow]
    BY <1>1, <1>11, StatusTyped DEF FailPlan, CompletePlan, SavePlan, PlanStatus
  <2> QED BY <1>1, <1>11, <2>1, <2>2, TypesSplitAfter DEF FailPlan, CompletePlan, service, ServiceTypes
<1> QED BY <1>2, <1>3, <1>4, <1>5, <1>7, <1>8, <1>9, <1>10, <1>11 DEF ExecutionStep

LEMMA TypesStay ==
    ASSUME PlansInv, [Next]_vars
    PROVE  TypeOK'
<1>1. ServiceTypes /\ LocalTypes /\ plans \in [Plan -> PlanRow]
  BY TypesSplit DEF PlansInv
<1>2. ASSUME NEW p \in Proc, Die(p) PROVE TypeOK'
  BY <1>1, <1>2, ReturnTypes, TypesSplitAfter DEF Die, service, ServiceTypes
<1>3. ASSUME NEW a \in ApprovalId, DecideApproval(a) PROVE TypeOK'
  <2>1. PICK decision \in {"approved", "rejected"}, status \in JobStatus : Decide(a, decision, status)
    BY <1>3 DEF DecideApproval, JobStatus
  <2>2. ServiceTypes'
    BY <1>1, <2>1 DEF Decide, ServiceTypes, JobRow, ApprovalRow
  <2>3. LocalTypes' /\ plans' \in [Plan -> PlanRow]
    BY <1>1, <2>1 DEF Decide, LocalTypes, locals
  <2> QED BY <2>2, <2>3, TypesSplitAfter
<1>4. CASE UNCHANGED vars
  BY <1>1, <1>4, TypesSplitAfter DEF vars, locals, service, ServiceTypes, LocalTypes
<1> QED BY <1>2, <1>3, <1>4, CallTypes, ApprovalStepTypes, ExecutionStepTypes DEF Next, Step

-----------------------------------------------------------------------------
(* Every step keeps the invariant.                                         *)

LEMMA CopyOf ==
    ASSUME PlansInv, NEW p \in Proc
    PROVE  /\ CopyFits(pc[p], step[p], plan[p]) /\ SoundRow(plan[p]) /\ plan[p] \in PlanRow
           /\ StepFits(pc[p], step[p]) /\ (pc[p] # "idle" => pid[p] \in Plan)
BY DEF PlansInv, CopiesFit, CopyFits, SoundRow

LEMMA DraftSound ==
    ASSUME NEW ready \in BOOLEAN, NEW gated \in Gates
    PROVE  SoundRow(Draft(ready, gated)) /\ AllOrNoneAsked(Draft(ready, gated))
<1> DEFINE r == Draft(ready, gated)
<1>1. gated \in SUBSET PlanStep
  BY PlanConstantsAssumption DEF PlanStep
<1>2. r \in PlanRow
  BY <1>1, AbsentPlanTyped DEF Draft, PlanRow, PlanStatus
<1>3. r.status = "draft" /\ r.jobs = <<>> /\ \A i \in PlanStep : r.approval[i] = None
  BY AbsentPlanTyped DEF Draft, PlanRow
<1>4. DOMAIN r.jobs = {}
  BY <1>3
<1> HIDE DEF r
<1>5. SoundRow(r)
  BY <1>2, <1>3, <1>4 DEF SoundRow, HasGrants
<1> QED BY <1>3, <1>5 DEF AllOrNoneAsked, r

LEMMA CallSteps ==
    ASSUME PlansInv, TypeOK', NEW p \in Proc, Call(p)
    PROVE  PlansInv'
<1>1. pc \in [Proc -> Label] /\ pid \in [Proc -> Plan \cup {None}] /\ plan \in [Proc -> PlanRow]
  BY DEF PlansInv, TypeOK
<1>2. PICK x \in Plan :
        \/ \E ready \in BOOLEAN, gated \in Gates :
             CreatePlan(p, x, ready, gated) \/ CreateApproved(p, x, ready, gated)
        \/ ApprovePlan(p, x) \/ GetPlan(p, x)
        \/ ExecuteOverApi(p, x) \/ ExecuteFromCli(p, x)
  BY DEF Call
<1>3. pc[p] = "idle" => step[p] = 1
  BY CopyOf DEF StepFits, StepLabels
<1>4. ASSUME NEW m, NEW l \in {"request", "refresh", "prepare", "load"}, NEW r, SoundRow(r), AllOrNoneAsked(r),
             Begin(p, m, l, x, r)
      PROVE  PlansInv'
  <2>1. \A q \in Proc \ {p} : pc'[q] = pc[q] /\ plan'[q] = plan[q] /\ step'[q] = step[q] /\ pid'[q] = pid[q]
    BY <1>1, <1>4 DEF Begin, Goto
  <2>2. pc'[p] = l /\ plan'[p] = r /\ step'[p] = 1 /\ pid'[p] = x
    BY <1>1, <1>3, <1>4 DEF Begin, Goto
  <2>3. CopyFits(l, 1, r)
    BY <1>4 DEF CopyFits, StepFits, StepLabels, OpenLabels
  <2>4. UNCHANGED service /\ plans' = plans
    BY <1>4 DEF Begin
  <2> QED BY <2>1, <2>2, <2>3, <2>4, LocalSteps DEF OpenLabels
<1>5. SoundRow(plans[x]) /\ AllOrNoneAsked(plans[x])
  BY DEF PlansInv, PlansSound
<1>6. CASE \E ready \in BOOLEAN, gated \in Gates : CreatePlan(p, x, ready, gated)
  <2>1. PICK ready \in BOOLEAN, gated \in Gates : CreatePlan(p, x, ready, gated)
    BY <1>6
  <2>2. \A y \in Plan : plans'[y] # plans[y] => SoundRow(plans'[y]) /\ AllOrNoneAsked(plans'[y])
    BY <2>1, DraftSound DEF CreatePlan, PlansInv, TypeOK
  <2>3. UNCHANGED <<locals, service>> /\ pc[p] = "idle"
    BY <2>1 DEF CreatePlan
  <2> QED BY <2>2, <2>3, CopyOf, LocalSteps DEF locals, OpenLabels
<1>7. CASE \E ready \in BOOLEAN, gated \in Gates : CreateApproved(p, x, ready, gated)
  BY <1>4, <1>7, DraftSound DEF CreateApproved
<1>8. CASE ApprovePlan(p, x) \/ GetPlan(p, x)
  BY <1>4, <1>5, <1>8 DEF ApprovePlan, GetPlan
<1>9. CASE ExecuteOverApi(p, x) \/ ExecuteFromCli(p, x)
  <2>1. SoundRow(AbsentPlan) /\ AllOrNoneAsked(AbsentPlan)
    BY AbsentPlanFits DEF CopyFits
  <2> QED BY <1>4, <1>9, <2>1 DEF ExecuteOverApi, ExecuteFromCli
<1> QED BY <1>2, <1>6, <1>7, <1>8, <1>9

(* Saving a sound copy.                                                    *)
LEMMA Saves ==
    ASSUME PlansInv, NEW p \in Proc, pc[p] # "idle", NEW r, SavePlan(p, r), SoundRow(r), AllOrNoneAsked(r)
    PROVE  \A x \in Plan : plans'[x] # plans[x] => SoundRow(plans'[x]) /\ AllOrNoneAsked(plans'[x])
BY CopyOf DEF SavePlan, PlansInv, TypeOK

(* A process moves to another label, step and copy.                        *)
LEMMA MovesOn ==
    ASSUME PlansInv, TypeOK', UNCHANGED <<pid, service>>, NEW p \in Proc, pc[p] # "idle",
           NEW l, NEW s, NEW r, CopyFits(l, s, r), l \in OpenLabels => pc[p] \in OpenLabels /\ r = plan[p],
           pc' = [pc EXCEPT ![p] = l], step' = [step EXCEPT ![p] = s], plan' = [plan EXCEPT ![p] = r],
           \A x \in Plan : plans'[x] # plans[x] => SoundRow(plans'[x]) /\ AllOrNoneAsked(plans'[x])
    PROVE  PlansInv'
<1>1. \A q \in Proc \ {p} : pc'[q] = pc[q] /\ plan'[q] = plan[q] /\ step'[q] = step[q] /\ pid'[q] = pid[q]
  BY DEF PlansInv, TypeOK
<1>2. pc'[p] = l /\ plan'[p] = r /\ step'[p] = s /\ pid'[p] \in Plan
  BY CopyOf DEF PlansInv, TypeOK
<1> QED BY <1>1, <1>2, LocalSteps

(* Local variables that are left alone, as MovesOn wants them.             *)
LEMMA Unmoved ==
    ASSUME PlansInv, NEW p \in Proc
    PROVE  /\ pc = [pc EXCEPT ![p] = pc[p]]
           /\ step = [step EXCEPT ![p] = step[p]] /\ plan = [plan EXCEPT ![p] = plan[p]]
BY DEF PlansInv, TypeOK

(* Changing the status of a copy.                                          *)
LEMMA NewStatus ==
    ASSUME NEW r, SoundRow(r), NEW status \in PlanStatus,
           status \in {"approved", "running", "completed"} =>
               \A i \in r.gated : r.approval[i] # None /\ approvals[r.approval[i]].status = "approved",
           status = "completed" => \A i \in PlanStep : HasRun(r, i)
    PROVE  SoundRow([r EXCEPT !.status = status])
<1> DEFINE n == [r EXCEPT !.status = status]
<1>1. n \in PlanRow /\ n.status = status /\ n.gated = r.gated /\ n.approval = r.approval /\ n.jobs = r.jobs
  BY StatusTyped DEF SoundRow, PlanRow
<1> HIDE DEF n
<1>2. HasGrants(n)
  BY <1>1 DEF HasGrants
<1>3. \A k \in DOMAIN n.jobs :
         jobs[n.jobs[k].job].status # "absent" /\ GatedEntry(n, n.jobs[k]) /\ FollowsStep(n, k)
  BY <1>1 DEF SoundRow, GatedEntry, FollowsStep
<1>4. n.status = "completed" => \A i \in PlanStep : HasRun(n, i)
  BY <1>1 DEF HasRun
<1> QED BY <1>1, <1>2, <1>3, <1>4 DEF SoundRow, n

LEMMA RequestKeepsInv ==
    ASSUME PlansInv, TypeOK', NEW p \in Proc, RequestApproval(p)
    PROVE  PlansInv'
<1> DEFINE i == Lowest(Unasked(p))
           n == [plan[p] EXCEPT !.approval[i] = NextApproval]
<1>1. PICK b : b = NextApproval
  OBVIOUS
<1>2. /\ b \in ApprovalId /\ approvals[b].status = "absent" /\ b # None
      /\ approvals' = [approvals EXCEPT ![b] = [status |-> "pending", job |-> None]] /\ jobs' = jobs
      /\ UNCHANGED <<plans, pc, op, pid, step>> /\ pc[p] = "request" /\ Unasked(p) # {}
  BY <1>1, FreshApproval, PlanConstantsAssumption DEF RequestApproval, PendingApproval
<1>3. approvals \in [ApprovalId -> ApprovalRow] /\ jobs \in [JobId -> JobRow] /\ plan \in [Proc -> PlanRow]
  BY DEF PlansInv, TypeOK
<1>4. Forward
  BY <1>2, <1>3 DEF Forward
<1>5. \A a \in ApprovalId : Waiting(a)' => Waiting(a) /\ approvals'[a] = approvals[a]
  BY <1>2, <1>3 DEF Waiting
<1>6. WaitingJobs'
  BY <1>2, <1>5 DEF PlansInv, WaitingJobs
<1>7. i \in plan[p].gated /\ plan[p].approval[i] = None /\ i \in PlanStep
  <2>1. Unasked(p) \in SUBSET Nat
    BY <1>3, FirstStep DEF Unasked, PlanRow
  <2>2. i \in Unasked(p)
    BY <1>2, <2>1, LowestOf
  <2> QED BY <1>3, <2>2 DEF Unasked, PlanRow
<1>8. plan' = [plan EXCEPT ![p] = n]
  BY <1>3 DEF RequestApproval
<1>9. /\ n \in PlanRow /\ n.status = plan[p].status /\ n.gated = plan[p].gated /\ n.jobs = plan[p].jobs
  BY <1>1, <1>2, <1>3, AskedTyped DEF PlanRow
<1> HIDE DEF i, n
<1>10. PICK r, m : r = plan[p] /\ m = n
  OBVIOUS
<1>11. r \in PlanRow /\ SoundRow(r) /\ step[p] = 1
  BY <1>2, <1>10, CopyOf DEF StepFits, StepLabels
<1>12. SoundRow(r)'
  BY <1>4, <1>11, RowStays DEF PlansInv
<1>13. r.status \notin {"approved", "running", "completed"}
  BY <1>7, <1>10, <1>11 DEF SoundRow, HasGrants
<1>14. SoundRow(m)'
  <2>1. HasGrants(m)' /\ m \in PlanRow /\ (m.status # "completed")'
    BY <1>9, <1>10, <1>13 DEF HasGrants
  <2>2. \A k \in DOMAIN m.jobs :
           (jobs[m.jobs[k].job].status # "absent" /\ GatedEntry(m, m.jobs[k]) /\ FollowsStep(m, k))'
    <3> SUFFICES ASSUME NEW k \in DOMAIN r.jobs
                 PROVE  (jobs[r.jobs[k].job].status # "absent" /\ GatedEntry(m, r.jobs[k]) /\ FollowsStep(m, k))'
      BY <1>9, <1>10
    <3>1. (jobs[r.jobs[k].job].status # "absent" /\ GatedEntry(r, r.jobs[k]) /\ FollowsStep(r, k))'
      BY <1>12 DEF SoundRow
    <3>2. GatedEntry(m, r.jobs[k])'
      BY <1>9, <1>10, <3>1 DEF GatedEntry
    <3>3. FollowsStep(m, k)'
      BY <1>9, <1>10, <3>1 DEF FollowsStep
    <3> QED BY <3>1, <3>2, <3>3
  <2> QED BY <2>1, <2>2 DEF SoundRow
<1>15. CopyFits("request", 1, m)'
  BY <1>14 DEF CopyFits, StepFits, StepLabels, OpenLabels
<1>16. pc'[p] = "request" /\ step'[p] = 1 /\ plan'[p] = m /\ pid'[p] \in Plan
  BY <1>2, <1>3, <1>8, <1>10, <1>11, CopyOf
<1>17. OthersStand(p)
  BY <1>2, <1>3, <1>8 DEF OthersStand
<1> QED BY <1>2, <1>4, <1>6, <1>15, <1>16, <1>17, ProcessSteps DEF SavesSoundRow, OpenLabels

LEMMA GrantKeepsInv ==
    ASSUME PlansInv, TypeOK', NEW p \in Proc, GrantStep(p)
    PROVE  PlansInv'
<1> DEFINE i == Lowest(Ungranted(p))
           b == plan[p].approval[i]
<1>1. pc[p] = "grant" /\ Ungranted(p) # {} /\ UNCHANGED <<jobs, plans>>
  BY DEF GrantStep
<1>2. i \in PlanStep
  <2>1. Ungranted(p) # {} /\ Ungranted(p) \subseteq PlanStep
    BY <1>1, CopyOf DEF Ungranted, PlanRow
  <2> QED BY <2>1, LowestOf, FirstStep
<1> HIDE DEF i, b
<1>3. CASE approvals[b].status # "pending"
  <2>1. Return(p) /\ UNCHANGED approvals
    BY <1>3 DEF GrantStep, i, b
  <2> QED BY <1>1, <2>1, Returns DEF service
<1>4. CASE approvals[b].status = "pending"
  <2>1. approvals' = [approvals EXCEPT ![b].status = "approved"]
        /\ step' = [step EXCEPT ![p] = i + 1] /\ UNCHANGED <<pc, op, pid, plan>>
    BY <1>4 DEF GrantStep, i, b
  <2>2. approvals \in [ApprovalId -> ApprovalRow] /\ step \in [Proc -> PlanStep \cup {StepCount + 1}]
    BY DEF PlansInv, TypeOK
  <2>3. Forward
    BY <1>1, <2>1, <2>2 DEF Forward, ApprovalRow
  <2>4. \A a \in ApprovalId : Waiting(a)' => Waiting(a) /\ approvals'[a] = approvals[a]
    BY <2>1, <2>2 DEF Waiting, ApprovalRow
  <2>5. WaitingJobs'
    BY <1>1, <2>4 DEF PlansInv, WaitingJobs
  <2>6. PICK r, t : r = plan[p] /\ t = i + 1
    OBVIOUS
  <2>7. t \in PlanStep \cup {StepCount + 1}
    BY <1>2, <2>6, PlanConstantsAssumption DEF PlanStep
  <2>8. CopyFits("grant", t, r)
    BY <1>1, <2>6, <2>7, CopyOf DEF CopyFits, StepFits, StepLabels, OpenLabels
  <2>9. CopyFits("grant", t, r)'
    BY <2>3, <2>8, CopyStays DEF PlansInv, OpenLabels
  <2>10. pc'[p] = "grant" /\ step'[p] = t /\ plan'[p] = r /\ pid'[p] \in Plan
    BY <1>1, <2>1, <2>2, <2>6, CopyOf
  <2>11. OthersStand(p)
    BY <1>1, <2>1, <2>2 DEF OthersStand
  <2> QED BY <1>1, <2>3, <2>5, <2>9, <2>10, <2>11, ProcessSteps DEF SavesSoundRow, OpenLabels
<1> QED BY <1>3, <1>4

LEMMA ApprovalSteps ==
    ASSUME PlansInv, TypeOK', NEW p \in Proc, ApprovalStep(p)
    PROVE  PlansInv'
<1> DEFINE l == pc[p]
           s == step[p]
           r == plan[p]
<1>1. CopyFits(l, s, r) /\ SoundRow(r) /\ r \in PlanRow /\ StepFits(l, s)
  BY CopyOf
<1>2. step = [step EXCEPT ![p] = s] /\ plan = [plan EXCEPT ![p] = r]
  BY Unmoved
<1>3. CASE RequestFails(p)
  BY <1>3, Returns DEF RequestFails
<1>4. CASE Requested(p)
  <2> DEFINE n == [r EXCEPT !.status = IF r.gated = {} THEN "approved" ELSE "waiting_for_approval"]
             m == IF op[p] = "create" THEN "create" ELSE "grant"
  <2>1. l = "request" /\ Unasked(p) = {} /\ UNCHANGED <<plans, op, pid, step, service>>
    BY <1>4 DEF Requested
  <2>2. pc' = [pc EXCEPT ![p] = m] /\ plan' = [plan EXCEPT ![p] = n]
    BY <1>4 DEF Requested, Goto, PlansInv, TypeOK
  <2>3. SoundRow(n)
    BY <1>1, NewStatus DEF PlanStatus
  <2>4. AllOrNoneAsked(n)
    BY <1>1, <2>1 DEF AllOrNoneAsked, Unasked, PlanRow
  <2>5. s = 1
    BY <1>1, <2>1 DEF StepFits, StepLabels
  <2> HIDE DEF n
  <2>6. CopyFits(m, s, n)
    BY <2>3, <2>4, <2>5, FirstStep DEF CopyFits, StepFits, StepLabels, OpenLabels
  <2>7. m \notin OpenLabels /\ l # "idle"
    BY <2>1 DEF OpenLabels
  <2> HIDE DEF l, s, r, m
  <2> QED BY <1>2, <2>1, <2>2, <2>6, <2>7, MovesOn DEF l
<1>5. CASE SaveCreated(p) \/ SaveApproved(p)
  <2>1. SavePlan(p, r) /\ Return(p) /\ UNCHANGED service /\ l \in {"create", "approve"}
    BY <1>5 DEF SaveCreated, SaveApproved
  <2>2. AllOrNoneAsked(r)
    BY <1>1, <2>1 DEF CopyFits
  <2> QED BY <1>1, <2>1, <2>2, Saves, Returns
<1>6. CASE AllGranted(p)
  <2>1. l = "grant" /\ pc' = [pc EXCEPT ![p] = "refresh"] /\ step' = [step EXCEPT ![p] = 1]
        /\ UNCHANGED <<plans, op, pid, plan, service>>
    BY <1>6 DEF AllGranted, Goto
  <2>2. CopyFits("refresh", 1, r)
    BY <1>1, <2>1 DEF CopyFits, StepFits, StepLabels, OpenLabels
  <2> QED BY <1>2, <2>1, <2>2, MovesOn DEF OpenLabels
<1>7. ASSUME l \in {"refresh", "save"}, Proceed(p, r.status), UNCHANGED service,
             \A x \in Plan : plans'[x] # plans[x] => SoundRow(plans'[x]) /\ AllOrNoneAsked(plans'[x])
      PROVE  PlansInv'
  <2> DEFINE m == AfterRefresh(p, r.status)
  <2>1. s = 1 /\ AllOrNoneAsked(r)
    BY <1>1, <1>7 DEF StepFits, StepLabels, CopyFits
  <2>2. CASE m = "idle"
    BY <1>7, <2>2, Returns DEF Proceed
  <2>3. CASE m # "idle"
    <3>1. pc' = [pc EXCEPT ![p] = m] /\ UNCHANGED <<op, pid, plan, step>>
      BY <1>7, <2>3 DEF Proceed, Goto
    <3>2. \/ m = "approve"
          \/ m = "start" /\ r.status = "approved"
          \/ m = "step" /\ r.status \in {"approved", "running"}
      BY <2>3 DEF AfterRefresh
    <3>3. \A i \in PlanStep : ~(i < 1)
      BY DEF PlanStep
    <3>4. CopyFits(m, s, r)
      BY <1>1, <2>1, <3>2, <3>3, FirstStep DEF CopyFits, StepFits, StepLabels, OpenLabels
    <3>5. m \notin OpenLabels /\ l # "idle"
      BY <1>7, <3>2 DEF OpenLabels
    <3> HIDE DEF m
    <3> QED BY <1>2, <1>7, <3>1, <3>4, <3>5, MovesOn
  <2> QED BY <2>2, <2>3
<1>8. CASE RefreshStatus(p)
  <2>1. l = "refresh" /\ UNCHANGED <<plans, service>>
    BY <1>8 DEF RefreshStatus
  <2>2. CASE ~NeedsRefresh(r)
    BY <1>7, <1>8, <2>1, <2>2 DEF RefreshStatus
  <2>3. CASE NeedsRefresh(r)
    <3> DEFINE n == [r EXCEPT !.status = Refreshed(r)]
    <3>1. pc' = [pc EXCEPT ![p] = "save"] /\ plan' = [plan EXCEPT ![p] = n] /\ UNCHANGED <<op, pid, step>>
      BY <1>8, <2>3 DEF RefreshStatus, Goto, PlansInv, TypeOK
    <3>2. AllOrNoneAsked(r) /\ s = 1
      BY <1>1, <2>1 DEF CopyFits, StepFits, StepLabels
    <3>3. \A i \in r.gated : r.approval[i] # None
      BY <2>3, <3>2 DEF NeedsRefresh, AskedSteps, AllOrNoneAsked
    <3>4. r.gated \subseteq AskedSteps(r)
      BY <1>1, <3>3 DEF AskedSteps, PlanRow
    <3>5. Refreshed(r) \in {"rejected", "approved", "waiting_for_approval"}
      BY DEF Refreshed
    <3>6. Refreshed(r) = "approved" => \A i \in r.gated : approvals[r.approval[i]].status = "approved"
      BY <3>4 DEF Refreshed, Granted
    <3>7. SoundRow(n)
      BY <1>1, <3>3, <3>5, <3>6, NewStatus DEF PlanStatus
    <3>8. AllOrNoneAsked(n)
      BY <1>1, <3>2 DEF AllOrNoneAsked, PlanRow
    <3> HIDE DEF n
    <3>9. CopyFits("save", s, n)
      BY <3>2, <3>7, <3>8 DEF CopyFits, StepFits, StepLabels, OpenLabels
    <3> QED BY <1>2, <2>1, <3>1, <3>9, MovesOn DEF OpenLabels
  <2> QED BY <2>2, <2>3
<1>9. CASE SaveRefreshed(p)
  <2>1. l = "save" /\ SavePlan(p, r) /\ Proceed(p, r.status) /\ UNCHANGED service
    BY <1>9 DEF SaveRefreshed
  <2>2. AllOrNoneAsked(r)
    BY <1>1, <2>1 DEF CopyFits
  <2> QED BY <1>1, <1>7, <2>1, <2>2, Saves
<1> QED BY <1>3, <1>4, <1>5, <1>6, <1>8, <1>9, RequestKeepsInv, GrantKeepsInv DEF ApprovalStep

(* create_job for a step: the copy gets an entry for a job nobody knows.   *)
LEMMA AppendedRow ==
    ASSUME NEW r \in PlanRow, NEW i \in PlanStep, NEW j \in JobId,
           NEW n, n = [r EXCEPT !.jobs = Append(@, [step |-> i, job |-> j, status |-> "queued"])]
    PROVE  /\ n \in PlanRow /\ n.status = r.status /\ n.gated = r.gated /\ n.approval = r.approval
           /\ Len(n.jobs) = Len(r.jobs) + 1 /\ DOMAIN n.jobs = 1..(Len(r.jobs) + 1)
           /\ \A k \in DOMAIN r.jobs : n.jobs[k] = r.jobs[k]
           /\ LastEntry(n) = [step |-> i, job |-> j, status |-> "queued"]
<1> DEFINE Entry == [step: PlanStep, job: JobId, status: JobStatus]
           e == [step |-> i, job |-> j, status |-> "queued"]
<1>1. e \in Entry
  BY DEF JobStatus
<1>2. r.jobs \in Seq(Entry)
  BY DEF PlanRow
<1>3. n = [r EXCEPT !.jobs = Append(r.jobs, e)] /\ n \in PlanRow
  BY AppendTyped
<1> HIDE DEF Entry, e
<1>4. /\ Len(Append(r.jobs, e)) = Len(r.jobs) + 1 /\ Len(r.jobs) \in Nat
      /\ DOMAIN r.jobs = 1..Len(r.jobs) /\ DOMAIN Append(r.jobs, e) = 1..(Len(r.jobs) + 1)
      /\ \A k \in DOMAIN r.jobs : Append(r.jobs, e)[k] = r.jobs[k]
      /\ Append(r.jobs, e)[Len(r.jobs) + 1] = e
  BY <1>1, <1>2
<1>5. n.jobs = Append(r.jobs, e) /\ n.status = r.status /\ n.gated = r.gated /\ n.approval = r.approval
  BY <1>3 DEF PlanRow
<1>6. LastEntry(n) = e
  BY <1>4, <1>5 DEF LastEntry
<1> QED BY <1>3, <1>4, <1>5, <1>6 DEF e

LEMMA CreateJobKeepsInv ==
    ASSUME PlansInv, TypeOK', NEW p \in Proc, CreateStepJob(p)
    PROVE  PlansInv'
<1>1. PICK r, i, j, b : r = plan[p] /\ i = step[p] /\ j = NextJob /\ b = r.approval[i]
  OBVIOUS
<1>2. PICK n : n = [r EXCEPT !.jobs = Append(@, [step |-> i, job |-> j, status |-> "queued"])]
  OBVIOUS
<1>3. /\ jobs \in [JobId -> JobRow] /\ approvals \in [ApprovalId -> ApprovalRow]
      /\ pc \in [Proc -> Label] /\ plan \in [Proc -> PlanRow] /\ r \in PlanRow /\ SoundRow(r)
  BY <1>1, CopyOf DEF PlansInv, TypeOK
<1>4. /\ pc[p] = "step" /\ (b # None => approvals[b].status = "approved")
      /\ j \in JobId /\ jobs[j].status = "absent"
      /\ jobs' = [jobs EXCEPT ![j] = [status |-> "queued", approval |-> b]]
      /\ approvals' = [a \in ApprovalId |-> IF a = b THEN [approvals[a] EXCEPT !.job = j] ELSE approvals[a]]
      /\ pc' = [pc EXCEPT ![p] = "created"] /\ UNCHANGED <<plans, op, pid, step>>
  BY <1>1, FreshJob DEF CreateStepJob, MayCreate, StepApproval, Goto
<1>5. plan' = [plan EXCEPT ![p] = n]
  BY <1>1, <1>2, <1>3 DEF CreateStepJob
<1>6. CopyFits("step", i, r) /\ i \in PlanStep /\ pid[p] \in Plan
  BY <1>1, <1>4, CopyOf DEF StepFits, StepLabels
<1>7. b \in ApprovalId \cup {None} /\ None \notin ApprovalId
  BY <1>1, <1>3, <1>6, PlanConstantsAssumption DEF PlanRow
<1>8. Forward
  BY <1>3, <1>4 DEF Forward, ApprovalRow
<1>9. \A a \in ApprovalId : Waiting(a)' => Waiting(a) /\ approvals'[a] = approvals[a]
  BY <1>3, <1>4, <1>7 DEF Waiting, ApprovalRow
<1>10. WaitingJobs'
  <2>1. \A a \in ApprovalId : Waiting(a) => approvals[a].job \in JobId /\ approvals[a].job # j
    BY <1>3, <1>4 DEF Waiting, ApprovalRow, PlansInv, WaitingJobs
  <2>2. \A a \in ApprovalId : Waiting(a)' => jobs'[approvals[a].job] = jobs[approvals[a].job]
    BY <1>3, <1>4, <1>9, <2>1
  <2>3. ASSUME NEW a \in ApprovalId, Waiting(a)'
        PROVE  jobs'[approvals'[a].job].status = "waiting_for_approval"
    BY <1>9, <2>2, <2>3 DEF PlansInv, WaitingJobs
  <2>4. ASSUME NEW a \in ApprovalId, NEW c \in ApprovalId, Waiting(a)', Waiting(c)',
               approvals'[a].job = approvals'[c].job
        PROVE  a = c
    BY <1>9, <2>4 DEF PlansInv, WaitingJobs
  <2> QED BY <2>3, <2>4 DEF WaitingJobs
<1>11. /\ n \in PlanRow /\ n.status = r.status /\ n.gated = r.gated /\ n.approval = r.approval
       /\ Len(n.jobs) = Len(r.jobs) + 1 /\ DOMAIN n.jobs = 1..(Len(r.jobs) + 1)
       /\ \A k \in DOMAIN r.jobs : n.jobs[k] = r.jobs[k]
       /\ LastEntry(n) = [step |-> i, job |-> j, status |-> "queued"]
       /\ DOMAIN r.jobs = 1..Len(r.jobs) /\ Len(r.jobs) \in Nat
  BY <1>2, <1>3, <1>4, <1>6, AppendedRow, EntryTyped
<1>12. SoundRow(r)'
  BY <1>3, <1>8, RowStays DEF PlansInv
<1>13. ASSUME NEW s \in PlanStep, HasRun(r, s) PROVE HasRun(n, s)'
  <2>1. HasRun(r, s)'
    BY <1>3, <1>8, <1>13, RunStays
  <2> QED BY <1>11, <2>1 DEF HasRun
<1>14. r.status \in {"approved", "running"} /\ \A s \in PlanStep : s < i => HasRun(r, s)
  BY <1>6 DEF CopyFits, StepLabels
<1>15. SoundRow(n)'
  <2>1. HasGrants(n)' /\ n.status # "completed"
    BY <1>11, <1>12, <1>14 DEF SoundRow, HasGrants
  <2>2. ASSUME NEW k \in DOMAIN n.jobs
        PROVE  (jobs[n.jobs[k].job].status # "absent" /\ GatedEntry(n, n.jobs[k]) /\ FollowsStep(n, k))'
    <3>1. CASE k \in DOMAIN r.jobs
      <4>1. (jobs[r.jobs[k].job].status # "absent" /\ GatedEntry(r, r.jobs[k]) /\ FollowsStep(r, k))'
        BY <1>12, <3>1 DEF SoundRow
      <4>2. n.jobs[k] = r.jobs[k]
        BY <1>11, <3>1
      <4>3. FollowsStep(n, k)'
        BY <1>11, <4>1, <4>2 DEF FollowsStep
      <4>4. GatedEntry(n, n.jobs[k])'
        BY <1>11, <4>1, <4>2 DEF GatedEntry
      <4> QED BY <4>1, <4>2, <4>3, <4>4
    <3>2. CASE k \notin DOMAIN r.jobs
      <4>1. k = Len(r.jobs) + 1 /\ n.jobs[k] = [step |-> i, job |-> j, status |-> "queued"]
        BY <1>11, <2>2, <3>2 DEF LastEntry
      <4>2. jobs'[j] = [status |-> "queued", approval |-> b]
        BY <1>3, <1>4
      <4>3. GatedEntry(n, n.jobs[k])'
        <5> SUFFICES ASSUME i \in r.gated PROVE b # None /\ approvals'[b].status = "approved"
          BY <1>11, <4>1, <4>2 DEF GatedEntry
        <5>1. b # None
          BY <1>1, <1>3, <1>14 DEF SoundRow, HasGrants
        <5> QED BY <1>4, <1>7, <1>8, <5>1 DEF Forward
      <4>4. FollowsStep(n, k)'
        <5> SUFFICES ASSUME i > 1
                     PROVE  \E m \in DOMAIN n.jobs :
                              m < k /\ n.jobs[m].step = i - 1 /\ Completed(n.jobs[m])'
          BY <4>1 DEF FollowsStep
        <5>1. i - 1 \in PlanStep /\ i - 1 < i
          BY <1>6, PlanConstantsAssumption DEF PlanStep
        <5>2. HasRun(r, i - 1)'
          BY <1>3, <1>8, <1>14, <5>1, RunStays
        <5>3. PICK m \in DOMAIN r.jobs : r.jobs[m].step = i - 1 /\ Completed(r.jobs[m])'
          BY <5>2 DEF HasRun
        <5>4. m \in DOMAIN n.jobs /\ m < k /\ n.jobs[m] = r.jobs[m]
          BY <1>11, <4>1, <5>3
        <5> QED BY <5>3, <5>4
      <4> QED BY <4>1, <4>2, <4>3, <4>4
    <3> QED BY <3>1, <3>2
  <2> QED BY <1>11, <2>1, <2>2 DEF SoundRow
<1>16. CopyFits("created", i, n)'
  <2>1. AllOrNoneAsked(n)'
    BY <1>6, <1>11 DEF CopyFits, AllOrNoneAsked
  <2>2. HoldsOpenJob(i, n)'
    BY <1>1, <1>3, <1>4, <1>11 DEF HoldsOpenJob
  <2> QED BY <1>6, <1>11, <1>13, <1>14, <1>15, <2>1, <2>2 DEF CopyFits, StepFits, StepLabels, OpenLabels
<1>17. pc'[p] = "created" /\ step'[p] = i /\ plan'[p] = n /\ pid'[p] \in Plan
  BY <1>1, <1>3, <1>4, <1>5, <1>6
<1>18. ASSUME NEW q \in Proc, pc[q] \in OpenLabels
       PROVE  LastEntry(plan[q]).job \in JobId /\ LastEntry(plan[q]).job # j
  <2>1. HoldsOpenJob(step[q], plan[q]) /\ plan[q] \in PlanRow
    BY <1>18, CopyOf DEF CopyFits
  <2> QED BY <1>4, <2>1, LastEntryTyped DEF HoldsOpenJob
<1>19. OthersStand(p)
  BY <1>3, <1>4, <1>5, <1>18 DEF OthersStand
<1>20. \A q \in Proc \ {p} : pc[q] \in OpenLabels => OpenJob(plan'[p]) # OpenJob(plan[q])
  BY <1>11, <1>17, <1>18 DEF OpenJob
<1>21. SavesSoundRow
  BY <1>4 DEF SavesSoundRow
<1> QED BY <1>8, <1>10, <1>16, <1>17, <1>19, <1>20, <1>21, ProcessSteps

(* process_job returned: the open job and its entry get their status.      *)
LEMMA RestedKeepsInv ==
    ASSUME PlansInv, TypeOK', WaitingJobs', NEW p \in Proc, pc[p] = "process",
           NEW r, r = plan[p], NEW j, j = LastEntry(r).job,
           NEW status \in {"completed", "failed", "waiting_for_approval"},
           NEW x, x.status = status, jobs[j].approval # None => x.approval = jobs[j].approval,
           jobs' = [jobs EXCEPT ![j] = x],
           \A a \in ApprovalId : approvals[a].status = "approved" => approvals'[a].status = "approved",
           pc' = [pc EXCEPT ![p] = "stopped"], plan' = [plan EXCEPT ![p] = Rested(r, status)],
           UNCHANGED <<plans, op, pid, step>>
    PROVE  PlansInv'
<1>1. PICK n, i : n = Rested(r, status) /\ i = step[p]
  OBVIOUS
<1>2. /\ CopyFits("process", i, r) /\ SoundRow(r) /\ r \in PlanRow /\ pid[p] \in Plan
      /\ jobs \in [JobId -> JobRow] /\ pc \in [Proc -> Label] /\ plan \in [Proc -> PlanRow]
  BY <1>1, CopyOf DEF PlansInv, TypeOK
<1>3. /\ Len(r.jobs) > 0 /\ LastEntry(r).step = i /\ LastEntry(r).status = "queued"
      /\ jobs[j] = [status |-> "queued", approval |-> r.approval[i]]
  BY <1>2 DEF CopyFits, OpenLabels, HoldsOpenJob
<1>4. j \in JobId /\ Len(r.jobs) \in DOMAIN r.jobs
  BY <1>2, <1>3, LastEntryTyped
<1>5. jobs'[j].status = status /\ \A k \in JobId \ {j} : jobs'[k] = jobs[k]
  BY <1>2, <1>4
<1>6. Forward
  BY <1>2, <1>3, <1>4, <1>5 DEF Forward
<1>7. /\ n \in PlanRow /\ n.status = r.status /\ n.gated = r.gated /\ n.approval = r.approval
      /\ Len(n.jobs) = Len(r.jobs) /\ DOMAIN n.jobs = DOMAIN r.jobs
      /\ \A k \in DOMAIN r.jobs :
            n.jobs[k] = IF k = Len(r.jobs) THEN WithStatus(r.jobs[k], status) ELSE r.jobs[k]
  <2>1. status \in JobStatus
    BY DEF JobStatus
  <2>2. r \in PlanRow /\ Len(r.jobs) > 0
    BY <1>2, <1>3
  <2> QED BY <1>1, <2>1, <2>2, RestedRow
<1>8. \A k \in DOMAIN r.jobs : n.jobs[k].step = r.jobs[k].step /\ n.jobs[k].job = r.jobs[k].job
  <2>1. ASSUME NEW k \in DOMAIN r.jobs
        PROVE  /\ WithStatus(r.jobs[k], status).step = r.jobs[k].step
               /\ WithStatus(r.jobs[k], status).job = r.jobs[k].job
    <3> DEFINE Entry == [step: PlanStep, job: JobId, status: JobStatus]
    <3>1. r.jobs \in Seq(Entry)
      BY <1>2 DEF PlanRow
    <3>2. r.jobs[k] \in Entry
      <4> HIDE DEF Entry
      <4> QED BY <3>1
    <3> QED BY <3>2 DEF WithStatus
  <2> QED BY <1>7, <2>1
<1>9. \A k \in DOMAIN r.jobs : Completed(r.jobs[k]) => n.jobs[k] = r.jobs[k] /\ Completed(r.jobs[k])'
  <2> SUFFICES ASSUME NEW k \in DOMAIN r.jobs, Completed(r.jobs[k])
               PROVE  n.jobs[k] = r.jobs[k] /\ Completed(r.jobs[k])'
    OBVIOUS
  <2>1. k # Len(r.jobs)
    BY <1>3 DEF Completed, LastEntry
  <2>2. r.jobs[k].job \in JobId
    BY <1>2, EntryTyped
  <2> QED BY <1>6, <1>7, <2>1, <2>2 DEF Completed, Forward
<1>10. ASSUME NEW s \in PlanStep, HasRun(r, s) PROVE HasRun(n, s)'
  <2>1. PICK k \in DOMAIN r.jobs : r.jobs[k].step = s /\ Completed(r.jobs[k])
    BY <1>10 DEF HasRun
  <2> QED BY <1>7, <1>9, <2>1 DEF HasRun
<1>11. r.status \in {"approved", "running"} /\ \A s \in PlanStep : s < i => HasRun(r, s)
  BY <1>2 DEF CopyFits, StepLabels
<1>12. SoundRow(r)'
  BY <1>2, <1>6, RowStays DEF PlansInv
<1>13. SoundRow(n)'
  <2>1. HasGrants(n)' /\ n.status # "completed"
    BY <1>7, <1>11, <1>12 DEF SoundRow, HasGrants
  <2>2. ASSUME NEW k \in DOMAIN n.jobs
        PROVE  (jobs[n.jobs[k].job].status # "absent" /\ GatedEntry(n, n.jobs[k]) /\ FollowsStep(n, k))'
    <3>1. (jobs[r.jobs[k].job].status # "absent" /\ GatedEntry(r, r.jobs[k]))'
      BY <1>7, <1>12, <2>2 DEF SoundRow
    <3>2. GatedEntry(n, n.jobs[k])'
      <4>1. n.jobs[k].step = r.jobs[k].step /\ n.jobs[k].job = r.jobs[k].job /\ n.gated = r.gated
        BY <1>7, <1>8, <2>2
      <4>2. GatedEntry(r, r.jobs[k])'
        BY <3>1
      <4> QED BY <4>1, <4>2 DEF GatedEntry
    <3>3. FollowsStep(n, k)'
      <4> SUFFICES ASSUME n.jobs[k].step > 1
                   PROVE  \E m \in DOMAIN n.jobs :
                            m < k /\ n.jobs[m].step = n.jobs[k].step - 1 /\ Completed(n.jobs[m])'
        BY DEF FollowsStep
      <4>1. PICK m \in DOMAIN r.jobs : m < k /\ r.jobs[m].step = r.jobs[k].step - 1 /\ Completed(r.jobs[m])
        BY <1>2, <1>7, <1>8, <2>2 DEF SoundRow, FollowsStep
      <4> QED BY <1>7, <1>8, <1>9, <2>2, <4>1
    <3> QED BY <1>7, <1>8, <2>2, <3>1, <3>2, <3>3
  <2> QED BY <1>7, <2>1, <2>2 DEF SoundRow
<1>14. LastEntry(n).step = i /\ LastEntry(n).job = j
  BY <1>3, <1>4, <1>7, <1>8 DEF LastEntry
<1>15. LastEntry(n).status = status
  <2>1. r.jobs[Len(r.jobs)].status = "queued"
    BY <1>3 DEF LastEntry
  <2> DEFINE Entry == [step: PlanStep, job: JobId, status: JobStatus]
  <2>2. r.jobs \in Seq(Entry)
    BY <1>2 DEF PlanRow
  <2>3. r.jobs[Len(r.jobs)] \in Entry
    <3> HIDE DEF Entry
    <3> QED BY <1>4, <2>2
  <2>4. WithStatus(r.jobs[Len(r.jobs)], status).status = status
    BY <2>3 DEF WithStatus
  <2> QED BY <1>4, <1>7, <2>4 DEF LastEntry
<1>16. CopyFits("stopped", i, n)'
  <2>1. AllOrNoneAsked(n)' /\ i \in PlanStep
    BY <1>2, <1>7 DEF CopyFits, AllOrNoneAsked, StepFits, StepLabels
  <2>2. HoldsStoppedJob(i, n)'
    BY <1>3, <1>5, <1>7, <1>14, <1>15 DEF HoldsStoppedJob, Completed
  <2> QED BY <1>7, <1>10, <1>11, <1>13, <2>1, <2>2 DEF CopyFits, StepFits, StepLabels, OpenLabels
<1>17. pc'[p] = "stopped" /\ step'[p] = i /\ plan'[p] = n /\ pid'[p] \in Plan
  BY <1>1, <1>2
<1>18. ASSUME NEW q \in Proc \ {p}, pc[q] \in OpenLabels
       PROVE  LastEntry(plan[q]).job \in JobId \ {j}
  <2>1. HoldsOpenJob(step[q], plan[q]) /\ plan[q] \in PlanRow
    BY <1>18, CopyOf DEF CopyFits
  <2>2. LastEntry(plan[q]).job # j
    BY <1>18 DEF PlansInv, OpenApart, OpenLabels
  <2> QED BY <2>1, <2>2, LastEntryTyped DEF HoldsOpenJob
<1>19. OthersStand(p)
  BY <1>2, <1>5, <1>18 DEF OthersStand
<1> QED BY <1>6, <1>16, <1>17, <1>19, ProcessSteps DEF SavesSoundRow, OpenLabels

LEMMA ProcessKeepsInv ==
    ASSUME PlansInv, TypeOK', NEW p \in Proc, NEW status \in {"completed", "failed"}, ProcessStepJob(p, status)
    PROVE  PlansInv'
<1>1. PICK r, j : r = plan[p] /\ j = LastEntry(r).job
  OBVIOUS
<1>2. /\ pc[p] = "process" /\ jobs' = [jobs EXCEPT ![j].status = status]
      /\ plan' = [plan EXCEPT ![p] = Rested(r, status)] /\ pc' = [pc EXCEPT ![p] = "stopped"]
      /\ UNCHANGED <<approvals, plans, op, pid, step>>
  BY <1>1 DEF ProcessStepJob, LastJob, LastEntry, Rested, Goto, PlansInv, TypeOK
<1>3. jobs \in [JobId -> JobRow] /\ approvals \in [ApprovalId -> ApprovalRow] /\ r \in PlanRow
  BY <1>1, CopyOf DEF PlansInv, TypeOK
<1>4. Len(r.jobs) > 0 /\ jobs[j].status = "queued"
  <2>1. HoldsOpenJob(step[p], r)
    BY <1>1, <1>2, CopyOf DEF CopyFits, OpenLabels
  <2> QED BY <1>1, <2>1 DEF HoldsOpenJob
<1>5. j \in JobId
  BY <1>1, <1>3, <1>4, LastEntryTyped
<1>6. \A a \in ApprovalId : Waiting(a) => approvals[a].job \in JobId /\ jobs'[approvals[a].job] = jobs[approvals[a].job]
  BY <1>2, <1>3, <1>4, <1>5 DEF Waiting, ApprovalRow, PlansInv, WaitingJobs
<1>7. WaitingJobs'
  BY <1>2, <1>6 DEF WaitingJobs, Waiting, PlansInv
<1>8. PICK x : x = [jobs[j] EXCEPT !.status = status]
  OBVIOUS
<1>9. x.status = status /\ x.approval = jobs[j].approval /\ jobs' = [jobs EXCEPT ![j] = x]
  BY <1>2, <1>3, <1>5, <1>8 DEF JobRow
<1>10. \A a \in ApprovalId : approvals[a].status = "approved" => approvals'[a].status = "approved"
  BY <1>2
<1>11. status \in {"completed", "failed", "waiting_for_approval"}
  OBVIOUS
<1>12. /\ pc[p] = "process" /\ x.status = status /\ (jobs[j].approval # None => x.approval = jobs[j].approval)
       /\ jobs' = [jobs EXCEPT ![j] = x] /\ pc' = [pc EXCEPT ![p] = "stopped"]
       /\ plan' = [plan EXCEPT ![p] = Rested(r, status)] /\ UNCHANGED <<plans, op, pid, step>>
  BY <1>2, <1>9
<1> QED BY <1>1, <1>7, <1>10, <1>11, <1>12, RestedKeepsInv

LEMMA WaitKeepsInv ==
    ASSUME PlansInv, TypeOK', NEW p \in Proc, StepJobWaits(p)
    PROVE  PlansInv'
<1>1. PICK r, j, b : r = plan[p] /\ j = LastEntry(r).job /\ b = NextApproval
  OBVIOUS
<1>0. PICK x : x = [status |-> "waiting_for_approval", approval |-> b]
  OBVIOUS
<1>2. /\ pc[p] = "process" /\ jobs' = [jobs EXCEPT ![j] = x] /\ StepApproval(p) = None
      /\ approvals' = [approvals EXCEPT ![b] = [status |-> "pending", job |-> j]]
      /\ b \in ApprovalId /\ approvals[b].status = "absent"
      /\ plan' = [plan EXCEPT ![p] = Rested(r, "waiting_for_approval")] /\ pc' = [pc EXCEPT ![p] = "stopped"]
      /\ UNCHANGED <<plans, op, pid, step>>
  BY <1>0, <1>1, FreshApproval
     DEF StepJobWaits, LastJob, LastEntry, Rested, Goto, PendingApproval, PlansInv, TypeOK
<1>3. jobs \in [JobId -> JobRow] /\ approvals \in [ApprovalId -> ApprovalRow] /\ r \in PlanRow
  BY <1>1, CopyOf DEF PlansInv, TypeOK
<1>4. Len(r.jobs) > 0 /\ jobs[j].status = "queued" /\ jobs[j].approval = None
  <2>1. HoldsOpenJob(step[p], r)
    BY <1>1, <1>2, CopyOf DEF CopyFits, OpenLabels
  <2> QED BY <1>1, <1>2, <2>1 DEF HoldsOpenJob, StepApproval
<1>5. j \in JobId
  BY <1>1, <1>3, <1>4, LastEntryTyped
<1>6. \A a \in ApprovalId : Waiting(a) =>
          a # b /\ approvals[a].job # j /\ approvals[a].job \in JobId
          /\ approvals'[a] = approvals[a] /\ jobs'[approvals[a].job] = jobs[approvals[a].job]
  BY <1>2, <1>3, <1>4, <1>5 DEF Waiting, ApprovalRow, PlansInv, WaitingJobs
<1>7. \A a \in ApprovalId \ {b} : Waiting(a)' => Waiting(a)
  BY <1>2, <1>3 DEF Waiting
<1>8. jobs'[j].status = "waiting_for_approval" /\ approvals'[b].job = j
  BY <1>0, <1>2, <1>3, <1>5
<1>9. WaitingJobs'
  BY <1>6, <1>7, <1>8 DEF WaitingJobs, PlansInv
<1>10. \A a \in ApprovalId : approvals[a].status = "approved" => approvals'[a].status = "approved"
  BY <1>2, <1>3
<1>11. x.status = "waiting_for_approval"
  BY <1>0
<1> QED BY <1>1, <1>2, <1>4, <1>9, <1>10, <1>11, RestedKeepsInv

LEMMA ExecutionSteps ==
    ASSUME PlansInv, TypeOK', NEW p \in Proc, ExecutionStep(p)
    PROVE  PlansInv'
<1> DEFINE l == pc[p]
           s == step[p]
           r == plan[p]
<1>1. CopyFits(l, s, r) /\ SoundRow(r) /\ r \in PlanRow /\ StepFits(l, s) /\ (l # "idle" => pid[p] \in Plan)
  BY CopyOf
<1>2. pc = [pc EXCEPT ![p] = l] /\ step = [step EXCEPT ![p] = s] /\ plan = [plan EXCEPT ![p] = r]
  BY Unmoved
<1>3. ASSUME NEW x \in Plan PROVE SoundRow(plans[x]) /\ AllOrNoneAsked(plans[x])
  BY DEF PlansInv, PlansSound
<1>4. CASE Prepare(p) \/ LoadToRun(p)
  <2>1. /\ l \in {"prepare", "load"} /\ pc' = [pc EXCEPT ![p] = "refresh"]
        /\ plan' = [plan EXCEPT ![p] = plans[pid[p]]] /\ UNCHANGED <<plans, pid, step, service>>
    BY <1>4 DEF Prepare, LoadToRun, Goto
  <2>2. CopyFits("refresh", s, plans[pid[p]])
    BY <1>1, <1>3, <2>1 DEF CopyFits, StepFits, StepLabels, OpenLabels
  <2> QED BY <1>2, <2>1, <2>2, MovesOn DEF OpenLabels
<1>5. CASE StartPlan(p)
  <2> DEFINE n == [r EXCEPT !.status = "running"]
             m == IF op[p] = "execute_api" THEN "execute" ELSE "load"
  <2>1. /\ l = "start" /\ pc' = [pc EXCEPT ![p] = m] /\ SavePlan(p, n)
        /\ plan' = [plan EXCEPT ![p] = AbsentPlan] /\ UNCHANGED <<pid, step, service>>
    BY <1>5 DEF StartPlan, Goto
  <2>2. r.status = "approved" /\ AllOrNoneAsked(r) /\ s = 1
    BY <1>1, <2>1 DEF CopyFits, StepFits, StepLabels
  <2>3. SoundRow(n)
    BY <1>1, <2>2, NewStatus DEF PlanStatus, SoundRow, HasGrants
  <2>4. AllOrNoneAsked(n)
    BY <1>1, <2>2 DEF AllOrNoneAsked, PlanRow
  <2> HIDE DEF n
  <2>5. CopyFits(m, s, AbsentPlan)
    BY <2>2, AbsentPlanFits DEF CopyFits, StepFits, StepLabels, OpenLabels
  <2>6. m \notin OpenLabels
    BY DEF OpenLabels
  <2>7. \A x \in Plan : plans'[x] # plans[x] => SoundRow(plans'[x]) /\ AllOrNoneAsked(plans'[x])
    BY <2>1, <2>3, <2>4, Saves
  <2> HIDE DEF m
  <2> QED BY <1>2, <2>1, <2>5, <2>6, <2>7, MovesOn
<1>6. CASE ExecuteInBackground(p)
  <2> DEFINE m == IF plans[pid[p]].status = "approved" THEN "prepare" ELSE "load"
  <2>1. l = "execute" /\ pc' = [pc EXCEPT ![p] = m] /\ UNCHANGED <<plans, pid, plan, step, service>>
    BY <1>6 DEF ExecuteInBackground, Goto
  <2>2. m \in {"prepare", "load"}
    OBVIOUS
  <2> HIDE DEF m
  <2>3. CopyFits(m, s, r) /\ m \notin OpenLabels
    BY <1>1, <2>1, <2>2 DEF CopyFits, StepFits, StepLabels, OpenLabels
  <2> QED BY <1>2, <2>1, <2>3, MovesOn
<1>7. CASE StepFails(p)
  <2>1. l \in {"step", "process"} /\ pc' = [pc EXCEPT ![p] = "failed"] /\ UNCHANGED <<plans, pid, plan, step, service>>
    BY <1>7 DEF StepFails, Goto
  <2>2. CopyFits("failed", s, r)
    BY <1>1, <2>1 DEF CopyFits, StepFits, StepLabels, OpenLabels
  <2> QED BY <1>2, <2>1, <2>2, MovesOn DEF OpenLabels
<1>8. CASE RecordJob(p)
  <2>1. /\ l = "created" /\ pc' = [pc EXCEPT ![p] = "process"] /\ SavePlan(p, r)
        /\ UNCHANGED <<pid, plan, step, service>>
    BY <1>8 DEF RecordJob, Goto
  <2>2. CopyFits("process", s, r) /\ AllOrNoneAsked(r)
    BY <1>1, <2>1 DEF CopyFits, StepFits, StepLabels, OpenLabels
  <2>3. \A x \in Plan : plans'[x] # plans[x] => SoundRow(plans'[x]) /\ AllOrNoneAsked(plans'[x])
    BY <1>1, <2>1, <2>2, Saves
  <2> QED BY <1>2, <2>1, <2>2, <2>3, MovesOn DEF OpenLabels
<1>9. CASE RecordStop(p)
  <2> DEFINE m == CASE ~StepSucceeded(p) -> "failed"
                    [] StepSucceeded(p) /\ s < StepCount -> "step"
                    [] OTHER -> "complete"
             t == IF s < StepCount THEN s + 1 ELSE s
  <2>1. /\ l = "stopped" /\ pc' = [pc EXCEPT ![p] = m] /\ SavePlan(p, r) /\ step' = [step EXCEPT ![p] = t]
        /\ UNCHANGED <<pid, plan, service>>
    BY <1>9 DEF RecordStop, Goto
  <2>2. /\ s \in PlanStep /\ AllOrNoneAsked(r) /\ HoldsStoppedJob(s, r) /\ r.status \in {"approved", "running"}
        /\ \A i \in PlanStep : i < s => HasRun(r, i)
    BY <1>1, <2>1 DEF CopyFits, StepFits, StepLabels
  <2>3. t \in PlanStep
    BY <2>2, PlanConstantsAssumption DEF PlanStep
  <2>4. StepSucceeded(p) => HasRun(r, s)
    <3> SUFFICES ASSUME StepSucceeded(p) PROVE HasRun(r, s)
      OBVIOUS
    <3>1. Len(r.jobs) > 0 /\ LastEntry(r).step = s /\ Completed(LastEntry(r))
      BY <2>2 DEF StepSucceeded, LastJob, HoldsStoppedJob, LastEntry
    <3>2. Len(r.jobs) \in DOMAIN r.jobs
      BY <1>1, <3>1, LastEntryTyped
    <3> QED BY <3>1, <3>2 DEF HasRun, LastEntry
  <2>5. CopyFits(m, t, r)
    <3>1. CASE ~StepSucceeded(p)
      <4>1. m = "failed"
        BY <3>1
      <4> QED BY <1>1, <2>2, <2>3, <4>1 DEF CopyFits, StepFits, StepLabels, OpenLabels
    <3>2. CASE StepSucceeded(p) /\ s < StepCount
      <4>1. m = "step" /\ t = s + 1
        BY <3>2
      <4>2. \A i \in PlanStep : i < t => i < s \/ i = s
        BY <2>2, <4>1, PlanConstantsAssumption DEF PlanStep
      <4>3. \A i \in PlanStep : i < t => HasRun(r, i)
        BY <2>2, <2>4, <3>2, <4>2
      <4> HIDE DEF m, t
      <4> QED BY <1>1, <2>2, <2>3, <4>1, <4>3 DEF CopyFits, StepFits, StepLabels, OpenLabels
    <3>3. CASE StepSucceeded(p) /\ ~(s < StepCount)
      <4>1. m = "complete"
        BY <3>3
      <4>2. \A i \in PlanStep : i < s \/ i = s
        BY <2>2, <3>3, PlanConstantsAssumption DEF PlanStep
      <4>3. \A i \in PlanStep : HasRun(r, i)
        BY <2>2, <2>4, <3>3, <4>2
      <4> HIDE DEF m, t
      <4> QED BY <1>1, <2>2, <2>3, <4>1, <4>3 DEF CopyFits, StepFits, StepLabels, OpenLabels
    <3> QED BY <3>1, <3>2, <3>3
  <2>6. m \notin OpenLabels
    BY DEF OpenLabels
  <2>7. \A x \in Plan : plans'[x] # plans[x] => SoundRow(plans'[x]) /\ AllOrNoneAsked(plans'[x])
    BY <1>1, <2>1, <2>2, Saves
  <2> HIDE DEF m, t
  <2> QED BY <1>2, <2>1, <2>5, <2>6, <2>7, MovesOn
<1>10. CASE OutputMissing(p)
  <2>1. /\ l = "stopped" /\ pc' = [pc EXCEPT ![p] = "failed"] /\ SavePlan(p, r)
        /\ UNCHANGED <<pid, plan, step, service>>
    BY <1>10 DEF OutputMissing, Goto
  <2>2. CopyFits("failed", s, r) /\ AllOrNoneAsked(r)
    BY <1>1, <2>1 DEF CopyFits, StepFits, StepLabels, OpenLabels
  <2>3. \A x \in Plan : plans'[x] # plans[x] => SoundRow(plans'[x]) /\ AllOrNoneAsked(plans'[x])
    BY <1>1, <2>1, <2>2, Saves
  <2> QED BY <1>2, <2>1, <2>2, <2>3, MovesOn DEF OpenLabels
<1>11. CASE FailPlan(p)
  <2> DEFINE n == [r EXCEPT !.status = "failed"]
  <2>1. l = "failed" /\ SavePlan(p, n) /\ Return(p) /\ UNCHANGED service
    BY <1>11 DEF FailPlan
  <2>2. SoundRow(n)
    BY <1>1, NewStatus DEF PlanStatus
  <2>3. AllOrNoneAsked(n)
    BY <1>1, <2>1 DEF CopyFits, AllOrNoneAsked, PlanRow
  <2> HIDE DEF n
  <2>4. \A x \in Plan : plans'[x] # plans[x] => SoundRow(plans'[x]) /\ AllOrNoneAsked(plans'[x])
    BY <2>1, <2>2, <2>3, Saves
  <2> QED BY <2>1, <2>4, Returns
<1>12. CASE CompletePlan(p)
  <2> DEFINE n == [r EXCEPT !.status = "completed"]
  <2>1. l = "complete" /\ SavePlan(p, n) /\ Return(p) /\ UNCHANGED service
    BY <1>12 DEF CompletePlan
  <2>2. r.status \in {"approved", "running"} /\ AllOrNoneAsked(r) /\ \A i \in PlanStep : HasRun(r, i)
    BY <1>1, <2>1 DEF CopyFits
  <2>3. \A i \in r.gated : r.approval[i] # None /\ approvals[r.approval[i]].status = "approved"
    BY <1>1, <2>2 DEF SoundRow, HasGrants
  <2>4. SoundRow(n)
    BY <1>1, <2>2, <2>3, NewStatus DEF PlanStatus
  <2>5. AllOrNoneAsked(n)
    BY <1>1, <2>2 DEF AllOrNoneAsked, PlanRow
  <2> HIDE DEF n
  <2>6. \A x \in Plan : plans'[x] # plans[x] => SoundRow(plans'[x]) /\ AllOrNoneAsked(plans'[x])
    BY <2>1, <2>4, <2>5, Saves
  <2> QED BY <2>1, <2>6, Returns
<1> QED BY <1>4, <1>5, <1>6, <1>7, <1>8, <1>9, <1>10, <1>11, <1>12,
           CreateJobKeepsInv, ProcessKeepsInv, WaitKeepsInv DEF ExecutionStep

(* Somebody decides an approval; its job, if it has one, waits for that.   *)
LEMMA DecisionKeepsInv ==
    ASSUME PlansInv, TypeOK', NEW a \in ApprovalId, DecideApproval(a)
    PROVE  PlansInv'
<1>1. PICK decision \in {"approved", "rejected"},
          status \in {"rejected", "completed", "failed", "waiting_for_approval"} :
        Decide(a, decision, status)
  BY DEF DecideApproval
<1>2. /\ approvals[a].status = "pending" /\ approvals' = [approvals EXCEPT ![a].status = decision]
      /\ jobs' = [j \in JobId |->
                    IF j = approvals[a].job THEN [jobs[j] EXCEPT !.status = status] ELSE jobs[j]]
      /\ UNCHANGED <<plans, pc, op, pid, plan, step>>
  BY <1>1 DEF Decide, locals
<1>3. /\ jobs \in [JobId -> JobRow] /\ approvals \in [ApprovalId -> ApprovalRow] /\ None \notin JobId
      /\ WaitingJobs
  BY PlanConstantsAssumption DEF PlansInv, TypeOK
<1>4. \A j \in JobId : jobs[j].status # "waiting_for_approval" => jobs'[j] = jobs[j]
  BY <1>2, <1>3 DEF WaitingJobs, Waiting
<1>5. \A j \in JobId : jobs'[j].approval = jobs[j].approval /\ (jobs'[j] # jobs[j] => jobs'[j].status # "absent")
  BY <1>2, <1>3 DEF JobRow
<1>6. Forward
  BY <1>2, <1>3, <1>4, <1>5 DEF Forward, ApprovalRow
<1>7. \A b \in ApprovalId : Waiting(b)' =>
          b # a /\ Waiting(b) /\ approvals'[b] = approvals[b] /\ approvals[b].job \in JobId
  BY <1>2, <1>3 DEF Waiting, ApprovalRow
<1>8. \A b \in ApprovalId : Waiting(b)' => jobs'[approvals[b].job] = jobs[approvals[b].job]
  <2> SUFFICES ASSUME NEW b \in ApprovalId, Waiting(b)'
               PROVE  approvals[b].job # approvals[a].job
    BY <1>2, <1>7
  <2>1. b # a /\ Waiting(b) /\ approvals[b].job # None
    BY <1>7 DEF Waiting
  <2>2. approvals[a].job # None => Waiting(a)
    BY <1>2 DEF Waiting
  <2> QED BY <1>3, <2>1, <2>2 DEF WaitingJobs
<1>9. WaitingJobs'
  BY <1>3, <1>7, <1>8 DEF WaitingJobs
<1>10. PlansSound'
  <2> SUFFICES ASSUME NEW x \in Plan PROVE (SoundRow(plans[x]) /\ AllOrNoneAsked(plans[x]))'
    BY DEF PlansSound
  <2>1. PICK r : r = plans[x]
    OBVIOUS
  <2>2. SoundRow(r) /\ AllOrNoneAsked(r)
    BY <2>1 DEF PlansInv, PlansSound
  <2>3. SoundRow(r)' /\ AllOrNoneAsked(r)' /\ plans'[x] = r
    BY <1>2, <1>6, <2>1, <2>2, RowStays DEF AllOrNoneAsked, PlansInv
  <2> QED BY <2>3
<1>11. CopiesFit'
  <2> SUFFICES ASSUME NEW q \in Proc
               PROVE  (CopyFits(pc[q], step[q], plan[q]) /\ (pc[q] # "idle" => pid[q] \in Plan))'
    BY DEF CopiesFit
  <2>1. PICK l, s, r : l = pc[q] /\ s = step[q] /\ r = plan[q]
    OBVIOUS
  <2>2. CopyFits(l, s, r) /\ (l # "idle" => pid[q] \in Plan) /\ r \in PlanRow
    BY <2>1, CopyOf
  <2>3. l \in OpenLabels => jobs'[LastEntry(r).job] = jobs[LastEntry(r).job]
    <3> SUFFICES ASSUME l \in OpenLabels PROVE jobs'[LastEntry(r).job] = jobs[LastEntry(r).job]
      OBVIOUS
    <3>1. HoldsOpenJob(s, r)
      BY <2>2 DEF CopyFits
    <3>2. LastEntry(r).job \in JobId /\ jobs[LastEntry(r).job].status = "queued"
      BY <2>2, <3>1, LastEntryTyped DEF HoldsOpenJob
    <3> QED BY <1>4, <3>2
  <2>4. CopyFits(l, s, r)'
    BY <1>6, <2>2, <2>3, CopyStays DEF PlansInv
  <2>5. pc'[q] = l /\ step'[q] = s /\ plan'[q] = r /\ pid'[q] = pid[q]
    BY <1>2, <2>1
  <2> QED BY <2>2, <2>4, <2>5
<1>12. OpenApart'
  BY <1>2 DEF PlansInv, OpenApart, LastEntry
<1> QED BY <1>9, <1>10, <1>11, <1>12 DEF PlansInv

LEMMA PlansInvInit == ASSUME Init PROVE PlansInv
<1>1. TypeOK
  <2>1. jobs \in [JobId -> JobRow] /\ approvals \in [ApprovalId -> ApprovalRow]
    BY DEF Init, JobRow, JobStatus, ApprovalRow
  <2>2. plans \in [Plan -> PlanRow] /\ plan \in [Proc -> PlanRow]
    BY AbsentPlanTyped DEF Init
  <2>3. /\ pc \in [Proc -> Label] /\ op \in [Proc -> Method] /\ pid \in [Proc -> Plan \cup {None}]
        /\ step \in [Proc -> PlanStep \cup {StepCount + 1}]
    BY FirstStep DEF Init, Label, Method
  <2> QED BY <2>1, <2>2, <2>3 DEF TypeOK
<1>2. WaitingJobs
  BY DEF Init, WaitingJobs, Waiting
<1>3. OpenApart
  BY DEF Init, OpenApart, OpenLabels
<1>4. PlansSound
  BY AbsentPlanFits DEF Init, PlansSound, CopyFits
<1>5. CopiesFit
  BY AbsentPlanFits DEF Init, CopiesFit
<1> QED BY <1>1, <1>2, <1>3, <1>4, <1>5 DEF PlansInv

LEMMA PlansInvNext == ASSUME PlansInv, [Next]_vars PROVE PlansInv'
<1>1. TypeOK'
  BY TypesStay
<1>2. ASSUME NEW p \in Proc, Die(p) PROVE PlansInv'
  BY <1>1, <1>2, Returns DEF Die
<1>3. CASE UNCHANGED vars
  <2>1. WaitingJobs' /\ OpenApart'
    BY <1>3 DEF vars, service, locals, PlansInv, WaitingJobs, Waiting, OpenApart, LastEntry
  <2>2. PlansSound'
    BY <1>3, SameService DEF vars, PlansInv, PlansSound, AllOrNoneAsked
  <2>3. CopiesFit'
    BY <1>3, SameService DEF vars, locals, PlansInv, CopiesFit
  <2> QED BY <1>1, <2>1, <2>2, <2>3 DEF PlansInv
<1> QED BY <1>1, <1>2, <1>3, CallSteps, ApprovalSteps, ExecutionSteps, DecisionKeepsInv DEF Next, Step

LEMMA PlansAlwaysSound == Spec => []PlansInv
BY PlansInvInit, PlansInvNext, PTL DEF Spec

-----------------------------------------------------------------------------
(* What the invariant is for.                                              *)

(* Whatever old copies are written over the plans table, a plan that may   *)
(* run, runs or ran has an approved approval for each of its gated steps   *)
(* (Orchestrator._refresh_approval_status and every save).                 *)
THEOREM PlansGranted == Spec => []PlansAreGranted
<1>1. PlansInv => PlansAreGranted
  BY DEF PlansInv, PlansSound, SoundRow, HasGrants, PlansAreGranted, ApprovedPlanHasGrants, Granted
<1> QED BY <1>1, PlansAlwaysSound, PTL

(* The job of a gated step carries an approved approval, also when two     *)
(* executions of the plan overlap (Orchestrator._execute).                 *)
THEOREM PlanGatesHold == Spec => []PlanGateHolds
<1>1. PlansInv => PlanGateHolds
  BY DEF PlansInv, PlansSound, SoundRow, GatedEntry, PlanGateHolds
<1> QED BY <1>1, PlansAlwaysSound, PTL

(* A job of a later step is recorded only behind a completed job of the    *)
(* step before, and a completed plan has one for every step, for any       *)
(* number of steps and executions (Orchestrator._execute).                 *)
THEOREM StepsInOrder == Spec => []StepsRanInOrder
<1>1. ASSUME PlansInv, NEW x \in Plan
      PROVE  LET js == plans[x].jobs IN
               /\ \A k \in DOMAIN js : js[k].step > 1 =>
                    \E m \in 1..(k - 1) : js[m].step = js[k].step - 1 /\ Completed(js[m])
               /\ plans[x].status = "completed" =>
                    \A i \in PlanStep : \E k \in DOMAIN js : js[k].step = i /\ Completed(js[k])
  <2>1. SoundRow(plans[x]) /\ plans[x] \in PlanRow
    BY <1>1 DEF PlansInv, PlansSound, SoundRow
  <2>2. DOMAIN plans[x].jobs = 1..Len(plans[x].jobs) /\ Len(plans[x].jobs) \in Nat
    BY <2>1, EntryTyped
  <2>3. \A k, m \in DOMAIN plans[x].jobs : m < k => m \in 1..(k - 1)
    BY <2>2
  <2>4. \A k \in DOMAIN plans[x].jobs : plans[x].jobs[k].step > 1 =>
           \E m \in 1..(k - 1) :
              plans[x].jobs[m].step = plans[x].jobs[k].step - 1 /\ Completed(plans[x].jobs[m])
    BY <2>1, <2>3 DEF SoundRow, FollowsStep
  <2> QED BY <2>1, <2>4 DEF SoundRow, HasRun
<1>2. PlansInv => StepsRanInOrder
  BY <1>1 DEF StepsRanInOrder
<1> QED BY <1>2, PlansAlwaysSound, PTL
=============================================================================
