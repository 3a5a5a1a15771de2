-------------------------------- MODULE Jobs --------------------------------
(***************************************************************************)
(* JobService (canto/core/jobs.py): jobs, approvals, dry-run promotion,    *)
(* recovery and idempotent live writes, driven by several processes (CLI   *)
(* invocations, API threads and background tasks) over one state store.    *)
(*                                                                         *)
(* One call of the store is one transaction and one step here; everything  *)
(* a service method computes between two store calls is local to the       *)
(* process.  A method keeps the copy of the row it read (job[p], apv[p])   *)
(* and writes that copy back, through a compare-and-set on the status      *)
(* (_transition) or unconditionally (_save), exactly as the code does.     *)
(*                                                                         *)
(* Data is abstracted to what the properties tell apart: an idempotency    *)
(* record key stands for the inputs of a write request, a digest for the   *)
(* artifacts, provenance and inputs a promotion snapshot fingerprints.     *)
(***************************************************************************)
EXTENDS Naturals

CONSTANTS
    Proc,        \* processes calling the service
    Mortal,      \* those that may die between two store calls
    Unloadable,  \* those whose registry may fail to load when it is refreshed
    JobId,       \* job identifiers that may be handed out
    ApprovalId,  \* approval identifiers that may be handed out
    Key,         \* idempotency record keys (skill, provider, target, key)
    Digest,      \* fingerprints of reviewed artifacts
    Reserved,    \* identifiers kept for process_job's own approvals, so that
                 \* the bounded pool never blocks it
    Forged,      \* fingerprints the artifacts on disk may be changed into
    Requests,    \* what callers ask for: [kind, key, gated]
    Shared,      \* jobs that others than their creator may process, too
    None         \* the absent value

ASSUME ConstantsAssumption ==
    /\ Mortal \subseteq Proc /\ Unloadable \subseteq Proc
    /\ Forged \subseteq Digest /\ Reserved \subseteq ApprovalId
    /\ Shared \subseteq JobId
    /\ None \notin JobId \cup ApprovalId \cup Key \cup Digest
    /\ Requests \subseteq [kind: {"plain", "dry_run", "live"},
                           key: Key \cup {None}, gated: BOOLEAN]
    /\ \A r \in Requests : r.kind = "plain" <=> r.key = None

JobStatus == {"absent", "queued", "checking_dependencies",
              "waiting_for_dependency", "waiting_for_approval", "running",
              "completed", "failed", "rejected"}

(* "plain": the provider declares no write contract.  "dry_run" and "live" *)
(* are the two modes of a write provider; "recovery" is a live job created *)
(* with a recovery snapshot.                                               *)
JobKind == {"plain", "dry_run", "live", "recovery"}

(* policy.mode = "live" and "write" in provider.                           *)
IsLive(kind) == kind \in {"live", "recovery"}

Job == [status: JobStatus, kind: JobKind, gated: BOOLEAN,
        key: Key \cup {None}, approval: ApprovalId \cup {None},
        src: JobId \cup {None}, digest: Digest \cup {None},
        replay: JobId \cup {None}]

Approval == [status: {"absent", "pending", "approved", "rejected"},
             purpose: {"gate", "promotion", "recovery"},
             job: JobId \cup {None},
             src: JobId \cup {None}, digest: Digest \cup {None}]

IdempotencyRecord == [status: {"absent", "running", "failed", "completed"},
                      job: JobId \cup {None}, digest: Digest \cup {None}]

AbsentJob == [status |-> "absent", kind |-> "plain", gated |-> FALSE,
              key |-> None, approval |-> None, src |-> None,
              digest |-> None, replay |-> None]

AbsentApproval == [status |-> "absent", purpose |-> "gate", job |-> None,
                   src |-> None, digest |-> None]

AbsentRecord == [status |-> "absent", job |-> None, digest |-> None]

VARIABLES
    jobs,       \* the jobs table
    approvals,  \* the approvals table
    idem,       \* the idempotency_records table
    artifact,   \* digest of the artifacts each job left on disk
    pc,         \* where each process is in the service method it runs
    jid, job,   \* the job it works on, and its copy of the row
    aid, apv,   \* the approval it works on, and its copy of the row
    runs        \* history: times a provider was started for each job

store  == <<jobs, approvals, idem, artifact>>
locals == <<pc, jid, job, aid, apv>>
vars   == <<jobs, approvals, idem, artifact, pc, jid, job, aid, apv, runs>>

(* The labels of process_job, in the order the code reaches them.          *)
CheckLabels == {"dependencies", "linked", "run", "ask", "park"}
RunLabels   == {"claim", "replay", "start", "provider", "complete",
                "settle", "release"}
Label == {"idle", "process", "check", "approved", "resume", "fail",
          "link", "save", "decide", "granted", "refuse", "refused", "reject"}
         \cup CheckLabels \cup RunLabels

Init ==
    /\ jobs = [j \in JobId |-> AbsentJob]
    /\ approvals = [a \in ApprovalId |-> AbsentApproval]
    /\ idem = [k \in Key |-> AbsentRecord]
    /\ artifact = [j \in JobId |-> None]
    /\ pc = [p \in Proc |-> "idle"]
    /\ jid = [p \in Proc |-> None]
    /\ job = [p \in Proc |-> AbsentJob]
    /\ aid = [p \in Proc |-> None]
    /\ apv = [p \in Proc |-> AbsentApproval]
    /\ runs = [j \in JobId |-> 0]

-----------------------------------------------------------------------------
(* Local control and the store calls.                                      *)

Goto(p, label) == pc' = [pc EXCEPT ![p] = label]

(* The method ends: with a result, an error, or the death of the process.  *)
Return(p) ==
    /\ Goto(p, "idle")
    /\ jid' = [jid EXCEPT ![p] = None]
    /\ job' = [job EXCEPT ![p] = AbsentJob]
    /\ aid' = [aid EXCEPT ![p] = None]
    /\ apv' = [apv EXCEPT ![p] = AbsentApproval]

(* _save: unconditional upsert of the process's copy with a new status.    *)
Save(p, status) ==
    jobs' = [jobs EXCEPT ![jid[p]] = [job[p] EXCEPT !.status = status]]

(* Mutant: the transition writes whatever the current status is.           *)
BlindTransition(p, expected, status, label) ==
    /\ Save(p, status)
    /\ Goto(p, label)
    /\ UNCHANGED <<jid, job, aid, apv>>

(* _transition: compare-and-set on the status; losing it ends the call.    *)
Transition(p, expected, status, label) ==
    IF jobs[jid[p]].status = expected
    THEN /\ Save(p, status)
         /\ Goto(p, label)
         /\ UNCHANGED <<jid, job, aid, apv>>
    ELSE Return(p) /\ UNCHANGED jobs

(* Fresh identifiers are random and never collide.                         *)
FreshJob(j) ==
    /\ jobs[j].status = "absent"
    /\ \A q \in Proc : jid[q] # j
    /\ \A a \in ApprovalId : approvals[a].job # j

FreshApproval(a) == approvals[a].status = "absent"

(* _fail: unconditional save of the failed job, then return.               *)
FailJob(p) ==
    /\ Save(p, "failed")
    /\ Return(p)

-----------------------------------------------------------------------------
(* create_job                                                              *)

(* A request without an approval: live writes are refused, so the job is   *)
(* plain or a dry run.  The creator then processes it (CLI run, or the     *)
(* API's background task).                                                 *)
Submit(p, j, r) ==
    /\ pc[p] = "idle"
    /\ FreshJob(j)
    /\ r.kind # "live"
    /\ jobs' = [jobs EXCEPT ![j] = [AbsentJob EXCEPT !.status = "queued",
                    !.kind = r.kind, !.key = r.key, !.gated = r.gated]]
    /\ jid' = [jid EXCEPT ![p] = j]
    /\ Goto(p, "process")
    /\ UNCHANGED <<approvals, idem, artifact, job, aid, apv, runs>>

(* Mutant: the request's inputs are not compared with the reviewed ones.   *)
ValidPromotionOfAnyInputs(ap, key) ==
    /\ ap.purpose = "promotion"
    /\ jobs[ap.src].status = "completed"
    /\ jobs[ap.src].kind = "dry_run"
    /\ artifact[ap.src] = ap.digest

(* _validate_promotion: the dry run is completed, its snapshot is the one  *)
(* that was approved, and the request carries the reviewed inputs.         *)
ValidPromotion(ap, key) ==
    /\ ap.purpose = "promotion"
    /\ jobs[ap.src].status = "completed"
    /\ jobs[ap.src].kind = "dry_run"
    /\ artifact[ap.src] = ap.digest
    /\ jobs[ap.src].key = key

(* _validate_recovery: the live job is completed and its recovery artifact *)
(* is the one that was approved.                                           *)
ValidRecovery(ap) ==
    /\ ap.purpose = "recovery"
    /\ jobs[ap.src].status = "completed"
    /\ IsLive(jobs[ap.src].kind)
    /\ artifact[ap.src] = ap.digest

(* Mutant: a request may also name an approval that is still pending.      *)
IsNotRejected(a) == approvals[a].status \in {"pending", "approved"}

IsGranted(a) == approvals[a].status = "approved"

(* create_job with an approval id: the approval must be approved, and a    *)
(* live write must match its snapshot.  The process keeps the approval row *)
(* it read and the job it is about to write.                               *)
BeginLinked(p, a, j, kind, key, gated) ==
    /\ FreshJob(j)
    /\ IsGranted(a)
    /\ kind = "live" => ValidPromotion(approvals[a], key)
    /\ kind = "recovery" => ValidRecovery(approvals[a])
    /\ jid' = [jid EXCEPT ![p] = j]
    /\ job' = [job EXCEPT ![p] = [status |-> "queued", kind |-> kind,
                   gated |-> gated, key |-> key, approval |-> a,
                   src |-> IF IsLive(kind) THEN approvals[a].src ELSE None,
                   digest |-> IF IsLive(kind) THEN approvals[a].digest ELSE None,
                   replay |-> None]]
    /\ aid' = [aid EXCEPT ![p] = a]
    /\ apv' = [apv EXCEPT ![p] = approvals[a]]
    /\ Goto(p, "link")
    /\ UNCHANGED <<jobs, approvals, idem, artifact, runs>>

(* A request naming an approval that was already granted (a retry of a     *)
(* live write, or a plain job under an earlier approval).                  *)
SubmitLinked(p, a, j, r) ==
    /\ pc[p] = "idle"
    /\ BeginLinked(p, a, j, r.kind, r.key, r.gated)

(* linked_approval.job_id = job_id; set_approval, unconditionally.         *)
Link(p) ==
    /\ pc[p] = "link"
    /\ approvals' = [approvals EXCEPT ![aid[p]] = [apv[p] EXCEPT !.job = jid[p]]]
    /\ Goto(p, "save")
    /\ UNCHANGED <<jobs, idem, artifact, jid, job, aid, apv, runs>>

(* _save(job): the row appears, queued; the creator goes on to process it. *)
SaveJob(p) ==
    /\ pc[p] = "save"
    /\ Save(p, "queued")
    /\ Goto(p, "process")
    /\ UNCHANGED <<approvals, idem, artifact, jid, job, aid, apv, runs>>

-----------------------------------------------------------------------------
(* process_job                                                             *)

(* process_job is called for a job that exists, whoever created it.        *)
Process(p, j) ==
    /\ pc[p] = "idle"
    /\ j \in Shared /\ jobs[j].status # "absent"
    /\ jid' = [jid EXCEPT ![p] = j]
    /\ Goto(p, "process")
    /\ UNCHANGED <<store, job, aid, apv, runs>>

(* get_job: only a queued or waiting job is taken further.                 *)
ReadJob(p) ==
    /\ pc[p] = "process"
    /\ LET row == jobs[jid[p]]
           next == CASE row.status = "queued" -> "check"
                     [] row.status = "waiting_for_approval" -> "approved"
                     [] OTHER -> "idle"
       IN IF next = "idle"
          THEN Return(p)
          ELSE /\ job' = [job EXCEPT ![p] = row]
               /\ Goto(p, next)
               /\ UNCHANGED <<jid, aid, apv>>
    /\ UNCHANGED <<store, runs>>

(* The provider disappeared from the registry since the job was created.   *)
ProviderMissing(p) ==
    /\ pc[p] \in {"check", "approved"}
    /\ FailJob(p)
    /\ UNCHANGED <<approvals, idem, artifact, runs>>

(* Mutants: a waiting job goes on unless it was rejected, or once somebody *)
(* decided.                                                                *)
MayResumeUnlessRejected(p) == approvals[job[p].approval].status # "rejected"
MayResumeOnceDecided(p) == approvals[job[p].approval].status # "pending"

MayResume(p) == approvals[job[p].approval].status = "approved"

(* A waiting job goes on only if its approval is approved.                 *)
ReadApproval(p) ==
    /\ pc[p] = "approved"
    /\ IF MayResume(p)
       THEN Goto(p, "resume") /\ UNCHANGED <<jid, job, aid, apv>>
       ELSE Return(p)
    /\ UNCHANGED <<store, runs>>

(* Where a running job goes: only a live write claims its key first.       *)
AfterRunning(p) == IF job[p].kind = "live" THEN "claim" ELSE "start"

Resume(p) ==
    /\ pc[p] = "resume"
    /\ Transition(p, "waiting_for_approval", "running", AfterRunning(p))
    /\ UNCHANGED <<approvals, idem, artifact, runs>>

Check(p) ==
    /\ pc[p] = "check"
    /\ Transition(p, "queued", "checking_dependencies", "dependencies")
    /\ UNCHANGED <<approvals, idem, artifact, runs>>

(* A missing tool, or a policy that denies the job.                        *)
DependenciesFail(p) ==
    /\ pc[p] = "dependencies"
    /\ FailJob(p)
    /\ UNCHANGED <<approvals, idem, artifact, runs>>

(* Dependencies are not ready: the job is parked for good.                 *)
WaitForDependency(p) ==
    /\ pc[p] = "dependencies"
    /\ Save(p, "waiting_for_dependency")
    /\ Return(p)
    /\ UNCHANGED <<approvals, idem, artifact, runs>>

(* Dependencies are ready; evaluate_policy gives reasons or none.          *)
EvaluatePolicy(p) ==
    /\ pc[p] = "dependencies"
    /\ Goto(p, CASE ~job[p].gated -> "run"
                 [] job[p].gated /\ job[p].approval # None -> "linked"
                 [] OTHER -> "ask")
    /\ UNCHANGED <<store, jid, job, aid, apv, runs>>

(* The approval the job was created with.                                  *)
ReadLinked(p) ==
    /\ pc[p] = "linked"
    /\ Goto(p, CASE approvals[job[p].approval].status = "approved" -> "run"
                 [] approvals[job[p].approval].status = "rejected" -> "fail"
                 [] OTHER -> "park")
    /\ UNCHANGED <<store, jid, job, aid, apv, runs>>

(* A new pending approval; the job itself is saved only in the next step.  *)
Ask(p, a) ==
    /\ pc[p] = "ask"
    /\ FreshApproval(a)
    /\ approvals' = [approvals EXCEPT ![a] =
                        [AbsentApproval EXCEPT !.status = "pending", !.job = jid[p]]]
    /\ job' = [job EXCEPT ![p].approval = a]
    /\ Goto(p, "park")
    /\ UNCHANGED <<jobs, idem, artifact, jid, aid, apv, runs>>

Park(p) ==
    /\ pc[p] = "park"
    /\ Save(p, "waiting_for_approval")
    /\ Return(p)
    /\ UNCHANGED <<approvals, idem, artifact, runs>>

Run(p) ==
    /\ pc[p] = "run"
    /\ Transition(p, "checking_dependencies", "running", AfterRunning(p))
    /\ UNCHANGED <<approvals, idem, artifact, runs>>

(* Mutants: a running claim is taken over; a settled one is.               *)
KeyIsNotSettled(key) == idem[key].status # "completed"
KeyIsNotRunning(key) == idem[key].status # "running"

(* claim_idempotency: one transaction that writes the claim unless the key *)
(* is held or settled.                                                     *)
KeyIsFree(key) == idem[key].status \in {"absent", "failed"}

(* Mutant: any claim for the same change set counts as settled.            *)
IsSameChangeSet(p) ==
    /\ idem[job[p].key].status # "absent"
    /\ idem[job[p].key].digest = job[p].digest

IsReplay(p) ==
    /\ idem[job[p].key].status = "completed"
    /\ idem[job[p].key].digest = job[p].digest

(* Mutant: the record keeps the dry run's id for its checksum.             *)
SetIdempotencyToSource(p, status) ==
    idem' = [idem EXCEPT ![job[p].key] =
                [status |-> status, job |-> jid[p], digest |-> job[p].src]]

SetIdempotency(p, status) ==
    idem' = [idem EXCEPT ![job[p].key] =
                [status |-> status, job |-> jid[p], digest |-> job[p].digest]]

Claim(p) ==
    /\ pc[p] = "claim"
    /\ KeyIsFree(job[p].key)
    /\ SetIdempotency(p, "running")
    /\ Goto(p, "start")
    /\ UNCHANGED <<jobs, approvals, artifact, jid, job, aid, apv, runs>>

(* The key is settled for the same change set: its result is returned.     *)
ClaimSettled(p) ==
    /\ pc[p] = "claim"
    /\ IsReplay(p)
    /\ job' = [job EXCEPT ![p].replay = idem[job[p].key].job]
    /\ Goto(p, "replay")
    /\ UNCHANGED <<store, jid, aid, apv, runs>>

(* Mutant: the loser returns without failing its job.                      *)
ClaimIgnored(p) ==
    /\ pc[p] = "claim"
    /\ ~KeyIsFree(job[p].key) /\ ~IsReplay(p)
    /\ Return(p)
    /\ UNCHANGED <<store, runs>>

(* idempotency_conflict or idempotency_in_progress.                        *)
ClaimRefused(p) ==
    /\ pc[p] = "claim"
    /\ ~KeyIsFree(job[p].key) /\ ~IsReplay(p)
    /\ Goto(p, "fail")
    /\ UNCHANGED <<store, jid, job, aid, apv, runs>>

(* The prior live result is returned: its artifacts, and a completed job.  *)
Replay(p) ==
    /\ pc[p] = "replay"
    /\ artifact' = [artifact EXCEPT ![jid[p]] = artifact[job[p].replay]]
    /\ Save(p, "completed")
    /\ Return(p)
    /\ UNCHANGED <<approvals, idem, runs>>

(* Invalid runtime limits or an unresolvable credential: the job fails and *)
(* the claim, if there is one, is left as it is.                           *)
SetupFails(p) ==
    /\ pc[p] = "start"
    /\ FailJob(p)
    /\ UNCHANGED <<approvals, idem, artifact, runs>>

(* The reviewed validation (or recovery) artifact does not hold any more.  *)
PreWriteFails(p) ==
    /\ pc[p] = "start"
    /\ IsLive(job[p].kind)
    /\ Goto(p, "release")
    /\ UNCHANGED <<store, jid, job, aid, apv, runs>>

StartProvider(p) ==
    /\ pc[p] = "start"
    /\ runs' = [runs EXCEPT ![jid[p]] = @ + 1]
    /\ Goto(p, "provider")
    /\ UNCHANGED <<store, jid, job, aid, apv>>

(* RunnerError or ArtifactError, in the provider or in its outputs.        *)
ProviderFails(p) ==
    /\ pc[p] = "provider"
    /\ Goto(p, "release")
    /\ UNCHANGED <<store, jid, job, aid, apv, runs>>

(* The provider ends with valid outputs; a write provider leaves artifacts *)
(* that a promotion or a recovery will fingerprint.                        *)
ProviderEnds(p, d) ==
    /\ pc[p] = "provider"
    /\ (job[p].kind = "plain") <=> (d = None)
    /\ artifact' = [artifact EXCEPT ![jid[p]] = d]
    /\ Goto(p, "complete")
    /\ UNCHANGED <<jobs, approvals, idem, jid, job, aid, apv, runs>>

Complete(p) ==
    /\ pc[p] = "complete"
    /\ Save(p, "completed")
    /\ IF job[p].kind = "live"
       THEN Goto(p, "settle") /\ UNCHANGED <<jid, job, aid, apv>>
       ELSE Return(p)
    /\ UNCHANGED <<approvals, idem, artifact, runs>>

Settle(p) ==
    /\ pc[p] = "settle"
    /\ SetIdempotency(p, "completed")
    /\ Return(p)
    /\ UNCHANGED <<jobs, approvals, artifact, runs>>

(* Mutant: a failed write settles its key.                                 *)
ReleaseAsCompleted(p) ==
    /\ pc[p] = "release"
    /\ IF job[p].kind = "live" THEN SetIdempotency(p, "completed") ELSE UNCHANGED idem
    /\ Goto(p, "fail")
    /\ UNCHANGED <<jobs, approvals, artifact, jid, job, aid, apv, runs>>

(* Only a job that claimed a key releases one.                             *)
Release(p) ==
    /\ pc[p] = "release"
    /\ IF job[p].kind = "live" THEN SetIdempotency(p, "failed") ELSE UNCHANGED idem
    /\ Goto(p, "fail")
    /\ UNCHANGED <<jobs, approvals, artifact, jid, job, aid, apv, runs>>

Fail(p) ==
    /\ pc[p] = "fail"
    /\ FailJob(p)
    /\ UNCHANGED <<approvals, idem, artifact, runs>>

-----------------------------------------------------------------------------
(* promote and recover: a pending approval bound to the source's snapshot. *)

Promote(p, j, a) ==
    /\ pc[p] = "idle"
    /\ jobs[j].status = "completed" /\ jobs[j].kind = "dry_run"
    /\ FreshApproval(a) /\ a \notin Reserved
    /\ approvals' = [approvals EXCEPT ![a] = [status |-> "pending",
            purpose |-> "promotion", job |-> None, src |-> j, digest |-> artifact[j]]]
    /\ UNCHANGED <<jobs, idem, artifact, locals, runs>>

Recover(p, j, a) ==
    /\ pc[p] = "idle"
    /\ jobs[j].status = "completed" /\ jobs[j].kind = "live"
    /\ FreshApproval(a) /\ a \notin Reserved
    /\ approvals' = [approvals EXCEPT ![a] = [status |-> "pending",
            purpose |-> "recovery", job |-> None, src |-> j, digest |-> artifact[j]]]
    /\ UNCHANGED <<jobs, idem, artifact, locals, runs>>

-----------------------------------------------------------------------------
(* approve and reject                                                      *)

(* approve reads a pending approval and revalidates what it is bound to.   *)
Approve(p, a) ==
    /\ pc[p] = "idle"
    /\ approvals[a].status = "pending"
    /\ approvals[a].purpose = "promotion" =>
         ValidPromotion(approvals[a], jobs[approvals[a].src].key)
    /\ approvals[a].purpose = "recovery" => ValidRecovery(approvals[a])
    /\ aid' = [aid EXCEPT ![p] = a]
    /\ apv' = [apv EXCEPT ![p] = approvals[a]]
    /\ Goto(p, "decide")
    /\ UNCHANGED <<store, jid, job, runs>>

(* Mutant: the second decision overwrites the first.                       *)
OverwriteApproval(p, status, label) ==
    /\ approvals' = [approvals EXCEPT ![aid[p]] = [apv[p] EXCEPT !.status = status]]
    /\ Goto(p, label)
    /\ UNCHANGED <<jid, job, aid, apv>>

(* transition_approval: pending -> status, or somebody else decided.       *)
TransitionApproval(p, status, label) ==
    IF approvals[aid[p]].status = "pending"
    THEN /\ approvals' = [approvals EXCEPT ![aid[p]] = [apv[p] EXCEPT !.status = status]]
         /\ Goto(p, label)
         /\ UNCHANGED <<jid, job, aid, apv>>
    ELSE Return(p) /\ UNCHANGED approvals

Decide(p) ==
    /\ pc[p] = "decide"
    /\ TransitionApproval(p, "approved", "granted")
    /\ UNCHANGED <<jobs, idem, artifact, runs>>

(* A gate's job is processed by the approver.                              *)
GrantedJob(p) ==
    /\ pc[p] = "granted"
    /\ apv[p].purpose = "gate"
    /\ jid' = [jid EXCEPT ![p] = apv[p].job]
    /\ Goto(p, "process")
    /\ UNCHANGED <<store, job, aid, apv, runs>>

(* A promotion or a recovery becomes a live job with the source's inputs.  *)
GrantedLive(p, j, gated) ==
    /\ pc[p] = "granted"
    /\ apv[p].purpose # "gate"
    /\ BeginLinked(p, aid[p], j,
                   IF apv[p].purpose = "promotion" THEN "live" ELSE "recovery",
                   jobs[apv[p].src].key, gated)

(* create_job refuses: the snapshot no longer holds.                       *)
GrantedStale(p) ==
    /\ pc[p] = "granted"
    /\ \/ apv[p].purpose = "promotion" /\ ~ValidPromotion(apv[p], jobs[apv[p].src].key)
       \/ apv[p].purpose = "recovery" /\ ~ValidRecovery(apv[p])
    /\ Return(p)
    /\ UNCHANGED <<store, runs>>

Reject(p, a) ==
    /\ pc[p] = "idle"
    /\ approvals[a].status = "pending"
    /\ aid' = [aid EXCEPT ![p] = a]
    /\ apv' = [apv EXCEPT ![p] = approvals[a]]
    /\ Goto(p, "refuse")
    /\ UNCHANGED <<store, jid, job, runs>>

Refuse(p) ==
    /\ pc[p] = "refuse"
    /\ TransitionApproval(p, "rejected", "refused")
    /\ UNCHANGED <<jobs, idem, artifact, runs>>

(* get_job, if the approval has one, and an unconditional save of that     *)
(* copy as rejected.                                                       *)
ReadRejected(p) ==
    /\ pc[p] = "refused"
    /\ IF apv[p].job = None
       THEN Return(p)
       ELSE /\ jid' = [jid EXCEPT ![p] = apv[p].job]
            /\ job' = [job EXCEPT ![p] = jobs[apv[p].job]]
            /\ Goto(p, "reject")
            /\ UNCHANGED <<aid, apv>>
    /\ UNCHANGED <<store, runs>>

RejectJob(p) ==
    /\ pc[p] = "reject"
    /\ Save(p, "rejected")
    /\ Return(p)
    /\ UNCHANGED <<approvals, idem, artifact, runs>>

-----------------------------------------------------------------------------
(* The environment, and the specification.                                 *)

(* The method ends where it is; nothing takes over what it was doing.      *)
Stop(p) ==
    /\ pc[p] # "idle"
    /\ Return(p)
    /\ UNCHANGED <<store, runs>>

(* A process dies.                                                         *)
Crash(p) == p \in Mortal /\ Stop(p)

(* The capability index changed and cannot be loaded: refresh_if_changed   *)
(* raises, at the start of process_job, when it looks the provider up, or  *)
(* in the create_job of a granted promotion or recovery.  Nobody catches   *)
(* it, so a job that was not claimed yet stays as it is.                   *)
RefreshFails(p) ==
    /\ p \in Unloadable
    /\ \/ pc[p] \in {"process", "check", "approved"}
       \/ pc[p] = "granted" /\ apv[p].purpose # "gate"
    /\ Stop(p)

(* The artifacts of a finished job change on disk.                         *)
Tamper(j, d) ==
    /\ jobs[j].status = "completed"
    /\ artifact[j] # None
    /\ artifact' = [artifact EXCEPT ![j] = d]
    /\ UNCHANGED <<jobs, approvals, idem, locals, runs>>

Call(p) ==
    \/ \E j \in JobId, r \in Requests :
         \/ Submit(p, j, r)
         \/ \E a \in ApprovalId : SubmitLinked(p, a, j, r)
    \/ \E j \in JobId, a \in ApprovalId : Promote(p, j, a) \/ Recover(p, j, a)
    \/ \E a \in ApprovalId : Approve(p, a) \/ Reject(p, a)
    \/ \E j \in JobId : Process(p, j)

CreateStep(p) == Link(p) \/ SaveJob(p)

CheckStep(p) ==
    \/ ReadJob(p) \/ ProviderMissing(p) \/ ReadApproval(p) \/ Resume(p)
    \/ Check(p) \/ DependenciesFail(p) \/ WaitForDependency(p)
    \/ EvaluatePolicy(p) \/ ReadLinked(p) \/ Park(p) \/ Run(p)
    \/ \E a \in ApprovalId : Ask(p, a)

RunStep(p) ==
    \/ Claim(p) \/ ClaimSettled(p) \/ ClaimRefused(p) \/ Replay(p)
    \/ SetupFails(p) \/ PreWriteFails(p) \/ StartProvider(p)
    \/ ProviderFails(p) \/ \E d \in Digest \cup {None} : ProviderEnds(p, d)
    \/ Complete(p) \/ Settle(p) \/ Release(p) \/ Fail(p)

DecideStep(p) ==
    \/ Decide(p) \/ GrantedJob(p) \/ GrantedStale(p)
    \/ \E j \in JobId, gated \in BOOLEAN : GrantedLive(p, j, gated)
    \/ Refuse(p) \/ ReadRejected(p) \/ RejectJob(p)

Step(p) == CreateStep(p) \/ CheckStep(p) \/ RunStep(p) \/ DecideStep(p)

Next ==
    \/ \E p \in Proc : Call(p) \/ Step(p) \/ RefreshFails(p) \/ Crash(p)
    \/ \E j \in JobId, d \in Forged : Tamper(j, d)

Spec == Init /\ [][Next]_vars

(* A method that was called runs to its end; nobody has to call one.       *)
FairSpec == Spec /\ \A p \in Proc : WF_vars(Step(p))

-----------------------------------------------------------------------------
(* Properties                                                              *)

(* Type invariant of the three tables, the artifacts and the processes.    *)
TypeOK ==
    /\ jobs \in [JobId -> Job]
    /\ approvals \in [ApprovalId -> Approval]
    /\ idem \in [Key -> IdempotencyRecord]
    /\ artifact \in [JobId -> Digest \cup {None}]
    /\ pc \in [Proc -> Label]
    /\ jid \in [Proc -> JobId \cup {None}]
    /\ job \in [Proc -> Job]
    /\ aid \in [Proc -> ApprovalId \cup {None}]
    /\ apv \in [Proc -> Approval]
    /\ runs \in [JobId -> Nat]

(* A provider is started at most once for a job, however many processes    *)
(* process it and whoever dies on the way (process_job's two               *)
(* compare-and-sets are what the provider start hangs on).                 *)
ProviderStartsOnce == \A j \in JobId : runs[j] <= 1

(* Behind the gate: a process is at work on the run of a job whose policy  *)
(* evaluation gave reasons only while the approval it carries is approved, *)
(* whoever decided, parked or processed the job in between.                *)
GatedRunIsApproved ==
    \A p \in Proc : pc[p] \in RunLabels /\ job[p].gated =>
        /\ job[p].approval # None
        /\ approvals[job[p].approval].status = "approved"

(* A job whose approval was rejected never starts its provider, even when  *)
(* the rejection lands before the job is parked.                           *)
RejectedGateNeverRuns ==
    \A a \in ApprovalId : approvals[a].status = "rejected" /\ approvals[a].job # None =>
        runs[approvals[a].job] = 0

(* A decision is final: create_job writes the whole approval row back      *)
(* unconditionally, and that write never revives or flips a decision.      *)
DecisionIsFinal ==
    [][\A a \in ApprovalId : approvals[a].status \in {"approved", "rejected"} =>
        /\ approvals'[a].status = approvals[a].status
        /\ approvals'[a].purpose = approvals[a].purpose
        /\ approvals'[a].src = approvals[a].src
        /\ approvals'[a].digest = approvals[a].digest]_vars

(* Writing p: process p is between its claim and the end of the provider.  *)
Writing(p) == job[p].kind = "live" /\ pc[p] \in {"start", "provider", "complete", "settle", "release"}

(* A live writer owns its key's record, so two live writers never work     *)
(* under one key at the same time.                                         *)
WriterHoldsKey ==
    \A p \in Proc : Writing(p) =>
        idem[job[p].key] = [status |-> "running", job |-> jid[p], digest |-> job[p].digest]

(* A settled key is settled for good: no later claim, failure or replay    *)
(* rebinds it to another job or change set.                                *)
SettledKeyIsFinal ==
    [][\A k \in Key : idem[k].status = "completed" => idem'[k] = idem[k]]_vars

(* A replayed job points at a job of the same key and change set that ran  *)
(* its provider itself and is recorded as completed.                       *)
ReplayIsOfCompletedRun ==
    \A j \in JobId : jobs[j].replay # None =>
        LET original == jobs[jobs[j].replay] IN
        /\ original.status = "completed" /\ original.replay = None
        /\ original.key = jobs[j].key /\ original.digest = jobs[j].digest
        /\ runs[jobs[j].replay] = 1 /\ runs[j] = 0

(* Every live write job descends from a completed dry run with the same    *)
(* inputs, through an approved promotion of that very snapshot.            *)
LiveWriteWasReviewed ==
    \A j \in JobId : jobs[j].kind = "live" =>
        LET ap == approvals[jobs[j].approval] IN
        /\ ap.status = "approved" /\ ap.purpose = "promotion"
        /\ ap.src = jobs[j].src /\ ap.digest = jobs[j].digest
        /\ jobs[ap.src].kind = "dry_run" /\ jobs[ap.src].status = "completed"
        /\ jobs[ap.src].key = jobs[j].key

(* The gate, before and after the decision.                                *)
GateHolds == GatedRunIsApproved /\ RejectedGateNeverRuns

(* What a live request comes to: the write of a reviewed change set, or    *)
(* the result of one that was written.                                     *)
LiveRequestsAreReviewed == LiveWriteWasReviewed /\ ReplayIsOfCompletedRun

(* The write ledger this module implements: a running or completed record  *)
(* is an entry held or settled; an absent or failed one is free.           *)
Ledger == INSTANCE WriteLedger WITH
    ledger <- [k \in Key |->
        IF KeyIsFree(k) THEN [state |-> "free", job |-> None, digest |-> None]
        ELSE [state |-> IF idem[k].status = "running" THEN "held" ELSE "settled",
              job |-> idem[k].job, digest |-> idem[k].digest]],
    written <- {j \in JobId : jobs[j].kind = "live" /\ runs[j] > 0}

(* Every behaviour of the service is one of the ledger: live providers are *)
(* started once per job, under a key held for that job's change set, and   *)
(* never again once the key is settled.                                    *)
ImplementsLedger == Ledger!Spec

(* A finished job keeps its outcome, against the unconditional saves of    *)
(* _fail, of the parking steps and of reject.                              *)
OutcomeIsFinal ==
    [][\A j \in JobId : jobs[j].status \in {"completed", "failed", "waiting_for_dependency"} =>
        jobs'[j] = jobs[j]]_vars

(* Where nothing drives a job on: an outcome, or a wait for a decision or  *)
(* a dependency.                                                           *)
AtRest(j) == jobs[j].status \notin {"queued", "checking_dependencies", "running"}

(* Claimed, or taken up by a process whose registry loads.                 *)
IsDriven(j) ==
    \/ jobs[j].status \in {"checking_dependencies", "running"}
    \/ \E p \in Proc \ Unloadable : pc[p] = "process" /\ jid[p] = j

(* When no process dies, a job that was claimed comes to rest whoever runs *)
(* it, and so does every job that a process takes up whose registry loads: *)
(* no other path of process_job returns with its job queued, checking or   *)
(* running.  (A refresh that raises before the claim leaves it queued.)    *)
JobComesToRest ==
    \A j \in JobId : IsDriven(j) ~> AtRest(j)
=============================================================================
