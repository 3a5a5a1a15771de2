----------------------------- MODULE JobsProofs -----------------------------
(***************************************************************************)
(* Proofs about Jobs, for every set of processes, identifiers, keys and    *)
(* requests, with any process dying at any point. The second part is about *)
(* what Jobs promises of gates, outcomes and reviews: the gate for any set *)
(* of shared jobs, outcomes and reviews where only the creator of a job    *)
(* and the one who decides on its approval process it.                     *)
(***************************************************************************)
EXTENDS Jobs, TLAPS

(* Labels at which a process holds no job, and those at which it holds an  *)
(* approval.                                                               *)
JoblessLabels  == {"idle", "decide", "granted", "refuse", "refused"}
DecidingLabels == {"decide", "granted", "refuse", "refused"}

(* What rows, and the copies of rows, always carry.                        *)
KeyedJob(r) == r.kind \in {"dry_run", "live"} => r.key \in Key
SourcedApproval(r) == r.purpose # "gate" => r.src \in JobId
GateOfJob(r) ==
    IF r.purpose = "gate"
    THEN r.job \in JobId /\ jobs[r.job].status # "absent"
    ELSE r.job = None

(* Two versions of one approval row: the same subject.                     *)
SameSubject(x, y) == x.purpose = y.purpose /\ x.src = y.src /\ x.digest = y.digest
IsCopy(x, y) == y.status # "absent" /\ SameSubject(x, y)

TableTypes ==
    /\ jobs \in [JobId -> Job]
    /\ approvals \in [ApprovalId -> Approval]
    /\ idem \in [Key -> IdempotencyRecord]
    /\ artifact \in [JobId -> Digest \cup {None}]
    /\ runs \in [JobId -> Nat]

TablesOK ==
    /\ TableTypes
    /\ \A j \in JobId : KeyedJob(jobs[j])
    /\ \A a \in ApprovalId : SourcedApproval(approvals[a])
    /\ \A a \in ApprovalId : approvals[a].status = "pending" => GateOfJob(approvals[a])
    /\ \A k \in Key : idem[k].status # "absent" => idem[k].job \in JobId

LocalTypes ==
    /\ pc \in [Proc -> Label]
    /\ jid \in [Proc -> JobId \cup {None}]
    /\ job \in [Proc -> Job]
    /\ aid \in [Proc -> ApprovalId \cup {None}]
    /\ apv \in [Proc -> Approval]

(* What process p holds when it is at label l.                             *)
HoldsAt(p, l) ==
    /\ l \notin JoblessLabels => jid[p] \in JobId
    /\ l \notin JoblessLabels \cup {"link", "save"} => jobs[jid[p]].status # "absent"
    /\ l \in DecidingLabels \cup {"link"} => aid[p] \in ApprovalId
    /\ l \in DecidingLabels => GateOfJob(apv[p])
    /\ l \in DecidingLabels \cup {"link"} => IsCopy(apv[p], approvals[aid[p]])
    /\ l = "link" => apv[p].status = "approved" /\ approvals[aid[p]].status = "approved"
    /\ l \in {"claim", "replay", "settle"} => job[p].kind = "live"
    /\ l = "replay" => job[p].replay \in JobId

LocalOK(p) ==
    /\ HoldsAt(p, pc[p])
    /\ KeyedJob(job[p])
    /\ SourcedApproval(apv[p])

Inv1 == TablesOK /\ LocalTypes /\ \A p \in Proc : LocalOK(p)

(* A step of process p leaves the locals of the others alone; no row ever  *)
(* disappears, and an approval keeps its subject and its decision.         *)
OthersKeep(p) ==
    \A q \in Proc \ {p} :
        /\ pc'[q] = pc[q] /\ jid'[q] = jid[q] /\ job'[q] = job[q]
        /\ aid'[q] = aid[q] /\ apv'[q] = apv[q]

NoJobVanishes ==
    \A j \in JobId : jobs[j].status # "absent" => jobs'[j].status # "absent"

ApprovalsPersist ==
    \A a \in ApprovalId : approvals[a].status # "absent" =>
        /\ IsCopy(approvals[a], approvals'[a])
        /\ approvals[a].status # "pending" => approvals'[a].status = approvals[a].status

Persist == NoJobVanishes /\ ApprovalsPersist

LEMMA TypesAreTypeOK == TypeOK <=> TableTypes /\ LocalTypes
BY DEF TypeOK, TableTypes, LocalTypes

LEMMA InitInv1 == Init => Inv1
BY DEF Init, Inv1, TablesOK, TableTypes, LocalTypes, LocalOK, HoldsAt, JoblessLabels, DecidingLabels,
       KeyedJob, SourcedApproval, GateOfJob, AbsentJob, AbsentApproval, AbsentRecord,
       Job, Approval, IdempotencyRecord, JobStatus, JobKind, Label

(* The status written into a copy of a job row leaves the rest alone.      *)
LEMMA StatusUpdate ==
    ASSUME NEW r \in Job, NEW s \in JobStatus
    PROVE  /\ [r EXCEPT !.status = s] \in Job
           /\ [r EXCEPT !.status = s].status = s
           /\ [r EXCEPT !.status = s].kind = r.kind
           /\ [r EXCEPT !.status = s].key = r.key
           /\ [r EXCEPT !.status = s].digest = r.digest
BY DEF Job

(* What Save does to the table.                                            *)
LEMMA SaveEffect ==
    ASSUME TypeOK, NEW p \in Proc, NEW s \in JobStatus, Save(p, s)
    PROVE  /\ jobs' \in [JobId -> Job]
           /\ \A j \in JobId : j # jid[p] => jobs'[j] = jobs[j]
           /\ jid[p] \in JobId =>
                /\ jobs'[jid[p]].status = s
                /\ jobs'[jid[p]].kind = job[p].kind
                /\ jobs'[jid[p]].key = job[p].key
                /\ jobs'[jid[p]].digest = job[p].digest
<1> DEFINE n == [job[p] EXCEPT !.status = s]
<1>1. job[p] \in Job /\ jobs \in [JobId -> Job] BY DEF TypeOK
<1>2. n \in Job /\ n.status = s /\ n.kind = job[p].kind /\ n.key = job[p].key
      /\ n.digest = job[p].digest
  BY <1>1, StatusUpdate
<1>3. jobs' = [jobs EXCEPT ![jid[p]] = n] BY DEF Save
<1> HIDE DEF n
<1> QED BY <1>1, <1>2, <1>3

LEMMA ReturnEffect ==
    ASSUME TypeOK, NEW p \in Proc, Return(p)
    PROVE  /\ pc' \in [Proc -> Label] /\ jid' \in [Proc -> JobId \cup {None}]
           /\ job' \in [Proc -> Job] /\ aid' \in [Proc -> ApprovalId \cup {None}]
           /\ apv' \in [Proc -> Approval]
           /\ pc'[p] = "idle" /\ jid'[p] = None
           /\ job'[p] = AbsentJob /\ apv'[p] = AbsentApproval
           /\ \A q \in Proc : q # p =>
                /\ pc'[q] = pc[q] /\ jid'[q] = jid[q] /\ job'[q] = job[q]
                /\ aid'[q] = aid[q] /\ apv'[q] = apv[q]
<1>1. AbsentJob \in Job BY DEF AbsentJob, Job, JobStatus, JobKind
<1>2. AbsentApproval \in Approval BY DEF AbsentApproval, Approval
<1>3. "idle" \in Label BY DEF Label
<1> QED BY <1>1, <1>2, <1>3 DEF TypeOK, Return, Goto

(* The rows the service builds from nothing are well typed.                *)
LEMMA SubmittedRow ==
    ASSUME NEW r \in Requests
    PROVE  LET row == [AbsentJob EXCEPT !.status = "queued", !.kind = r.kind,
                                        !.key = r.key, !.gated = r.gated]
           IN  row \in Job /\ row.status = "queued" /\ row.kind = r.kind /\ row.key = r.key
BY ConstantsAssumption DEF AbsentJob, Job, JobStatus, JobKind

LEMMA RequestFacts ==
    ASSUME NEW r \in Requests
    PROVE  /\ r.kind \in {"plain", "dry_run", "live"} /\ r.gated \in BOOLEAN
           /\ r.key \in Key \cup {None}
           /\ r.kind # "plain" => r.key \in Key
BY ConstantsAssumption

LEMMA ApprovalUpdate ==
    ASSUME NEW r \in Approval
    PROVE  /\ \A s \in {"approved", "rejected"} :
                /\ [r EXCEPT !.status = s] \in Approval
                /\ [r EXCEPT !.status = s].status = s
                /\ [r EXCEPT !.status = s].purpose = r.purpose
                /\ [r EXCEPT !.status = s].src = r.src
                /\ [r EXCEPT !.status = s].digest = r.digest
                /\ [r EXCEPT !.status = s].job = r.job
           /\ \A j \in JobId :
                /\ [r EXCEPT !.job = j] \in Approval
                /\ [r EXCEPT !.job = j].status = r.status
                /\ [r EXCEPT !.job = j].purpose = r.purpose
                /\ [r EXCEPT !.job = j].src = r.src
                /\ [r EXCEPT !.job = j].digest = r.digest
                /\ [r EXCEPT !.job = j].job = j
BY DEF Approval

LEMMA SetIdempotencyEffect ==
    ASSUME TypeOK, NEW p \in Proc, jid[p] \in JobId, job[p].key \in Key,
           NEW s \in {"running", "failed", "completed"}, SetIdempotency(p, s)
    PROVE  /\ idem' \in [Key -> IdempotencyRecord]
           /\ \A k \in Key : k # job[p].key => idem'[k] = idem[k]
           /\ idem'[job[p].key] = [status |-> s, job |-> jid[p], digest |-> job[p].digest]
<1> DEFINE n == [status |-> s, job |-> jid[p], digest |-> job[p].digest]
<1>1. n \in IdempotencyRecord BY DEF TypeOK, Job, IdempotencyRecord
<1>2. idem' = [idem EXCEPT ![job[p].key] = n] BY DEF SetIdempotency
<1> HIDE DEF n
<1> QED BY <1>1, <1>2 DEF TypeOK, n

(* BeginLinked, for a request or for a granted promotion or recovery.      *)
LEMMA BeginLinkedEffect ==
    ASSUME TypeOK, NEW p \in Proc, NEW a \in ApprovalId, NEW j \in JobId,
           NEW kind \in JobKind, NEW key \in Key \cup {None}, NEW gated \in BOOLEAN,
           BeginLinked(p, a, j, kind, key, gated)
    PROVE  /\ job' \in [Proc -> Job]
           /\ job'[p].kind = kind /\ job'[p].key = key
           /\ \A q \in Proc : q # p => job'[q] = job[q]
<1> DEFINE n == [status |-> "queued", kind |-> kind,
                   gated |-> gated, key |-> key, approval |-> a,
                   src |-> IF IsLive(kind) THEN approvals[a].src ELSE None,
                   digest |-> IF IsLive(kind) THEN approvals[a].digest ELSE None,
                   replay |-> None]
<1>1. approvals[a].src \in JobId \cup {None} /\ approvals[a].digest \in Digest \cup {None}
  BY DEF TypeOK, Approval
<1>2. n \in Job BY <1>1 DEF Job, JobStatus
<1>3. job' = [job EXCEPT ![p] = n] BY DEF BeginLinked
<1>4. n.kind = kind /\ n.key = key OBVIOUS
<1> HIDE DEF n
<1> QED BY <1>2, <1>3, <1>4 DEF TypeOK
-----------------------------------------------------------------------------
(* Frames: what the invariant needs of a step, by the parts it touches.    *)

LEMMA FrameKeeps ==
    ASSUME Inv1, NEW p \in Proc, TablesOK', Persist,
           LocalTypes', OthersKeep(p), LocalOK(p)'
    PROVE  Inv1' /\ Persist
<1> SUFFICES ASSUME NEW q \in Proc PROVE LocalOK(q)'
  BY DEF Inv1
<1>1. CASE q = p BY <1>1
<1>2. CASE q # p
  <2>1. pc'[q] = pc[q] /\ jid'[q] = jid[q] /\ job'[q] = job[q]
        /\ aid'[q] = aid[q] /\ apv'[q] = apv[q]
    BY <1>2 DEF OthersKeep
  <2>2. GateOfJob(apv[q]) => GateOfJob(apv[q])'
    BY <2>1 DEF GateOfJob, Persist, NoJobVanishes
  <2>3. LocalOK(q) BY DEF Inv1
  <2>4. HoldsAt(q, pc[q])' BY <2>1, <2>2, <2>3 DEF LocalOK, HoldsAt, Persist, NoJobVanishes, ApprovalsPersist, IsCopy, SameSubject
  <2> QED BY <2>1, <2>3, <2>4 DEF LocalOK, KeyedJob, SourcedApproval
<1> QED BY <1>1, <1>2

LEMMA ReturnKeeps ==
    ASSUME Inv1, NEW p \in Proc, Return(p), TablesOK', Persist
    PROVE  Inv1' /\ Persist
<1>1. TypeOK BY TypesAreTypeOK DEF Inv1, TablesOK
<1>2. LocalTypes' /\ OthersKeep(p) BY <1>1, ReturnEffect DEF LocalTypes, OthersKeep
<1>3. pc'[p] = "idle" /\ job'[p] = AbsentJob /\ apv'[p] = AbsentApproval
  BY <1>1, ReturnEffect
<1>4. LocalOK(p)'
  BY <1>3 DEF LocalOK, HoldsAt, JoblessLabels, DecidingLabels, KeyedJob, SourcedApproval,
              AbsentJob, AbsentApproval
<1> QED BY <1>2, <1>4, FrameKeeps

LEMMA GotoKeeps ==
    ASSUME Inv1, NEW p \in Proc, NEW l \in Label, HoldsAt(p, l),
           Goto(p, l), UNCHANGED <<jid, job, aid, apv>>, TablesOK', Persist
    PROVE  Inv1' /\ Persist
<1>1. LocalTypes' /\ OthersKeep(p) /\ pc'[p] = l
  BY DEF Inv1, LocalTypes, OthersKeep, Goto
<1>2. GateOfJob(apv[p]) => GateOfJob(apv[p])'
  BY DEF GateOfJob, Persist, NoJobVanishes
<1>3. HoldsAt(p, l)'
  BY <1>2 DEF HoldsAt, Persist, NoJobVanishes, ApprovalsPersist, IsCopy, SameSubject
<1>4. LocalOK(p)' BY <1>1, <1>3 DEF Inv1, LocalOK, HoldsAt, KeyedJob, SourcedApproval
<1> QED BY <1>1, <1>4, FrameKeeps

(* A step that leaves the processes alone.                                 *)
LEMMA LocalsKeep ==
    ASSUME Inv1, UNCHANGED locals, TablesOK', Persist
    PROVE  Inv1' /\ Persist
<1>1. LocalTypes' BY DEF Inv1, LocalTypes, locals
<1>2. ASSUME NEW p \in Proc PROVE LocalOK(p)'
  <2>1. GateOfJob(apv[p]) => GateOfJob(apv[p])'
    BY DEF GateOfJob, locals, Persist, NoJobVanishes
  <2>2. LocalOK(p) BY DEF Inv1
  <2>3. pc' = pc /\ jid' = jid /\ job' = job /\ aid' = aid /\ apv' = apv BY DEF locals
  <2> QED BY <2>1, <2>2, <2>3 DEF LocalOK, HoldsAt, KeyedJob, SourcedApproval,
                  Persist, NoJobVanishes, ApprovalsPersist, IsCopy, SameSubject
<1> QED BY <1>1, <1>2 DEF Inv1

LEMMA SameTablesKeep ==
    ASSUME Inv1, UNCHANGED <<store, runs>>
    PROVE  TablesOK' /\ Persist
BY DEF Inv1, TablesOK, TableTypes, GateOfJob, KeyedJob, SourcedApproval, Persist,
       NoJobVanishes, ApprovalsPersist, IsCopy, SameSubject, store

(* Only the jobs table changes, and one row of it.                         *)
LEMMA JobWriteKeeps ==
    ASSUME Inv1, NEW j \in JobId, jobs' \in [JobId -> Job], artifact' \in [JobId -> Digest \cup {None}],
           \A i \in JobId : i # j => jobs'[i] = jobs[i],
           jobs'[j].status # "absent", KeyedJob(jobs'[j]), UNCHANGED <<approvals, idem, runs>>
    PROVE  TablesOK' /\ Persist
<1>1. Persist
  BY DEF Persist, NoJobVanishes, ApprovalsPersist, IsCopy, SameSubject
<1>2. TableTypes' BY DEF Inv1, TablesOK, TableTypes
<1>3. \A i \in JobId : KeyedJob(jobs[i])' BY DEF Inv1, TablesOK, KeyedJob
<1>4. \A a \in ApprovalId : GateOfJob(approvals[a]) => GateOfJob(approvals[a])'
  BY <1>1 DEF GateOfJob, Persist, NoJobVanishes
<1> QED BY <1>1, <1>2, <1>3, <1>4 DEF Inv1, TablesOK, SourcedApproval

LEMMA SaveKeeps ==
    ASSUME Inv1, NEW p \in Proc, pc[p] \notin JoblessLabels,
           NEW s \in JobStatus, s # "absent", Save(p, s),
           UNCHANGED <<approvals, idem, artifact, runs>>
    PROVE  TablesOK' /\ Persist
<1>1. TypeOK BY TypesAreTypeOK DEF Inv1, TablesOK
<1>2. jid[p] \in JobId /\ KeyedJob(job[p]) BY DEF Inv1, LocalOK, HoldsAt
<1>3. KeyedJob(jobs'[jid[p]]) BY <1>1, <1>2, SaveEffect DEF KeyedJob
<1> QED BY <1>1, <1>2, <1>3, SaveEffect, JobWriteKeeps DEF TypeOK

(* The job of process p is saved with a status, and the call ends.         *)
LEMMA SaveReturnKeeps ==
    ASSUME Inv1, NEW p \in Proc, pc[p] \notin JoblessLabels,
           NEW s \in JobStatus, s # "absent", Save(p, s), Return(p),
           UNCHANGED <<approvals, idem, artifact, runs>>
    PROVE  Inv1' /\ Persist
BY SaveKeeps, ReturnKeeps

LEMMA TransitionKeeps ==
    ASSUME Inv1, NEW p \in Proc, pc[p] \notin JoblessLabels,
           NEW e \in JobStatus, NEW s \in JobStatus, s # "absent",
           NEW l \in Label, HoldsAt(p, l), Transition(p, e, s, l),
           UNCHANGED <<approvals, idem, artifact, runs>>
    PROVE  Inv1' /\ Persist
<1>1. CASE jobs[jid[p]].status = e
  <2>1. Save(p, s) /\ Goto(p, l) /\ UNCHANGED <<jid, job, aid, apv>>
    BY <1>1 DEF Transition
  <2> QED BY <2>1, SaveKeeps, GotoKeeps
<1>2. CASE jobs[jid[p]].status # e
  <2>1. Return(p) /\ UNCHANGED <<store, runs>> BY <1>2 DEF Transition, store
  <2> QED BY <2>1, SameTablesKeep, ReturnKeeps
<1> QED BY <1>1, <1>2

(* One approval row is written.                                            *)
LEMMA ApprovalWriteKeeps ==
    ASSUME Inv1, NEW a \in ApprovalId, NEW n \in Approval,
           approvals' = [approvals EXCEPT ![a] = n],
           SourcedApproval(n), n.status = "pending" => GateOfJob(n)',
           approvals[a].status # "absent" =>
              /\ IsCopy(approvals[a], n)
              /\ approvals[a].status # "pending" => n.status = approvals[a].status,
           UNCHANGED <<jobs, idem, artifact, runs>>
    PROVE  TablesOK' /\ Persist
<1>1. \A b \in ApprovalId : b # a => approvals'[b] = approvals[b]
  BY DEF Inv1, TablesOK, TableTypes
<1>2. approvals'[a] = n /\ approvals' \in [ApprovalId -> Approval]
  BY DEF Inv1, TablesOK, TableTypes
<1>3. TableTypes' BY <1>2 DEF Inv1, TablesOK, TableTypes
<1>4. \A b \in ApprovalId : SourcedApproval(approvals'[b])
  BY <1>1, <1>2 DEF Inv1, TablesOK
<1>5. Persist
  BY <1>1, <1>2 DEF Persist, NoJobVanishes, ApprovalsPersist, IsCopy, SameSubject
<1>6. ASSUME NEW b \in ApprovalId, approvals'[b].status = "pending"
      PROVE  GateOfJob(approvals[b])'
  <2>1. CASE b = a BY <1>2, <1>6, <2>1 DEF GateOfJob
  <2>2. CASE b # a BY <1>1, <1>6, <2>2 DEF Inv1, TablesOK, GateOfJob
  <2> QED BY <2>1, <2>2
<1> QED BY <1>3, <1>4, <1>5, <1>6 DEF Inv1, TablesOK, SourcedApproval, KeyedJob
(* A job is submitted: the row of a fresh identifier is written.           *)
LEMMA SubmitKeeps ==
    ASSUME Inv1, NEW p \in Proc, NEW j \in JobId, NEW r \in Requests, Submit(p, j, r)
    PROVE  Inv1' /\ Persist
<1> DEFINE n == [AbsentJob EXCEPT !.status = "queued", !.kind = r.kind,
                                  !.key = r.key, !.gated = r.gated]
<1>1. n \in Job /\ n.status = "queued" /\ n.kind = r.kind /\ n.key = r.key
  BY SubmittedRow
<1>2. jobs' = [jobs EXCEPT ![j] = n] BY DEF Submit
<1> HIDE DEF n
<1>3. KeyedJob(n) BY <1>1, RequestFacts DEF KeyedJob
<1>4. jobs' \in [JobId -> Job] /\ jobs'[j] = n /\ \A i \in JobId : i # j => jobs'[i] = jobs[i]
  BY <1>1, <1>2 DEF Inv1, TablesOK, TableTypes
<1>5. UNCHANGED <<approvals, idem, artifact, runs, job, aid, apv>> BY DEF Submit
<1>6. TablesOK' /\ Persist
  BY <1>1, <1>3, <1>4, <1>5, JobWriteKeeps DEF Inv1, TablesOK, TableTypes
<1>7. LocalTypes' /\ OthersKeep(p) /\ pc'[p] = "process" /\ jid'[p] = j
  BY <1>5 DEF Submit, Goto, Inv1, LocalTypes, OthersKeep, Label
<1>8. LocalOK(p)'
  BY <1>1, <1>4, <1>5, <1>7 DEF Inv1, LocalOK, HoldsAt, JoblessLabels, DecidingLabels,
                                KeyedJob, SourcedApproval
<1> QED BY <1>6, <1>7, <1>8, FrameKeeps

LEMMA BeginLinkedKeeps ==
    ASSUME Inv1, NEW p \in Proc, NEW a \in ApprovalId, NEW j \in JobId,
           NEW kind \in JobKind, NEW key \in Key \cup {None}, NEW gated \in BOOLEAN,
           kind \in {"dry_run", "live"} => key \in Key,
           BeginLinked(p, a, j, kind, key, gated)
    PROVE  Inv1' /\ Persist
<1>1. TypeOK BY TypesAreTypeOK DEF Inv1, TablesOK
<1>2. job' \in [Proc -> Job] /\ job'[p].kind = kind /\ job'[p].key = key
      /\ \A q \in Proc : q # p => job'[q] = job[q]
  BY <1>1, BeginLinkedEffect
<1>3. UNCHANGED <<store, runs>> BY DEF BeginLinked, store
<1>4. TablesOK' /\ Persist BY <1>3, SameTablesKeep
<1>5. /\ pc' = [pc EXCEPT ![p] = "link"] /\ jid' = [jid EXCEPT ![p] = j]
      /\ aid' = [aid EXCEPT ![p] = a] /\ apv' = [apv EXCEPT ![p] = approvals[a]]
      /\ approvals[a].status = "approved"
  BY DEF BeginLinked, Goto, IsGranted
<1>6. approvals[a] \in Approval /\ SourcedApproval(approvals[a])
  BY DEF Inv1, TablesOK, TableTypes
<1>7. LocalTypes' BY <1>2, <1>5, <1>6 DEF Inv1, LocalTypes, Label
<1>8. OthersKeep(p) BY <1>2, <1>5 DEF Inv1, LocalTypes, OthersKeep
<1>9. pc'[p] = "link" /\ jid'[p] = j /\ aid'[p] = a /\ apv'[p] = approvals[a]
  BY <1>5 DEF Inv1, LocalTypes
<1>10. LocalOK(p)'
  BY <1>2, <1>3, <1>5, <1>6, <1>9 DEF LocalOK, HoldsAt, JoblessLabels, DecidingLabels,
                                KeyedJob, SourcedApproval, IsCopy, SameSubject, store
<1> QED BY <1>4, <1>7, <1>8, <1>10, FrameKeeps

LEMMA SubmitLinkedKeeps ==
    ASSUME Inv1, NEW p \in Proc, NEW a \in ApprovalId, NEW j \in JobId, NEW r \in Requests,
           SubmitLinked(p, a, j, r)
    PROVE  Inv1' /\ Persist
<1>1. r.kind \in JobKind /\ r.key \in Key \cup {None} /\ r.gated \in BOOLEAN
      /\ (r.kind \in {"dry_run", "live"} => r.key \in Key)
  BY RequestFacts DEF JobKind
<1> QED BY <1>1, BeginLinkedKeeps DEF SubmitLinked

LEMMA GrantedLiveKeeps ==
    ASSUME Inv1, NEW p \in Proc, NEW j \in JobId, NEW gated \in BOOLEAN,
           GrantedLive(p, j, gated)
    PROVE  Inv1' /\ Persist
<1> DEFINE kind == IF apv[p].purpose = "promotion" THEN "live" ELSE "recovery"
           key == jobs[apv[p].src].key
<1>1. aid[p] \in ApprovalId /\ apv[p].src \in JobId
  BY DEF GrantedLive, Inv1, LocalOK, HoldsAt, DecidingLabels, SourcedApproval
<1>2. jobs[apv[p].src] \in Job /\ KeyedJob(jobs[apv[p].src])
  BY <1>1 DEF Inv1, TablesOK, TableTypes
<1>3. kind \in JobKind /\ key \in Key \cup {None} BY <1>2 DEF JobKind, Job
<1>4. BeginLinked(p, aid[p], j, kind, key, gated) BY DEF GrantedLive
<1>5. ASSUME kind = "live" PROVE key \in Key
  <2>1. approvals[aid[p]].src = apv[p].src
    BY DEF GrantedLive, Inv1, LocalOK, HoldsAt, DecidingLabels, IsCopy, SameSubject
  <2>2. jobs[approvals[aid[p]].src].kind = "dry_run"
    BY <1>4, <1>5 DEF BeginLinked, ValidPromotion
  <2> QED BY <1>2, <2>1, <2>2 DEF KeyedJob
<1> HIDE DEF kind, key
<1>6. kind \in {"live", "recovery"} BY DEF kind
<1> QED BY <1>1, <1>3, <1>4, <1>5, <1>6, BeginLinkedKeeps

(* promote and recover: a fresh approval row about a finished job.         *)
LEMMA RequestReviewKeeps ==
    ASSUME Inv1, NEW p \in Proc, NEW j \in JobId, NEW a \in ApprovalId,
           Promote(p, j, a) \/ Recover(p, j, a)
    PROVE  Inv1' /\ Persist
<1>1. PICK purpose \in {"promotion", "recovery"} :
        approvals' = [approvals EXCEPT ![a] = [status |-> "pending",
            purpose |-> purpose, job |-> None, src |-> j, digest |-> artifact[j]]]
  BY DEF Promote, Recover
<1>2. PICK n \in Approval :
        /\ n.purpose = purpose /\ n.job = None /\ n.src = j
        /\ approvals' = [approvals EXCEPT ![a] = n]
  BY <1>1 DEF Inv1, TablesOK, TableTypes, Approval
<1>3. approvals[a].status = "absent" /\ UNCHANGED <<jobs, idem, artifact, locals, runs>>
  BY DEF Promote, Recover, FreshApproval
<1>4. SourcedApproval(n) /\ GateOfJob(n)' BY <1>2 DEF SourcedApproval, GateOfJob
<1>5. n.status = "pending" => GateOfJob(n)' BY <1>4
<1>6. TablesOK' /\ Persist
  <2>1. UNCHANGED <<jobs, idem, artifact, runs>> BY <1>3
  <2> QED BY <1>2, <1>3, <1>4, <1>5, <2>1, ApprovalWriteKeeps
<1> QED BY <1>3, <1>6, LocalsKeep

(* approve and reject read a pending approval.                             *)
LEMMA BeginDecisionKeeps ==
    ASSUME Inv1, NEW p \in Proc, NEW a \in ApprovalId, Approve(p, a) \/ Reject(p, a)
    PROVE  Inv1' /\ Persist
<1>1. PICK l \in {"decide", "refuse"} :
        /\ pc' = [pc EXCEPT ![p] = l]
        /\ aid' = [aid EXCEPT ![p] = a] /\ apv' = [apv EXCEPT ![p] = approvals[a]]
        /\ approvals[a].status = "pending" /\ UNCHANGED <<store, jid, job, runs>>
  BY DEF Approve, Reject, Goto
<1>2. TablesOK' /\ Persist BY <1>1, SameTablesKeep
<1>3. approvals[a] \in Approval /\ SourcedApproval(approvals[a]) /\ GateOfJob(approvals[a])
  BY <1>1 DEF Inv1, TablesOK, TableTypes
<1>4. LocalTypes' BY <1>1, <1>3 DEF Inv1, LocalTypes, Label
<1>5. OthersKeep(p) BY <1>1 DEF Inv1, LocalTypes, OthersKeep
<1>6. pc'[p] = l /\ aid'[p] = a /\ apv'[p] = approvals[a] BY <1>1 DEF Inv1, LocalTypes
<1>7. GateOfJob(apv[p])' BY <1>1, <1>3, <1>6 DEF GateOfJob, store
<1>8. KeyedJob(job[p])' BY <1>1 DEF Inv1, LocalOK, KeyedJob
<1>9. HoldsAt(p, pc[p])'
  BY <1>1, <1>6, <1>7 DEF HoldsAt, JoblessLabels, DecidingLabels, IsCopy, SameSubject, store
<1>10. SourcedApproval(apv[p])' BY <1>3, <1>6 DEF SourcedApproval
<1> QED BY <1>2, <1>4, <1>5, <1>8, <1>9, <1>10, FrameKeeps DEF LocalOK

(* process_job for a job that exists.                                      *)
LEMMA ProcessKeeps ==
    ASSUME Inv1, NEW p \in Proc, NEW j \in JobId, Process(p, j)
    PROVE  Inv1' /\ Persist
<1>1. TablesOK' /\ Persist BY SameTablesKeep DEF Process
<1>2. LocalTypes' BY DEF Process, Goto, Inv1, LocalTypes, Label
<1>3. OthersKeep(p) BY DEF Process, Goto, Inv1, LocalTypes, OthersKeep
<1>4. pc'[p] = "process" /\ jid'[p] = j /\ UNCHANGED <<jobs, approvals, job, aid, apv>>
  BY DEF Process, Goto, Inv1, LocalTypes, store
<1>5. HoldsAt(p, pc[p])'
  BY <1>4 DEF HoldsAt, JoblessLabels, DecidingLabels, Process
<1>6. KeyedJob(job[p])' /\ SourcedApproval(apv[p])'
  BY <1>4 DEF Inv1, LocalOK, KeyedJob, SourcedApproval
<1> QED BY <1>1, <1>2, <1>3, <1>5, <1>6, FrameKeeps DEF LocalOK

LEMMA CallKeeps ==
    ASSUME Inv1, NEW p \in Proc, Call(p)
    PROVE  Inv1' /\ Persist
BY SubmitKeeps, SubmitLinkedKeeps, RequestReviewKeeps, BeginDecisionKeeps, ProcessKeeps DEF Call

(* create_job's two writes.                                                *)
LEMMA CreateStepKeeps ==
    ASSUME Inv1, NEW p \in Proc, CreateStep(p)
    PROVE  Inv1' /\ Persist
<1>1. CASE Link(p)
  <2> DEFINE n == [apv[p] EXCEPT !.job = jid[p]]
  <2>1. /\ jid[p] \in JobId /\ aid[p] \in ApprovalId /\ apv[p] \in Approval
        /\ apv[p].status = "approved" /\ approvals[aid[p]].status = "approved"
        /\ SameSubject(apv[p], approvals[aid[p]]) /\ SourcedApproval(apv[p])
    BY <1>1 DEF Link, Inv1, LocalTypes, LocalOK, HoldsAt, JoblessLabels, DecidingLabels, IsCopy
  <2>2. n \in Approval /\ n.status = "approved" /\ SameSubject(n, apv[p])
    BY <2>1, ApprovalUpdate DEF SameSubject
  <2>3. approvals' = [approvals EXCEPT ![aid[p]] = n] BY <1>1 DEF Link
  <2> HIDE DEF n
  <2>4. SourcedApproval(n) /\ IsCopy(approvals[aid[p]], n)
    BY <2>1, <2>2 DEF SourcedApproval, SameSubject, IsCopy
  <2>5. TablesOK' /\ Persist
    <3>1. UNCHANGED <<jobs, idem, artifact, runs>> BY <1>1 DEF Link
    <3> QED BY <2>1, <2>2, <2>3, <2>4, <3>1, ApprovalWriteKeeps
  <2>6. HoldsAt(p, "save") BY <2>1 DEF HoldsAt, DecidingLabels
  <2>7. "save" \in Label /\ Goto(p, "save") /\ UNCHANGED <<jid, job, aid, apv>>
    BY <1>1 DEF Link, Label
  <2> QED BY <2>5, <2>6, <2>7, GotoKeeps
<1>2. CASE SaveJob(p)
  <2>1. pc[p] = "save" /\ Save(p, "queued") /\ Goto(p, "process")
        /\ UNCHANGED <<approvals, idem, artifact, jid, job, aid, apv, runs>>
    BY <1>2 DEF SaveJob
  <2>2. "queued" \in JobStatus BY DEF JobStatus
  <2>3. TablesOK' /\ Persist BY <2>1, <2>2, SaveKeeps DEF JoblessLabels
  <2>4. jid[p] \in JobId /\ TypeOK
    BY <2>1, TypesAreTypeOK DEF Inv1, TablesOK, LocalOK, HoldsAt, JoblessLabels
  <2>5. jobs'[jid[p]].status = "queued" BY <2>1, <2>2, <2>4, SaveEffect
  <2>6. LocalTypes' /\ OthersKeep(p) /\ pc'[p] = "process"
    BY <2>1 DEF Inv1, LocalTypes, OthersKeep, Goto, Label
  <2>7. LocalOK(p)'
    BY <2>1, <2>4, <2>5, <2>6 DEF Inv1, LocalOK, HoldsAt, DecidingLabels, KeyedJob, SourcedApproval
  <2> QED BY <2>3, <2>6, <2>7, FrameKeeps
<1> QED BY <1>1, <1>2 DEF CreateStep

(* process_job, up to the running job.                                     *)
LEMMA CheckStepKeeps ==
    ASSUME Inv1, NEW p \in Proc, CheckStep(p)
    PROVE  Inv1' /\ Persist
<1> USE DEF JoblessLabels, DecidingLabels
<1>1. CASE ReadJob(p)
  <2>1. CASE Return(p)
    BY <1>1, <2>1, SameTablesKeep, ReturnKeeps DEF ReadJob
  <2>2. CASE ~Return(p)
    <3>1. PICK l \in {"check", "approved"} :
            /\ job' = [job EXCEPT ![p] = jobs[jid[p]]]
            /\ Goto(p, l) /\ UNCHANGED <<jid, aid, apv, store, runs>>
      BY <1>1, <2>2 DEF ReadJob
    <3>2. TablesOK' /\ Persist BY <3>1, SameTablesKeep
    <3>3. jid[p] \in JobId /\ jobs[jid[p]].status # "absent" /\ SourcedApproval(apv[p])
      BY <1>1 DEF ReadJob, Inv1, LocalOK, HoldsAt
    <3>4. jobs[jid[p]] \in Job /\ KeyedJob(jobs[jid[p]])
      BY <3>3 DEF Inv1, TablesOK, TableTypes
    <3>5. LocalTypes' BY <3>1, <3>4 DEF Inv1, LocalTypes, Goto, Label
    <3>6. OthersKeep(p) BY <3>1 DEF Inv1, LocalTypes, OthersKeep, Goto
    <3>7. pc'[p] = l /\ job'[p] = jobs[jid[p]] BY <3>1 DEF Inv1, LocalTypes, Goto
    <3>8. LocalOK(p)'
      BY <3>1, <3>3, <3>4, <3>7 DEF LocalOK, HoldsAt, KeyedJob, SourcedApproval, store
    <3> QED BY <3>2, <3>5, <3>6, <3>8, FrameKeeps
  <2> QED BY <2>1, <2>2
<1>2. CASE ProviderMissing(p)
  BY <1>2, SaveReturnKeeps DEF ProviderMissing, FailJob, JobStatus
<1>3. CASE ReadApproval(p)
  <2>1. CASE Return(p)
    BY <1>3, <2>1, SameTablesKeep, ReturnKeeps DEF ReadApproval
  <2>2. CASE Goto(p, "resume") /\ UNCHANGED <<jid, job, aid, apv>>
    <3>1. TablesOK' /\ Persist BY <1>3, SameTablesKeep DEF ReadApproval
    <3>2. HoldsAt(p, "resume") BY <1>3 DEF ReadApproval, Inv1, LocalOK, HoldsAt
    <3> QED BY <2>2, <3>1, <3>2, GotoKeeps DEF Label
  <2> QED BY <1>3, <2>1, <2>2 DEF ReadApproval
<1>4. CASE Resume(p) \/ Run(p)
  <2>1. PICK e \in JobStatus :
          /\ Transition(p, e, "running", AfterRunning(p)) /\ pc[p] \in {"resume", "run"}
          /\ UNCHANGED <<approvals, idem, artifact, runs>>
    BY <1>4 DEF Resume, Run, JobStatus
  <2>2. HoldsAt(p, AfterRunning(p))
    BY <2>1 DEF Inv1, LocalOK, HoldsAt, AfterRunning
  <2>3. AfterRunning(p) \in Label /\ "running" \in JobStatus
    BY DEF AfterRunning, Label, RunLabels, JobStatus
  <2> QED BY <2>1, <2>2, <2>3, TransitionKeeps
<1>5. CASE Check(p)
  <2>1. HoldsAt(p, "dependencies") BY <1>5 DEF Check, Inv1, LocalOK, HoldsAt
  <2>2. "dependencies" \in Label /\ {"queued", "checking_dependencies"} \subseteq JobStatus
    BY DEF Label, CheckLabels, JobStatus
  <2> QED BY <1>5, <2>1, <2>2, TransitionKeeps DEF Check
<1>6. CASE DependenciesFail(p)
  BY <1>6, SaveReturnKeeps DEF DependenciesFail, FailJob, JobStatus
<1>7. CASE WaitForDependency(p)
  BY <1>7, SaveReturnKeeps DEF WaitForDependency, JobStatus
<1>8. CASE EvaluatePolicy(p) \/ ReadLinked(p)
  <2>1. PICK l \in {"run", "linked", "ask", "fail", "park"} :
          /\ Goto(p, l) /\ pc[p] \in {"dependencies", "linked"}
          /\ UNCHANGED <<store, jid, job, aid, apv, runs>>
    BY <1>8 DEF EvaluatePolicy, ReadLinked
  <2>2. HoldsAt(p, l) BY <2>1 DEF Inv1, LocalOK, HoldsAt
  <2>3. l \in Label BY DEF Label, CheckLabels
  <2> QED BY <2>1, <2>2, <2>3, SameTablesKeep, GotoKeeps
<1>9. CASE Park(p)
  BY <1>9, SaveReturnKeeps DEF Park, JobStatus
<1>10. ASSUME NEW a \in ApprovalId, Ask(p, a)
       PROVE  Inv1' /\ Persist
  <2>1. /\ jid[p] \in JobId /\ jobs[jid[p]].status # "absent" /\ job[p] \in Job
        /\ KeyedJob(job[p]) /\ SourcedApproval(apv[p])
    BY <1>10 DEF Ask, Inv1, LocalTypes, LocalOK, HoldsAt
  <2>2. PICK n \in Approval :
          /\ n.purpose = "gate" /\ n.job = jid[p]
          /\ approvals' = [approvals EXCEPT ![a] = n]
    BY <1>10, <2>1 DEF Ask, AbsentApproval, Approval
  <2>3. PICK m \in Job :
          /\ m.kind = job[p].kind /\ m.key = job[p].key
          /\ job' = [job EXCEPT ![p] = m]
    BY <1>10, <2>1 DEF Ask, Job
  <2>4. UNCHANGED <<jobs, idem, artifact, jid, aid, apv, runs>> /\ Goto(p, "park")
        /\ approvals[a].status = "absent"
    BY <1>10 DEF Ask, FreshApproval
  <2>5. SourcedApproval(n) /\ GateOfJob(n)'
    BY <2>1, <2>2, <2>4 DEF SourcedApproval, GateOfJob
  <2>6. TablesOK' /\ Persist BY <2>2, <2>4, <2>5, ApprovalWriteKeeps
  <2>7. LocalTypes' BY <2>3, <2>4 DEF Inv1, LocalTypes, Goto, Label, CheckLabels
  <2>8. OthersKeep(p) BY <2>3, <2>4 DEF Inv1, LocalTypes, OthersKeep, Goto
  <2>9. pc'[p] = "park" /\ job'[p] = m BY <2>3, <2>4 DEF Inv1, LocalTypes, Goto
  <2>10. LocalOK(p)'
    BY <2>1, <2>3, <2>4, <2>9 DEF LocalOK, HoldsAt, KeyedJob, SourcedApproval
  <2> QED BY <2>6, <2>7, <2>8, <2>10, FrameKeeps
<1> QED BY <1>1, <1>2, <1>3, <1>4, <1>5, <1>6, <1>7, <1>8, <1>9, <1>10 DEF CheckStep

(* The record of the process's key is written.                             *)
LEMMA KeyWriteKeeps ==
    ASSUME Inv1, NEW p \in Proc, pc[p] \notin JoblessLabels, job[p].kind = "live",
           NEW s \in {"running", "failed", "completed"}, SetIdempotency(p, s),
           UNCHANGED <<jobs, approvals, artifact, runs>>
    PROVE  TablesOK' /\ Persist
<1>1. TypeOK BY TypesAreTypeOK DEF Inv1, TablesOK
<1>2. jid[p] \in JobId /\ job[p].key \in Key BY DEF Inv1, LocalOK, HoldsAt, KeyedJob
<1>3. /\ idem' \in [Key -> IdempotencyRecord]
      /\ \A k \in Key : k # job[p].key => idem'[k] = idem[k]
      /\ idem'[job[p].key] = [status |-> s, job |-> jid[p], digest |-> job[p].digest]
  BY <1>1, <1>2, SetIdempotencyEffect
<1>4. Persist BY DEF Persist, NoJobVanishes, ApprovalsPersist, IsCopy, SameSubject
<1>5. TableTypes' BY <1>3 DEF Inv1, TablesOK, TableTypes
<1>6. \A k \in Key : idem'[k].status # "absent" => idem'[k].job \in JobId
  BY <1>2, <1>3 DEF Inv1, TablesOK
<1> QED BY <1>4, <1>5, <1>6 DEF Inv1, TablesOK, KeyedJob, SourcedApproval, GateOfJob

(* A provider starts, or leaves its artifacts.                             *)
LEMMA ProviderKeeps ==
    ASSUME Inv1, runs' \in [JobId -> Nat], artifact' \in [JobId -> Digest \cup {None}],
           UNCHANGED <<jobs, approvals, idem>>
    PROVE  TablesOK' /\ Persist
BY DEF Inv1, TablesOK, TableTypes, GateOfJob, KeyedJob, SourcedApproval, Persist,
       NoJobVanishes, ApprovalsPersist, IsCopy, SameSubject

(* process_job, from the running job to its end.                           *)
LEMMA RunStepKeeps ==
    ASSUME Inv1, NEW p \in Proc, RunStep(p)
    PROVE  Inv1' /\ Persist
<1> USE DEF JoblessLabels, DecidingLabels
<1>1. CASE Claim(p)
  <2>1. TablesOK' /\ Persist
    <3>1. job[p].kind = "live" /\ SetIdempotency(p, "running") /\ pc[p] \notin JoblessLabels
      BY <1>1 DEF Claim, Inv1, LocalOK, HoldsAt
    <3> QED BY <1>1, <3>1, KeyWriteKeeps DEF Claim
  <2>2. HoldsAt(p, "start") BY <1>1 DEF Claim, Inv1, LocalOK, HoldsAt
  <2> QED BY <1>1, <2>1, <2>2, GotoKeeps DEF Claim, Label, RunLabels
<1>2. CASE ClaimSettled(p)
  <2>1. /\ jid[p] \in JobId /\ jobs[jid[p]].status # "absent" /\ job[p] \in Job
        /\ KeyedJob(job[p]) /\ SourcedApproval(apv[p]) /\ job[p].kind = "live"
    BY <1>2 DEF ClaimSettled, Inv1, LocalTypes, LocalOK, HoldsAt
  <2>2. idem[job[p].key].job \in JobId
    BY <1>2, <2>1 DEF ClaimSettled, IsReplay, KeyedJob, Inv1, TablesOK
  <2>3. PICK m \in Job :
          /\ m.kind = job[p].kind /\ m.key = job[p].key /\ m.replay \in JobId
          /\ job' = [job EXCEPT ![p] = m]
    BY <1>2, <2>1, <2>2 DEF ClaimSettled, Job
  <2>4. UNCHANGED <<store, jid, aid, apv, runs>> /\ Goto(p, "replay")
    BY <1>2 DEF ClaimSettled
  <2>5. TablesOK' /\ Persist BY <2>4, SameTablesKeep
  <2>6. LocalTypes' BY <2>3, <2>4 DEF Inv1, LocalTypes, Goto, Label, RunLabels
  <2>7. OthersKeep(p) BY <2>3, <2>4 DEF Inv1, LocalTypes, OthersKeep, Goto
  <2>8. pc'[p] = "replay" /\ job'[p] = m BY <2>3, <2>4 DEF Inv1, LocalTypes, Goto
  <2>9. LocalOK(p)'
    BY <2>1, <2>3, <2>4, <2>8 DEF LocalOK, HoldsAt, KeyedJob, SourcedApproval, store
  <2> QED BY <2>5, <2>6, <2>7, <2>9, FrameKeeps
<1>3. CASE ClaimRefused(p) \/ PreWriteFails(p) \/ ProviderFails(p)
  <2>1. PICK l \in {"fail", "release"} :
          /\ Goto(p, l) /\ pc[p] \in {"claim", "start", "provider"}
          /\ UNCHANGED <<store, jid, job, aid, apv, runs>>
    BY <1>3 DEF ClaimRefused, PreWriteFails, ProviderFails
  <2>2. HoldsAt(p, l) BY <2>1 DEF Inv1, LocalOK, HoldsAt
  <2>3. l \in Label BY DEF Label, RunLabels
  <2> QED BY <2>1, <2>2, <2>3, SameTablesKeep, GotoKeeps
<1>4. CASE Replay(p)
  <2>1. /\ jid[p] \in JobId /\ job[p].replay \in JobId /\ KeyedJob(job[p]) /\ TypeOK
    BY <1>4, TypesAreTypeOK DEF Replay, Inv1, TablesOK, LocalOK, HoldsAt
  <2>2. artifact' \in [JobId -> Digest \cup {None}]
    BY <1>4, <2>1 DEF Replay, TypeOK
  <2>3. "completed" \in JobStatus BY DEF JobStatus
  <2>4. /\ jobs' \in [JobId -> Job] /\ \A i \in JobId : i # jid[p] => jobs'[i] = jobs[i]
        /\ jobs'[jid[p]].status = "completed" /\ KeyedJob(jobs'[jid[p]])
    BY <1>4, <2>1, <2>3, SaveEffect DEF Replay, KeyedJob
  <2>5. TablesOK' /\ Persist
    <3>1. UNCHANGED <<approvals, idem, runs>> BY <1>4 DEF Replay
    <3> QED BY <2>1, <2>2, <2>4, <3>1, JobWriteKeeps
  <2> QED BY <1>4, <2>5, ReturnKeeps DEF Replay
<1>5. CASE SetupFails(p)
  BY <1>5, SaveReturnKeeps DEF SetupFails, FailJob, JobStatus
<1>6. CASE StartProvider(p)
  <2>1. TablesOK' /\ Persist
    <3>1. jid[p] \in JobId BY <1>6 DEF StartProvider, Inv1, LocalOK, HoldsAt
    <3>2. runs' \in [JobId -> Nat]
      BY <1>6, <3>1 DEF StartProvider, Inv1, TablesOK, TableTypes
    <3>3. artifact' \in [JobId -> Digest \cup {None}] /\ UNCHANGED <<jobs, approvals, idem>>
      BY <1>6 DEF StartProvider, store, Inv1, TablesOK, TableTypes
    <3> QED BY <3>2, <3>3, ProviderKeeps
  <2>2. HoldsAt(p, "provider") BY <1>6 DEF StartProvider, Inv1, LocalOK, HoldsAt
  <2> QED BY <1>6, <2>1, <2>2, GotoKeeps DEF StartProvider, Label, RunLabels
<1>7. ASSUME NEW d \in Digest \cup {None}, ProviderEnds(p, d)
      PROVE  Inv1' /\ Persist
  <2>1. TablesOK' /\ Persist
    <3>1. artifact' \in [JobId -> Digest \cup {None}]
      BY <1>7 DEF ProviderEnds, Inv1, TablesOK, TableTypes
    <3>2. runs' \in [JobId -> Nat] /\ UNCHANGED <<jobs, approvals, idem>>
      BY <1>7 DEF ProviderEnds, Inv1, TablesOK, TableTypes
    <3> QED BY <3>1, <3>2, ProviderKeeps
  <2>2. HoldsAt(p, "complete") BY <1>7 DEF ProviderEnds, Inv1, LocalOK, HoldsAt
  <2> QED BY <1>7, <2>1, <2>2, GotoKeeps DEF ProviderEnds, Label, RunLabels
<1>8. CASE Complete(p)
  <2>1. TablesOK' /\ Persist
    BY <1>8, SaveKeeps DEF Complete, JobStatus
  <2>2. CASE Return(p) BY <2>1, <2>2, ReturnKeeps
  <2>3. CASE job[p].kind = "live" /\ Goto(p, "settle") /\ UNCHANGED <<jid, job, aid, apv>>
    <3>1. HoldsAt(p, "settle") BY <1>8, <2>3 DEF Complete, Inv1, LocalOK, HoldsAt
    <3> QED BY <2>1, <2>3, <3>1, GotoKeeps DEF Label, RunLabels
  <2> QED BY <1>8, <2>2, <2>3 DEF Complete
<1>9. CASE Settle(p)
  <2>1. job[p].kind = "live" /\ pc[p] \notin JoblessLabels
    BY <1>9 DEF Settle, Inv1, LocalOK, HoldsAt
  <2>2. TablesOK' /\ Persist BY <1>9, <2>1, KeyWriteKeeps DEF Settle
  <2> QED BY <1>9, <2>2, ReturnKeeps DEF Settle
<1>10. CASE Release(p)
  <2>1. TablesOK' /\ Persist
    <3>1. CASE job[p].kind = "live"
      BY <1>10, <3>1, KeyWriteKeeps DEF Release
    <3>2. CASE job[p].kind # "live"
      BY <1>10, <3>2, SameTablesKeep DEF Release, store
    <3> QED BY <3>1, <3>2
  <2>2. HoldsAt(p, "fail") BY <1>10 DEF Release, Inv1, LocalOK, HoldsAt
  <2> QED BY <1>10, <2>1, <2>2, GotoKeeps DEF Release, Label
<1>11. CASE Fail(p)
  BY <1>11, SaveReturnKeeps DEF Fail, FailJob, JobStatus
<1> QED BY <1>1, <1>2, <1>3, <1>4, <1>5, <1>6, <1>7, <1>8, <1>9, <1>10, <1>11 DEF RunStep

(* A decision is written over the row, or somebody else's stands.          *)
LEMMA TransitionApprovalKeeps ==
    ASSUME Inv1, NEW p \in Proc, pc[p] \in DecidingLabels,
           NEW s \in {"approved", "rejected"}, NEW l \in DecidingLabels,
           TransitionApproval(p, s, l), UNCHANGED <<jobs, idem, artifact, runs>>
    PROVE  Inv1' /\ Persist
<1>1. CASE approvals[aid[p]].status = "pending"
  <2>1. /\ aid[p] \in ApprovalId /\ apv[p] \in Approval /\ SourcedApproval(apv[p])
        /\ IsCopy(apv[p], approvals[aid[p]])
    BY DEF Inv1, LocalTypes, LocalOK, HoldsAt
  <2>2. PICK n \in Approval :
          /\ n.status = s /\ SameSubject(n, apv[p])
          /\ approvals' = [approvals EXCEPT ![aid[p]] = n]
    BY <1>1, <2>1 DEF TransitionApproval, SameSubject, Approval
  <2>3. SourcedApproval(n) /\ IsCopy(approvals[aid[p]], n)
    BY <2>1, <2>2 DEF SourcedApproval, IsCopy, SameSubject
  <2>4. n.status # "pending" BY <2>2
  <2>5. TablesOK' /\ Persist BY <1>1, <2>1, <2>2, <2>3, <2>4, ApprovalWriteKeeps
  <2>6. HoldsAt(p, l) BY DEF Inv1, LocalOK, HoldsAt, DecidingLabels, JoblessLabels
  <2>7. l \in Label BY DEF DecidingLabels, Label
  <2>8. Goto(p, l) /\ UNCHANGED <<jid, job, aid, apv>> BY <1>1 DEF TransitionApproval
  <2> QED BY <2>5, <2>6, <2>7, <2>8, GotoKeeps
<1>2. CASE approvals[aid[p]].status # "pending"
  <2>1. Return(p) /\ UNCHANGED <<store, runs>> BY <1>2 DEF TransitionApproval, store
  <2> QED BY <2>1, SameTablesKeep, ReturnKeeps
<1> QED BY <1>1, <1>2

(* approve and reject, after the approval was read.                        *)
LEMMA DecideStepKeeps ==
    ASSUME Inv1, NEW p \in Proc, DecideStep(p)
    PROVE  Inv1' /\ Persist
<1> USE DEF JoblessLabels, DecidingLabels
<1>1. CASE Decide(p) \/ Refuse(p)
  BY <1>1, TransitionApprovalKeeps DEF Decide, Refuse
<1>2. CASE GrantedJob(p)
  <2>1. apv[p].job \in JobId /\ jobs[apv[p].job].status # "absent"
    BY <1>2 DEF GrantedJob, Inv1, LocalOK, HoldsAt, GateOfJob
  <2>2. /\ jid' = [jid EXCEPT ![p] = apv[p].job] /\ pc' = [pc EXCEPT ![p] = "process"]
        /\ UNCHANGED <<store, job, aid, apv, runs>>
    BY <1>2 DEF GrantedJob, Goto
  <2>3. TablesOK' /\ Persist BY <2>2, SameTablesKeep
  <2>4. LocalTypes' /\ OthersKeep(p) BY <2>1, <2>2 DEF Inv1, LocalTypes, OthersKeep, Label
  <2>5. pc'[p] = "process" /\ jid'[p] = apv[p].job BY <2>2 DEF Inv1, LocalTypes
  <2>6. LocalOK(p)'
    BY <2>1, <2>2, <2>5 DEF Inv1, LocalOK, HoldsAt, KeyedJob, SourcedApproval, store
  <2> QED BY <2>3, <2>4, <2>6, FrameKeeps
<1>3. CASE GrantedStale(p)
  BY <1>3, SameTablesKeep, ReturnKeeps DEF GrantedStale
<1>4. ASSUME NEW j \in JobId, NEW gated \in BOOLEAN, GrantedLive(p, j, gated)
      PROVE  Inv1' /\ Persist
  BY <1>4, GrantedLiveKeeps
<1>5. CASE ReadRejected(p)
  <2>1. CASE Return(p)
    BY <1>5, <2>1, SameTablesKeep, ReturnKeeps DEF ReadRejected
  <2>2. CASE ~Return(p)
    <3>1. /\ apv[p].job # None /\ GateOfJob(apv[p]) /\ SourcedApproval(apv[p])
          /\ jid' = [jid EXCEPT ![p] = apv[p].job]
          /\ job' = [job EXCEPT ![p] = jobs[apv[p].job]]
          /\ pc' = [pc EXCEPT ![p] = "reject"]
          /\ UNCHANGED <<store, aid, apv, runs>>
      BY <1>5, <2>2 DEF ReadRejected, Goto, Inv1, LocalOK, HoldsAt
    <3>2. apv[p].job \in JobId /\ jobs[apv[p].job].status # "absent"
      BY <3>1 DEF GateOfJob
    <3>3. jobs[apv[p].job] \in Job /\ KeyedJob(jobs[apv[p].job])
      BY <3>2 DEF Inv1, TablesOK, TableTypes
    <3>4. TablesOK' /\ Persist BY <3>1, SameTablesKeep
    <3>5. LocalTypes' BY <3>1, <3>2, <3>3 DEF Inv1, LocalTypes, Label
    <3>6. OthersKeep(p) BY <3>1 DEF Inv1, LocalTypes, OthersKeep
    <3>7. pc'[p] = "reject" /\ jid'[p] = apv[p].job /\ job'[p] = jobs[apv[p].job]
      BY <3>1 DEF Inv1, LocalTypes
    <3>8. LocalOK(p)'
      BY <3>1, <3>2, <3>3, <3>7 DEF LocalOK, HoldsAt, KeyedJob, SourcedApproval, store
    <3> QED BY <3>4, <3>5, <3>6, <3>8, FrameKeeps
  <2> QED BY <2>1, <2>2
<1>6. CASE RejectJob(p)
  BY <1>6, SaveReturnKeeps DEF RejectJob, JobStatus
<1> QED BY <1>1, <1>2, <1>3, <1>4, <1>5, <1>6 DEF DecideStep

LEMMA StopKeeps ==
    ASSUME Inv1, NEW p \in Proc, Stop(p)
    PROVE  Inv1' /\ Persist
BY SameTablesKeep, ReturnKeeps DEF Stop

LEMMA TamperKeeps ==
    ASSUME Inv1, NEW j \in JobId, NEW d \in Forged, Tamper(j, d)
    PROVE  Inv1' /\ Persist
<1>1. artifact' \in [JobId -> Digest \cup {None}]
  BY ConstantsAssumption DEF Tamper, Inv1, TablesOK, TableTypes
<1>2. runs' \in [JobId -> Nat] /\ UNCHANGED <<jobs, approvals, idem>>
  BY DEF Tamper, Inv1, TablesOK, TableTypes
<1>3. TablesOK' /\ Persist BY <1>1, <1>2, ProviderKeeps
<1> QED BY <1>3, LocalsKeep DEF Tamper

LEMMA NextInv1 == Inv1 /\ [Next]_vars => Inv1' /\ Persist
<1> SUFFICES ASSUME Inv1, [Next]_vars PROVE Inv1' /\ Persist
  OBVIOUS
<1>1. CASE UNCHANGED vars
  BY <1>1, SameTablesKeep, LocalsKeep DEF vars, store, locals
<1>2. ASSUME NEW p \in Proc, Call(p) \/ Step(p) \/ Stop(p)
      PROVE  Inv1' /\ Persist
  BY <1>2, CallKeeps, CreateStepKeeps, CheckStepKeeps, RunStepKeeps, DecideStepKeeps,
     StopKeeps DEF Step
<1>3. ASSUME NEW j \in JobId, NEW d \in Forged, Tamper(j, d)
      PROVE  Inv1' /\ Persist
  BY <1>3, TamperKeeps
<1> QED BY <1>1, <1>2, <1>3 DEF Next, RefreshFails, Crash

LEMMA SpecInv1 == Spec => []Inv1
<1> QED BY InitInv1, NextInv1, PTL DEF Spec

(* Every row of every table, and every copy a process keeps of one, has    *)
(* the type the code's schemas give it.                                    *)
THEOREM TypeCorrect == Spec => []TypeOK
<1>1. Inv1 => TypeOK BY TypesAreTypeOK DEF Inv1, TablesOK
<1> QED BY <1>1, SpecInv1, PTL

(* No step flips or revives a decision, or changes what it was about: the  *)
(* stale approval rows that create_job, approve and reject write back      *)
(* unconditionally agree with the decided row on all of that.              *)
THEOREM DecisionsAreFinal == Spec => DecisionIsFinal
<1>1. Inv1 /\ [Next]_vars =>
        [\A a \in ApprovalId : approvals[a].status \in {"approved", "rejected"} =>
            /\ approvals'[a].status = approvals[a].status
            /\ approvals'[a].purpose = approvals[a].purpose
            /\ approvals'[a].src = approvals[a].src
            /\ approvals'[a].digest = approvals[a].digest]_vars
  BY NextInv1 DEF Persist, ApprovalsPersist, IsCopy, SameSubject
<1> QED BY <1>1, SpecInv1, PTL DEF Spec, DecisionIsFinal

-----------------------------------------------------------------------------
(* Ownership: process_job's compare-and-sets give a job to one process at  *)
(* a time.  OwnLabels are behind a compare-and-set that was won, PreLabels *)
(* are those of them before the provider starts, and at NewLabels the job  *)
(* exists in the process only.                                             *)
OwnLabels == CheckLabels \cup RunLabels \cup {"fail"}
PreLabels == CheckLabels \cup {"claim", "replay", "start"}
NewLabels == {"link", "save"}
Unstarted == {"absent", "queued", "waiting_for_approval"}

Inv2 ==
    /\ \A p \in Proc : pc[p] \in OwnLabels => jobs[jid[p]].status \notin Unstarted
    /\ \A p \in Proc : pc[p] \in PreLabels => runs[jid[p]] = 0
    /\ \A p \in Proc : pc[p] \in NewLabels =>
         jobs[jid[p]].status = "absent" /\ \A q \in Proc \ {p} : jid[q] # jid[p]
    /\ \A p, q \in Proc : p # q /\ pc[p] \in OwnLabels /\ pc[q] \in OwnLabels => jid[p] # jid[q]
    /\ \A j \in JobId : jobs[j].status \in Unstarted => runs[j] = 0
    /\ \A j \in JobId : runs[j] <= 1

(* What a step of process p may do to the row of job i ...                 *)
RowStep(p, i) ==
    /\ \A j \in JobId \ {i} : jobs'[j].status = jobs[j].status /\ runs'[j] = runs[j]
    /\ i \in JobId =>
         /\ runs'[i] <= 1
         /\ jobs'[i].status \in Unstarted =>
              /\ runs'[i] = 0
              /\ \A q \in Proc \ {p} : pc[q] \in OwnLabels => jid[q] # i
         /\ jobs'[i].status # "absent" =>
              \A q \in Proc \ {p} : pc[q] \in NewLabels => jid[q] # i
         /\ runs'[i] # runs[i] =>
              \A q \in Proc \ {p} : pc[q] \in PreLabels => jid[q] # i

(* ... and where it may go.                                                *)
MoveStep(p) ==
    /\ pc'[p] \in OwnLabels =>
         /\ jobs'[jid'[p]].status \notin Unstarted
         /\ \A q \in Proc \ {p} : pc[q] \in OwnLabels => jid[q] # jid'[p]
    /\ pc'[p] \in PreLabels => runs'[jid'[p]] = 0
    /\ pc'[p] \in NewLabels =>
         jobs'[jid'[p]].status = "absent" /\ \A q \in Proc \ {p} : jid[q] # jid'[p]
    /\ \A q \in Proc \ {p} : pc[q] \in NewLabels => jid'[p] # jid[q]

LEMMA LabelFacts ==
    /\ PreLabels \subseteq OwnLabels
    /\ OwnLabels \cap JoblessLabels = {} /\ NewLabels \cap JoblessLabels = {}
    /\ OwnLabels \cap NewLabels = {}
BY DEF PreLabels, OwnLabels, JoblessLabels, NewLabels, CheckLabels, RunLabels

LEMMA JobHeld ==
    ASSUME Inv1
    PROVE  \A q \in Proc : pc[q] \in OwnLabels \cup NewLabels => jid[q] \in JobId
BY LabelFacts DEF Inv1, LocalOK, HoldsAt

LEMMA InitInv2 == Init => Inv2
BY DEF Init, Inv2, OwnLabels, PreLabels, NewLabels, CheckLabels, RunLabels

LEMMA OwnershipFrame ==
    ASSUME Inv1, Inv2, NEW p \in Proc, OthersKeep(p),
           NEW i \in JobId \cup {None}, RowStep(p, i), MoveStep(p)
    PROVE  Inv2' /\ OthersKeep(p)
<1>1. \A q \in Proc \ {p} : pc'[q] = pc[q] /\ jid'[q] = jid[q] BY DEF OthersKeep
<1>2. \A q \in Proc : pc[q] \in OwnLabels \cup NewLabels => jid[q] \in JobId BY JobHeld
<1>3. ASSUME NEW q \in Proc, pc'[q] \in OwnLabels
      PROVE  jobs'[jid'[q]].status \notin Unstarted
  BY <1>1, <1>2, <1>3 DEF Inv2, RowStep, MoveStep
<1>4. ASSUME NEW q \in Proc, pc'[q] \in PreLabels
      PROVE  runs'[jid'[q]] = 0
  BY <1>1, <1>2, <1>4, LabelFacts DEF Inv2, RowStep, MoveStep
<1>5. ASSUME NEW q \in Proc, pc'[q] \in NewLabels, NEW r \in Proc \ {q}
      PROVE  jobs'[jid'[q]].status = "absent" /\ jid'[r] # jid'[q]
  <2>1. CASE q = p BY <1>1, <1>5, <2>1 DEF MoveStep
  <2>2. CASE q # p BY <1>1, <1>2, <1>5, <2>2 DEF Inv2, RowStep, MoveStep
  <2> QED BY <2>1, <2>2
<1>6. ASSUME NEW q \in Proc, pc'[q] \in NewLabels
      PROVE  jobs'[jid'[q]].status = "absent"
  <2>1. CASE q = p BY <1>6, <2>1 DEF MoveStep
  <2>2. CASE q # p BY <1>1, <1>2, <1>6, <2>2 DEF Inv2, RowStep
  <2> QED BY <2>1, <2>2
<1>7. ASSUME NEW q \in Proc, NEW r \in Proc, q # r, pc'[q] \in OwnLabels, pc'[r] \in OwnLabels
      PROVE  jid'[q] # jid'[r]
  <2>1. CASE q = p BY <1>1, <1>7, <2>1 DEF MoveStep
  <2>2. CASE r = p BY <1>1, <1>7, <2>2 DEF MoveStep
  <2>3. CASE q # p /\ r # p BY <1>1, <1>7, <2>3 DEF Inv2
  <2> QED BY <2>1, <2>2, <2>3
<1>8. \A j \in JobId : jobs'[j].status \in Unstarted => runs'[j] = 0
  BY DEF Inv2, RowStep
<1>9. \A j \in JobId : runs'[j] <= 1 BY DEF Inv2, RowStep
<1> QED BY <1>3, <1>4, <1>5, <1>6, <1>7, <1>8, <1>9 DEF Inv2

(* A step keeps to what the process owns, or gives it up.                  *)
Keeps(p) ==
    /\ jid'[p] = jid[p]
    /\ pc'[p] \in OwnLabels => pc[p] \in OwnLabels
    /\ pc'[p] \in PreLabels => pc[p] \in PreLabels
    /\ pc'[p] \in NewLabels => pc[p] \in NewLabels

Leaves(p) ==
    /\ pc'[p] \notin OwnLabels \cup NewLabels
    /\ jid'[p] # None => jid'[p] \in JobId /\ jobs[jid'[p]].status # "absent"

LEMMA QuietMove ==
    ASSUME Inv1, Inv2, NEW p \in Proc, OthersKeep(p), UNCHANGED <<jobs, runs>>,
           Keeps(p) \/ Leaves(p)
    PROVE  Inv2' /\ OthersKeep(p)
<1>1. RowStep(p, None) BY ConstantsAssumption DEF RowStep
<1>2. CASE Keeps(p)
  <2>1. MoveStep(p) BY <1>2, LabelFacts DEF MoveStep, Keeps, Inv2
  <2> QED BY <1>1, <2>1, OwnershipFrame
<1>3. CASE Leaves(p)
  <2>1. \A q \in Proc \ {p} : pc[q] \in NewLabels =>
           jid[q] \in JobId /\ jobs[jid[q]].status = "absent"
    BY JobHeld DEF Inv2
  <2>2. MoveStep(p)
    BY <1>3, <2>1, LabelFacts, ConstantsAssumption DEF MoveStep, Leaves
  <2> QED BY <1>1, <2>2, OwnershipFrame
<1> QED BY <1>2, <1>3

(* A return, and a jump, are such steps.                                   *)
LEMMA ReturnMoves ==
    ASSUME Inv1, NEW p \in Proc, Return(p)
    PROVE  OthersKeep(p) /\ Leaves(p)
<1>1. TypeOK BY TypesAreTypeOK DEF Inv1, TablesOK
<1>2. OthersKeep(p) /\ pc'[p] = "idle" /\ jid'[p] = None
  BY <1>1, ReturnEffect DEF OthersKeep
<1> QED BY <1>2, LabelFacts DEF Leaves, OwnLabels, NewLabels, CheckLabels, RunLabels

LEMMA GotoMoves ==
    ASSUME Inv1, NEW p \in Proc, NEW l, Goto(p, l), UNCHANGED <<jid, job, aid, apv>>
    PROVE  OthersKeep(p) /\ pc'[p] = l /\ jid'[p] = jid[p]
BY DEF Inv1, LocalTypes, Goto, OthersKeep

(* A process saves the outcome of a job, owned or not.                     *)
Outcomes == {"failed", "completed", "rejected", "waiting_for_dependency"}

LEMMA OutcomeMove ==
    ASSUME Inv1, Inv2, NEW p \in Proc, pc[p] \notin JoblessLabels \cup NewLabels,
           NEW s \in Outcomes, Save(p, s), OthersKeep(p), UNCHANGED runs,
           Keeps(p) \/ Leaves(p)
    PROVE  Inv2' /\ OthersKeep(p)
<1>1. TypeOK /\ jid[p] \in JobId /\ jobs[jid[p]].status # "absent"
  BY TypesAreTypeOK DEF Inv1, TablesOK, LocalOK, HoldsAt, NewLabels
<1>2. s \in JobStatus /\ s \notin Unstarted BY DEF Outcomes, JobStatus, Unstarted
<1>3. jobs'[jid[p]].status = s /\ \A j \in JobId \ {jid[p]} : jobs'[j] = jobs[j]
  BY <1>1, <1>2, SaveEffect
<1>4. \A q \in Proc \ {p} : pc[q] \in NewLabels =>
        jid[q] \in JobId /\ jobs[jid[q]].status = "absent"
  BY JobHeld DEF Inv2
<1>5. RowStep(p, jid[p]) BY <1>1, <1>2, <1>3, <1>4 DEF RowStep, Inv2
<1>6. MoveStep(p)
  <2>1. CASE Keeps(p)
    BY <1>1, <1>2, <1>3, <1>4, <2>1, LabelFacts DEF MoveStep, Keeps, Inv2
  <2>2. CASE Leaves(p)
    BY <1>4, <2>2, LabelFacts, ConstantsAssumption DEF MoveStep, Leaves
  <2> QED BY <2>1, <2>2
<1> QED BY <1>1, <1>5, <1>6, OwnershipFrame

LEMMA OutcomeReturn ==
    ASSUME Inv1, Inv2, NEW p \in Proc, pc[p] \notin JoblessLabels \cup NewLabels,
           NEW s \in Outcomes, Save(p, s), Return(p), UNCHANGED runs
    PROVE  Inv2' /\ OthersKeep(p)
BY ReturnMoves, OutcomeMove

LEMMA FailJobOwns ==
    ASSUME Inv1, Inv2, NEW p \in Proc, pc[p] \notin JoblessLabels \cup NewLabels,
           FailJob(p), UNCHANGED runs
    PROVE  Inv2' /\ OthersKeep(p)
BY OutcomeReturn DEF FailJob, Outcomes

(* create_job and the calls that only read or write approvals.             *)
LEMMA CallOwns ==
    ASSUME Inv1, Inv2, NEW p \in Proc, Call(p)
    PROVE  Inv2' /\ OthersKeep(p)
<1> USE DEF OwnLabels, PreLabels, NewLabels, CheckLabels, RunLabels
<1>1. ASSUME NEW j \in JobId, NEW r \in Requests, Submit(p, j, r)
      PROVE  Inv2' /\ OthersKeep(p)
  <2>1. jobs[j].status = "absent" /\ \A q \in Proc : jid[q] # j
    BY <1>1 DEF Submit, FreshJob
  <2>2. PICK n \in Job :
          n.status = "queued" /\ jobs' = [jobs EXCEPT ![j] = n]
    BY <1>1, SubmittedRow DEF Submit
  <2>3. jobs'[j].status = "queued" /\ \A i \in JobId \ {j} : jobs'[i] = jobs[i]
    BY <2>2 DEF Inv1, TablesOK, TableTypes
  <2>4. OthersKeep(p) /\ pc'[p] = "process" /\ jid'[p] = j /\ runs' = runs
    BY <1>1 DEF Submit, Goto, OthersKeep, Inv1, LocalTypes
  <2>5. RowStep(p, j) BY <2>1, <2>3, <2>4 DEF RowStep, Inv2, Unstarted
  <2>6. MoveStep(p) BY <2>1, <2>4 DEF MoveStep
  <2> QED BY <2>4, <2>5, <2>6, OwnershipFrame
<1>2. ASSUME NEW j \in JobId, NEW a \in ApprovalId, NEW r \in Requests, SubmitLinked(p, a, j, r)
      PROVE  Inv2' /\ OthersKeep(p)
  <2>1. BeginLinked(p, a, j, r.kind, r.key, r.gated) BY <1>2 DEF SubmitLinked
  <2>2. jobs[j].status = "absent" /\ \A q \in Proc : jid[q] # j
    BY <2>1 DEF BeginLinked, FreshJob
  <2>3. OthersKeep(p) /\ pc'[p] = "link" /\ jid'[p] = j /\ UNCHANGED <<jobs, runs>>
    BY <2>1 DEF BeginLinked, Goto, OthersKeep, Inv1, LocalTypes
  <2>4. RowStep(p, None) BY <2>3, ConstantsAssumption DEF RowStep
  <2>5. MoveStep(p) BY <2>2, <2>3 DEF MoveStep
  <2> QED BY <2>3, <2>4, <2>5, OwnershipFrame
<1>3. ASSUME NEW j \in JobId, NEW a \in ApprovalId, Promote(p, j, a) \/ Recover(p, j, a)
      PROVE  Inv2' /\ OthersKeep(p)
  <2>1. OthersKeep(p) /\ Keeps(p) /\ UNCHANGED <<jobs, runs>>
    BY <1>3 DEF Promote, Recover, locals, OthersKeep, Keeps
  <2> QED BY <2>1, QuietMove
<1>4. ASSUME NEW a \in ApprovalId, Approve(p, a) \/ Reject(p, a)
      PROVE  Inv2' /\ OthersKeep(p)
  <2>1. OthersKeep(p) /\ Keeps(p) /\ UNCHANGED <<jobs, runs>>
    BY <1>4 DEF Approve, Reject, Goto, store, OthersKeep, Keeps, Inv1, LocalTypes
  <2> QED BY <2>1, QuietMove
<1>5. ASSUME NEW j \in JobId, Process(p, j)
      PROVE  Inv2' /\ OthersKeep(p)
  <2>1. OthersKeep(p) /\ Leaves(p) /\ UNCHANGED <<jobs, runs>>
    BY <1>5 DEF Process, Goto, store, OthersKeep, Leaves, Inv1, LocalTypes
  <2> QED BY <2>1, QuietMove
<1> QED BY <1>1, <1>2, <1>3, <1>4, <1>5 DEF Call

LEMMA CreateStepOwns ==
    ASSUME Inv1, Inv2, NEW p \in Proc, CreateStep(p)
    PROVE  Inv2' /\ OthersKeep(p)
<1> USE DEF OwnLabels, PreLabels, NewLabels, CheckLabels, RunLabels
<1>1. CASE Link(p)
  <2>1. OthersKeep(p) /\ Keeps(p) /\ UNCHANGED <<jobs, runs>>
    BY <1>1, GotoMoves DEF Link, Keeps
  <2> QED BY <2>1, QuietMove
<1>2. CASE SaveJob(p)
  <2>1. pc[p] = "save" /\ TypeOK /\ jid[p] \in JobId /\ jobs[jid[p]].status = "absent"
        /\ \A q \in Proc \ {p} : jid[q] # jid[p]
    BY <1>2, TypesAreTypeOK, JobHeld DEF SaveJob, Inv1, TablesOK, Inv2
  <2>2. "queued" \in JobStatus BY DEF JobStatus
  <2>3. /\ jobs'[jid[p]].status = "queued"
        /\ \A j \in JobId \ {jid[p]} : jobs'[j] = jobs[j]
    BY <1>2, <2>1, <2>2, SaveEffect DEF SaveJob
  <2>4. OthersKeep(p) /\ pc'[p] = "process" /\ jid'[p] = jid[p] /\ runs' = runs
    BY <1>2, GotoMoves DEF SaveJob
  <2>5. RowStep(p, jid[p]) BY <2>1, <2>3, <2>4 DEF RowStep, Inv2, Unstarted
  <2>6. MoveStep(p) BY <2>1, <2>4 DEF MoveStep
  <2> QED BY <2>1, <2>4, <2>5, <2>6, OwnershipFrame
<1> QED BY <1>1, <1>2 DEF CreateStep

(* Winning a compare-and-set on an unstarted or an owned job.              *)
LEMMA TransitionOwns ==
    ASSUME Inv1, Inv2, NEW p \in Proc, pc[p] \notin JoblessLabels \cup NewLabels,
           NEW e \in JobStatus, e \in {"queued", "waiting_for_approval"} \/ pc[p] \in PreLabels,
           NEW s \in {"checking_dependencies", "running"}, NEW l \in PreLabels,
           Transition(p, e, s, l), UNCHANGED runs
    PROVE  Inv2' /\ OthersKeep(p)
<1>1. CASE jobs[jid[p]].status # e
  <2>1. Return(p) /\ UNCHANGED <<jobs, runs>> BY <1>1 DEF Transition
  <2> QED BY <2>1, ReturnMoves, QuietMove
<1>2. CASE jobs[jid[p]].status = e
  <2>1. Save(p, s) /\ Goto(p, l) /\ UNCHANGED <<jid, job, aid, apv>>
    BY <1>2 DEF Transition
  <2>2. TypeOK /\ jid[p] \in JobId /\ jobs[jid[p]].status # "absent"
    BY TypesAreTypeOK DEF Inv1, TablesOK, LocalOK, HoldsAt, NewLabels
  <2>3. s \in JobStatus /\ s \notin Unstarted BY DEF JobStatus, Unstarted
  <2>4. jobs'[jid[p]].status = s /\ \A j \in JobId \ {jid[p]} : jobs'[j] = jobs[j]
    BY <2>1, <2>2, <2>3, SaveEffect
  <2>5. OthersKeep(p) /\ pc'[p] = l /\ jid'[p] = jid[p] BY <2>1, GotoMoves
  <2>6. runs[jid[p]] = 0 /\ \A q \in Proc \ {p} : pc[q] \in OwnLabels => jid[q] # jid[p]
    <3>1. CASE e \in {"queued", "waiting_for_approval"}
      BY <1>2, <2>2, <3>1 DEF Inv2, Unstarted
    <3>2. CASE pc[p] \in PreLabels BY <3>2, LabelFacts DEF Inv2
    <3> QED BY <3>1, <3>2
  <2>7. \A q \in Proc \ {p} : pc[q] \in NewLabels => jid[q] # jid[p]
    BY DEF Inv2
  <2>8. RowStep(p, jid[p]) BY <2>2, <2>3, <2>4, <2>6, <2>7 DEF RowStep, Inv2
  <2>9. MoveStep(p)
    BY <2>2, <2>3, <2>4, <2>5, <2>6, <2>7, LabelFacts DEF MoveStep
  <2> QED BY <2>2, <2>5, <2>8, <2>9, OwnershipFrame
<1> QED BY <1>1, <1>2

LEMMA CheckStepOwns ==
    ASSUME Inv1, Inv2, NEW p \in Proc, CheckStep(p)
    PROVE  Inv2' /\ OthersKeep(p)
<1> USE DEF OwnLabels, PreLabels, NewLabels, CheckLabels, RunLabels, JoblessLabels
<1>1. CASE ReadJob(p)
  <2>1. CASE Return(p)
    BY <1>1, <2>1, ReturnMoves, QuietMove DEF ReadJob, store
  <2>2. CASE ~Return(p)
    <3>1. PICK l \in {"check", "approved"} :
            /\ job' = [job EXCEPT ![p] = jobs[jid[p]]]
            /\ Goto(p, l) /\ UNCHANGED <<jid, aid, apv, store, runs>>
      BY <1>1, <2>2 DEF ReadJob
    <3>2. OthersKeep(p) /\ pc'[p] = l /\ jid'[p] = jid[p]
      BY <3>1 DEF Inv1, LocalTypes, OthersKeep, Goto
    <3>3. Keeps(p) BY <3>2 DEF Keeps
    <3>4. UNCHANGED <<jobs, runs>> BY <3>1 DEF store
    <3> QED BY <3>2, <3>3, <3>4, QuietMove
  <2> QED BY <2>1, <2>2
<1>2. CASE ProviderMissing(p)
  BY <1>2, FailJobOwns DEF ProviderMissing
<1>3. CASE ReadApproval(p)
  <2>1. CASE Return(p)
    BY <1>3, <2>1, ReturnMoves, QuietMove DEF ReadApproval, store
  <2>2. CASE Goto(p, "resume") /\ UNCHANGED <<jid, job, aid, apv>>
    <3>1. OthersKeep(p) /\ Keeps(p) BY <2>2, GotoMoves DEF Keeps
    <3> QED BY <1>3, <3>1, QuietMove DEF ReadApproval, store
  <2> QED BY <1>3, <2>1, <2>2 DEF ReadApproval
<1>4. CASE Resume(p) \/ Run(p) \/ Check(p)
  <2>1. AfterRunning(p) \in PreLabels /\ "dependencies" \in PreLabels
    BY DEF AfterRunning
  <2>2. {"queued", "waiting_for_approval", "checking_dependencies"} \subseteq JobStatus
    BY DEF JobStatus
  <2> QED BY <1>4, <2>1, <2>2, TransitionOwns DEF Resume, Run, Check
<1>5. CASE DependenciesFail(p)
  BY <1>5, FailJobOwns DEF DependenciesFail
<1>6. CASE WaitForDependency(p)
  BY <1>6, OutcomeReturn DEF WaitForDependency, Outcomes
<1>7. CASE EvaluatePolicy(p) \/ ReadLinked(p)
  <2>1. PICK l \in {"run", "linked", "ask", "fail", "park"} :
          /\ Goto(p, l) /\ pc[p] \in PreLabels
          /\ UNCHANGED <<store, jid, job, aid, apv, runs>>
    BY <1>7 DEF EvaluatePolicy, ReadLinked
  <2>2. OthersKeep(p) /\ Keeps(p) BY <2>1, GotoMoves DEF Keeps
  <2> QED BY <2>1, <2>2, QuietMove DEF store
<1>8. CASE Park(p)
  <2>1. TypeOK /\ jid[p] \in JobId /\ runs[jid[p]] = 0 /\ jobs[jid[p]].status # "absent"
    BY <1>8, TypesAreTypeOK, JobHeld DEF Park, Inv1, TablesOK, Inv2, Unstarted
  <2>2. "waiting_for_approval" \in JobStatus BY DEF JobStatus
  <2>3. /\ jobs'[jid[p]].status = "waiting_for_approval"
        /\ \A j \in JobId \ {jid[p]} : jobs'[j] = jobs[j]
    BY <1>8, <2>1, <2>2, SaveEffect DEF Park
  <2>4. \A q \in Proc \ {p} : pc[q] \in OwnLabels \cup NewLabels => jid[q] # jid[p]
    BY <1>8 DEF Park, Inv2
  <2>5. OthersKeep(p) /\ Leaves(p) /\ runs' = runs BY <1>8, ReturnMoves DEF Park
  <2>6. RowStep(p, jid[p]) BY <2>1, <2>3, <2>4, <2>5 DEF RowStep, Inv2
  <2>7. MoveStep(p)
    BY <2>1, <2>4, <2>5, JobHeld, LabelFacts, ConstantsAssumption DEF MoveStep, Leaves, Inv2
  <2> QED BY <2>1, <2>5, <2>6, <2>7, OwnershipFrame
<1>9. ASSUME NEW a \in ApprovalId, Ask(p, a)
      PROVE  Inv2' /\ OthersKeep(p)
  <2>1. OthersKeep(p) /\ pc'[p] = "park" /\ jid'[p] = jid[p] /\ UNCHANGED <<jobs, runs>>
    BY <1>9 DEF Ask, Goto, OthersKeep, Inv1, LocalTypes
  <2>2. Keeps(p) BY <1>9, <2>1 DEF Ask, Keeps
  <2> QED BY <2>1, <2>2, QuietMove
<1> QED BY <1>1, <1>2, <1>3, <1>4, <1>5, <1>6, <1>7, <1>8, <1>9 DEF CheckStep

LEMMA RunStepOwns ==
    ASSUME Inv1, Inv2, NEW p \in Proc, RunStep(p)
    PROVE  Inv2' /\ OthersKeep(p)
<1> USE DEF OwnLabels, PreLabels, NewLabels, CheckLabels, RunLabels, JoblessLabels
<1>1. CASE Claim(p) \/ ClaimRefused(p) \/ PreWriteFails(p) \/ ProviderFails(p) \/ Release(p)
  <2>1. PICK l \in {"start", "fail", "release"} :
          /\ Goto(p, l) /\ UNCHANGED <<jobs, jid, job, aid, apv, runs>>
          /\ pc[p] \in OwnLabels /\ (l = "start" => pc[p] \in PreLabels)
    BY <1>1 DEF Claim, ClaimRefused, PreWriteFails, ProviderFails, Release, store
  <2>2. OthersKeep(p) /\ Keeps(p) BY <2>1, GotoMoves DEF Keeps
  <2> QED BY <2>1, <2>2, QuietMove
<1>2. CASE ClaimSettled(p)
  <2>1. OthersKeep(p) /\ pc'[p] = "replay" /\ jid'[p] = jid[p] /\ UNCHANGED <<jobs, runs>>
    BY <1>2 DEF ClaimSettled, Goto, OthersKeep, Inv1, LocalTypes, store
  <2>2. Keeps(p) BY <1>2, <2>1 DEF ClaimSettled, Keeps
  <2> QED BY <2>1, <2>2, QuietMove
<1>3. CASE Replay(p)
  BY <1>3, OutcomeReturn DEF Replay, Outcomes
<1>4. CASE SetupFails(p) \/ Fail(p)
  BY <1>4, FailJobOwns DEF SetupFails, Fail
<1>5. CASE StartProvider(p)
  <2>1. jid[p] \in JobId /\ runs[jid[p]] = 0 /\ jobs[jid[p]].status \notin Unstarted
        /\ pc[p] \in OwnLabels
    BY <1>5, JobHeld DEF StartProvider, Inv2
  <2>2. runs'[jid[p]] = 1 /\ \A j \in JobId \ {jid[p]} : runs'[j] = runs[j]
    BY <1>5, <2>1 DEF StartProvider, Inv1, TablesOK, TableTypes
  <2>3. OthersKeep(p) /\ pc'[p] = "provider" /\ jid'[p] = jid[p] /\ jobs' = jobs
    BY <1>5, GotoMoves DEF StartProvider, store
  <2>4. \A q \in Proc \ {p} : pc[q] \in OwnLabels \cup NewLabels => jid[q] # jid[p]
    BY <2>1 DEF Inv2
  <2>5. RowStep(p, jid[p])
    BY <2>1, <2>2, <2>3, <2>4, LabelFacts DEF RowStep, Inv2
  <2>6. MoveStep(p) BY <2>1, <2>3, <2>4 DEF MoveStep
  <2> QED BY <2>1, <2>3, <2>5, <2>6, OwnershipFrame
<1>6. ASSUME NEW d \in Digest \cup {None}, ProviderEnds(p, d)
      PROVE  Inv2' /\ OthersKeep(p)
  <2>1. OthersKeep(p) /\ Keeps(p) BY <1>6, GotoMoves DEF ProviderEnds, Keeps
  <2> QED BY <1>6, <2>1, QuietMove DEF ProviderEnds
<1>7. CASE Complete(p)
  <2>1. OthersKeep(p) /\ (Keeps(p) \/ Leaves(p))
    <3>1. CASE Return(p) BY <3>1, ReturnMoves
    <3>2. CASE Goto(p, "settle") /\ UNCHANGED <<jid, job, aid, apv>>
      BY <1>7, <3>2, GotoMoves DEF Complete, Keeps
    <3> QED BY <1>7, <3>1, <3>2 DEF Complete
  <2> QED BY <1>7, <2>1, OutcomeMove DEF Complete, Outcomes
<1>8. CASE Settle(p)
  BY <1>8, ReturnMoves, QuietMove DEF Settle
<1> QED BY <1>1, <1>2, <1>3, <1>4, <1>5, <1>6, <1>7, <1>8 DEF RunStep

LEMMA DecideStepOwns ==
    ASSUME Inv1, Inv2, NEW p \in Proc, DecideStep(p)
    PROVE  Inv2' /\ OthersKeep(p)
<1> USE DEF OwnLabels, PreLabels, NewLabels, CheckLabels, RunLabels, JoblessLabels
<1>1. CASE Decide(p) \/ Refuse(p)
  <2>1. CASE Return(p)
    BY <1>1, <2>1, ReturnMoves, QuietMove DEF Decide, Refuse
  <2>2. CASE ~Return(p)
    <3>1. PICK l \in {"granted", "refused"} :
            Goto(p, l) /\ UNCHANGED <<jobs, jid, job, aid, apv, runs>>
      BY <1>1, <2>2 DEF Decide, Refuse, TransitionApproval
    <3>2. OthersKeep(p) /\ Keeps(p) BY <3>1, GotoMoves DEF Keeps
    <3> QED BY <3>1, <3>2, QuietMove
  <2> QED BY <2>1, <2>2
<1>2. CASE GrantedJob(p)
  <2>1. apv[p].job \in JobId /\ jobs[apv[p].job].status # "absent"
    BY <1>2 DEF GrantedJob, Inv1, LocalOK, HoldsAt, DecidingLabels, GateOfJob
  <2>2. OthersKeep(p) /\ pc'[p] = "process" /\ jid'[p] = apv[p].job /\ UNCHANGED <<jobs, runs>>
    BY <1>2 DEF GrantedJob, Goto, OthersKeep, Inv1, LocalTypes, store
  <2>3. Leaves(p) BY <2>1, <2>2 DEF Leaves
  <2> QED BY <2>2, <2>3, QuietMove
<1>3. CASE GrantedStale(p)
  BY <1>3, ReturnMoves, QuietMove DEF GrantedStale, store
<1>4. ASSUME NEW j \in JobId, NEW gated \in BOOLEAN, GrantedLive(p, j, gated)
      PROVE  Inv2' /\ OthersKeep(p)
  <2>1. jobs[j].status = "absent" /\ \A q \in Proc : jid[q] # j
    BY <1>4 DEF GrantedLive, BeginLinked, FreshJob
  <2>2. OthersKeep(p) /\ pc'[p] = "link" /\ jid'[p] = j /\ UNCHANGED <<jobs, runs>>
    BY <1>4 DEF GrantedLive, BeginLinked, Goto, OthersKeep, Inv1, LocalTypes
  <2>3. RowStep(p, None) BY <2>2, ConstantsAssumption DEF RowStep
  <2>4. MoveStep(p) BY <2>1, <2>2 DEF MoveStep
  <2> QED BY <2>2, <2>3, <2>4, OwnershipFrame
<1>5. CASE ReadRejected(p)
  <2>1. CASE Return(p)
    BY <1>5, <2>1, ReturnMoves, QuietMove DEF ReadRejected, store
  <2>2. CASE ~Return(p)
    <3>1. /\ apv[p].job # None /\ GateOfJob(apv[p])
          /\ jid' = [jid EXCEPT ![p] = apv[p].job]
          /\ job' = [job EXCEPT ![p] = jobs[apv[p].job]]
          /\ pc' = [pc EXCEPT ![p] = "reject"]
          /\ UNCHANGED <<store, aid, apv, runs>>
      BY <1>5, <2>2 DEF ReadRejected, Goto, Inv1, LocalOK, HoldsAt, DecidingLabels
    <3>2. apv[p].job \in JobId /\ jobs[apv[p].job].status # "absent"
      BY <3>1 DEF GateOfJob
    <3>3. OthersKeep(p) /\ pc'[p] = "reject" /\ jid'[p] = apv[p].job /\ UNCHANGED <<jobs, runs>>
      BY <3>1 DEF OthersKeep, Inv1, LocalTypes, store
    <3>4. Leaves(p) BY <3>2, <3>3 DEF Leaves
    <3> QED BY <3>3, <3>4, QuietMove
  <2> QED BY <2>1, <2>2
<1>6. CASE RejectJob(p)
  BY <1>6, OutcomeReturn DEF RejectJob, Outcomes
<1> QED BY <1>1, <1>2, <1>3, <1>4, <1>5, <1>6 DEF DecideStep

LEMMA NextInv2 == Inv1 /\ Inv2 /\ [Next]_vars => Inv2'
<1> SUFFICES ASSUME Inv1, Inv2, [Next]_vars PROVE Inv2'
  OBVIOUS
<1>1. ASSUME UNCHANGED <<pc, jid, jobs, runs>> PROVE Inv2'
  BY <1>1 DEF Inv2
<1>2. CASE UNCHANGED vars BY <1>1, <1>2 DEF vars
<1>3. ASSUME NEW p \in Proc, Call(p) \/ Step(p) PROVE Inv2'
  BY <1>3, CallOwns, CreateStepOwns, CheckStepOwns, RunStepOwns, DecideStepOwns DEF Step
<1>4. ASSUME NEW p \in Proc, Stop(p) PROVE Inv2'
  BY <1>4, ReturnMoves, QuietMove DEF Stop, store
<1>5. ASSUME NEW j \in JobId, NEW d \in Forged, Tamper(j, d) PROVE Inv2'
  BY <1>1, <1>5 DEF Tamper, locals
<1> QED BY <1>2, <1>3, <1>4, <1>5 DEF Next, RefreshFails, Crash

LEMMA SpecInv2 == Spec => [](Inv1 /\ Inv2)
<1> QED BY InitInv1, InitInv2, NextInv1, NextInv2, PTL DEF Spec

(* However many processes are handed the same job, and whoever dies, its   *)
(* provider is started at most once: the two compare-and-sets of           *)
(* process_job hand the job from process to process without overlap.       *)
THEOREM ProviderStartedOnce == Spec => []ProviderStartsOnce
<1>1. Inv2 => ProviderStartsOnce BY DEF Inv2, ProviderStartsOnce
<1> QED BY <1>1, SpecInv2, PTL

-----------------------------------------------------------------------------
(* Idempotency keys.  Only the job that claimed a key writes its record,   *)
(* because the jobs of two writers differ.                                 *)
WriteLabels == {"start", "provider", "complete", "settle", "release"}

SettledKept == \A k \in Key : idem[k].status = "completed" => idem'[k] = idem[k]

(* A process enters the write labels with a live job only by a claim.      *)
NoNewWriter(p) ==
    pc'[p] \in WriteLabels /\ job'[p].kind = "live" =>
        pc[p] \in WriteLabels /\ job'[p] = job[p] /\ jid'[p] = jid[p]

LEMMA KeyFrame ==
    ASSUME WriterHoldsKey, NEW p \in Proc, OthersKeep(p), UNCHANGED idem, NoNewWriter(p)
    PROVE  WriterHoldsKey' /\ SettledKept
<1>1. ASSUME NEW q \in Proc, Writing(q)'
      PROVE  /\ Writing(q) /\ job'[q] = job[q] /\ jid'[q] = jid[q]
  BY <1>1 DEF Writing, OthersKeep, NoNewWriter, WriteLabels
<1> QED BY <1>1 DEF WriterHoldsKey, SettledKept

(* A writer hands its key on, settled or free.                             *)
LEMMA KeyHandedOn ==
    ASSUME Inv1, Inv2, WriterHoldsKey, NEW p \in Proc, OthersKeep(p), Writing(p),
           pc'[p] \notin WriteLabels,
           NEW s \in {"completed", "failed"}, SetIdempotency(p, s)
    PROVE  WriterHoldsKey' /\ SettledKept
<1>1. job[p].key \in Key /\ jid[p] \in JobId /\ pc[p] \in OwnLabels /\ TypeOK
  BY JobHeld, TypesAreTypeOK
     DEF Inv1, TablesOK, LocalOK, KeyedJob, Writing, OwnLabels, RunLabels
<1>2. idem[job[p].key].status = "running" /\ idem[job[p].key].job = jid[p]
  <2>1. idem[job[p].key] = [status |-> "running", job |-> jid[p], digest |-> job[p].digest]
    BY DEF WriterHoldsKey
  <2> QED BY <2>1
<1>3. \A k \in Key : k # job[p].key => idem'[k] = idem[k]
  BY <1>1, SetIdempotencyEffect
<1>4. ASSUME NEW q \in Proc, Writing(q)'
      PROVE  idem'[job'[q].key] = [status |-> "running", job |-> jid'[q], digest |-> job'[q].digest]
  <2>1. q # p /\ Writing(q) /\ job'[q] = job[q] /\ jid'[q] = jid[q]
    BY <1>4 DEF Writing, OthersKeep, WriteLabels
  <2>2. job[q].key \in Key /\ pc[q] \in OwnLabels
    BY <2>1 DEF Inv1, LocalOK, KeyedJob, Writing, OwnLabels, RunLabels
  <2>3. jid[q] # jid[p] BY <1>1, <2>1, <2>2 DEF Inv2
  <2>4. idem[job[q].key] = [status |-> "running", job |-> jid[q], digest |-> job[q].digest]
    BY <2>1 DEF WriterHoldsKey
  <2>5. job[q].key # job[p].key BY <1>2, <2>3, <2>4
  <2> QED BY <1>3, <2>1, <2>2, <2>4, <2>5
<1>5. SettledKept BY <1>2, <1>3 DEF SettledKept
<1> QED BY <1>4, <1>5 DEF WriterHoldsKey

LEMMA ClaimHoldsKey ==
    ASSUME Inv1, WriterHoldsKey, NEW p \in Proc, OthersKeep(p), Claim(p)
    PROVE  WriterHoldsKey' /\ SettledKept
<1>1. /\ job[p].key \in Key /\ jid[p] \in JobId /\ TypeOK
      /\ SetIdempotency(p, "running") /\ KeyIsFree(job[p].key)
  BY TypesAreTypeOK DEF Claim, Inv1, TablesOK, LocalOK, HoldsAt, KeyedJob, JoblessLabels
<1>2. /\ \A k \in Key : k # job[p].key => idem'[k] = idem[k]
      /\ idem'[job[p].key] = [status |-> "running", job |-> jid[p], digest |-> job[p].digest]
  BY <1>1, SetIdempotencyEffect
<1>3. jid' = jid /\ job' = job BY DEF Claim
<1>4. ASSUME NEW q \in Proc, Writing(q)'
      PROVE  idem'[job'[q].key] = [status |-> "running", job |-> jid'[q], digest |-> job'[q].digest]
  <2>1. CASE q = p BY <1>2, <1>3, <2>1
  <2>2. CASE q # p
    <3>1. Writing(q) BY <1>3, <1>4, <2>2 DEF Writing, OthersKeep
    <3>2. job[q].key \in Key BY <3>1 DEF Inv1, LocalOK, KeyedJob, Writing
    <3>3. idem[job[q].key] = [status |-> "running", job |-> jid[q], digest |-> job[q].digest]
      BY <3>1 DEF WriterHoldsKey
    <3>4. job[q].key # job[p].key BY <1>1, <3>3 DEF KeyIsFree
    <3> QED BY <1>2, <1>3, <3>2, <3>3, <3>4
  <2> QED BY <2>1, <2>2
<1>5. SettledKept BY <1>1, <1>2 DEF SettledKept, KeyIsFree
<1> QED BY <1>4, <1>5 DEF WriterHoldsKey

LEMMA StepHoldsKey ==
    ASSUME Inv1, Inv2, WriterHoldsKey, NEW p \in Proc, Call(p) \/ Step(p) \/ Stop(p)
    PROVE  WriterHoldsKey' /\ SettledKept
<1> USE DEF WriteLabels
<1>1. OthersKeep(p)
  BY CallOwns, CreateStepOwns, CheckStepOwns, RunStepOwns, DecideStepOwns, ReturnMoves
     DEF Step, Stop
<1>2. ASSUME Return(p), UNCHANGED idem PROVE WriterHoldsKey' /\ SettledKept
  <2>1. pc'[p] \notin WriteLabels BY <1>2, ReturnMoves DEF Leaves, OwnLabels, RunLabels
  <2> QED BY <1>1, <1>2, <2>1, KeyFrame DEF NoNewWriter
<1>3. ASSUME UNCHANGED idem, pc'[p] \notin WriteLabels PROVE WriterHoldsKey' /\ SettledKept
  BY <1>1, <1>3, KeyFrame DEF NoNewWriter
<1>4. ASSUME NEW l \in Label, Goto(p, l), UNCHANGED <<jid, job, aid, apv, idem>>,
             l \in WriteLabels => pc[p] \in WriteLabels \/ job[p].kind # "live"
      PROVE  WriterHoldsKey' /\ SettledKept
  <2>1. pc'[p] = l BY <1>4, GotoMoves
  <2>2. NoNewWriter(p) BY <1>4, <2>1 DEF NoNewWriter
  <2> QED BY <1>1, <1>4, <2>2, KeyFrame
<1>5. CASE Call(p)
  <2>1. pc'[p] \in {"idle", "process", "link", "decide", "refuse"} /\ UNCHANGED idem
    BY <1>5 DEF Call, Submit, SubmitLinked, BeginLinked, Promote, Recover, Approve, Reject, Process,
                Goto, store, locals, Inv1, LocalTypes
  <2> QED BY <1>3, <2>1
<1>6. CASE CreateStep(p)
  <2>1. pc'[p] \in {"save", "process"} /\ UNCHANGED idem
    BY <1>6 DEF CreateStep, Link, SaveJob, Goto, Inv1, LocalTypes
  <2> QED BY <1>3, <2>1
<1>7. CASE CheckStep(p)
  <2>1. CASE Resume(p) \/ Run(p)
    <3>1. PICK e \in JobStatus : Transition(p, e, "running", AfterRunning(p)) /\ UNCHANGED idem
      BY <2>1 DEF Resume, Run, JobStatus
    <3>2. CASE Return(p) BY <1>2, <3>1, <3>2
    <3>3. CASE Goto(p, AfterRunning(p)) /\ UNCHANGED <<jid, job, aid, apv>>
      <4>1. AfterRunning(p) \in Label /\ (AfterRunning(p) \in WriteLabels => job[p].kind # "live")
        BY DEF AfterRunning, Label, RunLabels
      <4> QED BY <1>4, <3>1, <3>3, <4>1
    <3> QED BY <3>1, <3>2, <3>3 DEF Transition
  <2>2. CASE ~(Resume(p) \/ Run(p))
    <3>1. UNCHANGED idem
      BY <1>7, <2>2 DEF CheckStep, ReadJob, ProviderMissing, ReadApproval, Check,
         DependenciesFail, WaitForDependency, EvaluatePolicy, ReadLinked, Park, Ask, store
    <3>2. CASE Return(p) BY <1>2, <3>1, <3>2
    <3>3. CASE ~Return(p)
      <4>1. PICK l \in {"check", "approved", "resume", "dependencies", "run", "linked",
                        "ask", "fail", "park"} : pc' = [pc EXCEPT ![p] = l]
        BY <1>7, <2>2, <3>3 DEF CheckStep, ReadJob, ProviderMissing, FailJob, ReadApproval,
           Check, Transition, DependenciesFail, WaitForDependency, EvaluatePolicy, ReadLinked,
           Park, Ask, Goto
      <4>2. pc'[p] = l BY <4>1 DEF Inv1, LocalTypes
      <4> QED BY <1>3, <3>1, <4>2
    <3> QED BY <3>2, <3>3
  <2> QED BY <2>1, <2>2
<1>8. CASE RunStep(p)
  <2>1. CASE Claim(p) BY <1>1, <2>1, ClaimHoldsKey
  <2>2. CASE Settle(p) \/ (Release(p) /\ job[p].kind = "live")
    <3>1. PICK s \in {"completed", "failed"} : SetIdempotency(p, s)
      BY <2>2 DEF Settle, Release
    <3>2. Writing(p) BY <2>2 DEF Settle, Release, Writing, Inv1, LocalOK, HoldsAt
    <3>3. pc'[p] \notin WriteLabels
      BY <2>2, ReturnMoves DEF Settle, Release, Goto, Leaves, OwnLabels, RunLabels, Inv1, LocalTypes
    <3> QED BY <1>1, <3>1, <3>2, <3>3, KeyHandedOn
  <2>3. CASE Release(p) /\ job[p].kind # "live"
    BY <1>4, <2>3 DEF Release, Label
  <2>4. CASE ClaimSettled(p)
    <3>1. pc'[p] = "replay" /\ UNCHANGED idem
      BY <2>4 DEF ClaimSettled, Goto, store, Inv1, LocalTypes
    <3> QED BY <1>3, <3>1
  <2>5. CASE ClaimRefused(p) \/ PreWriteFails(p) \/ StartProvider(p) \/ ProviderFails(p)
             \/ \E d \in Digest \cup {None} : ProviderEnds(p, d)
    <3>1. PICK l \in {"fail", "release", "provider", "complete"} :
            /\ Goto(p, l) /\ UNCHANGED <<jid, job, aid, apv, idem>>
            /\ pc[p] \in WriteLabels \/ l = "fail"
      BY <2>5 DEF ClaimRefused, PreWriteFails, StartProvider, ProviderFails, ProviderEnds, store
    <3> QED BY <1>4, <3>1 DEF Label, RunLabels
  <2>6. CASE Replay(p) \/ SetupFails(p) \/ Fail(p)
    BY <1>2, <2>6 DEF Replay, SetupFails, Fail, FailJob
  <2>7. CASE Complete(p)
    <3>1. CASE Return(p) BY <1>2, <2>7, <3>1 DEF Complete
    <3>2. CASE Goto(p, "settle") /\ UNCHANGED <<jid, job, aid, apv>>
      BY <1>4, <2>7, <3>2 DEF Complete, Label, RunLabels
    <3> QED BY <2>7, <3>1, <3>2 DEF Complete
  <2> QED BY <1>8, <2>1, <2>2, <2>3, <2>4, <2>5, <2>6, <2>7 DEF RunStep
<1>9. CASE DecideStep(p)
  <2>1. UNCHANGED idem
    BY <1>9 DEF DecideStep, Decide, GrantedJob, GrantedStale, GrantedLive, BeginLinked,
                Refuse, ReadRejected, RejectJob, store
  <2>2. CASE Return(p) BY <1>2, <2>1, <2>2
  <2>3. CASE ~Return(p)
    <3>1. PICK l \in {"granted", "process", "link", "refused", "reject"} :
            pc' = [pc EXCEPT ![p] = l]
      BY <1>9, <2>3 DEF DecideStep, Decide, GrantedJob, GrantedStale, GrantedLive, BeginLinked,
                Refuse, ReadRejected, RejectJob, TransitionApproval, Goto
    <3>2. pc'[p] = l BY <3>1 DEF Inv1, LocalTypes
    <3> QED BY <1>3, <2>1, <3>2
  <2> QED BY <2>2, <2>3
<1>10. CASE Stop(p) BY <1>2, <1>10 DEF Stop, store
<1> QED BY <1>5, <1>6, <1>7, <1>8, <1>9, <1>10 DEF Step

LEMMA NextHoldsKey == Inv1 /\ Inv2 /\ WriterHoldsKey /\ [Next]_vars => WriterHoldsKey' /\ SettledKept
<1> SUFFICES ASSUME Inv1, Inv2, WriterHoldsKey, [Next]_vars
             PROVE  WriterHoldsKey' /\ SettledKept
  OBVIOUS
<1>1. ASSUME UNCHANGED <<pc, jid, job, idem>> PROVE WriterHoldsKey' /\ SettledKept
  BY <1>1 DEF WriterHoldsKey, Writing, SettledKept
<1>2. CASE UNCHANGED vars BY <1>1, <1>2 DEF vars
<1>3. ASSUME NEW p \in Proc, Call(p) \/ Step(p) \/ Stop(p)
      PROVE  WriterHoldsKey' /\ SettledKept
  BY <1>3, StepHoldsKey
<1>4. ASSUME NEW j \in JobId, NEW d \in Forged, Tamper(j, d)
      PROVE  WriterHoldsKey' /\ SettledKept
  BY <1>1, <1>4 DEF Tamper, locals
<1> QED BY <1>2, <1>3, <1>4 DEF Next, RefreshFails, Crash

LEMMA InitHoldsKey == Init => WriterHoldsKey
BY DEF Init, WriterHoldsKey, Writing

(* A live writer owns its idempotency record from its claim to the end of  *)
(* the provider: no two writers ever work under one key.                   *)
THEOREM WritersHoldTheirKeys == Spec => []WriterHoldsKey
BY InitInv1, InitInv2, NextInv1, NextInv2, InitHoldsKey, NextHoldsKey, PTL DEF Spec

(* A completed idempotency record is never written again, by a later       *)
(* claim, by the release of a failed writer or by a replay.                *)
THEOREM SettledKeysAreFinal == Spec => SettledKeyIsFinal
<1>1. Inv1 /\ Inv2 /\ WriterHoldsKey /\ [Next]_vars =>
        [\A k \in Key : idem[k].status = "completed" => idem'[k] = idem[k]]_vars
  BY NextHoldsKey DEF SettledKept
<1> QED BY <1>1, SpecInv2, WritersHoldTheirKeys, PTL DEF Spec, SettledKeyIsFinal

-----------------------------------------------------------------------------
(* The part of a row that no step changes once the row exists.             *)
SameJob(x, y) ==
    x.kind = y.kind /\ x.gated = y.gated /\ x.key = y.key /\ x.src = y.src /\ x.digest = y.digest

(* Labels at which a process works with a copy of the row of its job, and  *)
(* those at which its provider was started.                                *)
CopyLabels == {"check", "approved", "resume", "reject"} \cup OwnLabels
StartedLabels == {"provider", "complete", "settle"}

(* What a promotion, a recovery or a replay can fingerprint.               *)
Fingerprinted(j) == jobs[j].status # "absent" /\ jobs[j].kind # "plain" /\ artifact[j] \in Digest

DigestedJob(r) == r.kind = "live" => r.digest \in Digest

Rows3 ==
    /\ \A j \in JobId : DigestedJob(jobs[j])
    /\ \A j \in JobId : jobs[j].status = "completed" /\ jobs[j].kind # "plain" => Fingerprinted(j)
    /\ \A a \in ApprovalId : approvals[a].purpose # "gate" => approvals[a].digest \in Digest
    /\ \A k \in Key : idem[k].status = "completed" => Fingerprinted(idem[k].job)

Local3(p) ==
    /\ pc[p] \in CopyLabels => SameJob(job[p], jobs[jid[p]])
    /\ DigestedJob(job[p])
    /\ pc[p] \in {"complete", "settle"} /\ job[p].kind # "plain" => Fingerprinted(jid[p])
    /\ pc[p] = "replay" => Fingerprinted(job[p].replay)
    /\ pc[p] \in StartedLabels => runs[jid[p]] = 1

(* Copies agree with their rows, whatever is fingerprinted has a digest,   *)
(* and a started provider is counted.                                      *)
Inv3 == Rows3 /\ \A p \in Proc : Local3(p)

-----------------------------------------------------------------------------
(* The steps of a process, by what they write.                             *)

Ends(p) == Return(p) /\ UNCHANGED <<store, runs>>

JumpsTo(p, l) == Goto(p, l) /\ UNCHANGED <<store, jid, job, aid, apv, runs>>

Jumps(p) ==
    \/ pc[p] = "approved" /\ MayResume(p) /\ JumpsTo(p, "resume")
    \/ pc[p] = "dependencies" /\ ~job[p].gated /\ JumpsTo(p, "run")
    \/ pc[p] = "dependencies" /\ job[p].approval # None /\ JumpsTo(p, "linked")
    \/ pc[p] = "dependencies" /\ job[p].approval = None /\ JumpsTo(p, "ask")
    \/ pc[p] = "linked" /\ approvals[job[p].approval].status = "approved" /\ JumpsTo(p, "run")
    \/ pc[p] = "linked" /\ approvals[job[p].approval].status # "approved"
          /\ (JumpsTo(p, "fail") \/ JumpsTo(p, "park"))
    \/ pc[p] = "claim" /\ JumpsTo(p, "fail")
    \/ pc[p] \in {"start", "provider"} /\ JumpsTo(p, "release")

SavesAs(p, s) == Save(p, s) /\ Return(p) /\ UNCHANGED <<approvals, idem, artifact, runs>>

SavesAndEnds(p) ==
    \/ pc[p] \in {"check", "approved", "dependencies", "start", "fail"} /\ SavesAs(p, "failed")
    \/ pc[p] = "dependencies" /\ SavesAs(p, "waiting_for_dependency")
    \/ pc[p] = "park" /\ SavesAs(p, "waiting_for_approval")
    \/ pc[p] = "complete" /\ job[p].kind # "live" /\ SavesAs(p, "completed")
    \/ pc[p] = "reject" /\ SavesAs(p, "rejected")

SavesTo(p, s, l) ==
    Save(p, s) /\ Goto(p, l) /\ UNCHANGED <<approvals, idem, artifact, jid, job, aid, apv, runs>>

SavesAndGoes(p) ==
    \/ pc[p] = "resume" /\ jobs[jid[p]].status = "waiting_for_approval"
          /\ SavesTo(p, "running", AfterRunning(p))
    \/ pc[p] = "run" /\ jobs[jid[p]].status = "checking_dependencies"
          /\ SavesTo(p, "running", AfterRunning(p))
    \/ pc[p] = "check" /\ jobs[jid[p]].status = "queued"
          /\ SavesTo(p, "checking_dependencies", "dependencies")
    \/ pc[p] = "complete" /\ job[p].kind = "live" /\ SavesTo(p, "completed", "settle")
    \/ pc[p] = "save" /\ SavesTo(p, "queued", "process")

(* A process turns to a job, with a copy of its row or without.            *)
Turns(p, j, l) ==
    Goto(p, l) /\ jid' = [jid EXCEPT ![p] = j] /\ UNCHANGED <<store, aid, apv, runs>>

Reads(p) ==
    \/ pc[p] = "process" /\ jobs[jid[p]].status = "queued"
          /\ Turns(p, jid[p], "check") /\ job' = [job EXCEPT ![p] = jobs[jid[p]]]
    \/ pc[p] = "process" /\ jobs[jid[p]].status = "waiting_for_approval"
          /\ Turns(p, jid[p], "approved") /\ job' = [job EXCEPT ![p] = jobs[jid[p]]]
    \/ pc[p] = "refused" /\ apv[p].job # None
          /\ Turns(p, apv[p].job, "reject") /\ job' = [job EXCEPT ![p] = jobs[apv[p].job]]
    \/ GrantedJob(p)
    \/ \E j \in JobId : Process(p, j)

(* A live job begins under an approval.                                    *)
Begins(p) ==
    \E a \in ApprovalId, j \in JobId, kind \in {"plain", "dry_run", "live", "recovery"},
       key \in Key \cup {None}, gated \in BOOLEAN :
         /\ pc[p] \in {"idle", "granted"}
         /\ kind \in {"dry_run", "live"} => key \in Key
         /\ BeginLinked(p, a, j, kind, key, gated)

WritesApproval(p) ==
    \/ Link(p)
    \/ \E j \in JobId, a \in ApprovalId : Promote(p, j, a) \/ Recover(p, j, a)
    \/ \E a \in ApprovalId : Ask(p, a)
    \/ approvals[aid[p]].status = "pending" /\ (Decide(p) \/ Refuse(p))

OtherStep(p) ==
    \/ Reads(p) \/ Begins(p) \/ WritesApproval(p)
    \/ \E j \in JobId, r \in Requests : Submit(p, j, r)
    \/ \E a \in ApprovalId : Approve(p, a) \/ Reject(p, a)
    \/ Claim(p) \/ ClaimSettled(p) \/ Settle(p) \/ Release(p) \/ Replay(p)
    \/ StartProvider(p) \/ \E d \in Digest \cup {None} : ProviderEnds(p, d)

LEMMA SelfUpdate ==
    ASSUME Inv1, NEW p \in Proc
    PROVE  [jid EXCEPT ![p] = jid[p]] = jid
BY DEF Inv1, LocalTypes

LEMMA StepCases ==
    ASSUME Inv1, NEW p \in Proc, Call(p) \/ Step(p) \/ Stop(p)
    PROVE  Ends(p) \/ Jumps(p) \/ SavesAndEnds(p) \/ SavesAndGoes(p) \/ OtherStep(p)
<1> DEFINE G == Ends(p) \/ Jumps(p) \/ SavesAndEnds(p) \/ SavesAndGoes(p) \/ OtherStep(p)
<1>1. CASE Call(p)
  <2>1. ASSUME NEW j \in JobId, NEW a \in ApprovalId, NEW r \in Requests, SubmitLinked(p, a, j, r)
        PROVE  Begins(p)
    BY <2>1, RequestFacts DEF SubmitLinked, Begins
  <2> QED BY <1>1, <2>1 DEF Call, OtherStep, Reads, WritesApproval
<1>2. CASE CreateStep(p)
  BY <1>2 DEF CreateStep, SaveJob, SavesAndGoes, SavesTo, OtherStep, WritesApproval
<1>3. CASE CheckStep(p)
  <2>1. ASSUME ReadJob(p) PROVE Ends(p) \/ Reads(p)
    <3>1. CASE jobs[jid[p]].status \in {"queued", "waiting_for_approval"}
      BY <2>1, <3>1, SelfUpdate DEF ReadJob, Reads, Turns
    <3>2. CASE jobs[jid[p]].status \notin {"queued", "waiting_for_approval"}
      BY <2>1, <3>2 DEF ReadJob, Ends
    <3> QED BY <3>1, <3>2
  <2>2. ASSUME ReadApproval(p) PROVE Ends(p) \/ Jumps(p)
    BY <2>2 DEF ReadApproval, Ends, Jumps, JumpsTo
  <2>3. ASSUME ProviderMissing(p) \/ DependenciesFail(p) \/ WaitForDependency(p) \/ Park(p)
        PROVE  SavesAndEnds(p)
    BY <2>3 DEF ProviderMissing, DependenciesFail, WaitForDependency, Park, FailJob, SavesAndEnds, SavesAs
  <2>4. ASSUME Resume(p) \/ Run(p) \/ Check(p) PROVE Ends(p) \/ SavesAndGoes(p)
    BY <2>4 DEF Resume, Run, Check, Transition, Ends, SavesAndGoes, SavesTo, store
  <2>5. ASSUME EvaluatePolicy(p) \/ ReadLinked(p) PROVE Jumps(p)
    <3>1. job[p].gated \in BOOLEAN BY DEF Inv1, LocalTypes, Job
    <3> QED BY <2>5, <3>1 DEF EvaluatePolicy, ReadLinked, Jumps, JumpsTo
  <2> QED BY <1>3, <2>1, <2>2, <2>3, <2>4, <2>5 DEF CheckStep, OtherStep, WritesApproval
<1>4. CASE RunStep(p)
  <2>1. ASSUME ClaimRefused(p) \/ PreWriteFails(p) \/ ProviderFails(p) PROVE Jumps(p)
    BY <2>1 DEF ClaimRefused, PreWriteFails, ProviderFails, Jumps, JumpsTo
  <2>2. ASSUME SetupFails(p) \/ Fail(p) PROVE SavesAndEnds(p)
    BY <2>2 DEF SetupFails, Fail, FailJob, SavesAndEnds, SavesAs
  <2>3. ASSUME Complete(p) PROVE SavesAndEnds(p) \/ SavesAndGoes(p)
    BY <2>3 DEF Complete, SavesAndEnds, SavesAs, SavesAndGoes, SavesTo
  <2> QED BY <1>4, <2>1, <2>2, <2>3 DEF RunStep, OtherStep
<1>5. CASE DecideStep(p)
  <2>1. ASSUME Decide(p) \/ Refuse(p) PROVE Ends(p) \/ WritesApproval(p)
    BY <2>1 DEF Decide, Refuse, TransitionApproval, Ends, WritesApproval, store
  <2>2. ASSUME GrantedStale(p) PROVE Ends(p) BY <2>2 DEF GrantedStale, Ends
  <2>3. ASSUME NEW j \in JobId, NEW gated \in BOOLEAN, GrantedLive(p, j, gated) PROVE Begins(p)
    <3> DEFINE kind == IF apv[p].purpose = "promotion" THEN "live" ELSE "recovery"
    <3>1. /\ pc[p] = "granted" /\ aid[p] \in ApprovalId /\ apv[p].src \in JobId
          /\ apv[p].src = approvals[aid[p]].src
      BY <2>3 DEF GrantedLive, Inv1, LocalOK, HoldsAt, DecidingLabels, SourcedApproval, IsCopy, SameSubject
    <3>2. jobs[apv[p].src] \in Job /\ KeyedJob(jobs[apv[p].src])
      BY <3>1 DEF Inv1, TablesOK, TableTypes
    <3>3. jobs[apv[p].src].key \in Key \cup {None} BY <3>2 DEF Job
    <3>4. BeginLinked(p, aid[p], j, kind, jobs[apv[p].src].key, gated) BY <2>3 DEF GrantedLive
    <3>5. kind = "live" => jobs[apv[p].src].kind = "dry_run"
      BY <3>1, <3>4 DEF BeginLinked, ValidPromotion
    <3>6. kind = "live" => jobs[apv[p].src].key \in Key BY <3>2, <3>5 DEF KeyedJob
    <3>7. kind \in {"live", "recovery"} OBVIOUS
    <3> HIDE DEF kind
    <3> QED BY <3>1, <3>3, <3>4, <3>6, <3>7 DEF Begins
  <2>4. ASSUME ReadRejected(p) PROVE Ends(p) \/ Reads(p)
    BY <2>4 DEF ReadRejected, Ends, Reads, Turns
  <2>5. ASSUME RejectJob(p) PROVE SavesAndEnds(p)
    BY <2>5 DEF RejectJob, SavesAndEnds, SavesAs
  <2> QED BY <1>5, <2>1, <2>2, <2>3, <2>4, <2>5 DEF DecideStep, OtherStep, Reads
<1>6. CASE Stop(p) BY <1>6 DEF Stop, Ends
<1> QED BY <1>1, <1>2, <1>3, <1>4, <1>5, <1>6 DEF Step

(* What the store calls do, field by field.                                *)
LEMMA ReturnFacts ==
    ASSUME Inv1, NEW p \in Proc, Return(p)
    PROVE  /\ OthersKeep(p) /\ pc'[p] = "idle" /\ jid'[p] = None
           /\ job'[p] = AbsentJob /\ apv'[p] = AbsentApproval
<1>1. TypeOK BY TypesAreTypeOK DEF Inv1, TablesOK
<1> QED BY <1>1, ReturnEffect DEF OthersKeep

LEMMA SavedRow ==
    ASSUME NEW r \in Job, NEW s \in JobStatus
    PROVE  LET n == [r EXCEPT !.status = s] IN
           /\ n \in Job /\ n.status = s /\ SameJob(n, r)
           /\ n.approval = r.approval /\ n.replay = r.replay
BY DEF Job, SameJob

LEMMA SaveFacts ==
    ASSUME Inv1, NEW p \in Proc, pc[p] \notin JoblessLabels, NEW s \in JobStatus, Save(p, s)
    PROVE  /\ jid[p] \in JobId /\ jobs' \in [JobId -> Job]
           /\ \A j \in JobId \ {jid[p]} : jobs'[j] = jobs[j]
           /\ jobs'[jid[p]].status = s /\ SameJob(jobs'[jid[p]], job[p])
           /\ jobs'[jid[p]].approval = job[p].approval /\ jobs'[jid[p]].replay = job[p].replay
<1> DEFINE n == [job[p] EXCEPT !.status = s]
<1>1. jid[p] \in JobId BY DEF Inv1, LocalOK, HoldsAt
<1>2. job[p] \in Job /\ jobs \in [JobId -> Job] BY DEF Inv1, LocalTypes, TablesOK, TableTypes
<1>3. /\ n \in Job /\ n.status = s /\ SameJob(n, job[p])
      /\ n.approval = job[p].approval /\ n.replay = job[p].replay
  BY <1>2, SavedRow
<1>4. jobs' = [jobs EXCEPT ![jid[p]] = n] BY DEF Save
<1> HIDE DEF n
<1> QED BY <1>1, <1>2, <1>3, <1>4

-----------------------------------------------------------------------------
(* Agreement of copies, digests and provider starts.                       *)
RowsFixed ==
    \A j \in JobId : jobs[j].status # "absent" =>
        jobs'[j].status # "absent" /\ SameJob(jobs'[j], jobs[j])

PrintsKeep == \A j \in JobId : Fingerprinted(j) => Fingerprinted(j)'

LEMMA InitInv3 == Init => Inv3
BY DEF Init, Inv3, Rows3, Local3, CopyLabels, StartedLabels, OwnLabels, CheckLabels, RunLabels,
       DigestedJob, AbsentJob, AbsentApproval, AbsentRecord

(* What the other processes need of a step.                                *)
LEMMA Frame3 ==
    ASSUME Inv1, Inv3, NEW p \in Proc, OthersKeep(p), RowsFixed, PrintsKeep,
           \A q \in Proc \ {p} : pc[q] \in StartedLabels => runs'[jid[q]] = runs[jid[q]],
           Rows3', Local3(p)'
    PROVE  Inv3' /\ RowsFixed
<1> SUFFICES ASSUME NEW q \in Proc \ {p} PROVE Local3(q)'
  BY DEF Inv3
<1>1. pc'[q] = pc[q] /\ jid'[q] = jid[q] /\ job'[q] = job[q] BY DEF OthersKeep
<1>2. Local3(q) BY DEF Inv3
<1>3. ASSUME pc[q] \in CopyLabels PROVE jid[q] \in JobId /\ jobs[jid[q]].status # "absent"
  BY <1>3 DEF Inv1, LocalOK, HoldsAt, CopyLabels, OwnLabels, CheckLabels, RunLabels, JoblessLabels
<1>4. pc'[q] \in CopyLabels => SameJob(job'[q], jobs'[jid'[q]])
  BY <1>1, <1>2, <1>3 DEF Local3, RowsFixed, SameJob
<1>5. DigestedJob(job'[q]) BY <1>1, <1>2 DEF Local3
<1>6. pc'[q] \in {"complete", "settle"} /\ job'[q].kind # "plain" => Fingerprinted(jid[q])'
  BY <1>1, <1>2, <1>3 DEF Local3, PrintsKeep, CopyLabels, OwnLabels, RunLabels
<1>7. ASSUME pc[q] = "replay" PROVE Fingerprinted(job[q].replay)'
  <2>1. job[q].replay \in JobId /\ Fingerprinted(job[q].replay)
    BY <1>7, <1>2 DEF Local3, Inv1, LocalOK, HoldsAt
  <2> QED BY <1>1, <2>1 DEF PrintsKeep, Fingerprinted
<1>8. pc'[q] \in StartedLabels => runs'[jid'[q]] = 1 BY <1>1, <1>2 DEF Local3
<1> QED BY <1>1, <1>4, <1>5, <1>6, <1>7, <1>8 DEF Local3, Fingerprinted

LEMMA SameStore3 ==
    ASSUME Inv1, Inv3, UNCHANGED store
    PROVE  RowsFixed /\ PrintsKeep /\ Rows3'
BY DEF Inv3, Rows3, RowsFixed, PrintsKeep, Fingerprinted, SameJob, store

(* One row of a job is written; what it was fingerprinted by stays.        *)
LEMMA RowWrite3 ==
    ASSUME Inv1, Inv3, NEW i \in JobId,
           \A j \in JobId \ {i} : jobs'[j] = jobs[j] /\ artifact'[j] = artifact[j],
           jobs'[i].status # "absent", DigestedJob(jobs'[i]),
           jobs[i].status # "absent" => SameJob(jobs'[i], jobs[i]),
           Fingerprinted(i) => Fingerprinted(i)',
           jobs'[i].status = "completed" /\ jobs'[i].kind # "plain" => Fingerprinted(i)',
           UNCHANGED <<approvals, idem>>
    PROVE  RowsFixed /\ PrintsKeep /\ Rows3'
<1>1. RowsFixed BY DEF RowsFixed, SameJob
<1>2. \A j \in JobId \ {i} : Fingerprinted(j)' <=> Fingerprinted(j) BY DEF Fingerprinted
<1>3. PrintsKeep BY <1>2 DEF PrintsKeep
<1>4. \A j \in JobId : DigestedJob(jobs[j])' BY DEF Inv3, Rows3, DigestedJob
<1>5. \A j \in JobId : jobs'[j].status = "completed" /\ jobs'[j].kind # "plain" => Fingerprinted(j)'
  BY <1>2 DEF Inv3, Rows3
<1>6. ASSUME NEW k \in Key, idem'[k].status = "completed" PROVE Fingerprinted(idem[k].job)'
  BY <1>6, <1>3 DEF Inv1, TablesOK, Inv3, Rows3, PrintsKeep
<1>7. \A a \in ApprovalId : approvals'[a].purpose # "gate" => approvals'[a].digest \in Digest
  BY DEF Inv3, Rows3
<1> QED BY <1>1, <1>3, <1>4, <1>5, <1>6, <1>7 DEF Rows3, Fingerprinted

LEMMA CopyHeld ==
    ASSUME Inv1, Inv3, NEW p \in Proc, pc[p] \in CopyLabels
    PROVE  /\ jid[p] \in JobId /\ jobs[jid[p]].status # "absent" /\ pc[p] \notin JoblessLabels
           /\ SameJob(job[p], jobs[jid[p]]) /\ DigestedJob(job[p])
BY DEF Inv1, LocalOK, HoldsAt, CopyLabels, OwnLabels, CheckLabels, RunLabels, JoblessLabels,
       Inv3, Local3

(* A process saves the job i it works on, with the copy it has.            *)
LEMMA Save3 ==
    ASSUME Inv1, Inv3, NEW p \in Proc, NEW i, i = jid[p], pc[p] \in CopyLabels,
           NEW s \in JobStatus, s # "absent", Save(p, s), UNCHANGED <<approvals, idem, artifact>>,
           s = "completed" /\ job[p].kind # "plain" => Fingerprinted(i)
    PROVE  RowsFixed /\ PrintsKeep /\ Rows3'
<1>1. /\ i \in JobId /\ jobs[i].status # "absent"
      /\ SameJob(job[p], jobs[i]) /\ DigestedJob(job[p]) /\ pc[p] \notin JoblessLabels
  BY CopyHeld
<1>2. /\ \A j \in JobId \ {i} : jobs'[j] = jobs[j]
      /\ jobs'[i].status = s /\ SameJob(jobs'[i], job[p])
  BY <1>1, SaveFacts
<1>3. SameJob(jobs'[i], jobs[i]) /\ DigestedJob(jobs'[i])
  BY <1>1, <1>2 DEF SameJob, DigestedJob
<1>4. Fingerprinted(i) => Fingerprinted(i)'
  BY <1>1, <1>2, <1>3 DEF Fingerprinted, SameJob
<1>5. jobs'[i].status = "completed" /\ jobs'[i].kind # "plain" => Fingerprinted(i)'
  BY <1>1, <1>2, <1>4 DEF SameJob, Fingerprinted
<1> QED BY <1>1, <1>2, <1>3, <1>4, <1>5, RowWrite3

LEMMA Returned3 ==
    ASSUME Inv1, NEW p \in Proc, Return(p)
    PROVE  Local3(p)' /\ OthersKeep(p)
<1>1. OthersKeep(p) /\ pc'[p] = "idle" /\ job'[p] = AbsentJob BY ReturnFacts
<1> QED BY <1>1 DEF Local3, CopyLabels, StartedLabels, OwnLabels, CheckLabels, RunLabels,
                    DigestedJob, AbsentJob

LEMMA Ends3 ==
    ASSUME Inv1, Inv3, NEW p \in Proc, Ends(p)
    PROVE  Inv3' /\ RowsFixed
<1>1. RowsFixed /\ PrintsKeep /\ Rows3' /\ runs' = runs BY SameStore3 DEF Ends
<1> QED BY <1>1, Returned3, Frame3 DEF Ends

LEMMA Jumps3 ==
    ASSUME Inv1, Inv3, NEW p \in Proc, Jumps(p)
    PROVE  Inv3' /\ RowsFixed
<1>1. PICK l \in {"resume", "run", "linked", "ask", "fail", "park", "release"} :
        JumpsTo(p, l) /\ pc[p] \in CopyLabels
  BY DEF Jumps, CopyLabels, OwnLabels, CheckLabels, RunLabels
<1>2. RowsFixed /\ PrintsKeep /\ Rows3' /\ UNCHANGED <<store, runs>>
  BY <1>1, SameStore3 DEF JumpsTo
<1>3. OthersKeep(p) /\ pc'[p] = l /\ jid' = jid /\ job' = job
  BY <1>1, GotoMoves DEF JumpsTo
<1>4. Local3(p)'
  BY <1>1, <1>2, <1>3 DEF Inv3, Local3, StartedLabels, store
<1> QED BY <1>2, <1>3, <1>4, Frame3

LEMMA SavesAndEnds3 ==
    ASSUME Inv1, Inv3, NEW p \in Proc, SavesAndEnds(p)
    PROVE  Inv3' /\ RowsFixed
<1>1. PICK s \in {"failed", "waiting_for_dependency", "waiting_for_approval", "completed", "rejected"} :
        SavesAs(p, s) /\ pc[p] \in CopyLabels /\ (s = "completed" => pc[p] = "complete")
  BY DEF SavesAndEnds, CopyLabels, OwnLabels, CheckLabels, RunLabels
<1>2. s = "completed" /\ job[p].kind # "plain" => Fingerprinted(jid[p])
  BY <1>1 DEF Inv3, Local3
<1>3. s \in JobStatus /\ s # "absent" BY DEF JobStatus
<1>4. RowsFixed /\ PrintsKeep /\ Rows3' /\ runs' = runs BY <1>1, <1>2, <1>3, Save3 DEF SavesAs
<1> QED BY <1>1, <1>4, Returned3, Frame3 DEF SavesAs

LEMMA SavesAndGoes3 ==
    ASSUME Inv1, Inv2, Inv3, NEW p \in Proc, SavesAndGoes(p)
    PROVE  Inv3' /\ RowsFixed
<1>1. PICK s \in {"running", "checking_dependencies", "completed", "queued"},
           l \in {"claim", "start", "dependencies", "settle", "process"} :
        /\ SavesTo(p, s, l)
        /\ s = "queued" \/ pc[p] \in CopyLabels
        /\ s = "queued" => pc[p] = "save" /\ l = "process"
        /\ s = "completed" => pc[p] = "complete"
        /\ l = "settle" => pc[p] = "complete"
  <2>1. AfterRunning(p) \in {"claim", "start"} BY DEF AfterRunning
  <2>2. pc[p] \in {"resume", "run", "check", "complete"} => pc[p] \in CopyLabels
    BY DEF CopyLabels, OwnLabels, CheckLabels, RunLabels
  <2> QED BY <2>1, <2>2 DEF SavesAndGoes
<1>2. s \in JobStatus /\ s # "absent" BY DEF JobStatus
<1>3. OthersKeep(p) /\ pc'[p] = l /\ UNCHANGED <<approvals, idem, artifact, jid, job, runs>>
  BY <1>1, GotoMoves DEF SavesTo
<1>4. pc[p] \notin JoblessLabels
  BY <1>1 DEF JoblessLabels, CopyLabels, OwnLabels, CheckLabels, RunLabels
<1>5. /\ jid[p] \in JobId /\ \A j \in JobId \ {jid[p]} : jobs'[j] = jobs[j]
      /\ jobs'[jid[p]].status = s /\ SameJob(jobs'[jid[p]], job[p])
  BY <1>1, <1>2, <1>4, SaveFacts DEF SavesTo
<1>6. CASE s # "queued"
  <2>1. s = "completed" /\ job[p].kind # "plain" => Fingerprinted(jid[p])
    BY <1>1 DEF Inv3, Local3
  <2>2. RowsFixed /\ PrintsKeep /\ Rows3'
    BY <1>1, <1>2, <1>3, <1>6, <2>1, Save3 DEF SavesTo
  <2>3. ASSUME l = "settle"
        PROVE  runs[jid[p]] = 1 /\ (job[p].kind # "plain" => Fingerprinted(jid[p])')
    BY <1>1, <1>3, <1>5, <2>2, <2>3 DEF Inv3, Local3, StartedLabels, PrintsKeep, Fingerprinted
  <2>4. DigestedJob(job[p]) BY DEF Inv3, Local3
  <2>5. SameJob(job[p], jobs'[jid[p]]) BY <1>5 DEF SameJob
  <2>6. Local3(p)'
    BY <1>3, <2>3, <2>4, <2>5 DEF Local3, StartedLabels, Fingerprinted
  <2> QED BY <1>3, <2>2, <2>6, Frame3
<1>7. CASE s = "queued"
  <2>1. pc[p] = "save" /\ l = "process" /\ jobs[jid[p]].status = "absent" BY <1>1, <1>7 DEF Inv2, NewLabels
  <2>2. DigestedJob(jobs'[jid[p]]) BY <1>5 DEF Inv3, Local3, DigestedJob, SameJob
  <2>3. ~Fingerprinted(jid[p]) BY <2>1 DEF Fingerprinted
  <2>4. RowsFixed /\ PrintsKeep /\ Rows3'
    <3>1. \A j \in JobId \ {jid[p]} : jobs'[j] = jobs[j] /\ artifact'[j] = artifact[j]
      BY <1>3, <1>5
    <3>2. jobs'[jid[p]].status = "queued" BY <1>5, <1>7
    <3> QED BY <1>3, <1>5, <2>1, <2>2, <2>3, <3>1, <3>2, RowWrite3
  <2>5. Local3(p)'
    BY <1>3, <2>1 DEF Inv3, Local3, CopyLabels, OwnLabels, CheckLabels, RunLabels, StartedLabels
  <2> QED BY <1>3, <2>4, <2>5, Frame3
<1> QED BY <1>1, <1>6, <1>7

LEMMA Reads3 ==
    ASSUME Inv1, Inv3, NEW p \in Proc, Reads(p)
    PROVE  Inv3' /\ RowsFixed
<1>1. PICK l \in {"check", "approved", "reject", "process"}, i \in JobId :
        /\ Turns(p, i, l)
        /\ l # "process" => job' = [job EXCEPT ![p] = jobs[i]]
        /\ l = "process" => job' = job
  <2>1. pc[p] = "process" => jid[p] \in JobId
    BY DEF Inv1, LocalOK, HoldsAt, JoblessLabels
  <2>2. pc[p] = "refused" /\ apv[p].job # None => apv[p].job \in JobId
    BY DEF Inv1, LocalOK, HoldsAt, DecidingLabels, GateOfJob
  <2>3. pc[p] = "granted" /\ apv[p].purpose = "gate" => apv[p].job \in JobId
    BY DEF Inv1, LocalOK, HoldsAt, DecidingLabels, GateOfJob
  <2> QED BY <2>1, <2>2, <2>3 DEF Reads, Turns, GrantedJob, Process
<1>2. RowsFixed /\ PrintsKeep /\ Rows3' /\ UNCHANGED <<store, runs>>
  BY <1>1, SameStore3 DEF Turns
<1>3. OthersKeep(p) /\ pc'[p] = l /\ jid'[p] = i
      /\ (l # "process" => job'[p] = jobs[i]) /\ (l = "process" => job'[p] = job[p])
  BY <1>1 DEF Turns, Goto, Inv1, LocalTypes, OthersKeep
<1>4. DigestedJob(jobs[i]) /\ DigestedJob(job[p]) BY DEF Inv3, Rows3, Local3
<1>5. Local3(p)'
  BY <1>2, <1>3, <1>4 DEF Local3, CopyLabels, OwnLabels, CheckLabels, RunLabels, StartedLabels,
                          SameJob, store
<1> QED BY <1>2, <1>3, <1>5, Frame3

(* The row that BeginLinked is about to create, field by field.            *)
LEMMA BeginFacts ==
    ASSUME Inv1, NEW p \in Proc, NEW a \in ApprovalId, NEW j \in JobId,
           NEW kind \in {"plain", "dry_run", "live", "recovery"},
           NEW key \in Key \cup {None}, NEW gated \in BOOLEAN,
           BeginLinked(p, a, j, kind, key, gated)
    PROVE  /\ OthersKeep(p) /\ UNCHANGED <<jobs, approvals, idem, artifact, runs>>
           /\ pc'[p] = "link" /\ jid'[p] = j /\ aid'[p] = a /\ apv'[p] = approvals[a]
           /\ job'[p].kind = kind /\ job'[p].key = key /\ job'[p].gated = gated
           /\ job'[p].approval = a /\ job'[p].replay = None /\ job'[p].status = "queued"
           /\ kind = "live" => job'[p].src = approvals[a].src /\ job'[p].digest = approvals[a].digest
           /\ approvals[a].status = "approved"
           /\ kind = "live" => ValidPromotion(approvals[a], key)
           /\ jobs[j].status = "absent" /\ \A q \in Proc : jid[q] # j
           /\ \A b \in ApprovalId : approvals[b].job # j
<1> DEFINE n == [status |-> "queued", kind |-> kind,
                   gated |-> gated, key |-> key, approval |-> a,
                   src |-> IF IsLive(kind) THEN approvals[a].src ELSE None,
                   digest |-> IF IsLive(kind) THEN approvals[a].digest ELSE None,
                   replay |-> None]
<1>1. job' = [job EXCEPT ![p] = n] BY DEF BeginLinked
<1>2. /\ n.kind = kind /\ n.key = key /\ n.gated = gated
      /\ n.approval = a /\ n.replay = None /\ n.status = "queued"
      /\ kind = "live" => n.src = approvals[a].src /\ n.digest = approvals[a].digest
  BY DEF IsLive
<1> HIDE DEF n
<1>3. job'[p] = n /\ \A q \in Proc \ {p} : job'[q] = job[q]
  BY <1>1 DEF Inv1, LocalTypes
<1>4. /\ OthersKeep(p) /\ pc'[p] = "link" /\ jid'[p] = j /\ aid'[p] = a /\ apv'[p] = approvals[a]
  BY <1>3 DEF BeginLinked, Goto, Inv1, LocalTypes, OthersKeep
<1> QED BY <1>2, <1>3, <1>4 DEF BeginLinked, IsGranted, FreshJob

LEMMA Begins3 ==
    ASSUME Inv1, Inv3, NEW p \in Proc, Begins(p)
    PROVE  Inv3' /\ RowsFixed
<1>1. PICK a \in ApprovalId, j \in JobId, kind \in {"plain", "dry_run", "live", "recovery"},
           key \in Key \cup {None}, gated \in BOOLEAN : BeginLinked(p, a, j, kind, key, gated)
  BY DEF Begins
<1>2. /\ OthersKeep(p) /\ UNCHANGED <<store, runs>> /\ pc'[p] = "link" /\ job'[p].kind = kind
      /\ kind = "live" => job'[p].digest = approvals[a].digest /\ approvals[a].purpose = "promotion"
  BY <1>1, BeginFacts DEF ValidPromotion, store
<1>3. RowsFixed /\ PrintsKeep /\ Rows3' BY <1>2, SameStore3
<1>4. Local3(p)'
  BY <1>2 DEF Local3, CopyLabels, OwnLabels, CheckLabels, RunLabels, StartedLabels,
              DigestedJob, Inv3, Rows3
<1> QED BY <1>2, <1>3, <1>4, Frame3

(* One row of an approval is written, about a fingerprinted job or as the  *)
(* copy of what it was.                                                    *)
LEMMA ApprovalWrite3 ==
    ASSUME Inv1, Inv3, UNCHANGED <<jobs, idem, artifact>>,
           \A a \in ApprovalId : approvals'[a].purpose # "gate" => approvals'[a].digest \in Digest
    PROVE  RowsFixed /\ PrintsKeep /\ Rows3'
BY DEF Inv3, Rows3, RowsFixed, PrintsKeep, Fingerprinted, SameJob

(* What a step writes into the approvals table.                            *)
LEMMA ApprovalWritten ==
    ASSUME Inv1, NEW p \in Proc, WritesApproval(p)
    PROVE  \E b \in ApprovalId :
             /\ \A a \in ApprovalId \ {b} : approvals'[a] = approvals[a]
             /\ approvals[b].status # "absent" =>
                  /\ SameSubject(approvals'[b], approvals[b])
                  /\ approvals[b].status # "pending" => approvals'[b].status = approvals[b].status
             /\ approvals[b].status = "absent" =>
                  \/ approvals'[b].purpose = "gate"
                  \/ \E j \in JobId : jobs[j].status = "completed" /\ jobs[j].kind \in {"dry_run", "live"}
                                      /\ approvals'[b].digest = artifact[j] /\ approvals'[b].src = j
<1> USE DEF SameSubject
<1>1. approvals \in [ApprovalId -> Approval] BY DEF Inv1, TablesOK, TableTypes
<1>2. CASE Link(p)
  <2>1. /\ aid[p] \in ApprovalId /\ jid[p] \in JobId /\ apv[p] \in Approval
        /\ IsCopy(apv[p], approvals[aid[p]])
        /\ apv[p].status = "approved" /\ approvals[aid[p]].status = "approved"
    BY <1>2 DEF Link, Inv1, LocalTypes, LocalOK, HoldsAt, DecidingLabels, JoblessLabels
  <2> DEFINE n == [apv[p] EXCEPT !.job = jid[p]]
  <2>2. n.status = "approved" /\ n.purpose = apv[p].purpose /\ n.src = apv[p].src
        /\ n.digest = apv[p].digest
    BY <2>1, ApprovalUpdate
  <2>3. approvals' = [approvals EXCEPT ![aid[p]] = n] BY <1>2 DEF Link
  <2> HIDE DEF n
  <2> QED BY <1>1, <2>1, <2>2, <2>3 DEF IsCopy
<1>3. ASSUME NEW j \in JobId, NEW a \in ApprovalId, Promote(p, j, a) \/ Recover(p, j, a)
      PROVE  \E b \in ApprovalId :
               /\ b = a /\ approvals[b].status = "absent"
               /\ \A c \in ApprovalId \ {b} : approvals'[c] = approvals[c]
               /\ jobs[j].status = "completed" /\ jobs[j].kind \in {"dry_run", "live"}
               /\ approvals'[b].digest = artifact[j] /\ approvals'[b].src = j
  BY <1>1, <1>3 DEF Promote, Recover, FreshApproval
<1>4. ASSUME NEW a \in ApprovalId, Ask(p, a)
      PROVE  \E b \in ApprovalId :
               /\ b = a /\ approvals[b].status = "absent"
               /\ \A c \in ApprovalId \ {b} : approvals'[c] = approvals[c]
               /\ approvals'[b].purpose = "gate"
  BY <1>1, <1>4 DEF Ask, FreshApproval, AbsentApproval
<1>5. CASE approvals[aid[p]].status = "pending" /\ (Decide(p) \/ Refuse(p))
  <2>1. aid[p] \in ApprovalId /\ apv[p] \in Approval /\ IsCopy(apv[p], approvals[aid[p]])
    BY <1>5 DEF Decide, Refuse, Inv1, LocalTypes, LocalOK, HoldsAt, DecidingLabels
  <2>2. PICK s \in {"approved", "rejected"} :
          approvals' = [approvals EXCEPT ![aid[p]] = [apv[p] EXCEPT !.status = s]]
    BY <1>5 DEF Decide, Refuse, TransitionApproval
  <2> DEFINE n == [apv[p] EXCEPT !.status = s]
  <2>3. n.purpose = apv[p].purpose /\ n.src = apv[p].src /\ n.digest = apv[p].digest
    BY <2>1, ApprovalUpdate
  <2>4. approvals' = [approvals EXCEPT ![aid[p]] = n] BY <2>2
  <2> HIDE DEF n
  <2> QED BY <1>1, <1>5, <2>1, <2>3, <2>4 DEF IsCopy
<1> QED BY <1>2, <1>3, <1>4, <1>5 DEF WritesApproval

LEMMA WritesApproval3 ==
    ASSUME Inv1, Inv3, NEW p \in Proc, WritesApproval(p)
    PROVE  Inv3' /\ RowsFixed
<1>1. PICK b \in ApprovalId :
        /\ \A a \in ApprovalId \ {b} : approvals'[a] = approvals[a]
        /\ approvals[b].status # "absent" => SameSubject(approvals'[b], approvals[b])
        /\ approvals[b].status = "absent" =>
             \/ approvals'[b].purpose = "gate"
             \/ \E j \in JobId : jobs[j].status = "completed" /\ jobs[j].kind \in {"dry_run", "live"}
                                 /\ approvals'[b].digest = artifact[j]
  BY ApprovalWritten
<1>2. \A a \in ApprovalId : approvals'[a].purpose # "gate" => approvals'[a].digest \in Digest
  BY <1>1 DEF Inv3, Rows3, Fingerprinted, SameSubject
<1>3. /\ UNCHANGED <<jobs, idem, artifact, jid, runs>> /\ OthersKeep(p)
      /\ pc'[p] \in {"save", "park", "granted", "refused"} \cup (IF pc[p] = "idle" THEN {"idle"} ELSE {})
      /\ pc'[p] = "park" => pc[p] = "ask"
      /\ job'[p].kind = job[p].kind /\ SameJob(job'[p], job[p])
  <2>1. CASE Link(p)
    BY <2>1, GotoMoves DEF Link, SameJob
  <2>2. ASSUME NEW j \in JobId, NEW a \in ApprovalId, Promote(p, j, a) \/ Recover(p, j, a)
        PROVE  <1>3!:
    BY <2>2 DEF Promote, Recover, locals, OthersKeep, SameJob
  <2>3. ASSUME NEW a \in ApprovalId, Ask(p, a) PROVE <1>3!:
    <3> DEFINE m == [job[p] EXCEPT !.approval = a]
    <3>1. SameJob(m, job[p]) BY DEF Inv1, LocalTypes, Job, SameJob
    <3>2. job' = [job EXCEPT ![p] = m] BY <2>3 DEF Ask
    <3> HIDE DEF m
    <3> QED BY <2>3, <3>1, <3>2 DEF Ask, Goto, Inv1, LocalTypes, OthersKeep, SameJob
  <2>4. CASE approvals[aid[p]].status = "pending" /\ (Decide(p) \/ Refuse(p))
    BY <2>4, GotoMoves DEF Decide, Refuse, TransitionApproval, SameJob
  <2> QED BY <2>1, <2>2, <2>3, <2>4 DEF WritesApproval
<1>4. RowsFixed /\ PrintsKeep /\ Rows3' BY <1>2, <1>3, ApprovalWrite3
<1>5. Local3(p)'
  BY <1>3 DEF Inv3, Local3, CopyLabels, OwnLabels, CheckLabels, RunLabels, StartedLabels,
              SameJob, DigestedJob
<1> QED BY <1>3, <1>4, <1>5, Frame3

LEMMA Submit3 ==
    ASSUME Inv1, Inv3, NEW p \in Proc, NEW j \in JobId, NEW r \in Requests, Submit(p, j, r)
    PROVE  Inv3' /\ RowsFixed
<1>1. PICK n \in Job : jobs' = [jobs EXCEPT ![j] = n] /\ n.status = "queued" /\ n.kind = r.kind
  BY SubmittedRow DEF Submit
<1>2. jobs'[j] = n /\ \A i \in JobId \ {j} : jobs'[i] = jobs[i]
  BY <1>1 DEF Inv1, TablesOK, TableTypes
<1>3. /\ OthersKeep(p) /\ pc'[p] = "process" /\ job' = job
      /\ UNCHANGED <<approvals, idem, artifact, runs>>
      /\ jobs[j].status = "absent" /\ r.kind # "live"
  BY DEF Submit, FreshJob, Goto, Inv1, LocalTypes, OthersKeep
<1>4. ~Fingerprinted(j) BY <1>3 DEF Fingerprinted
<1>5. RowsFixed /\ PrintsKeep /\ Rows3'
  <2>1. \A i \in JobId \ {j} : jobs'[i] = jobs[i] /\ artifact'[i] = artifact[i] BY <1>2, <1>3
  <2>2. jobs'[j].status = "queued" /\ DigestedJob(jobs'[j]) BY <1>1, <1>2, <1>3 DEF DigestedJob
  <2> QED BY <1>3, <1>4, <2>1, <2>2, RowWrite3
<1>6. Local3(p)'
  BY <1>3 DEF Inv3, Local3, CopyLabels, OwnLabels, CheckLabels, RunLabels, StartedLabels
<1> QED BY <1>3, <1>5, <1>6, Frame3

LEMMA BeginDecision3 ==
    ASSUME Inv1, Inv3, NEW p \in Proc, NEW a \in ApprovalId, Approve(p, a) \/ Reject(p, a)
    PROVE  Inv3' /\ RowsFixed
<1>1. OthersKeep(p) /\ pc'[p] \in {"decide", "refuse"} /\ job' = job /\ UNCHANGED <<store, runs>>
  BY DEF Approve, Reject, Goto, Inv1, LocalTypes, OthersKeep
<1>2. Local3(p)'
  BY <1>1 DEF Inv3, Local3, CopyLabels, OwnLabels, CheckLabels, RunLabels, StartedLabels
<1> QED BY <1>1, <1>2, SameStore3, Frame3

(* The record of a key is written; a settled one is of a fingerprinted job.*)
LEMMA KeyWrite3 ==
    ASSUME Inv1, Inv3, NEW p \in Proc, UNCHANGED <<jobs, approvals, artifact>>,
           pc[p] \in {"claim", "settle", "release"}, job[p].kind = "live",
           NEW s \in {"running", "failed", "completed"}, SetIdempotency(p, s),
           s = "completed" => pc[p] = "settle"
    PROVE  RowsFixed /\ PrintsKeep /\ Rows3'
<1>1. jid[p] \in JobId /\ job[p].key \in Key /\ TypeOK
  BY TypesAreTypeOK DEF Inv1, TablesOK, LocalOK, HoldsAt, KeyedJob, JoblessLabels
<1>2. /\ \A k \in Key : k # job[p].key => idem'[k] = idem[k]
      /\ idem'[job[p].key] = [status |-> s, job |-> jid[p], digest |-> job[p].digest]
  BY <1>1, SetIdempotencyEffect
<1>3. s = "completed" => Fingerprinted(jid[p]) BY DEF Inv3, Local3
<1>4. idem'[job[p].key].status = s /\ idem'[job[p].key].job = jid[p] BY <1>2
<1>5. \A k \in Key : idem'[k].status = "completed" => Fingerprinted(idem'[k].job)
  BY <1>2, <1>3, <1>4 DEF Inv3, Rows3
<1>6. RowsFixed /\ PrintsKeep
  BY DEF RowsFixed, PrintsKeep, Fingerprinted, SameJob
<1> QED BY <1>5, <1>6 DEF Inv3, Rows3, Fingerprinted

LEMMA KeySteps3 ==
    ASSUME Inv1, Inv3, NEW p \in Proc, Claim(p) \/ Settle(p) \/ Release(p)
    PROVE  Inv3' /\ RowsFixed
<1>1. CASE Settle(p)
  <2>1. job[p].kind = "live" BY <1>1 DEF Settle, Inv1, LocalOK, HoldsAt
  <2>2. RowsFixed /\ PrintsKeep /\ Rows3' BY <1>1, <2>1, KeyWrite3 DEF Settle
  <2>3. Local3(p)' /\ OthersKeep(p) BY <1>1, Returned3 DEF Settle
  <2> QED BY <1>1, <2>2, <2>3, Frame3 DEF Settle
<1>2. CASE Claim(p) \/ Release(p)
  <2>1. RowsFixed /\ PrintsKeep /\ Rows3'
    <3>1. CASE Claim(p)
      <4>1. job[p].kind = "live" BY <3>1 DEF Claim, Inv1, LocalOK, HoldsAt
      <4> QED BY <3>1, <4>1, KeyWrite3 DEF Claim
    <3>2. CASE Release(p) /\ job[p].kind = "live" BY <3>2, KeyWrite3 DEF Release
    <3>3. CASE Release(p) /\ job[p].kind # "live" BY <3>3, SameStore3 DEF Release, store
    <3> QED BY <1>2, <3>1, <3>2, <3>3
  <2>2. OthersKeep(p) /\ pc'[p] \in {"start", "fail"} /\ UNCHANGED <<jobs, artifact, jid, job, runs>>
        /\ pc[p] \in CopyLabels
    BY <1>2, GotoMoves DEF Claim, Release, CopyLabels, OwnLabels, RunLabels
  <2>3. Local3(p)'
    BY <2>2 DEF Inv3, Local3, StartedLabels
  <2> QED BY <2>1, <2>2, <2>3, Frame3
<1> QED BY <1>1, <1>2

LEMMA ClaimSettled3 ==
    ASSUME Inv1, Inv3, NEW p \in Proc, ClaimSettled(p)
    PROVE  Inv3' /\ RowsFixed
<1>1. job[p].key \in Key /\ pc[p] \in CopyLabels /\ job[p] \in Job /\ idem[job[p].key].job \in JobId
  BY DEF ClaimSettled, IsReplay, Inv1, TablesOK, LocalTypes, LocalOK, HoldsAt, KeyedJob,
         CopyLabels, OwnLabels, RunLabels
<1> DEFINE m == [job[p] EXCEPT !.replay = idem[job[p].key].job]
<1>2. job' = [job EXCEPT ![p] = m] /\ SameJob(m, job[p]) /\ m.replay = idem[job[p].key].job
  BY <1>1 DEF ClaimSettled, Job, SameJob
<1> HIDE DEF m
<1>3. /\ OthersKeep(p) /\ pc'[p] = "replay" /\ jid' = jid /\ job'[p] = m
      /\ UNCHANGED <<store, runs>> /\ idem[job[p].key].status = "completed"
  BY <1>2 DEF ClaimSettled, IsReplay, Goto, Inv1, LocalTypes, OthersKeep
<1>4. RowsFixed /\ PrintsKeep /\ Rows3' BY <1>3, SameStore3
<1>5. Fingerprinted(m.replay) BY <1>1, <1>2, <1>3 DEF Inv3, Rows3
<1>6. SameJob(m, jobs[jid[p]]) /\ DigestedJob(m)
  BY <1>1, <1>2 DEF Inv3, Local3, SameJob, DigestedJob
<1>7. Fingerprinted(job[p].replay)'
  BY <1>3, <1>5 DEF Fingerprinted, store
<1>8. Local3(p)'
  BY <1>3, <1>6, <1>7 DEF Local3, StartedLabels, store
<1> QED BY <1>3, <1>4, <1>8, Frame3

LEMMA Replay3 ==
    ASSUME Inv1, Inv3, NEW p \in Proc, Replay(p)
    PROVE  Inv3' /\ RowsFixed
<1>0. PICK i \in JobId : i = jid[p]
  BY DEF Replay, Inv1, LocalOK, HoldsAt, JoblessLabels
<1>1. /\ jobs[i].status # "absent" /\ pc[p] \notin JoblessLabels
      /\ SameJob(job[p], jobs[i]) /\ DigestedJob(job[p]) /\ job[p].kind = "live"
  <2>1. pc[p] \in CopyLabels /\ job[p].kind = "live"
    BY DEF Replay, CopyLabels, OwnLabels, RunLabels, Inv1, LocalOK, HoldsAt
  <2> QED BY <1>0, <2>1, CopyHeld
<1>2. "completed" \in JobStatus BY DEF JobStatus
<1>3. /\ \A j \in JobId \ {i} : jobs'[j] = jobs[j]
      /\ jobs'[i].status = "completed" /\ SameJob(jobs'[i], job[p])
  BY <1>0, <1>1, <1>2, SaveFacts DEF Replay
<1>4. Fingerprinted(job[p].replay) BY DEF Replay, Inv3, Local3
<1>5. artifact'[i] \in Digest /\ \A j \in JobId \ {i} : artifact'[j] = artifact[j]
  BY <1>0, <1>4 DEF Replay, Inv1, TablesOK, TableTypes, Fingerprinted
<1>6. Fingerprinted(i)' BY <1>1, <1>3, <1>5 DEF Fingerprinted, SameJob
<1>7. SameJob(jobs'[i], jobs[i]) /\ DigestedJob(jobs'[i])
  BY <1>1, <1>3 DEF SameJob, DigestedJob
<1>8. RowsFixed /\ PrintsKeep /\ Rows3'
  <2>1. UNCHANGED <<approvals, idem>> BY DEF Replay
  <2> QED BY <1>1, <1>3, <1>5, <1>6, <1>7, <2>1, RowWrite3
<1>9. Local3(p)' /\ OthersKeep(p) /\ runs' = runs BY Returned3 DEF Replay
<1> QED BY <1>8, <1>9, Frame3

LEMMA Provider3 ==
    ASSUME Inv1, Inv2, Inv3, NEW p \in Proc,
           StartProvider(p) \/ \E d \in Digest \cup {None} : ProviderEnds(p, d)
    PROVE  Inv3' /\ RowsFixed
<1>1. pc[p] \in CopyLabels /\ pc[p] \in OwnLabels
  BY DEF StartProvider, ProviderEnds, CopyLabels, OwnLabels, RunLabels
<1>2. /\ jid[p] \in JobId /\ jobs[jid[p]].status # "absent" /\ SameJob(job[p], jobs[jid[p]])
  BY <1>1, CopyHeld
<1>3. CASE StartProvider(p)
  <2>1. RowsFixed /\ PrintsKeep /\ Rows3' BY <1>3, SameStore3 DEF StartProvider
  <2>2. OthersKeep(p) /\ pc'[p] = "provider" /\ UNCHANGED <<store, jid, job>>
    BY <1>3, GotoMoves DEF StartProvider
  <2>3. runs[jid[p]] = 0 BY <1>3 DEF StartProvider, Inv2, PreLabels
  <2>4. runs'[jid[p]] = 1 /\ \A j \in JobId \ {jid[p]} : runs'[j] = runs[j]
    BY <1>2, <1>3, <2>3 DEF StartProvider, Inv1, TablesOK, TableTypes
  <2>5. \A q \in Proc \ {p} : pc[q] \in StartedLabels => jid[q] \in JobId \ {jid[p]}
    BY <1>1, JobHeld DEF Inv2, StartedLabels, OwnLabels, RunLabels
  <2>6. Local3(p)'
    BY <1>1, <2>2, <2>4 DEF Inv3, Local3, StartedLabels, store
  <2> QED BY <2>1, <2>2, <2>4, <2>5, <2>6, Frame3
<1>4. ASSUME NEW d \in Digest \cup {None}, ProviderEnds(p, d)
      PROVE  Inv3' /\ RowsFixed
  <2>1. OthersKeep(p) /\ pc'[p] = "complete" /\ UNCHANGED <<jobs, approvals, idem, jid, job, runs>>
    BY <1>4, GotoMoves DEF ProviderEnds
  <2>2. artifact'[jid[p]] = d /\ \A j \in JobId \ {jid[p]} : artifact'[j] = artifact[j]
    BY <1>2, <1>4 DEF ProviderEnds, Inv1, TablesOK, TableTypes
  <2>3. jobs[jid[p]].kind # "plain" => d \in Digest
    BY <1>2, <1>4 DEF ProviderEnds, SameJob
  <2>4. jobs[jid[p]].kind # "plain" => Fingerprinted(jid[p])'
    BY <1>2, <2>1, <2>2, <2>3 DEF Fingerprinted
  <2>5. RowsFixed /\ PrintsKeep /\ Rows3'
    <3>0. PICK i \in JobId : i = jid[p] BY <1>2
    <3>1. jobs'[i].status # "absent" /\ SameJob(jobs'[i], jobs[i])
      BY <1>2, <2>1, <3>0 DEF SameJob
    <3>2. \A j \in JobId \ {i} : jobs'[j] = jobs[j] /\ artifact'[j] = artifact[j] BY <2>1, <2>2, <3>0
    <3>3. DigestedJob(jobs'[i]) BY <2>1, <3>0 DEF Inv3, Rows3
    <3>4. jobs[i].kind # "plain" => Fingerprinted(i)' BY <2>1, <2>4, <3>0 DEF Fingerprinted
    <3>5. Fingerprinted(i) => Fingerprinted(i)' BY <3>4 DEF Fingerprinted
    <3>6. jobs'[i].kind # "plain" => Fingerprinted(i)' BY <2>1, <3>4
    <3> QED BY <2>1, <3>1, <3>2, <3>3, <3>5, <3>6, RowWrite3
  <2>6. job[p].kind # "plain" => Fingerprinted(jid[p])' BY <1>2, <2>4 DEF SameJob
  <2>7. runs[jid[p]] = 1 BY <1>4 DEF ProviderEnds, Inv3, Local3, StartedLabels
  <2>8. Local3(p)'
    BY <1>1, <2>1, <2>6, <2>7 DEF Inv3, Local3
  <2> QED BY <2>1, <2>5, <2>8, Frame3
<1> QED BY <1>3, <1>4

LEMMA Tamper3 ==
    ASSUME Inv1, Inv3, NEW j \in JobId, NEW d \in Forged, Tamper(j, d)
    PROVE  Inv3' /\ RowsFixed
<1>1. d \in Digest /\ UNCHANGED <<jobs, approvals, idem, pc, jid, job, runs>>
  BY ConstantsAssumption DEF Tamper, locals
<1>2. artifact'[j] = d /\ \A i \in JobId \ {j} : artifact'[i] = artifact[i]
  BY DEF Tamper, Inv1, TablesOK, TableTypes
<1>3. \A i : Fingerprinted(i) /\ i \in JobId => jobs[i].status # "absent" /\ jobs[i].kind # "plain" /\ artifact'[i] \in Digest
  BY <1>1, <1>2 DEF Fingerprinted
<1>4. \A k \in Key : idem[k].status = "completed" => idem[k].job \in JobId
  BY DEF Inv1, TablesOK
<1>5. \A p \in Proc : pc[p] = "replay" => job[p].replay \in JobId
  BY DEF Inv1, LocalOK, HoldsAt
<1>6. \A p \in Proc : pc[p] \in {"complete", "settle"} => jid[p] \in JobId
  BY DEF Inv1, LocalOK, HoldsAt, JoblessLabels
<1>7. Rows3' BY <1>1, <1>3, <1>4 DEF Inv3, Rows3, Fingerprinted
<1>8. ASSUME NEW p \in Proc PROVE Local3(p)'
  <2>1. Local3(p) BY DEF Inv3
  <2>2. pc[p] \in {"complete", "settle"} /\ job[p].kind # "plain" => Fingerprinted(jid[p])'
    BY <1>1, <1>3, <1>6, <2>1 DEF Local3, Fingerprinted
  <2>3. pc[p] = "replay" => Fingerprinted(job[p].replay)'
    BY <1>1, <1>3, <1>5, <2>1 DEF Local3, Fingerprinted
  <2> QED BY <1>1, <2>1, <2>2, <2>3 DEF Local3
<1>9. RowsFixed BY <1>1 DEF RowsFixed, SameJob
<1> QED BY <1>7, <1>8, <1>9 DEF Inv3

LEMMA NextInv3 == Inv1 /\ Inv2 /\ Inv3 /\ [Next]_vars => Inv3' /\ RowsFixed
<1> SUFFICES ASSUME Inv1, Inv2, Inv3, [Next]_vars PROVE Inv3' /\ RowsFixed
  OBVIOUS
<1>1. CASE UNCHANGED vars
  BY <1>1 DEF vars, Inv3, Rows3, Local3, Fingerprinted, RowsFixed, SameJob
<1>2. ASSUME NEW p \in Proc, Call(p) \/ Step(p) \/ Stop(p) PROVE Inv3' /\ RowsFixed
  <2>1. Ends(p) \/ Jumps(p) \/ SavesAndEnds(p) \/ SavesAndGoes(p) \/ OtherStep(p)
    BY <1>2, StepCases
  <2>2. CASE OtherStep(p)
    BY <2>2, Reads3, Begins3, WritesApproval3, Submit3, BeginDecision3, KeySteps3,
       ClaimSettled3, Replay3, Provider3 DEF OtherStep
  <2> QED BY <2>1, <2>2, Ends3, Jumps3, SavesAndEnds3, SavesAndGoes3
<1>3. ASSUME NEW j \in JobId, NEW d \in Forged, Tamper(j, d) PROVE Inv3' /\ RowsFixed
  BY <1>3, Tamper3
<1> QED BY <1>1, <1>2, <1>3 DEF Next, RefreshFails, Crash

LEMMA SpecInv3 == Spec => [](Inv1 /\ Inv2 /\ Inv3)
<1> QED BY InitInv1, InitInv2, InitInv3, NextInv1, NextInv2, NextInv3, PTL DEF Spec

-----------------------------------------------------------------------------
(* The write ledger.  Entries and Written are its state.                   *)
EntryOf(k) ==
    IF KeyIsFree(k) THEN [state |-> "free", job |-> None, digest |-> None]
    ELSE [state |-> IF idem[k].status = "running" THEN "held" ELSE "settled",
          job |-> idem[k].job, digest |-> idem[k].digest]
Entries == [k \in Key |-> EntryOf(k)]
Written == {j \in JobId : jobs[j].kind = "live" /\ runs[j] > 0}

LEMMA NewRowsUnwritten ==
    ASSUME Inv1, Inv2, RowsFixed, NEW j \in JobId, runs'[j] = runs[j]
    PROVE  j \in Written' <=> j \in Written
<1>1. CASE jobs[j].status = "absent"
  <2>1. runs[j] = 0 BY <1>1 DEF Inv2, Unstarted
  <2> QED BY <2>1 DEF Written
<1>2. CASE jobs[j].status # "absent"
  BY <1>2 DEF RowsFixed, SameJob, Written
<1> QED BY <1>1, <1>2

LEMMA LedgerStays ==
    ASSUME Inv1, Inv2, RowsFixed, UNCHANGED <<idem, runs>>
    PROVE  UNCHANGED <<Entries, Written>>
<1>1. Entries' = Entries BY DEF Entries, EntryOf, KeyIsFree
<1>2. Written' = Written BY NewRowsUnwritten DEF Written
<1> QED BY <1>1, <1>2

(* Only the entry of key k changes.                                        *)
LEMMA EntryWritten ==
    ASSUME NEW k \in Key, NEW e, e = EntryOf(k)',
           \A i \in Key \ {k} : idem'[i] = idem[i]
    PROVE  Entries' = [Entries EXCEPT ![k] = e]
BY DEF Entries, EntryOf, KeyIsFree

(* The record a process writes, as an entry.                               *)
LEMMA EntryOfRecord ==
    ASSUME Inv1, NEW p \in Proc, job[p].kind = "live", jid[p] \in JobId,
           NEW s \in {"running", "failed", "completed"}, SetIdempotency(p, s)
    PROVE  \E k \in Key :
             /\ k = job[p].key
             /\ Entries' = [Entries EXCEPT ![k] =
                  IF s = "failed" THEN [state |-> "free", job |-> None, digest |-> None]
                  ELSE [state |-> IF s = "running" THEN "held" ELSE "settled",
                        job |-> jid[p], digest |-> job[p].digest]]
<1> DEFINE k == job[p].key
           e == IF s = "failed" THEN [state |-> "free", job |-> None, digest |-> None]
                  ELSE [state |-> IF s = "running" THEN "held" ELSE "settled",
                        job |-> jid[p], digest |-> job[p].digest]
<1>1. k \in Key /\ TypeOK BY TypesAreTypeOK DEF Inv1, TablesOK, LocalOK, KeyedJob
<1>2. /\ \A i \in Key : i # k => idem'[i] = idem[i]
      /\ idem'[k] = [status |-> s, job |-> jid[p], digest |-> job[p].digest]
  BY <1>1, SetIdempotencyEffect
<1>3. PICK i \in Key : i = k BY <1>1
<1>4. EntryOf(i)' = e BY <1>2, <1>3 DEF EntryOf, KeyIsFree
<1> HIDE DEF k, e
<1>5. Entries' = [Entries EXCEPT ![i] = e] BY <1>2, <1>3, <1>4, EntryWritten
<1> QED BY <1>3, <1>5 DEF k, e

LEMMA WriterEntry ==
    ASSUME Inv1, WriterHoldsKey, NEW p \in Proc, Writing(p)
    PROVE  /\ job[p].key \in Key
           /\ Entries[job[p].key] = [state |-> "held", job |-> jid[p], digest |-> job[p].digest]
           /\ Entries[job[p].key].state = "held" /\ Entries[job[p].key].job = jid[p]
<1>1. job[p].key \in Key BY DEF Writing, Inv1, LocalOK, KeyedJob
<1>2. idem[job[p].key] = [status |-> "running", job |-> jid[p], digest |-> job[p].digest]
  BY DEF WriterHoldsKey
<1>3. Entries[job[p].key] = [state |-> "held", job |-> jid[p], digest |-> job[p].digest]
  BY <1>1, <1>2 DEF Entries, EntryOf, KeyIsFree
<1> QED BY <1>1, <1>3

(* The steps of the ledger.                                                *)
LEMMA ClaimAcquires ==
    ASSUME Inv1, Inv2, Inv3, RowsFixed, NEW p \in Proc, Claim(p)
    PROVE  \E k \in Key : Ledger!Acquire(k)
<1>1. /\ job[p].kind = "live" /\ jid[p] \in JobId /\ job[p].digest \in Digest
      /\ runs[jid[p]] = 0 /\ runs' = runs
  BY DEF Claim, Inv1, LocalOK, HoldsAt, JoblessLabels, Inv2, PreLabels, Inv3, Local3, DigestedJob
<1>2. PICK k \in Key :
        /\ k = job[p].key
        /\ Entries' = [Entries EXCEPT ![k] = [state |-> "held", job |-> jid[p], digest |-> job[p].digest]]
  BY <1>1, EntryOfRecord DEF Claim
<1>3. Entries[k].state = "free" BY <1>2 DEF Claim, Entries, EntryOf
<1>4. jid[p] \in JobId \ Written BY <1>1 DEF Written
<1>5. Written' = Written BY <1>1, NewRowsUnwritten DEF Written
<1>6. Entries'[k].state = "held" BY <1>2 DEF Entries
<1>7. \E j \in JobId \ Written, d \in Digest :
        Entries' = [Entries EXCEPT ![k] = [state |-> "held", job |-> j, digest |-> d]]
  BY <1>1, <1>2, <1>4
<1> QED BY <1>3, <1>5, <1>6, <1>7 DEF Ledger!Acquire, Entries, EntryOf, Written

LEMMA StartWrites ==
    ASSUME Inv1, Inv2, Inv3, WriterHoldsKey, RowsFixed, NEW p \in Proc, StartProvider(p)
    PROVE  UNCHANGED <<Entries, Written>> \/ \E k \in Key : Ledger!Write(k)
<1>1. /\ jid[p] \in JobId /\ runs[jid[p]] = 0 /\ UNCHANGED <<jobs, idem>>
      /\ jobs[jid[p]].kind = job[p].kind
  BY DEF StartProvider, store, Inv1, LocalOK, HoldsAt, JoblessLabels, Inv2, PreLabels, Inv3, Local3,
         CopyLabels, OwnLabels, CheckLabels, RunLabels, SameJob
<1>2. runs'[jid[p]] = 1 /\ \A j \in JobId \ {jid[p]} : runs'[j] = runs[j]
  BY <1>1 DEF StartProvider, Inv1, TablesOK, TableTypes
<1>3. Entries' = Entries BY <1>1 DEF Entries, EntryOf, KeyIsFree
<1>4. \A j \in JobId \ {jid[p]} : j \in Written' <=> j \in Written
  BY <1>2, NewRowsUnwritten
<1>5. jid[p] \notin Written BY <1>1 DEF Written
<1>6. CASE job[p].kind = "live"
  <2>1. Writing(p) BY <1>6 DEF Writing, StartProvider
  <2>2. job[p].key \in Key /\ Entries[job[p].key].state = "held" /\ Entries[job[p].key].job = jid[p]
    BY <2>1, WriterEntry
  <2>3. Written' = Written \cup {jid[p]}
    <3>1. jobs'[jid[p]].kind = "live" /\ runs'[jid[p]] > 0 BY <1>1, <1>2, <1>6
    <3>2. jid[p] \in {j \in JobId : jobs'[j].kind = "live" /\ runs'[j] > 0} BY <1>1, <3>1
    <3>3. \A j \in JobId \ {jid[p]} : j \in {i \in JobId : jobs'[i].kind = "live" /\ runs'[i] > 0} <=> j \in Written
      BY <1>4 DEF Written
    <3>4. Written \subseteq JobId BY DEF Written
    <3>5. Written' = {j \in JobId : jobs'[j].kind = "live" /\ runs'[j] > 0} BY DEF Written
    <3> QED BY <1>1, <3>2, <3>3, <3>4, <3>5
  <2> QED BY <1>3, <1>5, <2>2, <2>3 DEF Ledger!Write, Entries, EntryOf, Written
<1>7. CASE job[p].kind # "live"
  <2>1. \A j \in JobId : j \in Written' <=> j \in Written
    BY <1>1, <1>2, <1>7, NewRowsUnwritten DEF Written
  <2>2. Written' = Written BY <2>1 DEF Written
  <2> QED BY <1>3, <2>2
<1> QED BY <1>6, <1>7

LEMMA SettleSettles ==
    ASSUME Inv1, Inv2, Inv3, WriterHoldsKey, RowsFixed, NEW p \in Proc, Settle(p)
    PROVE  \E k \in Key : Ledger!Settle(k)
<1>1. job[p].kind = "live" /\ jid[p] \in JobId /\ runs[jid[p]] = 1 /\ runs' = runs
      /\ jobs[jid[p]].kind = "live"
  BY DEF Settle, Inv1, LocalOK, HoldsAt, JoblessLabels, Inv3, Local3, StartedLabels,
         CopyLabels, OwnLabels, RunLabels, SameJob
<1>2. PICK k \in Key :
        /\ k = job[p].key
        /\ Entries' = [Entries EXCEPT ![k] = [state |-> "settled", job |-> jid[p], digest |-> job[p].digest]]
  BY <1>1, EntryOfRecord DEF Settle
<1>3. Entries[k] = [state |-> "held", job |-> jid[p], digest |-> job[p].digest]
  BY <1>1, <1>2, WriterEntry DEF Settle, Writing
<1>4. [Entries[k] EXCEPT !.state = "settled"] = [state |-> "settled", job |-> jid[p], digest |-> job[p].digest]
  BY <1>3
<1>5. Entries[k].state = "held" /\ Entries[k].job \in Written BY <1>1, <1>3 DEF Written
<1>6. Written' = Written BY <1>1, NewRowsUnwritten DEF Written
<1>7. Entries' = [Entries EXCEPT ![k] = [Entries[k] EXCEPT !.state = "settled"]] BY <1>2, <1>4
<1>8. [Entries EXCEPT ![k] = [Entries[k] EXCEPT !.state = "settled"]] = [Entries EXCEPT ![k].state = "settled"]
  OBVIOUS
<1> QED BY <1>5, <1>6, <1>7, <1>8 DEF Ledger!Settle, Entries, EntryOf, Written

LEMMA ReleaseGivesBack ==
    ASSUME Inv1, Inv2, WriterHoldsKey, RowsFixed, NEW p \in Proc, Release(p)
    PROVE  UNCHANGED <<Entries, Written>> \/ \E k \in Key : Ledger!GiveBack(k)
<1>1. CASE job[p].kind # "live" BY <1>1, LedgerStays DEF Release
<1>2. CASE job[p].kind = "live"
  <2>1. jid[p] \in JobId /\ runs' = runs /\ Writing(p)
    BY <1>2 DEF Release, Inv1, LocalOK, HoldsAt, JoblessLabels, Writing
  <2>2. PICK k \in Key :
          /\ k = job[p].key
          /\ Entries' = [Entries EXCEPT ![k] = [state |-> "free", job |-> None, digest |-> None]]
    BY <1>2, <2>1, EntryOfRecord DEF Release
  <2>3. Entries[k].state = "held" BY <2>1, <2>2, WriterEntry
  <2>4. Written' = Written BY <2>1, NewRowsUnwritten DEF Written
  <2> QED BY <2>2, <2>3, <2>4 DEF Ledger!GiveBack, Ledger!Free, Entries, EntryOf, Written
<1> QED BY <1>1, <1>2

LEMMA InitLedger == Init => Ledger!Init
BY DEF Init, Ledger!Init, Ledger!Free, KeyIsFree, AbsentRecord, AbsentJob

LEMMA NextLedger ==
    ASSUME Inv1, Inv2, Inv3, WriterHoldsKey, [Next]_vars
    PROVE  [Ledger!Next]_Ledger!vars
<1>0. RowsFixed BY NextInv3
<1>1. CASE UNCHANGED <<idem, runs>>
  <2>1. UNCHANGED <<Entries, Written>> BY <1>0, <1>1, LedgerStays
  <2> QED BY <2>1 DEF Ledger!vars, Entries, EntryOf, Written
<1>2. CASE ~UNCHANGED <<idem, runs>>
  <2>1. PICK p \in Proc : Claim(p) \/ Settle(p) \/ Release(p) \/ StartProvider(p)
    <3>1. ~UNCHANGED vars BY <1>2 DEF vars
    <3>2. ASSUME NEW j \in JobId, NEW d \in Forged, Tamper(j, d) PROVE FALSE
      BY <1>2, <3>2 DEF Tamper
    <3>3. ASSUME NEW p \in Proc, Call(p) \/ Step(p) \/ Stop(p)
          PROVE  Claim(p) \/ Settle(p) \/ Release(p) \/ StartProvider(p)
      <4>1. Ends(p) \/ Jumps(p) \/ SavesAndEnds(p) \/ SavesAndGoes(p) \/ OtherStep(p)
        BY <3>3, StepCases
      <4>2. ~Ends(p) /\ ~Jumps(p) /\ ~SavesAndEnds(p) /\ ~SavesAndGoes(p)
        BY <1>2 DEF Ends, Jumps, JumpsTo, SavesAndEnds, SavesAs, SavesAndGoes, SavesTo, store
      <4>3. ~Reads(p) BY <1>2 DEF Reads, Turns, GrantedJob, Process, store
      <4>4. ~Begins(p) BY <1>2 DEF Begins, BeginLinked
      <4>5. ~WritesApproval(p)
        BY <1>2 DEF WritesApproval, Link, Promote, Recover, Ask, Decide, Refuse
      <4>6. OtherStep(p) BY <4>1, <4>2
      <4> QED BY <1>2, <4>3, <4>4, <4>5, <4>6
              DEF OtherStep, Submit, Approve, Reject, ClaimSettled, Replay, ProviderEnds, store
    <3> QED BY <3>1, <3>2, <3>3 DEF Next, RefreshFails, Crash
  <2>2. UNCHANGED <<Entries, Written>> \/ Ledger!Next
    BY <1>0, <2>1, ClaimAcquires, SettleSettles, ReleaseGivesBack, StartWrites DEF Ledger!Next
  <2> QED BY <2>2 DEF Ledger!vars, Entries, EntryOf, Written
<1> QED BY <1>1, <1>2

(* The service implements the write ledger: a live provider is started     *)
(* once per job, under a key held for that job's change set, never again   *)
(* once the key is settled, and only what was written settles a key.       *)
THEOREM JobsImplementLedger == Spec => ImplementsLedger
<1>1. Spec => [](Inv1 /\ Inv2 /\ Inv3 /\ WriterHoldsKey)
  BY SpecInv3, WritersHoldTheirKeys, PTL
<1> QED BY <1>1, InitLedger, NextLedger, PTL DEF Spec, ImplementsLedger, Ledger!Spec

-----------------------------------------------------------------------------
(* Gates, outcomes and reviews.                                            *)

(* The gate.  EarlyLabels are those of the first evaluation of a job,      *)
(* WaitLabels those of a job that was found waiting.                       *)
EarlyLabels == {"dependencies", "linked", "run", "ask", "park"}
WaitLabels == {"approved", "resume"}

IsApproved(a) == a \in ApprovalId /\ approvals[a].status = "approved"

GateRows ==
    /\ \A j \in JobId : jobs[j].status = "waiting_for_approval" => jobs[j].approval \in ApprovalId
    /\ \A j \in JobId : jobs[j].status = "queued" =>
          jobs[j].approval = None \/ IsApproved(jobs[j].approval)

(* What a process knows of the approval of its job.                        *)
GateOf(p) ==
    /\ pc[p] \in {"linked", "park"} \cup WaitLabels => job[p].approval \in ApprovalId
    /\ pc[p] \in {"resume", "link", "save"} => IsApproved(job[p].approval)
    /\ pc[p] \in {"check", "dependencies", "linked"} =>
          job[p].approval = None \/ IsApproved(job[p].approval)
    /\ pc[p] \in {"run"} \cup RunLabels /\ job[p].gated => IsApproved(job[p].approval)
    /\ pc[p] \in {"decide", "refuse"} /\ approvals[aid[p]].status = "pending" =>
          apv[p].job = approvals[aid[p]].job

Gates == GateRows /\ \A p \in Proc : GateOf(p)

(* No step makes an approval pending but the one that creates it.          *)
PendingKept ==
    \A a \in ApprovalId : approvals[a].status # "absent" /\ approvals'[a].status = "pending" =>
        approvals'[a] = approvals[a]

LEMMA InitGates == Init => Gates
BY DEF Init, Gates, GateRows, GateOf, AbsentJob, RunLabels, WaitLabels

LEMMA GatesFrame ==
    ASSUME Inv1, Gates, NEW p \in Proc, OthersKeep(p), ApprovalsPersist, PendingKept,
           GateRows', GateOf(p)'
    PROVE  Gates'
<1> SUFFICES ASSUME NEW q \in Proc \ {p} PROVE GateOf(q)'
  BY DEF Gates
<1>1. pc'[q] = pc[q] /\ job'[q] = job[q] /\ aid'[q] = aid[q] /\ apv'[q] = apv[q] BY DEF OthersKeep
<1>2. GateOf(q) BY DEF Gates
<1>3. \A a : IsApproved(a) => a \in ApprovalId /\ approvals'[a].status = "approved"
  BY DEF IsApproved, ApprovalsPersist
<1>4. pc[q] \in {"decide", "refuse"} => aid[q] \in ApprovalId /\ approvals[aid[q]].status # "absent"
  BY DEF Inv1, LocalOK, HoldsAt, DecidingLabels, IsCopy, ApprovalsPersist
<1> QED BY <1>1, <1>2, <1>3, <1>4 DEF GateOf, IsApproved, PendingKept

LEMMA GatesSameApprovals ==
    ASSUME UNCHANGED approvals
    PROVE  ApprovalsPersist /\ PendingKept /\ \A a : IsApproved(a) <=> (a \in ApprovalId /\ approvals'[a].status = "approved")
BY DEF ApprovalsPersist, PendingKept, IsApproved, IsCopy, SameSubject

(* Steps that write no row but those that wait for no gate any more.       *)
LEMMA GatesQuiet ==
    ASSUME Inv1, Gates, NEW p \in Proc, OthersKeep(p), UNCHANGED approvals,
           \A j \in JobId : jobs'[j].status \in {"queued", "waiting_for_approval"} => jobs'[j] = jobs[j],
           GateOf(p)'
    PROVE  Gates'
<1>1. GateRows'
  BY DEF Gates, GateRows, IsApproved
<1> QED BY <1>1, GatesSameApprovals, GatesFrame

LEMMA EndsGates ==
    ASSUME Inv1, Gates, NEW p \in Proc, Return(p), UNCHANGED approvals,
           \A j \in JobId : jobs'[j].status \in {"queued", "waiting_for_approval"} => jobs'[j] = jobs[j]
    PROVE  Gates'
<1>1. OthersKeep(p) /\ pc'[p] = "idle" BY ReturnFacts
<1>2. GateOf(p)' BY <1>1 DEF GateOf, RunLabels, WaitLabels
<1> QED BY <1>1, <1>2, GatesQuiet

LEMMA JumpsGates ==
    ASSUME Inv1, Gates, NEW p \in Proc, Jumps(p)
    PROVE  Gates'
<1>1. PICK l : JumpsTo(p, l) /\ pc'[p] = l
  BY GotoMoves DEF Jumps, JumpsTo
<1>2. OthersKeep(p) /\ UNCHANGED <<jobs, approvals, job, aid, apv>> BY <1>1, GotoMoves DEF JumpsTo, store
<1>3. GateOf(p) BY DEF Gates
<1>4. GateOf(p)'
  <2>1. CASE pc[p] = "approved" /\ MayResume(p) /\ JumpsTo(p, "resume")
    BY <1>2, <1>3, <2>1, GotoMoves DEF JumpsTo, GateOf, IsApproved, MayResume, WaitLabels, RunLabels
  <2>2. CASE pc[p] = "dependencies" /\ ((~job[p].gated /\ JumpsTo(p, "run")) \/ JumpsTo(p, "ask"))
    BY <1>2, <1>3, <2>2, GotoMoves DEF JumpsTo, GateOf, WaitLabels, RunLabels
  <2>3. CASE pc[p] = "dependencies" /\ job[p].approval # None /\ JumpsTo(p, "linked")
    BY <1>2, <1>3, <2>3, GotoMoves DEF JumpsTo, GateOf, IsApproved, WaitLabels, RunLabels
  <2>4. CASE pc[p] = "linked" /\ approvals[job[p].approval].status = "approved" /\ JumpsTo(p, "run")
    BY <1>2, <1>3, <2>4, GotoMoves DEF JumpsTo, GateOf, IsApproved, WaitLabels, RunLabels
  <2>5. CASE pc[p] = "linked" /\ (JumpsTo(p, "fail") \/ JumpsTo(p, "park"))
    BY <1>2, <1>3, <2>5, GotoMoves DEF JumpsTo, GateOf, IsApproved, WaitLabels, RunLabels
  <2>6. CASE pc[p] = "claim" /\ JumpsTo(p, "fail")
    BY <1>2, <1>3, <2>6, GotoMoves DEF JumpsTo, GateOf, WaitLabels, RunLabels
  <2>7. CASE pc[p] \in {"start", "provider"} /\ JumpsTo(p, "release")
    BY <1>2, <1>3, <2>7, GotoMoves DEF JumpsTo, GateOf, IsApproved, WaitLabels, RunLabels
  <2> QED BY <2>1, <2>2, <2>3, <2>4, <2>5, <2>6, <2>7 DEF Jumps
<1> QED BY <1>2, <1>4, GatesQuiet

LEMMA SavesAndEndsGates ==
    ASSUME Inv1, Gates, NEW p \in Proc, SavesAndEnds(p)
    PROVE  Gates'
<1>1. PICK s \in {"failed", "waiting_for_dependency", "waiting_for_approval", "completed", "rejected"} :
        SavesAs(p, s) /\ pc[p] \notin JoblessLabels /\ (s = "waiting_for_approval" => pc[p] = "park")
  BY DEF SavesAndEnds, JoblessLabels
<1>2. s \in JobStatus BY DEF JobStatus
<1>3. /\ jid[p] \in JobId /\ \A j \in JobId \ {jid[p]} : jobs'[j] = jobs[j]
      /\ jobs'[jid[p]].status = s /\ jobs'[jid[p]].approval = job[p].approval
  BY <1>1, <1>2, SaveFacts DEF SavesAs
<1>4. OthersKeep(p) /\ pc'[p] = "idle" BY <1>1, ReturnFacts DEF SavesAs
<1>5. GateOf(p)' BY <1>4 DEF GateOf, RunLabels, WaitLabels
<1>6. approvals' = approvals BY <1>1 DEF SavesAs
<1>7. GateRows' BY <1>1, <1>3, <1>6 DEF Gates, GateRows, GateOf, IsApproved
<1> QED BY <1>4, <1>5, <1>6, <1>7, GatesSameApprovals, GatesFrame

LEMMA SavesAndGoesGates ==
    ASSUME Inv1, Gates, NEW p \in Proc, SavesAndGoes(p)
    PROVE  Gates'
<1>1. PICK s \in {"running", "checking_dependencies", "completed", "queued"},
           l \in {"claim", "start", "dependencies", "settle", "process"} :
        /\ SavesTo(p, s, l) /\ pc[p] \notin JoblessLabels
        /\ s = "queued" => pc[p] = "save"
        /\ l \in {"claim", "start"} => pc[p] \in {"resume", "run"}
        /\ l = "dependencies" => pc[p] = "check"
        /\ l = "settle" => pc[p] = "complete"
  <2>1. AfterRunning(p) \in {"claim", "start"} BY DEF AfterRunning
  <2> QED BY <2>1 DEF SavesAndGoes, JoblessLabels
<1>2. s \in JobStatus BY DEF JobStatus
<1>3. /\ jid[p] \in JobId /\ \A j \in JobId \ {jid[p]} : jobs'[j] = jobs[j]
      /\ jobs'[jid[p]].status = s /\ jobs'[jid[p]].approval = job[p].approval
  BY <1>1, <1>2, SaveFacts DEF SavesTo
<1>4. OthersKeep(p) /\ pc'[p] = l /\ UNCHANGED <<approvals, job, aid, apv>>
  BY <1>1, GotoMoves DEF SavesTo
<1>5. GateOf(p) BY DEF Gates
<1>6. GateOf(p)' BY <1>1, <1>4, <1>5 DEF GateOf, IsApproved, WaitLabels, RunLabels
<1>7. GateRows' BY <1>1, <1>3, <1>4, <1>5 DEF Gates, GateRows, GateOf, IsApproved
<1> QED BY <1>4, <1>6, <1>7, GatesSameApprovals, GatesFrame

LEMMA ReadsGates ==
    ASSUME Inv1, Gates, NEW p \in Proc, Reads(p)
    PROVE  Gates'
<1>1. PICK l \in {"check", "approved", "reject", "process"}, i \in JobId :
        /\ Turns(p, i, l)
        /\ l # "process" => job' = [job EXCEPT ![p] = jobs[i]]
        /\ l = "process" => job' = job
        /\ l = "check" => jobs[i].status = "queued"
        /\ l = "approved" => jobs[i].status = "waiting_for_approval"
  <2>1. pc[p] = "process" => jid[p] \in JobId
    BY DEF Inv1, LocalOK, HoldsAt, JoblessLabels
  <2>2. pc[p] = "refused" /\ apv[p].job # None => apv[p].job \in JobId
    BY DEF Inv1, LocalOK, HoldsAt, DecidingLabels, GateOfJob
  <2>3. pc[p] = "granted" /\ apv[p].purpose = "gate" => apv[p].job \in JobId
    BY DEF Inv1, LocalOK, HoldsAt, DecidingLabels, GateOfJob
  <2> QED BY <2>1, <2>2, <2>3 DEF Reads, Turns, GrantedJob, Process
<1>2. OthersKeep(p) /\ pc'[p] = l /\ (l # "process" => job'[p] = jobs[i])
      /\ UNCHANGED <<jobs, approvals, aid, apv>>
  BY <1>1 DEF Turns, Goto, store, Inv1, LocalTypes, OthersKeep
<1>3. GateOf(p)'
  BY <1>1, <1>2 DEF Gates, GateRows, GateOf, IsApproved, WaitLabels, RunLabels
<1> QED BY <1>2, <1>3, GatesQuiet

LEMMA BeginsGates ==
    ASSUME Inv1, Gates, NEW p \in Proc, Begins(p)
    PROVE  Gates'
<1>1. PICK a \in ApprovalId :
        /\ OthersKeep(p) /\ UNCHANGED <<jobs, approvals>> /\ pc'[p] = "link"
        /\ job'[p].approval = a /\ approvals[a].status = "approved"
  BY BeginFacts DEF Begins
<1>2. GateOf(p)' BY <1>1 DEF GateOf, IsApproved, WaitLabels, RunLabels
<1> QED BY <1>1, <1>2, GatesQuiet

(* Whatever was approved stays so, and only new approvals are pending.     *)
LEMMA ApprovalWriteEffect ==
    ASSUME Inv1, NEW p \in Proc, WritesApproval(p)
    PROVE  ApprovalsPersist /\ PendingKept
<1>1. approvals \in [ApprovalId -> Approval] BY DEF Inv1, TablesOK, TableTypes
<1>2. CASE Link(p)
  <2>1. /\ aid[p] \in ApprovalId /\ jid[p] \in JobId /\ apv[p] \in Approval
        /\ IsCopy(apv[p], approvals[aid[p]])
        /\ apv[p].status = "approved" /\ approvals[aid[p]].status = "approved"
    BY <1>2 DEF Link, Inv1, LocalTypes, LocalOK, HoldsAt, DecidingLabels, JoblessLabels
  <2> DEFINE n == [apv[p] EXCEPT !.job = jid[p]]
  <2>2. n.status = "approved" /\ n.purpose = apv[p].purpose /\ n.src = apv[p].src
        /\ n.digest = apv[p].digest
    BY <2>1, ApprovalUpdate
  <2>3. approvals' = [approvals EXCEPT ![aid[p]] = n] BY <1>2 DEF Link
  <2> HIDE DEF n
  <2> QED BY <1>1, <2>1, <2>2, <2>3 DEF IsCopy, SameSubject, ApprovalsPersist, PendingKept
<1>3. ASSUME NEW j \in JobId, NEW a \in ApprovalId, Promote(p, j, a) \/ Recover(p, j, a)
      PROVE  ApprovalsPersist /\ PendingKept
  BY <1>1, <1>3 DEF Promote, Recover, FreshApproval, IsCopy, SameSubject, ApprovalsPersist, PendingKept
<1>4. ASSUME NEW a \in ApprovalId, Ask(p, a)
      PROVE  ApprovalsPersist /\ PendingKept
  BY <1>1, <1>4 DEF Ask, FreshApproval, IsCopy, SameSubject, ApprovalsPersist, PendingKept
<1>5. CASE approvals[aid[p]].status = "pending" /\ (Decide(p) \/ Refuse(p))
  <2>1. aid[p] \in ApprovalId /\ apv[p] \in Approval /\ IsCopy(apv[p], approvals[aid[p]])
    BY <1>5 DEF Decide, Refuse, Inv1, LocalTypes, LocalOK, HoldsAt, DecidingLabels
  <2>2. PICK s \in {"approved", "rejected"} :
          approvals' = [approvals EXCEPT ![aid[p]] = [apv[p] EXCEPT !.status = s]]
    BY <1>5 DEF Decide, Refuse, TransitionApproval
  <2> DEFINE n == [apv[p] EXCEPT !.status = s]
  <2>3. n.purpose = apv[p].purpose /\ n.src = apv[p].src /\ n.digest = apv[p].digest /\ n.status = s
    BY <2>1, ApprovalUpdate
  <2>4. approvals' = [approvals EXCEPT ![aid[p]] = n] BY <2>2
  <2> HIDE DEF n
  <2> QED BY <1>1, <1>5, <2>1, <2>3, <2>4 DEF IsCopy, SameSubject, ApprovalsPersist, PendingKept
<1> QED BY <1>2, <1>3, <1>4, <1>5 DEF WritesApproval

LEMMA WritesApprovalGates ==
    ASSUME Inv1, Gates, NEW p \in Proc, WritesApproval(p)
    PROVE  Gates'
<1>1. ApprovalsPersist /\ PendingKept BY ApprovalWriteEffect
<1>2. UNCHANGED jobs BY DEF WritesApproval, Link, Promote, Recover, Ask, Decide, Refuse
<1>3. \A a : IsApproved(a) => a \in ApprovalId /\ approvals'[a].status = "approved"
  BY <1>1 DEF IsApproved, ApprovalsPersist
<1>4. GateRows' BY <1>2, <1>3 DEF Gates, GateRows, IsApproved
<1>5. OthersKeep(p) /\ GateOf(p)'
  <2>1. CASE Link(p)
    <3>1. OthersKeep(p) /\ pc'[p] = "save" /\ job' = job BY <2>1, GotoMoves DEF Link
    <3>2. IsApproved(job[p].approval) BY <2>1 DEF Link, Gates, GateOf
    <3> QED BY <1>3, <3>1, <3>2 DEF GateOf, IsApproved, WaitLabels, RunLabels
  <2>2. ASSUME NEW j \in JobId, NEW a \in ApprovalId, Promote(p, j, a) \/ Recover(p, j, a)
        PROVE  OthersKeep(p) /\ pc'[p] = "idle"
    BY <2>2 DEF Promote, Recover, locals, OthersKeep
  <2>3. ASSUME NEW a \in ApprovalId, Ask(p, a)
        PROVE  OthersKeep(p) /\ pc'[p] = "park" /\ job'[p].approval \in ApprovalId
    BY <2>3 DEF Ask, Goto, Inv1, LocalTypes, Job, OthersKeep
  <2>4. CASE approvals[aid[p]].status = "pending" /\ (Decide(p) \/ Refuse(p))
    <3>1. OthersKeep(p) /\ pc'[p] \in {"granted", "refused"}
      BY <2>4, GotoMoves DEF Decide, Refuse, TransitionApproval
    <3> QED BY <3>1 DEF GateOf, WaitLabels, RunLabels
  <2> QED BY <2>1, <2>2, <2>3, <2>4 DEF WritesApproval, GateOf, WaitLabels, RunLabels
<1> QED BY <1>1, <1>4, <1>5, GatesFrame

LEMMA SubmitGates ==
    ASSUME Inv1, Gates, NEW p \in Proc, NEW j \in JobId, NEW r \in Requests, Submit(p, j, r)
    PROVE  Gates'
<1>1. PICK n \in Job : jobs' = [jobs EXCEPT ![j] = n] /\ n.status = "queued" /\ n.approval = None
  BY SubmittedRow DEF Submit, AbsentJob
<1>2. jobs'[j] = n /\ \A i \in JobId \ {j} : jobs'[i] = jobs[i]
  BY <1>1 DEF Inv1, TablesOK, TableTypes
<1>3. /\ OthersKeep(p) /\ pc'[p] = "process" /\ UNCHANGED approvals
  BY DEF Submit, Goto, Inv1, LocalTypes, OthersKeep
<1>4. GateOf(p)' BY <1>3 DEF GateOf, WaitLabels, RunLabels
<1>5. GateRows' BY <1>1, <1>2, <1>3 DEF Gates, GateRows, IsApproved
<1> QED BY <1>3, <1>4, <1>5, GatesSameApprovals, GatesFrame

LEMMA BeginDecisionGates ==
    ASSUME Inv1, Gates, NEW p \in Proc, NEW a \in ApprovalId, Approve(p, a) \/ Reject(p, a)
    PROVE  Gates'
<1>1. /\ OthersKeep(p) /\ pc'[p] \in {"decide", "refuse"} /\ UNCHANGED <<jobs, approvals>>
      /\ aid'[p] = a /\ apv'[p] = approvals[a]
  BY DEF Approve, Reject, Goto, store, Inv1, LocalTypes, OthersKeep
<1>2. GateOf(p)' BY <1>1 DEF GateOf, WaitLabels, RunLabels
<1> QED BY <1>1, <1>2, GatesQuiet

LEMMA RunGates ==
    ASSUME Inv1, Gates, NEW p \in Proc,
           \/ Claim(p) \/ ClaimSettled(p) \/ Settle(p) \/ Release(p) \/ Replay(p)
           \/ StartProvider(p) \/ \E d \in Digest \cup {None} : ProviderEnds(p, d)
    PROVE  Gates'
<1>1. CASE Settle(p)
  <2>1. UNCHANGED <<jobs, approvals>> /\ Return(p) BY <1>1 DEF Settle
  <2> QED BY <2>1, EndsGates
<1>2. CASE Replay(p)
  <2>1. "completed" \in JobStatus BY DEF JobStatus
  <2>2. \A j \in JobId : jobs'[j].status # "completed" => jobs'[j] = jobs[j]
    BY <1>2, <2>1, SaveFacts DEF Replay, JoblessLabels
  <2>3. UNCHANGED approvals /\ Return(p) BY <1>2 DEF Replay
  <2> QED BY <2>2, <2>3, EndsGates
<1>3. CASE ClaimSettled(p)
  <2>1. job[p] \in Job BY DEF Inv1, LocalTypes
  <2> DEFINE m == [job[p] EXCEPT !.replay = idem[job[p].key].job]
  <2>2. m.approval = job[p].approval /\ m.gated = job[p].gated BY <2>1 DEF Job
  <2>3. job' = [job EXCEPT ![p] = m] BY <1>3 DEF ClaimSettled
  <2> HIDE DEF m
  <2>4. OthersKeep(p) /\ pc'[p] = "replay" /\ job'[p] = m /\ UNCHANGED <<jobs, approvals, aid, apv>>
    BY <1>3, <2>3 DEF ClaimSettled, Goto, store, Inv1, LocalTypes, OthersKeep
  <2>5. pc[p] = "claim" /\ GateOf(p) BY <1>3 DEF ClaimSettled, Gates
  <2>6. GateOf(p)' BY <2>2, <2>4, <2>5 DEF GateOf, IsApproved, WaitLabels, RunLabels
  <2> QED BY <2>4, <2>6, GatesQuiet
<1>4. CASE Claim(p) \/ Release(p) \/ StartProvider(p) \/ \E d \in Digest \cup {None} : ProviderEnds(p, d)
  <2>1. /\ OthersKeep(p) /\ pc[p] \in RunLabels /\ pc'[p] \in {"start", "fail", "provider", "complete"}
        /\ UNCHANGED <<jobs, approvals, job, aid, apv>>
    BY <1>4, GotoMoves DEF Claim, Release, StartProvider, ProviderEnds, store, RunLabels
  <2>2. GateOf(p) BY DEF Gates
  <2>3. GateOf(p)' BY <2>1, <2>2 DEF GateOf, IsApproved, WaitLabels, RunLabels
  <2> QED BY <2>1, <2>3, GatesQuiet
<1> QED BY <1>1, <1>2, <1>3, <1>4

LEMMA NextGates == Inv1 /\ Gates /\ [Next]_vars => Gates'
<1> SUFFICES ASSUME Inv1, Gates, [Next]_vars PROVE Gates'
  OBVIOUS
<1>0. ASSUME UNCHANGED <<jobs, approvals, locals>> PROVE Gates'
  BY <1>0 DEF Gates, GateRows, GateOf, IsApproved, locals
<1>1. CASE UNCHANGED vars BY <1>0, <1>1 DEF vars, locals
<1>2. ASSUME NEW p \in Proc, Call(p) \/ Step(p) \/ Stop(p) PROVE Gates'
  <2>1. Ends(p) \/ Jumps(p) \/ SavesAndEnds(p) \/ SavesAndGoes(p) \/ OtherStep(p)
    BY <1>2, StepCases
  <2>2. CASE Ends(p) BY <2>2, EndsGates DEF Ends, store
  <2>3. CASE OtherStep(p)
    BY <2>3, ReadsGates, BeginsGates, WritesApprovalGates, SubmitGates, BeginDecisionGates,
       RunGates DEF OtherStep
  <2> QED BY <2>1, <2>2, <2>3, JumpsGates, SavesAndEndsGates, SavesAndGoesGates
<1>3. ASSUME NEW j \in JobId, NEW d \in Forged, Tamper(j, d) PROVE Gates'
  BY <1>0, <1>3 DEF Tamper
<1> QED BY <1>1, <1>2, <1>3 DEF Next, RefreshFails, Crash

-----------------------------------------------------------------------------
(* Nobody waits for the decision on a job that is being evaluated for the  *)
(* first time, or that was not evaluated yet.                              *)
Fresh == {"absent", "queued"}

Paths ==
    /\ \A p, q \in Proc : pc[p] \in EarlyLabels /\ pc[q] \in WaitLabels => jid[p] # jid[q]
    /\ \A j \in JobId, q \in Proc : jobs[j].status \in Fresh /\ pc[q] \in WaitLabels => jid[q] # j

LEMMA InitPaths == Init => Paths
BY DEF Init, Paths, WaitLabels

LEMMA PathLabels ==
    /\ EarlyLabels \subseteq OwnLabels /\ EarlyLabels \cap WaitLabels = {}
    /\ "idle" \notin EarlyLabels \cup WaitLabels
BY DEF EarlyLabels, WaitLabels, OwnLabels, CheckLabels

LEMMA PathsFrame ==
    ASSUME Inv1, Inv2, Paths, NEW p \in Proc, OthersKeep(p),
           \A j \in JobId : jobs'[j].status \in Fresh => jobs[j].status \in Fresh,
           pc'[p] \in WaitLabels =>
               /\ jobs' = jobs /\ jid'[p] \in JobId
               /\ \/ pc[p] \in WaitLabels /\ jid'[p] = jid[p]
                  \/ jobs[jid'[p]].status = "waiting_for_approval",
           pc'[p] \in EarlyLabels =>
               /\ jid'[p] = jid[p] /\ jid[p] \in JobId
               /\ pc[p] \in EarlyLabels \/ jobs[jid[p]].status = "queued"
    PROVE  Paths'
<1>1. \A q \in Proc \ {p} : pc'[q] = pc[q] /\ jid'[q] = jid[q] BY DEF OthersKeep
<1>2. ASSUME NEW q \in Proc, NEW r \in Proc, pc'[q] \in EarlyLabels, pc'[r] \in WaitLabels
      PROVE  jid'[q] # jid'[r]
  <2>1. q # r BY <1>2, PathLabels
  <2>2. CASE q = p BY <1>1, <1>2, <2>1, <2>2 DEF Paths, Fresh
  <2>3. CASE r = p
    <3>1. pc[q] \in EarlyLabels /\ jid'[q] = jid[q] BY <1>1, <1>2, <2>1, <2>3
    <3>2. CASE pc[p] \in WaitLabels /\ jid'[p] = jid[p] BY <2>3, <3>1, <3>2 DEF Paths
    <3>3. CASE jobs[jid'[p]].status = "waiting_for_approval"
      BY <2>3, <3>1, <3>3, PathLabels DEF Inv2, Unstarted
    <3> QED BY <1>2, <2>3, <3>2, <3>3
  <2>4. CASE q # p /\ r # p BY <1>1, <1>2, <2>4 DEF Paths
  <2> QED BY <2>2, <2>3, <2>4
<1>3. ASSUME NEW j \in JobId, NEW q \in Proc, jobs'[j].status \in Fresh, pc'[q] \in WaitLabels
      PROVE  jid'[q] # j
  <2>1. CASE q = p BY <1>3, <2>1 DEF Paths, Fresh
  <2>2. CASE q # p BY <1>1, <1>3, <2>2 DEF Paths
  <2> QED BY <2>1, <2>2
<1> QED BY <1>2, <1>3 DEF Paths

(* Saves of a process that is past its first evaluation.                   *)
LEMMA SavedPaths ==
    ASSUME Inv1, Inv2, Paths, NEW p \in Proc, pc[p] \notin JoblessLabels, OthersKeep(p),
           NEW s \in JobStatus, Save(p, s), s \in Fresh => jobs[jid[p]].status \in Fresh,
           pc'[p] \notin WaitLabels,
           pc'[p] \in EarlyLabels => jid'[p] = jid[p] /\ jobs[jid[p]].status = "queued"
    PROVE  Paths'
<1>1. jid[p] \in JobId /\ jobs'[jid[p]].status = s /\ \A j \in JobId \ {jid[p]} : jobs'[j] = jobs[j]
  BY SaveFacts
<1> QED BY <1>1, PathsFrame

LEMMA QuietPaths ==
    ASSUME Inv1, Inv2, Paths, NEW p \in Proc, OthersKeep(p), UNCHANGED jobs,
           pc'[p] \notin WaitLabels \cup EarlyLabels
    PROVE  Paths'
BY PathsFrame

LEMMA JumpsPaths ==
    ASSUME Inv1, Inv2, Paths, NEW p \in Proc, Jumps(p)
    PROVE  Paths'
<1>1. PICK l : JumpsTo(p, l) /\ pc'[p] = l /\ pc[p] \notin JoblessLabels
          /\ (l \in WaitLabels => pc[p] \in WaitLabels)
          /\ (l \in EarlyLabels => pc[p] \in EarlyLabels)
  BY GotoMoves DEF Jumps, JumpsTo, JoblessLabels, WaitLabels, EarlyLabels
<1>2. OthersKeep(p) /\ jid'[p] = jid[p] /\ UNCHANGED jobs BY <1>1, GotoMoves DEF JumpsTo, store
<1>3. jid[p] \in JobId BY <1>1 DEF Inv1, LocalOK, HoldsAt
<1> QED BY <1>1, <1>2, <1>3, PathsFrame

LEMMA SavesPaths ==
    ASSUME Inv1, Inv2, Paths, NEW p \in Proc, SavesAndEnds(p) \/ SavesAndGoes(p)
    PROVE  Paths'
<1>1. ASSUME SavesAndEnds(p) PROVE Paths'
  <2>1. PICK s \in {"failed", "waiting_for_dependency", "waiting_for_approval", "completed", "rejected"} :
          SavesAs(p, s) /\ pc[p] \notin JoblessLabels
    BY <1>1 DEF SavesAndEnds, JoblessLabels
  <2>2. OthersKeep(p) /\ pc'[p] = "idle" BY <2>1, ReturnFacts DEF SavesAs
  <2>3. s \in JobStatus /\ s \notin Fresh BY DEF JobStatus, Fresh
  <2> QED BY <2>1, <2>2, <2>3, PathLabels, SavedPaths DEF SavesAs
<1>2. ASSUME SavesAndGoes(p) PROVE Paths'
  <2>1. PICK s \in {"running", "checking_dependencies", "completed", "queued"},
             l \in {"claim", "start", "dependencies", "settle", "process"} :
          /\ SavesTo(p, s, l) /\ pc[p] \notin JoblessLabels
          /\ s = "queued" => pc[p] = "save"
          /\ l = "dependencies" => jobs[jid[p]].status = "queued"
    <3>1. AfterRunning(p) \in {"claim", "start"} BY DEF AfterRunning
    <3> QED BY <1>2, <3>1 DEF SavesAndGoes, JoblessLabels
  <2>2. OthersKeep(p) /\ pc'[p] = l /\ jid'[p] = jid[p] BY <2>1, GotoMoves DEF SavesTo
  <2>3. s \in JobStatus /\ (s \in Fresh => jobs[jid[p]].status \in Fresh)
    BY <2>1 DEF JobStatus, Fresh, Inv2, NewLabels
  <2>4. l \notin WaitLabels /\ (l \in EarlyLabels => l = "dependencies")
    BY DEF WaitLabels, EarlyLabels
  <2> QED BY <2>1, <2>2, <2>3, <2>4, SavedPaths DEF SavesTo
<1> QED BY <1>1, <1>2

LEMMA ReadsPaths ==
    ASSUME Inv1, Inv2, Paths, NEW p \in Proc, Reads(p)
    PROVE  Paths'
<1>1. PICK l, i :
        /\ l \in {"check", "approved", "reject", "process"} /\ Turns(p, i, l)
        /\ l = "approved" => jobs[i].status = "waiting_for_approval" /\ i = jid[p] /\ pc[p] = "process"
        /\ OthersKeep(p)
  BY DEF Reads, Turns, GrantedJob, Process, OthersKeep, Inv1, LocalTypes, Goto
<1>2. pc'[p] = l /\ jid'[p] = i /\ UNCHANGED jobs
  BY <1>1 DEF Turns, Goto, store, Inv1, LocalTypes
<1>3. l = "approved" => i \in JobId BY <1>1 DEF Inv1, LocalOK, HoldsAt, JoblessLabels
<1>4. l \notin EarlyLabels /\ (l \in WaitLabels => l = "approved")
  BY <1>1 DEF EarlyLabels, WaitLabels
<1> QED BY <1>1, <1>2, <1>3, <1>4, PathsFrame

LEMMA OtherPaths ==
    ASSUME Inv1, Inv2, Paths, NEW p \in Proc, Begins(p) \/ WritesApproval(p)
    PROVE  Paths'
<1>1. ASSUME Begins(p) PROVE Paths'
  <2>1. OthersKeep(p) /\ UNCHANGED jobs /\ pc'[p] = "link" BY <1>1, BeginFacts DEF Begins
  <2> QED BY <2>1, QuietPaths DEF WaitLabels, EarlyLabels
<1>2. ASSUME Link(p) PROVE Paths'
  <2>1. OthersKeep(p) /\ UNCHANGED jobs /\ pc'[p] = "save" BY <1>2, GotoMoves DEF Link
  <2> QED BY <2>1, QuietPaths DEF WaitLabels, EarlyLabels
<1>3. ASSUME NEW j \in JobId, NEW a \in ApprovalId, Promote(p, j, a) \/ Recover(p, j, a)
      PROVE  Paths'
  <2>1. UNCHANGED <<pc, jid, jobs>> BY <1>3 DEF Promote, Recover, locals
  <2> QED BY <2>1 DEF Paths
<1>4. ASSUME NEW a \in ApprovalId, Ask(p, a) PROVE Paths'
  <2>1. OthersKeep(p) /\ UNCHANGED <<jobs, jid>> /\ pc'[p] = "park"
    BY <1>4 DEF Ask, Goto, Inv1, LocalTypes, OthersKeep
  <2>2. jid[p] \in JobId /\ pc[p] \in EarlyLabels
    BY <1>4 DEF Ask, EarlyLabels, Inv1, LocalOK, HoldsAt, JoblessLabels
  <2> QED BY <2>1, <2>2, PathsFrame DEF WaitLabels
<1>5. ASSUME approvals[aid[p]].status = "pending", Decide(p) \/ Refuse(p) PROVE Paths'
  <2>1. OthersKeep(p) /\ UNCHANGED jobs /\ pc'[p] \in {"granted", "refused"}
    BY <1>5, GotoMoves DEF Decide, Refuse, TransitionApproval
  <2> QED BY <2>1, QuietPaths DEF WaitLabels, EarlyLabels
<1> QED BY <1>1, <1>2, <1>3, <1>4, <1>5 DEF WritesApproval

LEMMA SubmitPaths ==
    ASSUME Inv1, Inv2, Paths, NEW p \in Proc, NEW j \in JobId, NEW r \in Requests, Submit(p, j, r)
    PROVE  Paths'
<1>1. PICK n \in Job : jobs' = [jobs EXCEPT ![j] = n] BY SubmittedRow DEF Submit
<1>2. \A i \in JobId \ {j} : jobs'[i] = jobs[i] BY <1>1 DEF Inv1, TablesOK, TableTypes
<1>3. jobs[j].status = "absent" BY DEF Submit, FreshJob
<1>4. OthersKeep(p) /\ pc'[p] = "process" BY DEF Submit, Goto, Inv1, LocalTypes, OthersKeep
<1> QED BY <1>2, <1>3, <1>4, PathsFrame DEF Fresh, WaitLabels, EarlyLabels

LEMMA RunPaths ==
    ASSUME Inv1, Inv2, Paths, NEW p \in Proc,
           \/ \E a \in ApprovalId : Approve(p, a) \/ Reject(p, a)
           \/ Claim(p) \/ ClaimSettled(p) \/ Settle(p) \/ Release(p) \/ Replay(p)
           \/ StartProvider(p) \/ \E d \in Digest \cup {None} : ProviderEnds(p, d)
    PROVE  Paths'
<1>1. CASE Replay(p)
  <2>1. OthersKeep(p) /\ pc'[p] = "idle" BY <1>1, ReturnFacts DEF Replay
  <2>2. "completed" \in JobStatus /\ "completed" \notin Fresh BY DEF JobStatus, Fresh
  <2>3. pc[p] \notin JoblessLabels /\ Save(p, "completed") BY <1>1 DEF Replay, JoblessLabels
  <2> QED BY <2>1, <2>2, <2>3, PathLabels, SavedPaths
<1>2. CASE Settle(p)
  <2>1. OthersKeep(p) /\ pc'[p] = "idle" /\ UNCHANGED jobs BY <1>2, ReturnFacts DEF Settle
  <2> QED BY <2>1, PathLabels, QuietPaths
<1>3. CASE \E a \in ApprovalId : Approve(p, a) \/ Reject(p, a)
  <2>1. OthersKeep(p) /\ UNCHANGED jobs /\ pc'[p] \in {"decide", "refuse"}
    BY <1>3 DEF Approve, Reject, Goto, store, Inv1, LocalTypes, OthersKeep
  <2> QED BY <2>1, QuietPaths DEF WaitLabels, EarlyLabels
<1>4. CASE Claim(p) \/ ClaimSettled(p) \/ Release(p) \/ StartProvider(p)
           \/ \E d \in Digest \cup {None} : ProviderEnds(p, d)
  <2>1. OthersKeep(p) /\ UNCHANGED jobs
        /\ pc'[p] \in {"start", "replay", "fail", "provider", "complete"}
    BY <1>4 DEF Claim, ClaimSettled, Release, StartProvider, ProviderEnds, Goto, store,
                Inv1, LocalTypes, OthersKeep
  <2> QED BY <2>1, QuietPaths DEF WaitLabels, EarlyLabels
<1> QED BY <1>1, <1>2, <1>3, <1>4

LEMMA NextPaths == Inv1 /\ Inv2 /\ Paths /\ [Next]_vars => Paths'
<1> SUFFICES ASSUME Inv1, Inv2, Paths, [Next]_vars PROVE Paths'
  OBVIOUS
<1>1. ASSUME UNCHANGED <<pc, jid, jobs>> PROVE Paths' BY <1>1 DEF Paths
<1>2. CASE UNCHANGED vars BY <1>1, <1>2 DEF vars
<1>3. ASSUME NEW p \in Proc, Call(p) \/ Step(p) \/ Stop(p) PROVE Paths'
  <2>1. Ends(p) \/ Jumps(p) \/ SavesAndEnds(p) \/ SavesAndGoes(p) \/ OtherStep(p)
    BY <1>3, StepCases
  <2>2. CASE Ends(p)
    <3>1. OthersKeep(p) /\ pc'[p] = "idle" /\ UNCHANGED jobs BY <2>2, ReturnFacts DEF Ends, store
    <3> QED BY <3>1, PathLabels, QuietPaths
  <2>3. CASE OtherStep(p) BY <2>3, ReadsPaths, OtherPaths, SubmitPaths, RunPaths DEF OtherStep
  <2> QED BY <2>1, <2>2, <2>3, JumpsPaths, SavesPaths
<1>4. ASSUME NEW j \in JobId, NEW d \in Forged, Tamper(j, d) PROVE Paths'
  BY <1>1, <1>4 DEF Tamper, locals
<1> QED BY <1>2, <1>3, <1>4 DEF Next, RefreshFails, Crash

-----------------------------------------------------------------------------
(* Approval a, pending or rejected, keeps job j from running.              *)
Blocks(a, j) == approvals[a].status \in {"pending", "rejected"} /\ approvals[a].job = j

Stopped(a, j) ==
    /\ jobs[j].status \notin Fresh /\ runs[j] = 0
    /\ jobs[j].status = "waiting_for_approval" => jobs[j].approval = a
    /\ \A p \in Proc : jid[p] = j =>
         /\ pc[p] \in OwnLabels => pc[p] = "park"
         /\ pc[p] \in {"park"} \cup WaitLabels => job[p].approval = a

Blocked == \A a \in ApprovalId, j \in JobId : Blocks(a, j) => Stopped(a, j)

LEMMA InitBlocked == Init => Blocked
BY DEF Init, Blocked, Blocks, AbsentApproval

(* What process p may do about the stopped job j.                          *)
StoppedFrame(p, a, j) ==
    /\ OthersKeep(p) /\ runs'[j] = runs[j]
    /\ \/ jobs'[j] = jobs[j]
       \/ /\ jobs'[j].status \notin Fresh
          /\ jobs'[j].status = "waiting_for_approval" => jobs'[j].approval = a
    /\ jid'[p] = j =>
         /\ pc'[p] \in OwnLabels => pc'[p] = "park"
         /\ pc'[p] \in {"park"} \cup WaitLabels => job'[p].approval = a

LEMMA StaysStopped ==
    ASSUME NEW p \in Proc, NEW a \in ApprovalId, NEW j \in JobId, Stopped(a, j),
           StoppedFrame(p, a, j)
    PROVE  Stopped(a, j)'
<1>1. \A q \in Proc \ {p} : pc'[q] = pc[q] /\ jid'[q] = jid[q] /\ job'[q] = job[q]
  BY DEF StoppedFrame, OthersKeep
<1>2. jobs'[j].status \notin Fresh /\ runs'[j] = 0
      /\ (jobs'[j].status = "waiting_for_approval" => jobs'[j].approval = a)
  BY DEF Stopped, StoppedFrame
<1>3. ASSUME NEW q \in Proc, jid'[q] = j
      PROVE  /\ pc'[q] \in OwnLabels => pc'[q] = "park"
             /\ pc'[q] \in {"park"} \cup WaitLabels => job'[q].approval = a
  BY <1>1, <1>3 DEF Stopped, StoppedFrame
<1> QED BY <1>2, <1>3 DEF Stopped

LEMMA GateLabels ==
    /\ "idle" \notin OwnLabels \cup WaitLabels /\ "process" \notin OwnLabels \cup WaitLabels
    /\ WaitLabels \cap OwnLabels = {} /\ "park" \notin WaitLabels /\ "park" \in OwnLabels
    /\ NewLabels \cap OwnLabels = {}
BY DEF OwnLabels, WaitLabels, CheckLabels, RunLabels, NewLabels

LEMMA JumpsStopped ==
    ASSUME Inv1, NEW p \in Proc, NEW a \in ApprovalId, NEW j \in JobId, Stopped(a, j),
           ~IsApproved(a), Jumps(p)
    PROVE  StoppedFrame(p, a, j)
<1>1. PICK l : JumpsTo(p, l)
          /\ \/ pc[p] \in OwnLabels \ {"park"}
             \/ pc[p] = "approved" /\ MayResume(p)
  BY DEF Jumps, OwnLabels, CheckLabels, RunLabels
<1>2. OthersKeep(p) /\ jid'[p] = jid[p] /\ UNCHANGED <<jobs, runs>>
  BY <1>1, GotoMoves DEF JumpsTo, store
<1>3. jid[p] # j
  BY <1>1 DEF Stopped, MayResume, IsApproved, WaitLabels
<1> QED BY <1>2, <1>3 DEF StoppedFrame

LEMMA SavesStopped ==
    ASSUME Inv1, Inv2, Gates, NEW p \in Proc, NEW a \in ApprovalId, NEW j \in JobId, Stopped(a, j),
           ~IsApproved(a), SavesAndEnds(p) \/ SavesAndGoes(p)
    PROVE  StoppedFrame(p, a, j)
<1>1. ASSUME SavesAndEnds(p) PROVE StoppedFrame(p, a, j)
  <2>1. PICK s \in {"failed", "waiting_for_dependency", "waiting_for_approval", "completed", "rejected"} :
          SavesAs(p, s) /\ pc[p] \notin JoblessLabels /\ (s = "waiting_for_approval" => pc[p] = "park")
    BY <1>1 DEF SavesAndEnds, JoblessLabels
  <2>2. OthersKeep(p) /\ pc'[p] = "idle" BY <2>1, ReturnFacts DEF SavesAs
  <2>3. s \in JobStatus /\ s \notin Fresh BY DEF JobStatus, Fresh
  <2>4. /\ \A i \in JobId \ {jid[p]} : jobs'[i] = jobs[i]
        /\ jobs'[jid[p]].status = s /\ jobs'[jid[p]].approval = job[p].approval
    BY <2>1, <2>3, SaveFacts DEF SavesAs
  <2>5. s = "waiting_for_approval" /\ jid[p] = j => job[p].approval = a BY <2>1 DEF Stopped
  <2> QED BY <2>1, <2>2, <2>3, <2>4, <2>5, GateLabels DEF StoppedFrame, SavesAs
<1>2. ASSUME SavesAndGoes(p) PROVE StoppedFrame(p, a, j)
  <2>1. PICK s, l :
          /\ s \in JobStatus /\ SavesTo(p, s, l)
          /\ pc[p] \in {"resume", "run", "check", "complete", "save"}
          /\ pc[p] = "check" => jobs[jid[p]].status = "queued"
    BY <1>2 DEF SavesAndGoes, JobStatus
  <2>2. OthersKeep(p) /\ jid'[p] = jid[p] /\ UNCHANGED runs
    BY <2>1, GotoMoves DEF SavesTo
  <2>3. jid[p] # j
    <3>1. pc[p] \in {"run", "complete"} => pc[p] \in OwnLabels
      BY DEF OwnLabels, CheckLabels, RunLabels
    <3>2. pc[p] = "save" => jobs[jid[p]].status = "absent" BY DEF Inv2, NewLabels
    <3>3. pc[p] = "resume" => IsApproved(job[p].approval) BY DEF Gates, GateOf
    <3> QED BY <2>1, <3>1, <3>2, <3>3 DEF Stopped, Fresh, WaitLabels
  <2>4. pc[p] \notin JoblessLabels BY <2>1 DEF JoblessLabels
  <2>5. \A i \in JobId \ {jid[p]} : jobs'[i] = jobs[i] BY <2>1, <2>4, SaveFacts DEF SavesTo
  <2> QED BY <2>2, <2>3, <2>5 DEF StoppedFrame
<1> QED BY <1>1, <1>2

LEMMA ReadsStopped ==
    ASSUME Inv1, NEW p \in Proc, NEW a \in ApprovalId, NEW j \in JobId, Stopped(a, j), Reads(p)
    PROVE  StoppedFrame(p, a, j)
<1>1. PICK l, i :
        /\ l \in {"check", "approved", "reject", "process"} /\ Turns(p, i, l) /\ OthersKeep(p) /\ UNCHANGED <<jobs, runs>>
        /\ l = "approved" => jobs[i].status = "waiting_for_approval" /\ job'[p] = jobs[i]
  BY DEF Reads, Turns, GrantedJob, Process, OthersKeep, Inv1, LocalTypes, Goto, store
<1>2. pc'[p] = l /\ jid'[p] = i BY <1>1 DEF Turns, Goto, Inv1, LocalTypes
<1>3. l \notin OwnLabels /\ l # "park" /\ (l \in WaitLabels => l = "approved")
  BY <1>1 DEF OwnLabels, WaitLabels, CheckLabels, RunLabels
<1> QED BY <1>1, <1>2, <1>3 DEF StoppedFrame, Stopped

LEMMA WritesStopped ==
    ASSUME Inv1, NEW p \in Proc, NEW a \in ApprovalId, NEW j \in JobId, Stopped(a, j),
           Begins(p) \/ WritesApproval(p)
    PROVE  StoppedFrame(p, a, j)
<1>1. ASSUME Begins(p) PROVE StoppedFrame(p, a, j)
  <2>1. OthersKeep(p) /\ UNCHANGED <<jobs, runs>> /\ pc'[p] = "link" BY <1>1, BeginFacts DEF Begins
  <2> QED BY <2>1, GateLabels DEF StoppedFrame, NewLabels, WaitLabels
<1>2. ASSUME Link(p) PROVE StoppedFrame(p, a, j)
  <2>1. OthersKeep(p) /\ UNCHANGED <<jobs, runs>> /\ pc'[p] = "save" BY <1>2, GotoMoves DEF Link
  <2> QED BY <2>1, GateLabels DEF StoppedFrame, NewLabels, WaitLabels
<1>3. ASSUME NEW i \in JobId, NEW b \in ApprovalId, Promote(p, i, b) \/ Recover(p, i, b)
      PROVE  StoppedFrame(p, a, j)
  <2>1. UNCHANGED <<locals, jobs, runs>> /\ pc[p] = "idle" BY <1>3 DEF Promote, Recover
  <2> QED BY <2>1, GateLabels DEF StoppedFrame, OthersKeep, locals
<1>4. ASSUME NEW b \in ApprovalId, Ask(p, b) PROVE StoppedFrame(p, a, j)
  <2>1. OthersKeep(p) /\ UNCHANGED <<jobs, jid, runs>> /\ jid[p] # j
    BY <1>4 DEF Ask, Goto, Inv1, LocalTypes, OthersKeep, Stopped, OwnLabels, CheckLabels
  <2> QED BY <2>1 DEF StoppedFrame
<1>5. ASSUME approvals[aid[p]].status = "pending", Decide(p) \/ Refuse(p)
      PROVE  StoppedFrame(p, a, j)
  <2>1. OthersKeep(p) /\ UNCHANGED <<jobs, runs>> /\ pc'[p] \in {"granted", "refused"}
    BY <1>5, GotoMoves DEF Decide, Refuse, TransitionApproval
  <2>2. pc'[p] \notin OwnLabels \cup WaitLabels \cup {"park"}
    BY <2>1 DEF OwnLabels, WaitLabels, CheckLabels, RunLabels
  <2> QED BY <2>1, <2>2 DEF StoppedFrame
<1> QED BY <1>1, <1>2, <1>3, <1>4, <1>5 DEF WritesApproval

LEMMA RunStopped ==
    ASSUME Inv1, NEW p \in Proc, NEW a \in ApprovalId, NEW j \in JobId, Stopped(a, j),
           \/ \E i \in JobId, r \in Requests : Submit(p, i, r)
           \/ \E b \in ApprovalId : Approve(p, b) \/ Reject(p, b)
           \/ Claim(p) \/ ClaimSettled(p) \/ Settle(p) \/ Release(p) \/ Replay(p)
           \/ StartProvider(p) \/ \E d \in Digest \cup {None} : ProviderEnds(p, d)
    PROVE  StoppedFrame(p, a, j)
<1>1. ASSUME NEW i \in JobId, NEW r \in Requests, Submit(p, i, r) PROVE StoppedFrame(p, a, j)
  <2>1. PICK n \in Job : jobs' = [jobs EXCEPT ![i] = n] BY <1>1, SubmittedRow DEF Submit
  <2>2. jobs[i].status = "absent" BY <1>1 DEF Submit, FreshJob
  <2>3. jobs'[j] = jobs[j] BY <2>1, <2>2 DEF Inv1, TablesOK, TableTypes, Stopped, Fresh
  <2>4. OthersKeep(p) /\ UNCHANGED runs /\ pc'[p] = "process"
    BY <1>1 DEF Submit, Goto, Inv1, LocalTypes, OthersKeep
  <2> QED BY <2>3, <2>4, GateLabels DEF StoppedFrame
<1>2. ASSUME NEW b \in ApprovalId, Approve(p, b) \/ Reject(p, b) PROVE StoppedFrame(p, a, j)
  <2>1. OthersKeep(p) /\ UNCHANGED <<jobs, runs>> /\ pc'[p] \in {"decide", "refuse"}
    BY <1>2 DEF Approve, Reject, Goto, store, Inv1, LocalTypes, OthersKeep
  <2>2. pc'[p] \notin OwnLabels \cup WaitLabels \cup {"park"}
    BY <2>1 DEF OwnLabels, WaitLabels, CheckLabels, RunLabels
  <2> QED BY <2>1, <2>2 DEF StoppedFrame
<1>3. ASSUME pc[p] \in RunLabels PROVE jid[p] # j
  BY <1>3, GateLabels DEF Stopped, OwnLabels, RunLabels
<1>4. CASE Settle(p) \/ Replay(p)
  <2>1. OthersKeep(p) /\ UNCHANGED runs /\ pc'[p] = "idle" /\ pc[p] \in RunLabels
    BY <1>4, ReturnFacts DEF Settle, Replay, RunLabels
  <2>2. jobs'[j] = jobs[j]
    BY <1>3, <1>4, <2>1 DEF Settle, Replay, Save, Inv1, TablesOK, TableTypes
  <2> QED BY <2>1, <2>2, GateLabels DEF StoppedFrame
<1>5. CASE Claim(p) \/ ClaimSettled(p) \/ Release(p) \/ StartProvider(p)
           \/ \E d \in Digest \cup {None} : ProviderEnds(p, d)
  <2>1. OthersKeep(p) /\ UNCHANGED <<jobs, jid>> /\ pc[p] \in RunLabels
    BY <1>5 DEF Claim, ClaimSettled, Release, StartProvider, ProviderEnds, Goto, store,
                Inv1, LocalTypes, OthersKeep, RunLabels
  <2>2. runs'[j] = runs[j]
    BY <1>3, <1>5, <2>1 DEF Claim, ClaimSettled, Release, StartProvider, ProviderEnds,
                            Inv1, TablesOK, TableTypes
  <2> QED BY <1>3, <2>1, <2>2 DEF StoppedFrame
<1> QED BY <1>1, <1>2, <1>4, <1>5

(* A block is new only if it is the one a process has just asked for.      *)
LEMMA NewBlocks ==
    ASSUME Inv1, Gates, NEW p \in Proc, WritesApproval(p),
           NEW a \in ApprovalId, NEW j \in JobId, Blocks(a, j)'
    PROVE  Blocks(a, j) \/ (Ask(p, a) /\ jid[p] = j)
<1>1. approvals \in [ApprovalId -> Approval] BY DEF Inv1, TablesOK, TableTypes
<1>2. CASE Link(p)
  <2>1. /\ aid[p] \in ApprovalId /\ apv[p] \in Approval /\ jid[p] \in JobId
        /\ apv[p].status = "approved"
    BY <1>2 DEF Link, Inv1, LocalTypes, LocalOK, HoldsAt, JoblessLabels
  <2> DEFINE n == [apv[p] EXCEPT !.job = jid[p]]
  <2>2. n.status = "approved" BY <2>1, ApprovalUpdate
  <2>3. approvals' = [approvals EXCEPT ![aid[p]] = n] BY <1>2 DEF Link
  <2> HIDE DEF n
  <2> QED BY <1>1, <2>1, <2>2, <2>3 DEF Blocks
<1>3. ASSUME NEW i \in JobId, NEW b \in ApprovalId, Promote(p, i, b) \/ Recover(p, i, b)
      PROVE  Blocks(a, j)
  BY <1>1, <1>3, ConstantsAssumption DEF Promote, Recover, Blocks
<1>4. ASSUME NEW b \in ApprovalId, Ask(p, b) PROVE Blocks(a, j) \/ (Ask(p, a) /\ jid[p] = j)
  <2>1. CASE a = b
    BY <1>1, <1>4, <2>1 DEF Ask, Blocks, AbsentApproval
  <2>2. CASE a # b BY <1>1, <1>4, <2>2 DEF Ask, Blocks
  <2> QED BY <2>1, <2>2
<1>5. CASE approvals[aid[p]].status = "pending" /\ (Decide(p) \/ Refuse(p))
  <2>1. aid[p] \in ApprovalId /\ apv[p] \in Approval /\ apv[p].job = approvals[aid[p]].job
    BY <1>5 DEF Decide, Refuse, Inv1, LocalTypes, LocalOK, HoldsAt, DecidingLabels, Gates, GateOf
  <2>2. PICK s \in {"approved", "rejected"} :
          approvals' = [approvals EXCEPT ![aid[p]] = [apv[p] EXCEPT !.status = s]]
    BY <1>5 DEF Decide, Refuse, TransitionApproval
  <2> DEFINE n == [apv[p] EXCEPT !.status = s]
  <2>3. n.job = apv[p].job BY <2>1, ApprovalUpdate
  <2>4. approvals' = [approvals EXCEPT ![aid[p]] = n] BY <2>2
  <2> HIDE DEF n
  <2> QED BY <1>1, <1>5, <2>1, <2>3, <2>4 DEF Blocks
<1> QED BY <1>2, <1>3, <1>4, <1>5 DEF WritesApproval

(* The job of a new approval is evaluated for the first time, by p only.   *)
LEMMA AskStops ==
    ASSUME Inv1, Inv2, Paths, NEW p \in Proc, NEW a \in ApprovalId, Ask(p, a),
           NEW j \in JobId, j = jid[p]
    PROVE  Stopped(a, j)'
<1>1. /\ pc[p] \in OwnLabels /\ pc[p] \in PreLabels /\ pc[p] \in EarlyLabels
  BY DEF Ask, OwnLabels, PreLabels, CheckLabels, EarlyLabels
<1>2. jobs[j].status \notin Unstarted /\ runs[j] = 0 BY <1>1 DEF Inv2
<1>3. /\ OthersKeep(p) /\ pc'[p] = "park" /\ jid'[p] = j /\ job'[p].approval = a
      /\ UNCHANGED <<jobs, runs>>
  BY DEF Ask, Goto, Inv1, LocalTypes, Job, OthersKeep
<1>4. ASSUME NEW q \in Proc \ {p}, jid[q] = j PROVE pc[q] \notin OwnLabels \cup WaitLabels
  BY <1>1, <1>4 DEF Inv2, Paths
<1>5. ASSUME NEW q \in Proc, jid'[q] = j
      PROVE  /\ pc'[q] \in OwnLabels => pc'[q] = "park"
             /\ pc'[q] \in {"park"} \cup WaitLabels => job'[q].approval = a
  BY <1>3, <1>4, <1>5, GateLabels DEF OthersKeep
<1> QED BY <1>2, <1>3, <1>5 DEF Stopped, Unstarted, Fresh

LEMMA StepBlocked ==
    ASSUME Inv1, Inv2, Gates, Paths, Blocked, NEW p \in Proc, Call(p) \/ Step(p) \/ Stop(p)
    PROVE  Blocked'
<1> SUFFICES ASSUME NEW a \in ApprovalId, NEW j \in JobId, Blocks(a, j)' PROVE Stopped(a, j)'
  BY DEF Blocked
<1>1. Ends(p) \/ Jumps(p) \/ SavesAndEnds(p) \/ SavesAndGoes(p) \/ OtherStep(p) BY StepCases
<1>2. CASE Blocks(a, j)
  <2>1. Stopped(a, j) /\ ~IsApproved(a) BY <1>2 DEF Blocked, Blocks, IsApproved
  <2>2. ASSUME Ends(p) PROVE StoppedFrame(p, a, j)
    <3>1. OthersKeep(p) /\ pc'[p] = "idle" /\ UNCHANGED <<jobs, runs>>
      BY <2>2, ReturnFacts DEF Ends, store
    <3> QED BY <3>1, GateLabels DEF StoppedFrame
  <2>3. ASSUME OtherStep(p) PROVE StoppedFrame(p, a, j)
    BY <2>1, <2>3, ReadsStopped, WritesStopped, RunStopped DEF OtherStep
  <2>4. StoppedFrame(p, a, j) BY <1>1, <2>1, <2>2, <2>3, JumpsStopped, SavesStopped
  <2> QED BY <2>1, <2>4, StaysStopped
<1>3. CASE ~Blocks(a, j)
  <2>1. approvals' # approvals BY <1>3 DEF Blocks
  <2>2. WritesApproval(p)
    <3>1. OtherStep(p)
      BY <1>1, <2>1 DEF Ends, Jumps, JumpsTo, SavesAndEnds, SavesAs, SavesAndGoes, SavesTo, store
    <3>2. ~Reads(p) /\ ~Begins(p)
      BY <2>1 DEF Reads, Turns, GrantedJob, Process, Begins, BeginLinked, store
    <3>3. /\ \A i \in JobId, r \in Requests : ~Submit(p, i, r)
          /\ \A b \in ApprovalId : ~Approve(p, b) /\ ~Reject(p, b)
      BY <2>1 DEF Submit, Approve, Reject, store
    <3>4. /\ ~Claim(p) /\ ~ClaimSettled(p) /\ ~Settle(p) /\ ~Release(p) /\ ~Replay(p)
          /\ ~StartProvider(p) /\ \A d \in Digest \cup {None} : ~ProviderEnds(p, d)
      BY <2>1 DEF Claim, ClaimSettled, Settle, Release, Replay, StartProvider, ProviderEnds, store
    <3> QED BY <3>1, <3>2, <3>3, <3>4 DEF OtherStep
  <2>3. Ask(p, a) /\ jid[p] = j BY <1>3, <2>2, NewBlocks
  <2> QED BY <2>3, AskStops
<1> QED BY <1>2, <1>3

LEMMA NextBlocked == Inv1 /\ Inv2 /\ Gates /\ Paths /\ Blocked /\ [Next]_vars => Blocked'
<1> SUFFICES ASSUME Inv1, Inv2, Gates, Paths, Blocked, [Next]_vars PROVE Blocked'
  OBVIOUS
<1>1. ASSUME UNCHANGED <<jobs, approvals, locals, runs>> PROVE Blocked'
  BY <1>1 DEF Blocked, Blocks, Stopped, locals
<1>2. CASE UNCHANGED vars BY <1>1, <1>2 DEF vars, locals
<1>3. ASSUME NEW j \in JobId, NEW d \in Forged, Tamper(j, d) PROVE Blocked'
  BY <1>1, <1>3 DEF Tamper
<1> QED BY <1>2, <1>3, StepBlocked DEF Next, RefreshFails, Crash

LEMMA SpecGates == Spec => [](Inv1 /\ Inv2 /\ Gates /\ Paths /\ Blocked)
<1> QED BY InitInv1, InitInv2, InitGates, InitPaths, InitBlocked,
           NextInv1, NextInv2, NextGates, NextPaths, NextBlocked, PTL DEF Spec

(* The gate holds on both sides of the decision: a job whose policy gave   *)
(* reasons runs only under an approved approval, and a job whose approval  *)
(* was rejected never starts its provider, whichever of park, approve and  *)
(* reject lands first and whoever dies on the way.                         *)
THEOREM GateIsKept == Spec => []GateHolds
<1>1. Inv1 /\ Gates => GatedRunIsApproved
  <2> SUFFICES ASSUME Gates, NEW p \in Proc, pc[p] \in RunLabels, job[p].gated
               PROVE  IsApproved(job[p].approval)
    BY ConstantsAssumption DEF GatedRunIsApproved, IsApproved
  <2> QED BY DEF Gates, GateOf
<1>2. Inv1 /\ Blocked => RejectedGateNeverRuns
  <2> SUFFICES ASSUME Inv1, Blocked, NEW a \in ApprovalId,
                      approvals[a].status = "rejected", approvals[a].job # None
               PROVE  runs[approvals[a].job] = 0
    BY DEF RejectedGateNeverRuns
  <2>1. approvals[a].job \in JobId BY DEF Inv1, TablesOK, TableTypes, Approval
  <2> QED BY <2>1 DEF Blocked, Blocks, Stopped
<1> QED BY <1>1, <1>2, SpecGates, PTL DEF GateHolds

-----------------------------------------------------------------------------
(* Without shared jobs, one process at a time works on a job, except that  *)
(* whoever decides on its approval may overtake the process that parks it. *)
Task(q) ==
    IF pc[q] \in {"granted", "refused"} /\ apv[q].purpose = "gate" THEN apv[q].job
    ELSE IF pc[q] \notin JoblessLabels THEN jid[q] ELSE None

VerdictLabels == {"granted", "refused", "process", "reject"}

Pair(l, m) == (l = "park" /\ m \in VerdictLabels) \/ (m = "park" /\ l \in VerdictLabels)

Solo == \A p, q \in Proc : p # q /\ Task(p) # None /\ Task(p) = Task(q) => Pair(pc[p], pc[q])

(* The row of a job while a process is at label l with it.                 *)
Undecided == {"checking_dependencies", "waiting_for_approval"}

Expected(l) ==
    IF l \in NewLabels THEN {"absent"}
    ELSE IF l = "check" THEN {"queued"}
    ELSE IF l \in WaitLabels THEN {"waiting_for_approval"}
    ELSE IF l \in {"granted", "refused", "reject"} THEN Undecided
    ELSE IF l = "park" THEN {"checking_dependencies", "rejected"}
    ELSE IF l \in CheckLabels THEN {"checking_dependencies"}
    ELSE IF l = "fail" THEN {"checking_dependencies", "running"}
    ELSE IF l = "settle" THEN {"completed"}
    ELSE IF l \in RunLabels THEN {"running"}
    ELSE JobStatus

Stages == \A q \in Proc : Task(q) # None => jobs[Task(q)].status \in Expected(pc[q])

(* A job under a pending approval.                                         *)
Pending(a) == approvals[a].status = "pending" /\ approvals[a].job # None

Awaited(a) ==
    /\ jobs[approvals[a].job].status \in Undecided
    /\ \A q \in Proc : Task(q) = approvals[a].job => pc[q] = "park"
    /\ \A b \in ApprovalId \ {a} : Pending(b) => approvals[b].job # approvals[a].job

Tasks == Solo /\ Stages /\ \A a \in ApprovalId : Pending(a) => Awaited(a)

LEMMA InitTasks == Init => Tasks
BY DEF Init, Tasks, Solo, Stages, Task, JoblessLabels, Pending, AbsentApproval

LEMMA TaskFacts ==
    ASSUME Inv1, NEW q \in Proc
    PROVE  /\ Task(q) \in JobId \cup {None}
           /\ pc[q] \notin JoblessLabels => Task(q) = jid[q] /\ jid[q] \in JobId
           /\ pc[q] \in {"idle", "decide", "refuse"} => Task(q) = None
BY ConstantsAssumption DEF Inv1, LocalOK, HoldsAt, DecidingLabels, JoblessLabels, GateOfJob, Task

LEMMA PendingJob ==
    ASSUME Inv1, NEW a \in ApprovalId, Pending(a)
    PROVE  approvals[a].job \in JobId /\ jobs[approvals[a].job].status # "absent"
BY DEF Inv1, TablesOK, GateOfJob, Pending

PendingsKept ==
    \A a \in ApprovalId : Pending(a)' => Pending(a) /\ approvals'[a].job = approvals[a].job

LEMMA TasksFrame ==
    ASSUME Inv1, Tasks, NEW p \in Proc, OthersKeep(p), PendingsKept, NEW i \in JobId \cup {None},
           \A j \in JobId \ {i} : jobs'[j].status = jobs[j].status,
           \A q \in Proc \ {p} : i # None /\ Task(q) = i => jobs'[i].status \in Expected(pc[q]),
           \A a \in ApprovalId : Pending(a)' /\ i # None /\ approvals[a].job = i =>
               jobs'[i].status \in Undecided,
           Task(p)' # None =>
               /\ jobs'[Task(p)'].status \in Expected(pc'[p])
               /\ \A q \in Proc \ {p} : Task(q) = Task(p)' => Pair(pc'[p], pc[q])
               /\ \A a \in ApprovalId : Pending(a)' /\ approvals[a].job = Task(p)' => pc'[p] = "park"
    PROVE  Tasks'
<1>1. \A q \in Proc \ {p} : Task(q)' = Task(q) /\ pc'[q] = pc[q] BY DEF OthersKeep, Task
<1>2. ASSUME NEW q \in Proc, NEW r \in Proc, q # r, Task(q)' # None, Task(q)' = Task(r)'
      PROVE  Pair(pc'[q], pc'[r])
  BY <1>1, <1>2 DEF Tasks, Solo, Pair
<1>3. ASSUME NEW q \in Proc, Task(q)' # None
      PROVE  jobs'[Task(q)'].status \in Expected(pc'[q])
  <2>1. CASE q = p BY <1>3, <2>1
  <2>2. CASE q # p
    <3>1. Task(q) \in JobId /\ jobs[Task(q)].status \in Expected(pc[q])
      BY <1>1, <1>3, <2>2, TaskFacts DEF Tasks, Stages
    <3> QED BY <1>1, <2>2, <3>1, ConstantsAssumption
  <2> QED BY <2>1, <2>2
<1>4. ASSUME NEW a \in ApprovalId, Pending(a)'
      PROVE  Awaited(a)'
  <2>1. /\ Pending(a) /\ approvals'[a].job = approvals[a].job
        /\ approvals[a].job \in JobId /\ Awaited(a)
    BY <1>4, PendingJob DEF PendingsKept, Tasks
  <2>2. jobs'[approvals'[a].job].status \in Undecided
    BY <1>4, <2>1, ConstantsAssumption DEF Awaited
  <2>3. ASSUME NEW q \in Proc, Task(q)' = approvals'[a].job PROVE pc'[q] = "park"
    BY <1>1, <1>4, <2>1, <2>3, ConstantsAssumption DEF Awaited
  <2>4. ASSUME NEW b \in ApprovalId \ {a}, Pending(b)' PROVE approvals'[b].job # approvals'[a].job
    BY <2>1, <2>4 DEF Awaited, PendingsKept
  <2> QED BY <2>2, <2>3, <2>4 DEF Awaited
<1>5. Solo' BY <1>2 DEF Solo
<1>6. Stages' BY <1>3 DEF Stages
<1> QED BY <1>4, <1>5, <1>6 DEF Tasks

(* No approval changes.                                                    *)
LEMMA SamePendings ==
    ASSUME UNCHANGED approvals
    PROVE  PendingsKept
BY DEF PendingsKept, Pending

(* A process that works on its job and waits for nobody is alone with it.  *)
LEMMA Alone ==
    ASSUME Inv1, Tasks, NEW p \in Proc, pc[p] \notin JoblessLabels \cup {"park"} \cup VerdictLabels
    PROVE  /\ \A q \in Proc \ {p} : Task(q) # jid[p]
           /\ \A a \in ApprovalId : Pending(a) => approvals[a].job # jid[p]
           /\ jobs[jid[p]].status \in Expected(pc[p])
<1>1. Task(p) = jid[p] /\ jid[p] \in JobId /\ Task(p) # None BY TaskFacts, ConstantsAssumption
<1>2. \A q \in Proc \ {p} : Task(q) # jid[p] BY <1>1 DEF Tasks, Solo, Pair
<1>3. \A a \in ApprovalId : Pending(a) => approvals[a].job # jid[p] BY <1>1 DEF Tasks, Awaited
<1> QED BY <1>1, <1>2, <1>3 DEF Tasks, Stages

LEMMA AloneStep ==
    ASSUME Inv1, Tasks, NEW p \in Proc, OthersKeep(p), PendingsKept,
           pc[p] \notin JoblessLabels \cup {"park"} \cup VerdictLabels,
           \A j \in JobId \ {jid[p]} : jobs'[j].status = jobs[j].status,
           \/ Task(p)' = None
           \/ Task(p)' = jid[p] /\ jobs'[jid[p]].status \in Expected(pc'[p])
    PROVE  Tasks'
<1>1. jid[p] \in JobId BY TaskFacts
<1>2. /\ \A q \in Proc \ {p} : Task(q) # jid[p]
      /\ \A a \in ApprovalId : Pending(a)' => approvals[a].job # jid[p]
  BY Alone DEF PendingsKept
<1> QED BY <1>1, <1>2, TasksFrame

(* A step that ends in a label without a job, or never had one.            *)
LEMMA IdleStep ==
    ASSUME Inv1, Tasks, NEW p \in Proc, OthersKeep(p), PendingsKept,
           \A j \in JobId : jobs'[j].status = jobs[j].status, Task(p)' = None
    PROVE  Tasks'
BY TasksFrame

LEMMA WorkLabels ==
    /\ NewLabels \cap (JoblessLabels \cup {"park"} \cup VerdictLabels) = {}
    /\ (WaitLabels \cup {"check", "fail"}) \cap (JoblessLabels \cup {"park"} \cup VerdictLabels) = {}
    /\ RunLabels \cap (JoblessLabels \cup {"park"} \cup VerdictLabels) = {}
    /\ (CheckLabels \ {"park"}) \cap (JoblessLabels \cup {"park"} \cup VerdictLabels) = {}
BY DEF NewLabels, JoblessLabels, VerdictLabels, WaitLabels, RunLabels, CheckLabels

LEMMA JumpsTasks ==
    ASSUME Inv1, Tasks, NEW p \in Proc, Jumps(p)
    PROVE  Tasks'
<1>1. PICK l : /\ JumpsTo(p, l) /\ l \notin JoblessLabels
               /\ pc[p] \notin JoblessLabels \cup {"park"} \cup VerdictLabels
               /\ Expected(pc[p]) \subseteq Expected(l)
  BY DEF Jumps, JoblessLabels, VerdictLabels, Expected, NewLabels, WaitLabels, CheckLabels, RunLabels
<1>2. OthersKeep(p) /\ pc'[p] = l /\ jid'[p] = jid[p] /\ UNCHANGED <<jobs, approvals>>
  BY <1>1, GotoMoves DEF JumpsTo, store
<1>3. Task(p)' = jid[p] BY <1>1, <1>2 DEF Task, JoblessLabels
<1>4. jobs[jid[p]].status \in Expected(l) BY <1>1, Alone
<1> QED BY <1>1, <1>2, <1>3, <1>4, SamePendings, AloneStep

LEMMA ParkTasks ==
    ASSUME Inv1, Tasks, NEW p \in Proc, pc[p] = "park", SavesAs(p, "waiting_for_approval")
    PROVE  Tasks'
<1>1. OthersKeep(p) /\ pc'[p] = "idle" /\ UNCHANGED approvals BY ReturnFacts DEF SavesAs
<1>2. "waiting_for_approval" \in JobStatus /\ pc[p] \notin JoblessLabels
  BY DEF JobStatus, JoblessLabels
<1>3. /\ jid[p] \in JobId /\ jobs'[jid[p]].status = "waiting_for_approval"
      /\ \A j \in JobId \ {jid[p]} : jobs'[j] = jobs[j]
  BY <1>2, SaveFacts DEF SavesAs
<1>4. ASSUME NEW q \in Proc \ {p}, Task(q) = jid[p]
      PROVE  jobs'[jid[p]].status \in Expected(pc[q])
  <2>1. Task(p) = jid[p] /\ jid[p] # None BY <1>2, TaskFacts, ConstantsAssumption
  <2>2. pc[q] \in VerdictLabels BY <1>4, <2>1 DEF Tasks, Solo, Pair, VerdictLabels
  <2> QED BY <1>2, <1>3, <2>2 DEF VerdictLabels, Expected, Undecided, NewLabels, WaitLabels,
                                   CheckLabels, RunLabels
<1>5. Task(p)' = None BY <1>1 DEF Task, JoblessLabels
<1> QED BY <1>1, <1>3, <1>4, <1>5, SamePendings, TasksFrame DEF Undecided

LEMMA RejectTasks ==
    ASSUME Inv1, Tasks, NEW p \in Proc, pc[p] = "reject", SavesAs(p, "rejected")
    PROVE  Tasks'
<1>1. OthersKeep(p) /\ pc'[p] = "idle" /\ UNCHANGED approvals BY ReturnFacts DEF SavesAs
<1>2. "rejected" \in JobStatus /\ pc[p] \notin JoblessLabels BY DEF JobStatus, JoblessLabels
<1>3. /\ jid[p] \in JobId /\ jobs'[jid[p]].status = "rejected"
      /\ \A j \in JobId \ {jid[p]} : jobs'[j] = jobs[j]
  BY <1>2, SaveFacts DEF SavesAs
<1>4. Task(p) = jid[p] /\ jid[p] # None BY <1>2, TaskFacts, ConstantsAssumption
<1>5. ASSUME NEW q \in Proc \ {p}, Task(q) = jid[p]
      PROVE  jobs'[jid[p]].status \in Expected(pc[q])
  <2>1. pc[q] = "park" BY <1>4, <1>5 DEF Tasks, Solo, Pair
  <2> QED BY <1>3, <2>1 DEF Expected, NewLabels, WaitLabels
<1>6. \A a \in ApprovalId : Pending(a)' => approvals[a].job # jid[p]
  BY <1>1, <1>4 DEF Tasks, Awaited, Pending
<1>7. Task(p)' = None BY <1>1 DEF Task, JoblessLabels
<1> QED BY <1>1, <1>3, <1>5, <1>6, <1>7, SamePendings, TasksFrame

LEMMA SavesAndEndsTasks ==
    ASSUME Inv1, Tasks, NEW p \in Proc, SavesAndEnds(p)
    PROVE  Tasks'
<1>1. CASE pc[p] \notin {"park", "reject"}
  <2>1. PICK s \in {"failed", "waiting_for_dependency", "completed"} :
          SavesAs(p, s) /\ pc[p] \notin JoblessLabels \cup {"park"} \cup VerdictLabels
    BY <1>1 DEF SavesAndEnds, JoblessLabels, VerdictLabels
  <2>2. OthersKeep(p) /\ pc'[p] = "idle" /\ UNCHANGED approvals BY <2>1, ReturnFacts DEF SavesAs
  <2>3. s \in JobStatus BY DEF JobStatus
  <2>4. \A j \in JobId \ {jid[p]} : jobs'[j] = jobs[j] BY <2>1, <2>3, SaveFacts DEF SavesAs
  <2>5. Task(p)' = None BY <2>2 DEF Task, JoblessLabels
  <2> QED BY <2>1, <2>2, <2>4, <2>5, SamePendings, AloneStep
<1>2. CASE pc[p] = "park" BY <1>2, ParkTasks DEF SavesAndEnds
<1>3. CASE pc[p] = "reject" BY <1>3, RejectTasks DEF SavesAndEnds
<1> QED BY <1>1, <1>2, <1>3

LEMMA SavesAndGoesTasks ==
    ASSUME Inv1, Tasks, NEW p \in Proc, SavesAndGoes(p)
    PROVE  Tasks'
<1>1. PICK s, l :
        /\ SavesTo(p, s, l) /\ s \in JobStatus /\ s \in Expected(l) /\ l \notin JoblessLabels
        /\ pc[p] \notin JoblessLabels \cup {"park"} \cup VerdictLabels
  <2>1. AfterRunning(p) \in {"claim", "start"} BY DEF AfterRunning
  <2> QED BY <2>1 DEF SavesAndGoes, JobStatus, Expected, JoblessLabels, VerdictLabels, NewLabels,
                      WaitLabels, CheckLabels, RunLabels
<1>2. OthersKeep(p) /\ pc'[p] = l /\ jid'[p] = jid[p] /\ UNCHANGED approvals
  BY <1>1, GotoMoves DEF SavesTo
<1>3. jobs'[jid[p]].status = s /\ \A j \in JobId \ {jid[p]} : jobs'[j] = jobs[j]
  BY <1>1, SaveFacts DEF SavesTo
<1>4. Task(p)' = jid[p] BY <1>1, <1>2 DEF Task, JoblessLabels
<1> QED BY <1>1, <1>2, <1>3, <1>4, SamePendings, AloneStep

LEMMA ReadsTasks ==
    ASSUME Inv1, Tasks, Shared = {}, NEW p \in Proc, Reads(p)
    PROVE  Tasks'
<1>1. PICK l, i : Turns(p, i, l) /\ OthersKeep(p) /\ l \in {"check", "approved", "reject", "process"}
        /\ \/ pc[p] = "process" /\ i = jid[p] /\ jobs[i].status = "queued" /\ l = "check"
           \/ pc[p] = "process" /\ i = jid[p] /\ jobs[i].status = "waiting_for_approval" /\ l = "approved"
           \/ pc[p] \in {"granted", "refused"} /\ apv[p].job # None /\ i = apv[p].job
                 /\ l \in {"reject", "process"}
  <2>1. pc[p] = "granted" /\ apv[p].purpose = "gate" => apv[p].job # None
    BY ConstantsAssumption DEF Inv1, LocalOK, HoldsAt, DecidingLabels, GateOfJob
  <2> QED BY <2>1 DEF Reads, Turns, GrantedJob, Process, OthersKeep, Inv1, LocalTypes, Goto
<1>2. pc'[p] = l /\ jid'[p] = i /\ UNCHANGED <<jobs, approvals>>
  BY <1>1 DEF Turns, Goto, store, Inv1, LocalTypes
<1>3. Task(p)' = i BY <1>1, <1>2 DEF Task, JoblessLabels
<1>4. Task(p) = i /\ i \in JobId /\ i # None
  BY <1>1, TaskFacts, ConstantsAssumption DEF JoblessLabels, Task, Inv1, LocalOK, HoldsAt, DecidingLabels, GateOfJob
<1>5. \A a \in ApprovalId : Pending(a) => approvals[a].job # i
  BY <1>1, <1>4 DEF Tasks, Awaited
<1>6. \A q \in Proc \ {p} : Task(q) = i => pc[q] = "park"
  BY <1>1, <1>4 DEF Tasks, Solo, Pair, VerdictLabels
<1>7. CASE l \in {"check", "approved"}
  <2>1. \A q \in Proc \ {p} : Task(q) # i
    BY <1>1, <1>4, <1>6, <1>7 DEF Tasks, Stages, Expected, NewLabels, WaitLabels
  <2>2. jobs[i].status \in Expected(l) BY <1>1, <1>7 DEF Expected, NewLabels, WaitLabels
  <2> QED BY <1>1, <1>2, <1>3, <1>5, <2>1, <2>2, SamePendings, TasksFrame DEF Pending
<1>8. CASE l \in {"reject", "process"}
  <2>1. jobs[i].status \in Expected(l)
    <3>1. pc[p] \in {"granted", "refused"} BY <1>1, <1>8
    <3>2. jobs[i].status \in Undecided
      BY <1>4, <3>1 DEF Tasks, Stages, Expected, NewLabels, WaitLabels
    <3> QED BY <1>8, <3>2 DEF Expected, Undecided, NewLabels, WaitLabels, CheckLabels, RunLabels, JobStatus
  <2>2. l \in VerdictLabels BY <1>8 DEF VerdictLabels
  <2>3. \A q \in Proc \ {p} : Task(q) = i => Pair(l, pc[q]) BY <1>6, <2>2 DEF Pair
  <2> QED BY <1>1, <1>2, <1>3, <1>5, <2>1, <2>3, SamePendings, TasksFrame DEF Pending
<1> QED BY <1>1, <1>7, <1>8

(* Nobody works on a fresh job.                                            *)
LEMMA FreshTask ==
    ASSUME Inv1, Tasks, NEW j \in JobId, FreshJob(j)
    PROVE  /\ \A q \in Proc : Task(q) # j
           /\ \A a \in ApprovalId : approvals[a].job # j
<1>1. ASSUME NEW q \in Proc, Task(q) = j PROVE FALSE
  <2>1. pc[q] \in {"granted", "refused"} BY <1>1, ConstantsAssumption DEF FreshJob, Task
  <2>2. jobs[j].status \in Undecided
    BY <1>1, <2>1, ConstantsAssumption DEF Tasks, Stages, Expected, NewLabels, WaitLabels
  <2> QED BY <2>2 DEF FreshJob, Undecided
<1> QED BY <1>1 DEF FreshJob

LEMMA BeginsTasks ==
    ASSUME Inv1, Tasks, NEW p \in Proc, Begins(p)
    PROVE  Tasks'
<1>1. PICK j \in JobId :
        /\ OthersKeep(p) /\ UNCHANGED <<jobs, approvals>> /\ pc'[p] = "link" /\ jid'[p] = j
        /\ FreshJob(j)
  <2>1. PICK a \in ApprovalId, j \in JobId, kind \in {"plain", "dry_run", "live", "recovery"},
             key \in Key \cup {None}, gated \in BOOLEAN : BeginLinked(p, a, j, kind, key, gated)
    BY DEF Begins
  <2>2. FreshJob(j) BY <2>1 DEF BeginLinked
  <2> QED BY <2>1, <2>2, BeginFacts
<1>2. Task(p)' = j BY <1>1 DEF Task, JoblessLabels
<1>3. jobs[j].status \in Expected("link") BY <1>1 DEF FreshJob, Expected, NewLabels
<1> QED BY <1>1, <1>2, <1>3, FreshTask, SamePendings, TasksFrame

LEMMA SubmitTasks ==
    ASSUME Inv1, Tasks, NEW p \in Proc, NEW j \in JobId, NEW r \in Requests, Submit(p, j, r)
    PROVE  Tasks'
<1>1. PICK n \in Job : jobs' = [jobs EXCEPT ![j] = n] BY SubmittedRow DEF Submit
<1>2. jobs'[j] = n /\ \A i \in JobId \ {j} : jobs'[i] = jobs[i]
  BY <1>1 DEF Inv1, TablesOK, TableTypes
<1>3. OthersKeep(p) /\ pc'[p] = "process" /\ jid'[p] = j /\ UNCHANGED approvals /\ FreshJob(j)
  BY DEF Submit, Goto, Inv1, LocalTypes, OthersKeep
<1>4. Task(p)' = j BY <1>3 DEF Task, JoblessLabels
<1>5. jobs'[j].status \in Expected("process")
  BY <1>2 DEF Expected, NewLabels, WaitLabels, CheckLabels, RunLabels, Job
<1> QED BY <1>2, <1>3, <1>4, <1>5, FreshTask, SamePendings, TasksFrame

LEMMA AskTasks ==
    ASSUME Inv1, Tasks, NEW p \in Proc, NEW a \in ApprovalId, Ask(p, a)
    PROVE  Tasks'
<1> DEFINE i == jid[p]
<1>1. /\ OthersKeep(p) /\ pc'[p] = "park" /\ jid'[p] = i /\ UNCHANGED jobs /\ pc[p] = "ask"
      /\ approvals'[a].job = i /\ \A b \in ApprovalId \ {a} : approvals'[b] = approvals[b]
  BY DEF Ask, Goto, Inv1, LocalTypes, TablesOK, TableTypes, OthersKeep, AbsentApproval
<1>2. pc[p] \notin JoblessLabels \cup {"park"} \cup VerdictLabels
  BY <1>1 DEF JoblessLabels, VerdictLabels
<1>3. /\ \A q \in Proc \ {p} : Task(q) # i
      /\ \A b \in ApprovalId : Pending(b) => approvals[b].job # i
      /\ jobs[i].status \in Expected(pc[p])
  BY <1>2, Alone
<1>4. jobs[i].status = "checking_dependencies"
  BY <1>1, <1>3 DEF Expected, NewLabels, WaitLabels, CheckLabels
<1>5. Task(p)' = i /\ \A q \in Proc \ {p} : Task(q)' = Task(q) /\ pc'[q] = pc[q]
  BY <1>1 DEF Task, JoblessLabels, OthersKeep
<1>6. Solo' BY <1>3, <1>5 DEF Tasks, Solo
<1>7. ASSUME NEW q \in Proc, Task(q)' # None PROVE jobs'[Task(q)'].status \in Expected(pc'[q])
  <2>1. CASE q = p BY <1>1, <1>4, <1>5, <2>1 DEF Expected, NewLabels, WaitLabels
  <2>2. CASE q # p BY <1>1, <1>5, <1>7, <2>2 DEF Tasks, Stages
  <2> QED BY <2>1, <2>2
<1>8. ASSUME NEW b \in ApprovalId, Pending(b)' PROVE Awaited(b)'
  <2>1. ASSUME NEW c \in ApprovalId \ {a} PROVE (Pending(c)' <=> Pending(c)) /\ approvals'[c].job = approvals[c].job
    BY <1>1, <2>1 DEF Pending
  <2>2. CASE b = a
    <3>1. jobs'[i].status \in Undecided BY <1>1, <1>4 DEF Undecided
    <3>2. \A q \in Proc : Task(q)' = i => pc'[q] = "park" BY <1>1, <1>3, <1>5
    <3>3. \A c \in ApprovalId \ {a} : Pending(c)' => approvals'[c].job # i BY <1>3, <2>1
    <3> QED BY <1>1, <2>2, <3>1, <3>2, <3>3 DEF Awaited
  <2>3. CASE b # a
    <3>1. Pending(b) /\ approvals'[b].job = approvals[b].job /\ Awaited(b) /\ approvals[b].job # i
      BY <1>3, <1>8, <2>1, <2>3 DEF Tasks
    <3>2. jobs'[approvals[b].job].status \in Undecided BY <1>1, <3>1 DEF Awaited
    <3>3. \A q \in Proc : Task(q)' = approvals[b].job => pc'[q] = "park"
      BY <1>5, <3>1 DEF Awaited
    <3>4. \A c \in ApprovalId \ {b} : Pending(c)' => approvals'[c].job # approvals[b].job
      BY <1>1, <2>1, <3>1 DEF Awaited
    <3> QED BY <3>1, <3>2, <3>3, <3>4 DEF Awaited
  <2> QED BY <2>2, <2>3
<1> QED BY <1>6, <1>7, <1>8 DEF Tasks, Stages

LEMMA VerdictTasks ==
    ASSUME Inv1, Gates, Tasks, NEW p \in Proc, approvals[aid[p]].status = "pending",
           Decide(p) \/ Refuse(p)
    PROVE  Tasks'
<1>1. /\ aid[p] \in ApprovalId /\ apv[p] \in Approval /\ apv[p].job = approvals[aid[p]].job
      /\ GateOfJob(apv[p])
  BY DEF Decide, Refuse, Inv1, LocalTypes, LocalOK, HoldsAt, DecidingLabels, Gates, GateOf
<1>2. PICK s \in {"approved", "rejected"} :
        approvals' = [approvals EXCEPT ![aid[p]] = [apv[p] EXCEPT !.status = s]]
  BY DEF Decide, Refuse, TransitionApproval
<1>3. [apv[p] EXCEPT !.status = s].status = s BY <1>1, ApprovalUpdate
<1>4. approvals'[aid[p]].status # "pending"
      /\ \A b \in ApprovalId \ {aid[p]} : approvals'[b] = approvals[b]
  BY <1>1, <1>2, <1>3 DEF Inv1, TablesOK, TableTypes
<1>5. PendingsKept BY <1>4 DEF PendingsKept, Pending
<1>6. /\ OthersKeep(p) /\ UNCHANGED jobs /\ pc'[p] \in {"granted", "refused"}
      /\ apv'[p] = apv[p]
  BY GotoMoves DEF Decide, Refuse, TransitionApproval
<1>7. CASE apv[p].purpose = "gate"
  <2>1. Task(p)' = apv[p].job BY <1>6, <1>7 DEF Task
  <2>2. apv[p].job \in JobId /\ apv[p].job # None BY <1>1, <1>7, ConstantsAssumption DEF GateOfJob
  <2>3. Pending(aid[p]) /\ Awaited(aid[p]) BY <1>1, <2>2 DEF Pending, Tasks
  <2>4. jobs'[apv[p].job].status \in Expected(pc'[p])
    BY <1>1, <1>6, <2>3 DEF Awaited, Expected, NewLabels, WaitLabels
  <2>5. \A q \in Proc \ {p} : Task(q) = apv[p].job => Pair(pc'[p], pc[q])
    BY <1>1, <1>6, <2>3 DEF Awaited, Pair, VerdictLabels
  <2>6. \A b \in ApprovalId : Pending(b)' => approvals[b].job # apv[p].job
    BY <1>1, <1>4, <1>5, <2>3 DEF Awaited, PendingsKept, Pending
  <2> QED BY <1>5, <1>6, <2>1, <2>4, <2>5, <2>6, TasksFrame
<1>8. CASE apv[p].purpose # "gate"
  <2>1. Task(p)' = None BY <1>6, <1>8 DEF Task, JoblessLabels
  <2> QED BY <1>5, <1>6, <2>1, IdleStep
<1> QED BY <1>7, <1>8

LEMMA WritesApprovalTasks ==
    ASSUME Inv1, Gates, Tasks, NEW p \in Proc, WritesApproval(p)
    PROVE  Tasks'
<1>1. ASSUME Link(p) PROVE Tasks'
  <2>1. PendingsKept
    <3>1. /\ aid[p] \in ApprovalId /\ apv[p] \in Approval /\ jid[p] \in JobId
          /\ apv[p].status = "approved"
      BY <1>1 DEF Link, Inv1, LocalTypes, LocalOK, HoldsAt, JoblessLabels
    <3>2. [apv[p] EXCEPT !.job = jid[p]].status = "approved" BY <3>1, ApprovalUpdate
    <3>3. approvals'[aid[p]].status = "approved"
          /\ \A b \in ApprovalId \ {aid[p]} : approvals'[b] = approvals[b]
      BY <1>1, <3>1, <3>2 DEF Link, Inv1, TablesOK, TableTypes
    <3> QED BY <3>1, <3>3 DEF PendingsKept, Pending
  <2>2. OthersKeep(p) /\ UNCHANGED jobs /\ pc'[p] = "save" /\ jid'[p] = jid[p] /\ pc[p] = "link"
    BY <1>1, GotoMoves DEF Link
  <2>3. pc[p] \notin JoblessLabels \cup {"park"} \cup VerdictLabels
    BY <2>2 DEF JoblessLabels, VerdictLabels
  <2>4. Task(p)' = jid[p] BY <2>2 DEF Task, JoblessLabels
  <2>5. jobs[jid[p]].status \in Expected("save") BY <2>2, <2>3, Alone DEF Expected, NewLabels
  <2> QED BY <2>1, <2>2, <2>3, <2>4, <2>5, AloneStep
<1>2. ASSUME NEW i \in JobId, NEW b \in ApprovalId, Promote(p, i, b) \/ Recover(p, i, b)
      PROVE  Tasks'
  <2>1. UNCHANGED <<locals, jobs>> /\ pc[p] = "idle" BY <1>2 DEF Promote, Recover
  <2>2. PendingsKept
    BY <1>2 DEF Promote, Recover, PendingsKept, Pending, Inv1, TablesOK, TableTypes
  <2>3. OthersKeep(p) /\ Task(p)' = None BY <2>1 DEF OthersKeep, locals, Task, JoblessLabels
  <2> QED BY <2>1, <2>2, <2>3, IdleStep
<1> QED BY <1>1, <1>2, AskTasks, VerdictTasks DEF WritesApproval

LEMMA RunTasks ==
    ASSUME Inv1, Tasks, NEW p \in Proc,
           \/ \E a \in ApprovalId : Approve(p, a) \/ Reject(p, a)
           \/ Claim(p) \/ ClaimSettled(p) \/ Settle(p) \/ Release(p) \/ Replay(p)
           \/ StartProvider(p) \/ \E d \in Digest \cup {None} : ProviderEnds(p, d)
    PROVE  Tasks'
<1>1. ASSUME NEW a \in ApprovalId, Approve(p, a) \/ Reject(p, a) PROVE Tasks'
  <2>1. OthersKeep(p) /\ UNCHANGED <<jobs, approvals>> /\ pc'[p] \in {"decide", "refuse"}
    BY <1>1 DEF Approve, Reject, Goto, store, Inv1, LocalTypes, OthersKeep
  <2>2. Task(p)' = None BY <2>1 DEF Task, JoblessLabels
  <2> QED BY <2>1, <2>2, SamePendings, IdleStep
<1>2. CASE Settle(p)
  <2>1. OthersKeep(p) /\ UNCHANGED <<jobs, approvals>> /\ pc'[p] = "idle"
    BY <1>2, ReturnFacts DEF Settle
  <2>2. Task(p)' = None BY <2>1 DEF Task, JoblessLabels
  <2> QED BY <2>1, <2>2, SamePendings, IdleStep
<1>3. CASE Replay(p)
  <2>1. OthersKeep(p) /\ UNCHANGED approvals /\ pc'[p] = "idle" /\ pc[p] \in RunLabels
    BY <1>3, ReturnFacts DEF Replay, RunLabels
  <2>2. Task(p)' = None BY <2>1 DEF Task, JoblessLabels
  <2>3. \A j \in JobId \ {jid[p]} : jobs'[j] = jobs[j]
    BY <1>3 DEF Replay, Save, Inv1, TablesOK, TableTypes
  <2> QED BY <2>1, <2>2, <2>3, WorkLabels, SamePendings, AloneStep
<1>4. CASE Claim(p) \/ ClaimSettled(p) \/ Release(p) \/ StartProvider(p)
           \/ \E d \in Digest \cup {None} : ProviderEnds(p, d)
  <2>1. /\ OthersKeep(p) /\ UNCHANGED <<jobs, approvals, jid>>
        /\ pc[p] \in {"claim", "release", "start", "provider"}
        /\ pc'[p] \in {"start", "replay", "fail", "provider", "complete"}
    BY <1>4 DEF Claim, ClaimSettled, Release, StartProvider, ProviderEnds, Goto, store,
                Inv1, LocalTypes, OthersKeep
  <2>2. pc[p] \in RunLabels /\ pc[p] # "settle" BY <2>1 DEF RunLabels
  <2>3. Task(p)' = jid[p] BY <2>1 DEF Task, JoblessLabels
  <2>4. jobs[jid[p]].status \in Expected(pc[p]) BY <2>2, WorkLabels, Alone
  <2>5. Expected(pc[p]) \subseteq Expected(pc'[p])
    BY <2>1 DEF Expected, NewLabels, WaitLabels, CheckLabels, RunLabels
  <2> QED BY <2>1, <2>2, <2>3, <2>4, <2>5, WorkLabels, SamePendings, AloneStep
<1> QED BY <1>1, <1>2, <1>3, <1>4

LEMMA NextTasks == Shared = {} /\ Inv1 /\ Gates /\ Tasks /\ [Next]_vars => Tasks'
<1> SUFFICES ASSUME Shared = {}, Inv1, Gates, Tasks, [Next]_vars PROVE Tasks'
  OBVIOUS
<1>1. ASSUME UNCHANGED <<jobs, approvals, locals>> PROVE Tasks'
  BY <1>1 DEF Tasks, Solo, Stages, Task, Pending, Awaited, locals
<1>2. CASE UNCHANGED vars BY <1>1, <1>2 DEF vars, locals
<1>3. ASSUME NEW p \in Proc, Call(p) \/ Step(p) \/ Stop(p) PROVE Tasks'
  <2>1. Ends(p) \/ Jumps(p) \/ SavesAndEnds(p) \/ SavesAndGoes(p) \/ OtherStep(p)
    BY <1>3, StepCases
  <2>2. CASE Ends(p)
    <3>1. OthersKeep(p) /\ pc'[p] = "idle" /\ UNCHANGED <<jobs, approvals>>
      BY <2>2, ReturnFacts DEF Ends, store
    <3>2. Task(p)' = None BY <3>1 DEF Task, JoblessLabels
    <3> QED BY <3>1, <3>2, SamePendings, IdleStep
  <2>3. CASE OtherStep(p)
    BY <2>3, ReadsTasks, BeginsTasks, WritesApprovalTasks, SubmitTasks, RunTasks DEF OtherStep
  <2> QED BY <2>1, <2>2, <2>3, JumpsTasks, SavesAndEndsTasks, SavesAndGoesTasks
<1>4. ASSUME NEW j \in JobId, NEW d \in Forged, Tamper(j, d) PROVE Tasks'
  BY <1>1, <1>4 DEF Tamper
<1> QED BY <1>2, <1>3, <1>4 DEF Next, RefreshFails, Crash

-----------------------------------------------------------------------------
(* Outcomes.  A process saves only where Expected says that the job has no *)
(* outcome yet, and starts a provider only for a running job.              *)
Final == {"completed", "failed", "waiting_for_dependency"}

Kept ==
    /\ \A j \in JobId : jobs[j].status \in Final => jobs'[j] = jobs[j]
    /\ \A j \in JobId : jobs[j].status = "completed" => runs'[j] = runs[j]

LEMMA AtWork ==
    ASSUME Inv1, Tasks, NEW p \in Proc, pc[p] \notin JoblessLabels,
           pc[p] \in {"save", "reject", "check", "fail"} \cup WaitLabels \cup CheckLabels
                     \cup (RunLabels \ {"settle"})
    PROVE  jid[p] \in JobId /\ jobs[jid[p]].status \notin Final
<1>1. jid[p] \in JobId /\ jobs[jid[p]].status \in Expected(pc[p])
  BY TaskFacts, ConstantsAssumption DEF Tasks, Stages
<1> QED BY <1>1 DEF Expected, Final, Undecided, NewLabels, WaitLabels, CheckLabels, RunLabels

LEMMA SavesKeep ==
    ASSUME Inv1, Tasks, NEW p \in Proc, SavesAndEnds(p) \/ SavesAndGoes(p)
    PROVE  Kept
<1>1. PICK s : /\ Save(p, s) /\ UNCHANGED runs /\ pc[p] \notin JoblessLabels
               /\ pc[p] \in {"save", "reject", "check", "fail"} \cup WaitLabels \cup CheckLabels
                            \cup (RunLabels \ {"settle"})
  BY DEF SavesAndEnds, SavesAs, SavesAndGoes, SavesTo, JoblessLabels, WaitLabels, CheckLabels, RunLabels
<1>2. \A j \in JobId \ {jid[p]} : jobs'[j] = jobs[j]
  BY <1>1 DEF Save, Inv1, TablesOK, TableTypes
<1> QED BY <1>1, <1>2, AtWork DEF Kept

LEMMA StepKept ==
    ASSUME Inv1, Tasks, NEW p \in Proc, Call(p) \/ Step(p) \/ Stop(p)
    PROVE  Kept
<1>1. Ends(p) \/ Jumps(p) \/ SavesAndEnds(p) \/ SavesAndGoes(p) \/ OtherStep(p) BY StepCases
<1>2. ASSUME UNCHANGED <<jobs, runs>> PROVE Kept BY <1>2 DEF Kept
<1>3. CASE Ends(p) \/ Jumps(p)
  BY <1>2, <1>3 DEF Ends, Jumps, JumpsTo, store
<1>4. CASE OtherStep(p)
  <2>1. ASSUME NEW j \in JobId, NEW r \in Requests, Submit(p, j, r) PROVE Kept
    <3>1. jobs[j].status = "absent" /\ UNCHANGED runs BY <2>1 DEF Submit, FreshJob
    <3>2. \A i \in JobId \ {j} : jobs'[i] = jobs[i]
      BY <2>1 DEF Submit, Inv1, TablesOK, TableTypes
    <3> QED BY <3>1, <3>2 DEF Kept, Final
  <2>2. CASE Replay(p)
    <3>1. jid[p] \in JobId /\ jobs[jid[p]].status \notin Final
      BY <2>2, AtWork DEF Replay, JoblessLabels, RunLabels
    <3>2. UNCHANGED runs /\ \A j \in JobId \ {jid[p]} : jobs'[j] = jobs[j]
      BY <2>2 DEF Replay, Save, Inv1, TablesOK, TableTypes
    <3> QED BY <3>1, <3>2 DEF Kept
  <2>3. CASE StartProvider(p)
    <3>1. jid[p] \in JobId /\ jobs[jid[p]].status \notin Final
      BY <2>3, AtWork DEF StartProvider, JoblessLabels, RunLabels
    <3>2. UNCHANGED jobs /\ \A j \in JobId \ {jid[p]} : runs'[j] = runs[j]
      BY <2>3 DEF StartProvider, store, Inv1, TablesOK, TableTypes
    <3> QED BY <3>1, <3>2 DEF Kept, Final
  <2>4. CASE Reads(p) \/ Begins(p) \/ WritesApproval(p)
             \/ \E a \in ApprovalId : Approve(p, a) \/ Reject(p, a)
    BY <1>2, <2>4 DEF Reads, Turns, GrantedJob, Process, Begins, BeginLinked, WritesApproval, Link,
                      Promote, Recover, Ask, Decide, Refuse, Approve, Reject, store
  <2>5. CASE Claim(p) \/ ClaimSettled(p) \/ Settle(p) \/ Release(p)
             \/ \E d \in Digest \cup {None} : ProviderEnds(p, d)
    BY <1>2, <2>5 DEF Claim, ClaimSettled, Settle, Release, ProviderEnds, store
  <2> QED BY <1>4, <2>1, <2>2, <2>3, <2>4, <2>5 DEF OtherStep
<1> QED BY <1>1, <1>3, <1>4, SavesKeep

LEMMA NextKept == Inv1 /\ Tasks /\ [Next]_vars => Kept
<1> SUFFICES ASSUME Inv1, Tasks, [Next]_vars PROVE Kept
  OBVIOUS
<1>1. CASE UNCHANGED vars BY <1>1 DEF vars, Kept
<1>2. ASSUME NEW j \in JobId, NEW d \in Forged, Tamper(j, d) PROVE Kept
  BY <1>2 DEF Tamper, Kept
<1> QED BY <1>1, <1>2, StepKept DEF Next, RefreshFails, Crash

LEMMA SpecTasks == Shared = {} /\ Spec => [](Inv1 /\ Inv2 /\ Inv3 /\ Gates /\ Tasks)
<1>1. Shared = {} /\ Inv1 /\ Gates /\ Tasks /\ [Next]_vars => Tasks' BY NextTasks
<1>2. CASE Shared = {}
  <2>1. Inv1 /\ Gates /\ Tasks /\ [Next]_vars => Tasks' BY <1>1, <1>2
  <2> QED BY <2>1, InitInv1, InitInv2, InitInv3, InitGates, InitTasks,
             NextInv1, NextInv2, NextInv3, NextGates, PTL DEF Spec
<1>3. CASE Shared # {} BY <1>3
<1> QED BY <1>2, <1>3

(* A finished job keeps its outcome.  The unconditional saves of _fail, of *)
(* the parking steps, of Complete and of reject are harmless because each  *)
(* happens while the job is with that process and has no outcome: only the *)
(* one who decides on an approval may overtake a process, and only the one *)
(* that is about to park.  Where anybody may process a job, this fails.    *)
THEOREM OutcomesAreFinal == Shared = {} /\ Spec => OutcomeIsFinal
<1>1. Kept => \A j \in JobId : jobs[j].status \in {"completed", "failed", "waiting_for_dependency"} =>
                   jobs'[j] = jobs[j]
  BY DEF Kept, Final
<1> QED BY <1>1, SpecTasks, NextKept, PTL DEF OutcomeIsFinal, Spec

-----------------------------------------------------------------------------
(* Reviews.  A live job carries the approved promotion of a completed dry  *)
(* run of its inputs, and a replay refers to the run that settled the key. *)
Reviewed(r) ==
    LET ap == approvals[r.approval] IN
    /\ r.approval \in ApprovalId
    /\ ap.status = "approved" /\ ap.purpose = "promotion"
    /\ ap.src = r.src /\ ap.digest = r.digest
    /\ r.src \in JobId
    /\ jobs[r.src].kind = "dry_run" /\ jobs[r.src].status = "completed"
    /\ jobs[r.src].key = r.key

Original(o, key, digest) ==
    /\ o \in JobId /\ jobs[o].status = "completed" /\ jobs[o].replay = None
    /\ jobs[o].key = key /\ jobs[o].digest = digest /\ runs[o] = 1

RowReviewed(j) ==
    /\ jobs[j].kind = "live" => Reviewed(jobs[j])
    /\ jobs[j].replay # None =>
         /\ jobs[j].status = "completed" /\ runs[j] = 0
         /\ Original(jobs[j].replay, jobs[j].key, jobs[j].digest)

CopyReviewed(p) ==
    /\ job[p].kind = "live" => Reviewed(job[p])
    /\ pc[p] = "ask" => job[p].approval = None
    /\ job[p].replay # None => pc[p] = "replay"
    /\ pc[p] = "replay" => Original(job[p].replay, job[p].key, job[p].digest)

KeyReviewed(k) == idem[k].status = "completed" => Original(idem[k].job, k, idem[k].digest)

Reviews ==
    /\ \A j \in JobId : RowReviewed(j)
    /\ \A p \in Proc : CopyReviewed(p)
    /\ \A k \in Key : KeyReviewed(k)

LEMMA InitReviews == Init => Reviews
BY DEF Init, Reviews, RowReviewed, CopyReviewed, KeyReviewed, AbsentJob, AbsentRecord

(* What was reviewed, and what ran, stays so.                              *)
Stable ==
    /\ \A r : Reviewed(r) => Reviewed(r)'
    /\ \A o, k, d : Original(o, k, d) => Original(o, k, d)'

LEMMA KeptIsStable ==
    ASSUME Inv1, Kept, ApprovalsPersist
    PROVE  Stable
<1>1. ASSUME NEW r, Reviewed(r) PROVE Reviewed(r)'
  <2>1. jobs'[r.src] = jobs[r.src] BY <1>1 DEF Reviewed, Kept, Final
  <2>2. /\ approvals'[r.approval].status = "approved"
        /\ SameSubject(approvals[r.approval], approvals'[r.approval])
    BY <1>1 DEF Reviewed, ApprovalsPersist, IsCopy
  <2> QED BY <1>1, <2>1, <2>2 DEF Reviewed, SameSubject
<1>2. ASSUME NEW o, NEW k, NEW d, Original(o, k, d) PROVE Original(o, k, d)'
  BY <1>2 DEF Original, Kept, Final
<1> QED BY <1>1, <1>2 DEF Stable

LEMMA ReviewsFrame ==
    ASSUME Inv1, Reviews, Kept, Stable, NEW p \in Proc, OthersKeep(p),
           \A j \in JobId : jobs'[j] = jobs[j] \/ RowReviewed(j)',
           \A k \in Key : idem'[k] = idem[k] \/ KeyReviewed(k)',
           CopyReviewed(p)'
    PROVE  Reviews'
<1>1. ASSUME NEW j \in JobId PROVE RowReviewed(j)'
  <2>1. CASE jobs'[j] = jobs[j]
    <3>1. jobs[j].kind = "live" => Reviewed(jobs[j])'
      BY <2>1 DEF Reviews, RowReviewed, Stable
    <3>2. jobs[j].replay # None => Original(jobs[j].replay, jobs[j].key, jobs[j].digest)'
      BY <2>1 DEF Reviews, RowReviewed, Stable
    <3>3. jobs[j].replay # None => jobs'[j].status = "completed" /\ runs'[j] = 0
      BY <2>1 DEF Reviews, RowReviewed, Kept
    <3> QED BY <2>1, <3>1, <3>2, <3>3 DEF RowReviewed
  <2> QED BY <1>1, <2>1
<1>2. ASSUME NEW q \in Proc PROVE CopyReviewed(q)'
  <2>1. CASE q # p
    <3>1. pc'[q] = pc[q] /\ job'[q] = job[q] BY <2>1 DEF OthersKeep
    <3>2. CopyReviewed(q) BY DEF Reviews
    <3>3. PICK r : r = job[q] OBVIOUS
    <3>4. job[q].kind = "live" => Reviewed(r)' BY <3>2, <3>3 DEF CopyReviewed, Stable
    <3>5. pc[q] = "replay" => Original(r.replay, r.key, r.digest)'
      BY <3>2, <3>3 DEF CopyReviewed, Stable
    <3> QED BY <3>1, <3>2, <3>3, <3>4, <3>5 DEF CopyReviewed
  <2> QED BY <2>1
<1>3. ASSUME NEW k \in Key PROVE KeyReviewed(k)'
  <2>1. CASE idem'[k] = idem[k]
    <3>1. PICK r : r = idem[k] OBVIOUS
    <3>2. r.status = "completed" => Original(r.job, k, r.digest)'
      BY <3>1 DEF Reviews, KeyReviewed, Stable
    <3> QED BY <2>1, <3>1, <3>2 DEF KeyReviewed
  <2> QED BY <1>3, <2>1
<1> QED BY <1>1, <1>2, <1>3 DEF Reviews

(* Two rows that agree on what a review is about.                          *)
LEMMA ReviewedAlike ==
    ASSUME NEW x, NEW y, SameJob(x, y), x.approval = y.approval
    PROVE  Reviewed(x)' <=> Reviewed(y)'
BY DEF SameJob, Reviewed

(* A process saves its copy; none but a replay carries a replay.           *)
LEMMA SavedReviewed ==
    ASSUME Inv1, Reviews, Stable, NEW p \in Proc, pc[p] \notin JoblessLabels, pc[p] # "replay",
           NEW s \in JobStatus, Save(p, s)
    PROVE  \A j \in JobId : jobs'[j] = jobs[j] \/ RowReviewed(j)'
<1>1. /\ jid[p] \in JobId /\ \A j \in JobId \ {jid[p]} : jobs'[j] = jobs[j]
      /\ SameJob(jobs'[jid[p]], job[p]) /\ jobs'[jid[p]].approval = job[p].approval
      /\ jobs'[jid[p]].replay = job[p].replay
  BY SaveFacts
<1>2. PICK i, x, y : i = jid[p] /\ x = jobs'[jid[p]] /\ y = job[p] OBVIOUS
<1>3. CopyReviewed(p) BY DEF Reviews
<1>4. y.kind = "live" => Reviewed(y)' BY <1>2, <1>3 DEF CopyReviewed, Stable
<1>5. x.kind = "live" => Reviewed(x)' BY <1>1, <1>2, <1>4, ReviewedAlike DEF SameJob
<1>6. jobs'[i].kind = "live" => Reviewed(jobs[i])' BY <1>2, <1>5
<1>7. jobs'[i].replay = None BY <1>1, <1>2, <1>3 DEF CopyReviewed
<1>8. RowReviewed(i)' BY <1>6, <1>7 DEF RowReviewed
<1> QED BY <1>1, <1>2, <1>8

LEMMA IdleCopy ==
    ASSUME NEW p \in Proc, pc'[p] = "idle", job'[p] = AbsentJob
    PROVE  CopyReviewed(p)'
BY DEF CopyReviewed, AbsentJob

(* The process goes elsewhere with the copy it has.                        *)
LEMMA SameCopy ==
    ASSUME Reviews, Stable, NEW p \in Proc, job'[p] = job[p], pc[p] # "replay",
           pc'[p] # "replay", pc'[p] = "ask" => job[p].approval = None
    PROVE  CopyReviewed(p)'
<1>1. PICK r : r = job[p] OBVIOUS
<1>2. r.kind = "live" => Reviewed(r)' BY <1>1 DEF Reviews, CopyReviewed, Stable
<1> QED BY <1>1, <1>2 DEF Reviews, CopyReviewed

LEMMA SavesReviews ==
    ASSUME Inv1, Reviews, Kept, Stable, NEW p \in Proc, SavesAndEnds(p) \/ SavesAndGoes(p)
    PROVE  Reviews'
<1>1. PICK s \in JobStatus : /\ Save(p, s) /\ pc[p] \notin JoblessLabels /\ pc[p] # "replay"
                             /\ UNCHANGED idem
  BY DEF SavesAndEnds, SavesAs, SavesAndGoes, SavesTo, JoblessLabels, JobStatus
<1>2. \A j \in JobId : jobs'[j] = jobs[j] \/ RowReviewed(j)' BY <1>1, SavedReviewed
<1>3. CASE SavesAndEnds(p)
  <2>1. OthersKeep(p) /\ CopyReviewed(p)'
    BY <1>3, ReturnFacts, IdleCopy DEF SavesAndEnds, SavesAs
  <2> QED BY <1>1, <1>2, <2>1, ReviewsFrame
<1>4. CASE SavesAndGoes(p)
  <2>1. AfterRunning(p) \in {"claim", "start"} BY DEF AfterRunning
  <2>2. OthersKeep(p) /\ job' = job /\ pc'[p] \in {"claim", "start", "dependencies", "settle", "process"}
    BY <1>4, <2>1, GotoMoves DEF SavesAndGoes, SavesTo
  <2> QED BY <1>1, <1>2, <2>2, SameCopy, ReviewsFrame
<1> QED BY <1>3, <1>4

LEMMA JumpsReviews ==
    ASSUME Inv1, Reviews, Kept, Stable, NEW p \in Proc, Jumps(p)
    PROVE  Reviews'
<1>1. PICK l : /\ JumpsTo(p, l) /\ pc[p] # "replay" /\ l # "replay"
               /\ l = "ask" => job[p].approval = None
  BY DEF Jumps
<1>2. OthersKeep(p) /\ pc'[p] = l /\ job' = job /\ UNCHANGED <<jobs, idem>>
  BY <1>1, GotoMoves DEF JumpsTo, store
<1> QED BY <1>1, <1>2, SameCopy, ReviewsFrame

(* A row that is read is not a replay, because it has no outcome yet.      *)
LEMMA ReadsReviews ==
    ASSUME Inv1, Tasks, Reviews, Kept, Stable, NEW p \in Proc, Reads(p)
    PROVE  Reviews'
<1>1. OthersKeep(p) /\ UNCHANGED <<jobs, idem>> /\ pc[p] # "replay"
      /\ pc'[p] \in {"check", "approved", "reject", "process"}
  BY DEF Reads, Turns, GrantedJob, Process, OthersKeep, Inv1, LocalTypes, Goto, store
<1>2. CASE job'[p] = job[p] BY <1>1, <1>2, SameCopy, ReviewsFrame
<1>3. ASSUME NEW i \in JobId, job'[p] = jobs[i], jobs[i].status # "completed" PROVE Reviews'
  <2>1. PICK r : r = jobs[i] OBVIOUS
  <2>2. r.kind = "live" => Reviewed(r)' BY <2>1 DEF Reviews, RowReviewed, Stable
  <2>3. r.replay = None BY <1>3, <2>1 DEF Reviews, RowReviewed
  <2>4. CopyReviewed(p)' BY <1>1, <1>3, <2>1, <2>2, <2>3 DEF CopyReviewed
  <2> QED BY <1>1, <2>4, ReviewsFrame
<1>4. CASE pc[p] = "process" /\ jobs[jid[p]].status \in {"queued", "waiting_for_approval"}
           /\ job' = [job EXCEPT ![p] = jobs[jid[p]]]
  <2>1. jid[p] \in JobId BY <1>4, TaskFacts DEF JoblessLabels
  <2> QED BY <1>3, <1>4, <2>1 DEF Inv1, LocalTypes
<1>5. CASE pc[p] = "refused" /\ apv[p].job # None /\ job' = [job EXCEPT ![p] = jobs[apv[p].job]]
  <2>1. Task(p) = apv[p].job /\ apv[p].job \in JobId
    BY <1>5 DEF Inv1, LocalOK, HoldsAt, DecidingLabels, GateOfJob, Task
  <2>2. jobs[apv[p].job].status \in Undecided
    BY <1>5, <2>1 DEF Tasks, Stages, Expected, NewLabels, WaitLabels
  <2> QED BY <1>3, <1>5, <2>1, <2>2 DEF Inv1, LocalTypes, Undecided
<1>6. GrantedJob(p) \/ (\E j \in JobId : Process(p, j)) => job' = job BY DEF GrantedJob, Process
<1> QED BY <1>2, <1>4, <1>5, <1>6 DEF Reads

LEMMA BeginsReviews ==
    ASSUME Inv1, Reviews, Kept, Stable, NEW p \in Proc, Begins(p)
    PROVE  Reviews'
<1>1. PICK a \in ApprovalId, j \in JobId, kind \in {"plain", "dry_run", "live", "recovery"},
           key \in Key \cup {None}, gated \in BOOLEAN : BeginLinked(p, a, j, kind, key, gated)
  BY DEF Begins
<1>2. /\ OthersKeep(p) /\ UNCHANGED <<jobs, approvals, idem>> /\ pc'[p] = "link"
      /\ job'[p].kind = kind /\ job'[p].key = key /\ job'[p].approval = a /\ job'[p].replay = None
      /\ kind = "live" => job'[p].src = approvals[a].src /\ job'[p].digest = approvals[a].digest
      /\ approvals[a].status = "approved"
      /\ kind = "live" => ValidPromotion(approvals[a], key)
  BY <1>1, BeginFacts
<1>3. kind = "live" => approvals[a].src \in JobId
  BY <1>2 DEF ValidPromotion, Inv1, TablesOK, SourcedApproval
<1>4. job'[p].kind = "live" => Reviewed(job[p])'
  BY <1>2, <1>3 DEF ValidPromotion, Reviewed
<1>5. CopyReviewed(p)' BY <1>2, <1>4 DEF CopyReviewed
<1> QED BY <1>2, <1>5, ReviewsFrame

LEMMA AskReviews ==
    ASSUME Inv1, Reviews, Kept, Stable, NEW p \in Proc, NEW a \in ApprovalId, Ask(p, a)
    PROVE  Reviews'
<1>1. job[p] \in Job /\ CopyReviewed(p) BY DEF Inv1, LocalTypes, Reviews
<1> DEFINE n == [job[p] EXCEPT !.approval = a]
<1>2. n.kind = job[p].kind /\ n.replay = job[p].replay BY <1>1 DEF Job
<1>3. job' = [job EXCEPT ![p] = n] BY DEF Ask
<1> HIDE DEF n
<1>4. /\ OthersKeep(p) /\ UNCHANGED <<jobs, idem>> /\ pc'[p] = "park" /\ pc[p] = "ask"
      /\ job'[p] = n
  BY <1>3 DEF Ask, Goto, Inv1, LocalTypes, OthersKeep
<1>5. job[p].kind # "live" BY <1>1, <1>4, ConstantsAssumption DEF CopyReviewed, Reviewed
<1>6. CopyReviewed(p)' BY <1>1, <1>2, <1>4, <1>5 DEF CopyReviewed
<1> QED BY <1>4, <1>6, ReviewsFrame

LEMMA WritesApprovalReviews ==
    ASSUME Inv1, Reviews, Kept, Stable, NEW p \in Proc, WritesApproval(p)
    PROVE  Reviews'
<1>1. CASE Link(p)
  <2>1. OthersKeep(p) /\ UNCHANGED <<jobs, idem, job>> /\ pc'[p] = "save" /\ pc[p] = "link"
    BY <1>1, GotoMoves DEF Link
  <2> QED BY <2>1, SameCopy, ReviewsFrame
<1>2. ASSUME NEW j \in JobId, NEW a \in ApprovalId, Promote(p, j, a) \/ Recover(p, j, a)
      PROVE  Reviews'
  <2>1. UNCHANGED <<locals, jobs, idem>> /\ pc[p] = "idle" BY <1>2 DEF Promote, Recover
  <2>2. OthersKeep(p) /\ pc' = pc /\ job' = job BY <2>1 DEF OthersKeep, locals
  <2> QED BY <2>1, <2>2, SameCopy, ReviewsFrame
<1>3. CASE approvals[aid[p]].status = "pending" /\ (Decide(p) \/ Refuse(p))
  <2>1. OthersKeep(p) /\ UNCHANGED <<jobs, idem, job>> /\ pc'[p] \in {"granted", "refused"}
        /\ pc[p] \in {"decide", "refuse"}
    BY <1>3, GotoMoves DEF Decide, Refuse, TransitionApproval
  <2> QED BY <2>1, SameCopy, ReviewsFrame
<1> QED BY <1>1, <1>2, <1>3, AskReviews DEF WritesApproval

LEMMA SubmitReviews ==
    ASSUME Inv1, Reviews, Kept, Stable, NEW p \in Proc, NEW j \in JobId, NEW r \in Requests,
           Submit(p, j, r)
    PROVE  Reviews'
<1> DEFINE n == [AbsentJob EXCEPT !.status = "queued", !.kind = r.kind, !.key = r.key, !.gated = r.gated]
<1>1. n.kind # "live" /\ n.replay = None BY DEF Submit, AbsentJob
<1>2. jobs' = [jobs EXCEPT ![j] = n] BY DEF Submit
<1> HIDE DEF n
<1>3. jobs'[j] = n /\ \A i \in JobId \ {j} : jobs'[i] = jobs[i]
  BY <1>2 DEF Inv1, TablesOK, TableTypes
<1>4. RowReviewed(j)' BY <1>1, <1>3 DEF RowReviewed
<1>5. OthersKeep(p) /\ UNCHANGED <<idem, job>> /\ pc'[p] = "process" /\ pc[p] = "idle"
  BY DEF Submit, Goto, Inv1, LocalTypes, OthersKeep
<1>6. CopyReviewed(p)' BY <1>5, SameCopy
<1> QED BY <1>3, <1>4, <1>5, <1>6, ReviewsFrame

(* The key is settled by a run of its change set ...                       *)
LEMMA SettleReviews ==
    ASSUME Inv1, Inv3, Tasks, Reviews, Kept, Stable, NEW p \in Proc, Settle(p)
    PROVE  Reviews'
<1>1. /\ pc[p] = "settle" /\ SetIdempotency(p, "completed") /\ Return(p) /\ UNCHANGED <<jobs, runs>>
  BY DEF Settle
<1>2. /\ jid[p] \in JobId /\ job[p].kind = "live" /\ job[p].key \in Key
  BY <1>1 DEF Inv1, LocalOK, HoldsAt, JoblessLabels, KeyedJob
<1>3. SameJob(job[p], jobs[jid[p]]) /\ runs[jid[p]] = 1
  BY <1>1 DEF Inv3, Local3, CopyLabels, StartedLabels, OwnLabels, RunLabels
<1>4. jobs[jid[p]].status = "completed"
  <2>1. Task(p) = jid[p] /\ Task(p) # None BY <1>1, TaskFacts, ConstantsAssumption DEF JoblessLabels
  <2> QED BY <1>1, <2>1 DEF Tasks, Stages, Expected, NewLabels, WaitLabels, CheckLabels
<1>5. jobs[jid[p]].replay = None BY <1>2, <1>3 DEF Reviews, RowReviewed
<1>6. Original(jid[p], job[p].key, job[p].digest)
  BY <1>2, <1>3, <1>4, <1>5 DEF Original, SameJob
<1>7. TypeOK BY TypesAreTypeOK DEF Inv1, TablesOK
<1>8. /\ \A k \in Key : k # job[p].key => idem'[k] = idem[k]
      /\ idem'[job[p].key] = [status |-> "completed", job |-> jid[p], digest |-> job[p].digest]
  BY <1>1, <1>2, <1>7, SetIdempotencyEffect
<1>9. PICK o, k, d : o = jid[p] /\ k = job[p].key /\ d = job[p].digest OBVIOUS
<1>10. Original(o, k, d)' BY <1>6, <1>9 DEF Stable
<1>11. KeyReviewed(k)' BY <1>8, <1>9, <1>10 DEF KeyReviewed
<1>12. OthersKeep(p) /\ CopyReviewed(p)' BY <1>1, ReturnFacts, IdleCopy
<1> QED BY <1>1, <1>8, <1>9, <1>11, <1>12, ReviewsFrame

(* ... and a replay takes over what it says.                               *)
LEMMA ClaimSettledReviews ==
    ASSUME Inv1, Reviews, Kept, Stable, NEW p \in Proc, ClaimSettled(p)
    PROVE  Reviews'
<1>1. job[p] \in Job /\ CopyReviewed(p) /\ pc[p] = "claim"
  BY DEF ClaimSettled, Inv1, LocalTypes, Reviews
<1>2. job[p].kind = "live" /\ job[p].key \in Key BY <1>1 DEF Inv1, LocalOK, HoldsAt, KeyedJob
<1> DEFINE n == [job[p] EXCEPT !.replay = idem[job[p].key].job]
<1>3. /\ SameJob(n, job[p]) /\ n.approval = job[p].approval /\ n.replay = idem[job[p].key].job
  BY <1>1 DEF Job, SameJob
<1>4. job' = [job EXCEPT ![p] = n] BY DEF ClaimSettled
<1> HIDE DEF n
<1>5. /\ OthersKeep(p) /\ UNCHANGED <<jobs, idem>> /\ pc'[p] = "replay" /\ job'[p] = n
  BY <1>4 DEF ClaimSettled, Goto, store, Inv1, LocalTypes, OthersKeep
<1>6. Original(n.replay, n.key, n.digest)
  BY <1>2, <1>3 DEF ClaimSettled, IsReplay, Reviews, KeyReviewed, SameJob
<1>7. PICK x, y : x = n /\ y = job[p] OBVIOUS
<1>8. Original(x.replay, x.key, x.digest)' BY <1>6, <1>7 DEF Stable
<1>9. Reviewed(y)' BY <1>1, <1>2, <1>7 DEF CopyReviewed, Stable
<1>10. Reviewed(x)' BY <1>3, <1>7, <1>9, ReviewedAlike
<1>11. CopyReviewed(p)' BY <1>5, <1>7, <1>8, <1>10 DEF CopyReviewed
<1> QED BY <1>5, <1>11, ReviewsFrame

LEMMA ReplayReviews ==
    ASSUME Inv1, Inv2, Reviews, Kept, Stable, NEW p \in Proc, Replay(p)
    PROVE  Reviews'
<1>1. /\ pc[p] = "replay" /\ Save(p, "completed") /\ Return(p) /\ UNCHANGED <<idem, runs>>
  BY DEF Replay
<1>2. "completed" \in JobStatus /\ pc[p] \notin JoblessLabels
  BY <1>1 DEF JobStatus, JoblessLabels
<1>3. /\ jid[p] \in JobId /\ \A j \in JobId \ {jid[p]} : jobs'[j] = jobs[j]
      /\ jobs'[jid[p]].status = "completed" /\ SameJob(jobs'[jid[p]], job[p])
      /\ jobs'[jid[p]].approval = job[p].approval /\ jobs'[jid[p]].replay = job[p].replay
  BY <1>1, <1>2, SaveFacts
<1>4. CopyReviewed(p) BY DEF Reviews
<1>5. runs'[jid[p]] = 0 BY <1>1 DEF Inv2, PreLabels
<1>6. PICK i, x, y : i = jid[p] /\ x = jobs'[jid[p]] /\ y = job[p] OBVIOUS
<1>7. Original(y.replay, y.key, y.digest)' /\ (y.kind = "live" => Reviewed(y)')
  BY <1>1, <1>4, <1>6 DEF CopyReviewed, Stable
<1>8. Original(x.replay, x.key, x.digest)' BY <1>3, <1>6, <1>7 DEF SameJob
<1>9. x.kind = "live" => Reviewed(x)' BY <1>3, <1>6, <1>7, ReviewedAlike DEF SameJob
<1>10. jobs'[i] = x BY <1>6
<1>11. RowReviewed(i)' BY <1>3, <1>5, <1>6, <1>8, <1>9, <1>10 DEF RowReviewed
<1>12. OthersKeep(p) /\ CopyReviewed(p)' BY <1>1, ReturnFacts, IdleCopy
<1> QED BY <1>1, <1>3, <1>6, <1>11, <1>12, ReviewsFrame

LEMMA RunReviews ==
    ASSUME Inv1, Reviews, Kept, Stable, NEW p \in Proc,
           \/ \E a \in ApprovalId : Approve(p, a) \/ Reject(p, a)
           \/ Claim(p) \/ Release(p) \/ StartProvider(p)
           \/ \E d \in Digest \cup {None} : ProviderEnds(p, d)
    PROVE  Reviews'
<1>1. /\ OthersKeep(p) /\ UNCHANGED <<jobs, job>> /\ pc[p] # "replay"
      /\ pc'[p] \in {"decide", "refuse", "start", "fail", "provider", "complete"}
  BY DEF Approve, Reject, Claim, Release, StartProvider, ProviderEnds, Goto, store,
         Inv1, LocalTypes, OthersKeep
<1>2. ASSUME NEW k \in Key PROVE idem'[k] = idem[k] \/ idem'[k].status # "completed"
  <2>1. CASE Claim(p) \/ Release(p)
    <3>1. PICK n : \/ idem' = [idem EXCEPT ![job[p].key] = n] /\ n.status # "completed"
                   \/ UNCHANGED idem
      BY <2>1 DEF Claim, Release, SetIdempotency
    <3> QED BY <3>1 DEF Inv1, TablesOK, TableTypes
  <2>2. CASE ~(Claim(p) \/ Release(p))
    BY <2>2 DEF Approve, Reject, StartProvider, ProviderEnds, store
  <2> QED BY <2>1, <2>2
<1>3. \A k \in Key : idem'[k] = idem[k] \/ KeyReviewed(k)' BY <1>2 DEF KeyReviewed
<1> QED BY <1>1, <1>3, SameCopy, ReviewsFrame

LEMMA NextReviews ==
    Inv1 /\ Inv2 /\ Inv3 /\ Tasks /\ Reviews /\ [Next]_vars => Reviews'
<1> SUFFICES ASSUME Inv1, Inv2, Inv3, Tasks, Reviews, [Next]_vars PROVE Reviews'
  OBVIOUS
<1>1. ASSUME UNCHANGED <<jobs, approvals, idem, pc, job, runs>> PROVE Reviews'
  BY <1>1 DEF Reviews, RowReviewed, CopyReviewed, KeyReviewed, Reviewed, Original
<1>2. CASE UNCHANGED vars BY <1>1, <1>2 DEF vars
<1>3. ASSUME NEW j \in JobId, NEW d \in Forged, Tamper(j, d) PROVE Reviews'
  BY <1>1, <1>3 DEF Tamper, locals
<1>4. ASSUME NEW p \in Proc, Call(p) \/ Step(p) \/ Stop(p) PROVE Reviews'
  <2>1. Kept /\ Stable BY NextKept, NextInv1, KeptIsStable DEF Persist
  <2>2. Ends(p) \/ Jumps(p) \/ SavesAndEnds(p) \/ SavesAndGoes(p) \/ OtherStep(p)
    BY <1>4, StepCases
  <2>3. CASE Ends(p)
    <3>1. OthersKeep(p) /\ CopyReviewed(p)' /\ UNCHANGED <<jobs, idem>>
      BY <2>3, ReturnFacts, IdleCopy DEF Ends, store
    <3> QED BY <2>1, <3>1, ReviewsFrame
  <2>4. CASE OtherStep(p)
    BY <2>1, <2>4, ReadsReviews, BeginsReviews, WritesApprovalReviews, SubmitReviews, SettleReviews,
       ClaimSettledReviews, ReplayReviews, RunReviews DEF OtherStep
  <2> QED BY <2>1, <2>2, <2>3, <2>4, JumpsReviews, SavesReviews
<1> QED BY <1>2, <1>3, <1>4 DEF Next, RefreshFails, Crash

(* What a live request comes to.  Every live job carries the approved      *)
(* promotion of a dry run of its own inputs that is completed still, and a *)
(* replayed job points at one job of its key and change set that ran its   *)
(* provider, whoever raced it to the key or died on the way.               *)
THEOREM RequestsAreReviewed == Shared = {} /\ Spec => []LiveRequestsAreReviewed
<1>1. Reviews => LiveRequestsAreReviewed
  BY DEF Reviews, RowReviewed, Reviewed, Original, LiveRequestsAreReviewed, LiveWriteWasReviewed,
         ReplayIsOfCompletedRun
<1> QED BY <1>1, SpecTasks, InitReviews, NextReviews, PTL DEF Spec
=============================================================================
