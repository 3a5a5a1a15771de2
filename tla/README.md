# Canto in TLA+

Canto is a governed local runtime: capabilities ("skills" and their providers)
run as jobs under policy, humans approve what policy gates, writes are reviewed
as dry runs before they go live, plans chain jobs, a memory service keeps
governed facts, and delegated tasks are executed in git worktrees, by CLI tools
or by API models, and promoted after review.  Everything is driven by short-lived
CLI processes and by the threads and background tasks of a FastAPI server over
one state store, usually SQLite.  Each store call is one transaction; a service
method makes several, so its steps interleave with those of others and may stop
half way.

These modules model that: **one store call is one step, and everything a method
computes between two of them is local to the process**, including the copies of
rows it read.  That a store call is one step is not assumed: `StateStores` has
the calls of all three stores in detail and checks it.

## Inventory

| Part | State | Operations | What is hard |
| --- | --- | --- | --- |
| Job service (`core/jobs.py`) | jobs, approvals, idempotency records, artifact directories | create_job, process_job, approve, reject, promote, recover | two processes on one job; approval visible before the job is parked; whole stale rows written back; retries of a live write; death between two calls |
| Orchestration (`core/orchestration.py`) | plans with step states and jobs | create, approve, refresh, prepare, execute | stale plans saved on read paths; two executions of one plan; a step that fails half way |
| Memory (`core/memory.py`) | items, projects, events, approvals | propose, request and decide approval, activate, supersede, expire, purge, link, retention | limits counted outside the transaction; an item and its approval in two rows; a sweep over a list that ages |
| Delegated tasks (`core/delegation*.py`) | tasks, results, reviews, promotions, queue; worktrees; artifact directories | assign, prepare, launch, capture, review, promote, enqueue | status compare-and-set on a row read just before; directory as a lock; partial git application |
| AI workers (`core/ai_*.py`) | endpoints, model catalog, probes, health, usage, launches | discover, refresh, probe, forget, select, launch | minutes between reading a record and writing it back; fallback after a partial failure; policy in layers |
| Local registry (`core/local_registry.py`, `core/registry.py`, `core/capability_package.py`) | index file, package directories, the server's copy | pack, install, remove, verify, export, scaffold, refresh | two writes without a lock or a journal; a refresh that reads three things in turn |
| State store (`core/state.py`) | tables of everything | get, set, list, delete, transition, claim, append | three implementations of one protocol; WATCH and retry; a schema migration that is killed |
| Migration (`core/state_migration.py`) | the target store | migrate | a repetition after a kill, beside a running service |
| Policy, dependencies, runner, artifacts, credentials, manifests, repository context | none of their own | pure decisions, subprocess and file I/O | inputs of the models |

What makes each correct: a job's provider starts once, never ungated, and its
outcome stays; an approval is decided once; an idempotency key is written under
by one live job at a time and settled once; every live write descends from an
approved dry run.  For plans: no gated step runs without its approval, steps run
in order and an execution ends.  For memory: an item is active only by a
decision made while it was proposed, and does not come back.  For delegated
tasks: only reviewed work reaches the canonical repository, and what was promoted
stays.  For workers: evidence belongs to the version it was gathered for, the
cloud is used only when every layer allows it, spending is recorded once.  For
the registry: index and directories agree, and the server follows them.  For the
stores: every call is atomic, whichever store it is.

## Plan

| | Modules | Status |
| --- | --- | --- |
| 1 | `Jobs`, implementing `WriteLedger`; `JobsProofs` | checked, proved |
| 2 | `Delegation`, implementing `ReviewedWork`; `WorkerSelection` and `Promotion`, which extend it; `DelegationProofs` | checked, proved |
| 3 | `Plans`, over what `Jobs` promises; `PlansProofs` | checked, proved |
| 4 | `Memory`, implementing `GovernedMemory`; `MemoryProofs` | checked, proved |
| 5 | `CapabilityRegistry` and `CapabilityPackage`, put together in `Capabilities`; `CapabilityRegistryProofs` | checked and proved |
| 6 | `ModelCatalog` and `WorkerLaunch`, which extends it; `WorkerLaunchProofs` | checked, proved |
| 7 | `StateStores` out of `RedisStore`, `SqliteStore`, `ThreadStore`, implementing `AtomicStore`; `StateStoresProofs` | checked, proved |
| 8 | `StateMigration`; `StateMigrationProofs` | checked, proved |

## Jobs

`Jobs.tla` models `JobService`.  `jobs`, `approvals` and `idem` are the tables;
`artifact[j]` stands for the digest of what job `j` left on disk; `pc[p]` is
where process `p` is in a service method, `jid`/`job` and `aid`/`apv` are the
identifiers it works on and its copies of their rows.  `runs` is a history
variable counting provider starts.

| Actions | Code |
| --- | --- |
| `Submit`; `SubmitLinked`, `Link`, `SaveJob` | `create_job`, without and with an approval |
| `Process`, `ReadJob`, `ReadApproval`, `Resume`, `Check` | the entry of `process_job` |
| `DependenciesFail`, `WaitForDependency`, `EvaluatePolicy`, `ReadLinked`, `Ask`, `Park`, `Run` | dependencies, policy and the approval gate |
| `Claim`, `ClaimSettled`, `ClaimRefused`, `Replay` | the idempotency claim of a live write |
| `SetupFails`, `PreWriteFails`, `StartProvider`, `ProviderFails`, `ProviderEnds`, `Complete`, `Settle`, `Release`, `Fail` | the run and its outcome |
| `Promote`, `Recover` | requests for an approval bound to a snapshot |
| `Approve`, `Decide`, `GrantedJob`, `GrantedLive`, `GrantedStale` | `approve` |
| `Reject`, `Refuse`, `ReadRejected`, `RejectJob` | `reject` |
| `RefreshFails` | `_refresh_registry` raises: at the start of `process_job`, in `create_job`, or where the provider is looked up |
| `Crash`, `Tamper` | a process dies; artifacts change on disk |

`Process` is a call of `process_job` for a job that exists.  In `src/canto` only
the creator of a job and the approver of its gate process it, but
`tests/test_jobs.py:349` has two threads process one job, so `Shared` says for
which jobs anybody may: all of them in `jobs_gate`, where the compare-and-sets of
`process_job` are what is at stake, and none in the other runs.  `OutcomeIsFinal`
needs the narrower reading: with `Shared` jobs, a process that read a job as
queued and then finds its provider unregistered would fail it (`jobs.py:481`)
although another process has completed it.  `OutcomesAreFinal` and
`RequestsAreReviewed` assume `Shared = {}`; the other theorems hold for any `Shared`.

Inputs, checksums and provenance are not spelled out: an idempotency key stands
for the inputs of a write request and a digest for everything a snapshot
fingerprints.  Policy and dependencies are inputs (`gated`, and a free choice of
outcome).  Identifiers are fresh, as random ones are.

| Run | Instance | Shows |
| --- | --- | --- |
| `jobs_gate` | 3 mortal processes that process every job, 2 jobs, 2 approvals, no writes | a provider starts once and never ungated, and a rejected gate never runs (`ProviderStartsOnce`, `GateHolds`) |
| `jobs_write` | 2 mortal processes, 2 completed dry runs of one key with different digests, 2 more jobs, 2 keys, artifacts forged on disk | a writer holds its key, settled keys and decisions are final, live requests write a reviewed change set or replay one that was written (`LiveRequestsAreReviewed`), and the records implement `WriteLedger` |
| `jobs_rest` | 2 immortal fair processes, one of which may fail to refresh its registry; gated jobs and live writes, from one completed dry run | a job that was claimed comes to rest, and so does one that a process takes up whose registry loads (`JobComesToRest`); outcomes stay |

Why the bounds are enough: a race on a job or on a key needs two processes, and
three let a third decide or die in the middle.  Two live jobs under one key are
what it takes to have a first attempt and a retry; two digests tell a retry from
a conflict; the second key, of which nothing was reviewed, tells an approved
request from another one.  `jobs_write` starts from a store in which the dry runs
have completed (`ReviewedStore`), a state the same actions lead to.
`Reserved` keeps approvals of the bounded pool for `process_job`, so that the
bound itself never blocks a method.  Deadlock is not checked: when the
identifiers are used up and every process is idle, nothing is left to do.
Symmetry is used in the safety runs only.

`FairReviewedSpec` makes `Step(p)` weakly fair: a method that was called runs to
its end, because it is one thread of Python code whose every wait ends (the
runner has a timeout).  An exception ends a method as a death does.  The one that
`process_job` meets before it has claimed its job is `RefreshFails`, for the processes in
`Unloadable`: all of them in the other two runs.  What such a process takes up may stay
queued, and an approved job waiting, so `JobComesToRest` says nothing of it before it is
claimed (Disagreements).  Nothing is fair about callers: nobody has to create,
approve or reject.  The liveness run has no mortal process, since the code has no
recovery of jobs whose process died.

## Plans

`Plans.tla` models `Orchestrator` on top of what `Jobs` promises: a decision on
an approval is final, a job is processed once and comes to rest.  What
`process_job` does between its own store calls is one step here, with any result.
`plans` is the table, `plan[p]` the copy `p` works on; **every save writes the
whole copy, without a condition**.

| Actions | Code |
| --- | --- |
| `CreatePlan`, `CreateApproved`, `SaveCreated` | `create_plan`, and `canto plan --approve` |
| `ApprovePlan`, `RequestApproval`, `RequestFails`, `Requested`, `GrantStep`, `AllGranted`, `SaveApproved` | `approve_plan`, one approval after the other |
| `GetPlan`, `RefreshStatus`, `SaveRefreshed` | `get_plan`, `explain`, and the refresh in the other methods |
| `ExecuteOverApi`, `ExecuteFromCli`, `Prepare`, `StartPlan`, `ExecuteInBackground`, `LoadToRun` | `prepare_execution`, `execute` |
| `CreateStepJob`, `StepFails`, `RecordJob`, `ProcessStepJob`, `StepJobWaits`, `RecordStop`, `OutputMissing`, `FailPlan`, `CompletePlan` | `_execute`, `_execute_job_step` |
| `DecideApproval`, `Die` | anybody decides at any time; a process is killed |

Run `plans_run`: an API request, and a CLI invocation that may die, with one
plan of two steps whose first is gated or not and whose second may ask for an
approval late.  `PlansAreGranted`: a plan that is approved, runs or has run has a
granted approval for every gated step, whichever copies were saved in between.
`PlanGateHolds`: the job of a gated step carries an approved approval.
`StepsRanInOrder`: also with two executions of one plan at once.
`ExecutionEnds`: with weak fairness of each process's steps (the code is
straight-line Python; a provider has a timeout) an execution whose process lives
brings the plan to completed or failed.  Two steps are what order takes, one
approval per plan and two jobs allow two approvals or two executions to compete;
when identifiers run out, `RequestFails` and `StepFails` end the method as an
error of the code would; `StepFails` is also a registry that cannot be refreshed, at the creation of the job or
when it is processed.  This run checks deadlock: reading a plan is always possible.

## Memory

`Memory.tla` models `MemoryService` over `memory_items` and the approvals of
items; `GovernedMemory.tla` is its promise: in force only by a decision made on a
candidate, one decision settles it, what left force does not come back.

| Actions | Code |
| --- | --- |
| `Propose`, `FindConflicts`, `MarkConflict` | `propose`, and the event of a conflict |
| `Consider`, `CountTask`, `CountDay`, `RecordActivation` | `activate_by_orchestrator` and its limits |
| `RequestApproval`, `ReadProposal`, `AskApproval`, `LinkApproval` | `request_approval` |
| `Decide`, `CheckDecision`, `Settle` | `decide_approval`, with `transition_memory_approval` |
| `Transition`, `Move`, `Supersede`, `SupersedeOld`, `Purge` | `transition`, `supersede`, `purge` |
| `Retain`, `SweepNext`, `SweepDone`, `ExpireLinked`, `ReadAgain`, `ExpireUnlinked` | `run_retention` |
| `Recall` (operator) | `recall` and `context_pack` |

Run `memory`: two processes, one mortal, and three items from one source, two of
one name.  `MemoryIsConsistent` has the type invariant, the agreement of an
approval with the item it decided, and that `Recall` fills its budget without
leaving out what would have fitted.  `ActivationLimit` says by how much the
limits may be overrun: by the processes that counted before one recorded.  `Recall` is
evaluated for every order of the items that are active, since no more is known of
scores, and for two budgets.  Bounds:
commands of developers and operators are explored on the items in `Curated`
only, which may have at most as many approvals (`Fresh`), while activations by
the orchestrator are explored on all three items without such commands (`OnlyCurated`,
`Uncurated`); the model covers one day, and ages are a free choice.  Deadlock is
not checked, since all items may end up purged.

## Delegated tasks

`Delegation.tla` has the life of a delegated task up to its review.  `tasks` is
the table `delegation_tasks`; `results` and `reviews` are its records, `workless`
says that the last launch left no work; `root`, `prepared`, `worktree` and
`revdirs` are its files: the directory, the git worktree and the revision
directories.  A process is a CLI command: `pc[p]` says where it is, `tid[p]` on
which task, `row[p]` which row it read, `res[p]` which result it captures, reviews
or promotes, and `to[p]` and `next[p]` which status it asks `transition` for and
where it goes on.

| Actions | Code |
| --- | --- |
| `Move`, `SetTask` | `DelegationService.transition`: read and check the table; compare and set |
| `Create`, `Assign` | `create_task`, `delegate assign` |
| `Prepare`, `MakeRoot`, `WorktreeFails`, `AddWorkspace` | `DelegationWorkspaceService.prepare` |
| `Report` | `delegate start`, `block`, `resume`, `done` |
| `Launch`, `ExecutorEnds`, `ExecutorRaises` | `DelegationCliExecutor.launch` |
| `Edit` | whoever works in the worktree, at any time |
| `Capture`, `CaptureRevision`, `AddResult` | `DelegationArtifactService.capture` |
| `Accept`, `Reject`, `ReviseWork`, `ReviseResult`, `AddReview` | `DelegationReviewService` (`ReviseFailed` of `Promotion` too) |
| `Crash` | a command dies |

A step is one store call or one file operation that others see.  The first read
of a task and of its results is one step with the command's start: results only
grow and are looked up by revision, so reading them later gives the same.  A
patch stands for everything an executor changed, and `Scope[t]` for the patches
inside the task's allowed paths.  `SetTask` compares only the *status* with the
row it read, as the code does, and writes that row back with its updates.

`WorkerSelection.tla` extends it with `worker launch`: `AssignProfile`,
`SaveSelection`, `LaunchSelected` are `CliWorkerSelectionService`; `LaunchApi`,
`RecordSelection`, `AttemptEnds`, `AttemptRaises`, `AttemptReturns` and `GiveUp`
are `AIWorkerAssignmentService`.  Both write the row they have read back without
a condition (`SaveSelection`).  Which profile or model is taken is left open here.

`Promotion.tla` extends it with `DelegationPromotionService` and
`DelegationPromotionQueue`.

| Actions | Code |
| --- | --- |
| `Promote`, `CheckRepository` | checks of the task, of the record of the last promotion, and of the canonical worktree |
| `Apply`, `GitFails`, `Verify`, `Rollback`, `RecordPromotion` | application, verification, reverse application, record and last transition |
| `Enqueue`, `AddEntry`, `QueuePromote`, `PromoteQueued` | the queue and its blockers |

Of git it keeps this: a patch changes *hunks*, which lie in *files*; it applies
where its hunks read as in the base commit, it is undone where they read as it
leaves them, whoever left them so, and either is done for all its hunks or for none.
`canonical[h]` is what hunk `h` of the canonical worktree was changed to, and `Change[c]` what
patch `c` makes of its hunks: patches of two tasks may be apart, at odds, or share a change.  `stranded` is a history
variable: the tasks with a promotion that could be neither verified nor undone.  That
the files of promoted tasks hold nothing else is demanded when no task is promoting and
none is stranded (`Settled`).  Of promoted tasks `PromotedWorkStands` excepts those alone of
which a change is also made by a patch that was approved for another task (`Shared`): when that
one fails to apply, its rollback takes the change away for both (Disagreements).  Tasks that
merely have a file or a hunk in common are not excepted.

`ReviewedWork.tla` is what all that promises of a task: phases in order, review
only of captured work, acceptance only of an approved revision, and no way out
of a closed phase.

| Run | Instance | Shows |
| --- | --- | --- |
| `worker_selection` | 2 mortal processes, 1 task, 1 patch, 2 revisions; every command of `Delegation` and `WorkerSelection` | revisions are captured once and in order, what is accepted was approved, and all but the saves of a selection implement `ReviewedWork` |
| `promotion` | 2 fair processes; either 2 accepted tasks with one file, whose changes are apart, at odds in one hunk, or in part the same, or 1 task with 2 patches in its scope and 2 revisions, from its acceptance | what stands in the canonical worktree was approved and has one promoter per task (`PromotionIsReviewed`), promoted content stays and is exact (`PromotedWorkStands`), every promotion ends |

Why the bounds are enough: two commands are what a race takes, two revisions
tell the latest from an older one, two tasks with one file and two hunks
tell the overlap of files from that of hunks, and that from a shared change.  `MaxRevision` bounds `Capture`
and nothing else; a task at the bound can still be reviewed and sent back, so
`worker_selection` checks deadlock.  `promotion` does not: with every task
promoted and queued nothing is left to do.

`promotion` starts from accepted tasks with one captured revision
(`InitAccepted`), a state that review leads to.  With two tasks only promotions and
the queue run, the queue for changes that are apart (`NextPromoting`); with one, every command does, but that it is not
queued and that its executor is neither blocked nor fails (`NextOnOne`), which
`worker_selection` explores.  No process dies in this run: the code has no recovery of
a task that is left `promoting`, and such a task can only stay as it is.  Symmetry
is used in `worker_selection`, over processes.

`Fairness` makes the steps of each command weakly fair: a command that was
started goes on, and the git calls it waits for end
(`delegation_promotion.py:25`).  Nobody has to start a command.  `PromotionEnds`
then says that a task does not stay `promoting`, whatever git does.

## AI workers

`ModelCatalog.tla` has endpoints, the models that providers list and the evidence
about them.  A command reads records, talks to a provider or a model for a while,
and writes whole records made from its copies.  `Provider` changes what is listed,
at any time.  `WorkerLaunch.tla` extends it with the launch of an API worker: `Compose` is
the composition of policy layers, `LaunchApi`, `ReadModels`, `SelectModel`, `GetModel` the
loop over the models that are left, `Complete`, `CompleteUnread`, `CompleteFails`, `OutOfTurns`, `ToolCall` one
attempt within its budget, `AttemptEnds` and `AttemptFails` what is recorded and whether
another model is tried.

| Actions of `ModelCatalog` | Code |
| --- | --- |
| `AddEndpoint`, `Disable`, `SaveDisabled` | `ai_endpoints.py` |
| `Discover`, `Refresh`, `ReadPrevious`, `Ask`, `AskFails`, `ReportFailure`, `MarkUnreachable`, `ReadModel`, `WriteModel`, `MarkMissing`, `Report`, `SaveEndpoint` | `ai_discovery.py`, `ai_reconciliation.py` |
| `Probe`, `ProbeNext`, `RunProbe`, `SaveProbed` | `ai_probe.py` |
| `Forget`, `CheckReferences`, `DeleteModel` | `ai_reconciliation.py` |
| `Select`, `Choose` | `ai_selection.py`, `canto worker select` |

What becomes of the task's row is the matter of `WorkerSelection`; here the last
transition may be refused.  A worktree is one file with a content.

Run `workers`: one launcher, one other process, a local endpoint whose model
comes, goes and changes once (`Changes = 1`), one in the cloud, two commands
begun (`Commands = 2`), two turns, two tool calls, at most two in a response.
`CatalogIsSound` has the type invariant; that a current model was probed in the version it
has; that a missing one was once not listed; and that the doctor's and the selection's
rules agree.  `CloudIsAuthorized`, `NextWorkerFindsNoChange`, `SpendIsRecorded` and `LaunchEnds`
are about the launch.  `SpendIsRecorded` counts responses that were paid for against the
turns in usage records: each is in exactly one, except a response that cannot be read
(`CompleteUnread`), of which there is at most one for each model tried, and which is in none.
One launcher suffices since launches are of different tasks and meet in the
catalog only, which the other process changes.  `SpecLaunch` makes a launch's steps weakly
fair: HTTP calls and commands of a worker have timeouts (120 s).  Run
`worker_policy` is the finding below.

## Local registry

`CapabilityRegistry.tla` has commands as processes that nothing locks: each works
on the index it read when it began and saves through one temporary file, and any of
its operations on files may fail.  `broken` is a history variable: the packages that a
command was killed on or failed on half-way.  The server's `Registry` object, which its
threads share without a lock, is `server`, and the refresh of each thread `reader`.

| Actions | Code |
| --- | --- |
| `Install`, `Stage`, `Move`, `Compare`; `Remove`, `Empty`, `Emptied`; `Save`, `Replace`, `SaveFails`; `Die` | `local_registry.py` |
| `Construct`; `ReadState`, `Unchanged`, `RefreshIfChanged`, `ListInstalled`, `Validate`, `SetRoots`, `Reload`, `ReloadFails`, `ReadFails`, `Record` | `registry.py`, and `list_installed` and `execution_roots` of `local_registry.py` |

`CapabilityPackage.tla` has packing, validation, extraction, export and
scaffolding as operators on sets of files; an operation that may refuse gives the set
of its results, which is then empty.  `Capabilities.tla` puts the two together, though
they share no state.

Run `registry`: two processes, one mortal, two threads of a server, two packages that
are versions of one capability, two contents, two commands (`Commands = 2`: one that fails,
is killed or is overtaken, and one that repairs or trips over it), on an empty registry or
one that has the first version (`InstalledInit`).
`DamageIsLocal`: as long as commands run one at a time, entry and directory of a
package disagree only while a command works on it, or where one was killed, failed to
delete, or failed to save after it had deleted.  An install that fails takes back what it
put in place, as far as that can be deleted.
`RefreshedServerIsCurrent`: a server that was refreshed by one thread while no other
was refreshing serves the index and nothing
else, except an entry whose directory was damaged since, or put back
by an install that began before there was an entry: the server, which
found it missing, does not look again before the index changes.  A refresh that another
overlaps is a disagreement below; the run has both kinds.
`ServerSettles`: under `FairSpec` (commands that are not killed go on, requests keep coming)
a server over sound packages that can be read stops reloading,
whichever of its threads is asked.  `PackagesAreFaithful` evaluates the package
operators on 1920 directories, 32 of which can be packed: an installed package is exported
as it was packed, one file changed (to three contents), lost or added shows, and a scaffold packs.
Deadlock is not checked: all commands may be spent.

Abstractions: writing a file and discarding a staged tree are one step each; a reload
reads all directories in one step; a changed index is always noticed (the
code compares modification time and size), and of two states of an index that are both
outdated the model leaves open whether they are the same; suffix rules of excluded files are
represented by sample names, and a list of entries by a set, which cannot
hold one twice.

## State stores and migration

`StoreCalls.tla` has the calls of the `StateStore` protocol and what each does alone,
`AtomicStore.tla` the promise that a call takes effect at one moment or not at all.
`RedisStore`, `SqliteStore` and `ThreadStore` have the calls command by command,
statement by statement, and under the lock, over the common `StoreProcess`;
`StateStores` puts them side by side.  An approval, a memory item and an
idempotency record stand for rows that are found by key, listed, and claimed.

Run `stores`: each store in turn, two processes or threads, three calls
(`MaxCalls = 3`), databases that are new, of version 1 or current.
`ImplementsAtomicStore`; `ListIsRegular`, since lists are not atomic in Redis;
`DatabaseIsSound` (types, an exact full-text index, a schema that is what its
version says, no record twice or without its id, whoever was killed); `CallsEnd`, under strong fairness of each process's
steps: SQLite's busy handler retries for a lock that keeps being given back, so a process that may take
it again and again gets it.  Three calls let a third one see what two left; a transition of two
rows, with one of each alone, is what atomicity can be broken with.

`StateMigration.tla` is `migrate_legacy_state` beside a job service that already
works on the target; ids come as the sorted sequences that it goes through.  Run `migration`: two jobs with up to two events, one
approval, one plan, two migrations, one after the other, that may be killed, fail on
a plan file or complete.  `CopyIsFaithful`: no event twice or out of order, and a completed migration
has everything, except for a log in which one was killed or that a service had
begun.  `LaterStays`: what the service made of a row is never set back.  The service moves jobs
on, logs that and sets their artifacts, appends the event of a promotion or recovery that is
requested of a job that had ended (once for each job), decides approvals, saves plans, and
writes the snapshot of its registry whatever there is (`SetRegistry`).  The latter is the one write that may come
between the look at a row and its copy, so `LaterStays` excepts the registry at that
moment (`FoundNoRegistry`, Disagreements).  Nobody
writes the legacy state any more, and two migrations at once are not covered.

## Proofs

Proved for every value of the constants, from the assumptions named in the
modules, which TLC evaluates in every run of them:

| Theorem | States |
| --- | --- |
| `JobsProofs!TypeCorrect` | `Spec => []TypeOK` |
| `JobsProofs!DecisionsAreFinal` | `Spec => DecisionIsFinal` |
| `JobsProofs!ProviderStartedOnce` | `Spec => []ProviderStartsOnce` |
| `JobsProofs!WritersHoldTheirKeys` | `Spec => []WriterHoldsKey` |
| `JobsProofs!SettledKeysAreFinal` | `Spec => SettledKeyIsFinal` |
| `JobsProofs!JobsImplementLedger` | `Spec => ImplementsLedger` |
| `JobsProofs!GateIsKept` | `Spec => []GateHolds` |
| `JobsProofs!OutcomesAreFinal` | `Shared = {} /\ Spec => OutcomeIsFinal` |
| `JobsProofs!RequestsAreReviewed` | `Shared = {} /\ Spec => []LiveRequestsAreReviewed` |
| `DelegationProofs!DelegationTyped` | `SpecSelection => []TypeOK` |
| `DelegationProofs!RevisionsInOrder` | `SpecSelection => []RevisionsIncrease` |
| `DelegationProofs!AcceptedIsReviewed` | `SpecSelection => []AcceptedWasApproved` |
| `DelegationProofs!DelegationImplementsReviewedWork` | `SpecSelection => ImplementsReviewedWorkButForSaves` |
| `DelegationProofs!PromotionsReviewed` | `SpecPromotion => []PromotionIsReviewed` |
| `DelegationProofs!PromotedStays` | `SpecPromotion => []PromotedWorkStands` |
| `PlansProofs!PlansGranted` | `Spec => []PlansAreGranted` |
| `PlansProofs!PlanGatesHold` | `Spec => []PlanGateHolds` |
| `PlansProofs!StepsInOrder` | `Spec => []StepsRanInOrder` |
| `MemoryProofs!MemoryStaysConsistent` | `Spec => []MemoryIsConsistent` |
| `MemoryProofs!MemoryIsGoverned` | `Spec => ImplementsGovernedMemory` |
| `MemoryProofs!ActivationsAreLimited` | `IsFiniteSet(Proc) /\ Spec => []ActivationLimit` |
| `CapabilityRegistryProofs!RegistryTyped` | `Spec => []TypeOK` |
| `CapabilityRegistryProofs!DamageStaysLocal` | `Spec => []DamageIsLocal` |
| `CapabilityRegistryProofs!RefreshedStaysCurrent` | `Spec => []RefreshedServerIsCurrent` |
| `CapabilityRegistryProofs!PackagesStayFaithful` | `Spec => []PackagesAreFaithful`, from `PackagesHold`, for all sets of directories |
| `WorkerLaunchProofs!CatalogStaysSound` | `SpecLaunch => []CatalogIsSound` |
| `WorkerLaunchProofs!CloudStaysAuthorized` | `SpecLaunch => []CloudIsAuthorized` |
| `WorkerLaunchProofs!NextWorkersFindNoChange` | `SpecLaunch => []NextWorkerFindsNoChange` |
| `WorkerLaunchProofs!SpendStaysRecorded` | `SpecLaunch => []SpendIsRecorded` |
| `StateStoresProofs!DatabaseStaysSound` | `Spec => []DatabaseIsSound` |
| `StateStoresProofs!StoresAreAtomic` | `Spec => ImplementsAtomicStore` |
| `StateStoresProofs!ListsStayRegular` | `Spec => []ListIsRegular` |
| `StateMigrationProofs!CopyStaysFaithful` | `Spec => []CopyIsFaithful` |
| `StateMigrationProofs!LaterRowsStay` | `Spec => LaterStays` |

`FairReviewedSpec`, `FairSpec` and the like start in states of their own or add
fairness; the theorems are about `Spec` from its `Init`.

*Jobs: types and decisions.*  `TypeOK` alone is not inductive: a step writes back
rows that the process read earlier.  `Inv1` adds what a process holds at each
label (`HoldsAt`: its identifiers are set, its copies are of existing rows), that
a copied job keeps the shape of its kind (`KeyedJob`) and that an approval with a
purpose has a source (`SourcedApproval`).  `DecisionIsFinal` needs that a copy of
a decided approval still agrees with the table when it is written back.
A frame lemma per kind of write (a job, an approval, a key, locals only) states
what that write keeps; each action is then an instance of one of them.

*Jobs: one start.*  `Inv2` says who owns a job: from the compare-and-set that
made it `checking_dependencies` or `running` to its outcome at most one process is
at an owning label for it, and a job that may still be started has no start
recorded.  The invariant fails without the compare-and-sets, which is what the
mutant of `ProviderStartsOnce` shows.

*Jobs: keys.*  `WriterHoldsKey` is inductive over `Inv1 /\ Inv2`: a record in
state running can be changed only by the process that owns the job recorded in
it.  `SettledKeyIsFinal` follows, since every writer of a record holds it running.

*Jobs: the ledger.*  A step of `Jobs` that takes, uses, settles or gives back a key is
`Acquire`, `Write`, `Settle` or `GiveBack` of `WriteLedger`; all others stutter.
`Inv3` adds what that needs: a copy agrees with its row in all that never changes,
whatever is fingerprinted has a digest, and a started provider is counted.

*Jobs: gates, outcomes, reviews.*  `Gates` says of the rows, and of what each
process knows at its label, that a gated job which may go on has a granted approval;
`Paths` that nobody resumes a job that is being evaluated for the first time;
`Blocked` that a job with a pending or rejected approval has not been started, and that
whoever owns it is about to park it or sees that approval first (`Stopped`).  These hold for any `Shared`.
With `Shared = {}`, `Tasks` gives each job to one process, but for the moment in
which its creator parks it while somebody decides (`Solo`, `Pair`), says which states
the job is in then (`Stages`), and that nobody else works on a job with a pending approval
(`Awaited`); so an unconditional save is by the one process that may end
the job, and no step changes an outcome (`Kept`).  `Reviews` follows a live write back,
through retries, replays and recoveries, to the completed dry run whose snapshot
was approved, for rows, copies and completed records of keys alike.

*Delegated tasks.*  These theorems are about commands up to the review of a task, with
worker selection; those about promotion build on them.  The properties are not
inductive because commands hold copies, of rows, results and decisions, which they
write back later, in the case of a selection without looking.  `DelegationInv`
says that old copies do no harm: whatever a row in the table or a copy refers to
exists (`GoodRow`), since results and reviews are only added; the results of a task
are its revisions 1, 2, ... and directories run at most one ahead of them
(`GoodResults`); and only one command per task is between making the next
directory and recording its result (`OneRecorder`).  `GoodLocals` lists what a
command holds where it is, among it that a transition about to be written was
allowed from the row that was read.

*Refinement.*  `Phases`, `Captured` and `Approvals` are the state of `ReviewedWork`.  Each
action either leaves them alone or is one of `Capture` (`AddResult`), `Approve`
(`AddReview`) and `Advance` (`SetTask`: its compare-and-set makes the row that was
checked the row that is replaced, and `MoveFollows` maps the table of transitions
to `Follows`).  `Create` stutters; `SaveSelection` is the exception that the
statement names.

*Promotion.*  Promotion keeps `DelegationInv`.  `Holders` says that a command which made a task
`promoting` is the only one for it until it has written the outcome: the
transitions into and out of `promoting` compare the status, and no other command's
transition leaves it.  `Carriers` says that what a promoter carries was approved
when it took it.  That promoted work stays (`WorkInv`) is about each patch that was verified (`Verified`)
and shares no change with a patch that was approved for another task (`Shared`).  It reads in
full (`VerifiedStands`): applying takes clean hunks, and a rollback only what reads as its
own patch leaves it, which another task's patch does not, and the task's own promoter is the one that
verified it.  In its files nothing else reads changed (`VerifiedAlone`) unless a promotion is pending
there, was abandoned by a dead command, or could not be undone (`Stuck`): the verification saw
nothing else, and what came later is not verified, since its own comparison finds the
earlier patch in its file.  Nothing is assumed of scopes or patches.

*Plans.*  A command saves a plan as it read it, so the invariant speaks of rows and
copies alike: `SoundRow` judges a row, however old, by the jobs and the approvals of
today, which only move on (`Forward`).  `PlansInv` adds that a job with a pending
approval waits and has no other one (`WaitingJobs`), that two executions never
have one job open (`OpenApart`), and what a command knows of its copy at
each label (`CopiesFit`).  That every step of a completed plan has a completed job is
shown with a least counterexample (`LowestOf`, from the well-foundedness of inclusion on
finite sets), since the theorems on induction take an operator as an argument.

*Memory.*  States of an item are ranked, and no write lowers the rank (`Rank`); a copy
is of a state that the item was in and, while it is there still, refers to the same approval
(`IsCopy`).  With this an approval that was decided agrees with its item
(`DecisionsAgree`), although the two are written in steps between which
retention and purges come.  The same invariant makes each step one of `GovernedMemory` or a
stutter.  `ActivationsAreLimited` counts activations that are recorded and in flight together
(`WithinBound`): a command is in flight from its successful count to its event, and one
that finds the limit reached is not let in.  What `Recall` chooses along a list of any length (`Filled`), and
that such a choice exists at all (`ChoiceExists`), is shown again with a least
counterexample, `LowestNumber`; that the tokens of one item more add up (`TokensOfOneMore`), from cardinalities.

*Registry.*  `DamageIsLocal` is not inductive: it does not say that a command which
ends leaves its own package settled.  `SerialInv` does: with one command at a
time, its entries are the index (`Progress`), the directory of its package is as
far as the command has come, the temporary file it is about to publish is the
index with its change only, and whatever damage it found is in `broken` (`Settled`), as is
whatever it leaves when it fails half-way.  `AloneSerial` reduces each step to what it does to the one package.
`RefreshedServerIsCurrent` holds for commands and threads that overlap in any way.
`CurrentInv` says that a refresh which is alone so far, and whose state is still the index's, has
listed the packages of this index and no one else has put other roots in their place (`RefreshFits`),
that no other thread is refreshing then (`ReaderFits`), and that a server remembering the index's state
from such a refresh serves what fits it (`Served`).  A refresh that is overtaken loses its
claim to be alone.  A command that does not replace the index can only damage a
directory or put it back (`StepFits`).

*Packages.*  Extraction of an archive gives the files that were collected and their list
(`ExtractArchive`); nothing of these is excluded, a link or another manifest, so that the
directory is collected to the same files again (`CollectedAgain`), and its manifest is the
one that was validated.  A valid archive that has the list of a package is that package
(`ListDetermines`), whence damage anywhere but in the list shows; damage in the list shows
because the list is determined by the rest.  The assumptions are that well-formed names
begin with a letter, as `NAME_PATTERN` says, and the abstraction of digests: no two contents
share one.

*Workers.*  Commands write back records that they read long before, so `CatalogInv` asks
of every copy what it asks of the catalog (`Backed`: a current record has its probe, a missing
one was once not listed).  Copies do not grow stale in this respect, because results of
probes are never deleted and what was unlisted was so for good (`KnowsStays`); what
remains is that a probe is stored before the record that refers to it, and that only what
the answer at hand does not list becomes missing (`Knows`).  A launch keeps to its policy since
the cloud is excluded when it selects, by the composition of all layers (`ComposedAllows`),
and again for the fallback.  `LaunchInv` says besides that what is not yet recorded are the
turns of the attempt under way and one response of each model that could not be read, which
is not among the models still to be tried (`AccountOK`), and that the worktree looks as before the launch while no
turn of an attempt is over; an attempt that fails goes on to another model only if that is
so still.

*Stores.*  `ControlInv` says for each store and label which kind of call is there, whether its
process holds the lock, and whether it has its answer: the part the three stores
share.  Each has a conjunct of its own.  `SqliteInv`: what a transaction has drafted is
what its statements so far make of the rows, the index is drafted with them, and the schema at each
step of a migration is that of its version (`SchemaAt`, `DraftAt`).  `RedisInv`: a
transition that has watched its keys and been left alone has read the rows as they
are (`WatchedAt`).  `ThreadInv`: between the two dictionaries the rows are half of what
one call makes of them, and `SeenRows` is what they were.  `RecordsInv`: a process that is about to push a record owns
its id, which no record in the list has.  For the refinement each step is `Silent` on what
is seen, or performs the whole call (`Performed`), or fails it without effect
(`Failed`); lists, which are not in `AtomicStore`, are `Listed`.  `ListInv` follows a list:
an item that is stored, is a member and is not being deleted is safe (`Safe`), and what was
safe when a list began and that nobody has deleted since is among what it found or has
still to get (`FoundAt`).

*Migration.*  The log of a job always has a simple shape: the first `k` legacy events in
order, with at most one event of a service between them (`Shape`, `LogAt`), where `k` is what the migration
has copied if it is at that log, and otherwise nothing or everything unless the log is
known to be disturbed.  `ProgressInv` says that what the migration has passed is there
(`Done`), and that a row it found absent still is, but for the registry: the service writes only
that, rows that were copied, and artifacts of jobs that had not ended, which have no legacy artifacts (`ServiceInv`).  Since
nothing is ever taken away (`Grows`), what is done stays done over kills and repetitions.
That `Steps` lists every row and log (`AllSteps`) comes from the lemmas on the elements
of concatenated sequences.

Only model-checked: everything else.  That is liveness (`JobComesToRest`, `ExecutionEnds`,
`PromotionEnds`, `ServerSettles`, `LaunchEnds`, `CallsEnd`), which is out of TLAPS's
reach; and of workers `PolicyNeverWidens`, which is false.

## Finding

*An empty intersection is no restriction* (`worker_policy`, `PolicyNeverWidens`).
`_narrow` (`ai_selection.py:33`) returns the intersection of two layers' lists;
when they have nothing in common that is the empty list, which means "any".  A
repository that allows one model and a task that allows another compose to a
policy under which both may work.

## Disagreements that no run checks

Behaviours of the models that differ from what one would expect or from a
document.  The properties are stated so as to hold beside them.

Jobs.
* A rejection is overwritten: `process_job` stores the approval, then parks the job
  with an unconditional save (`jobs.py:546`); a rejection in between marks the job
  rejected and is overwritten.  The provider is not started (`GateHolds`).
* A granted approval is lost: in the same window an approver finds the job not yet
  waiting, and it is then parked for ever under an approval `approve` will not take
  again (`jobs.py:542`).
* A claim is kept by a failed job: limits and credentials are resolved after the
  claim, and their failure (`jobs.py:604`, `616`) does not release it, so that
  retries are refused; `docs/write-provider-contract.md:33` says that failed claims
  may be retried.
* A registry that cannot be loaded makes `process_job` raise before it has claimed the job
  (`jobs.py:472`, `479`; `registry.py:72`): a job that was just created stays queued, and one
  whose approval was just granted stays waiting, though nothing died; no code takes them up again.

Delegated tasks.
* Worker selection writes back a row it read (`cli_worker_selection.py:182`,
  `ai_assignment.py:111`): a task whose executor started in between is put back to
  `workspace_ready`, against the table of `docs/delegated-executor-scope-and-architecture.md:176`.
* Work without an exit: `capture` refuses a task whose last launch left no work and
  says to request a revision; `request_revision` does so only while no revision was
  captured (`delegation_review.py:36`, `delegation_artifacts.py:203`).
* A failed promotion is followed by a reverse application; when another task, for
  instance a comparison sibling with the same scope, promoted the same change, that is what is
  removed (`delegation_promotion.py:136`): even where the application failed because of it.
* `_rollback` catches `PromotionError` only (`delegation_promotion.py:229`): an `OSError` out
  of starting git leaves the task `promoting`, as a death would.
* An acceptance checks that its revision is the latest, then calls `transition`,
  which compares only the status: a task sent back and captured again meanwhile is
  accepted with the old revision (`delegation_review.py:88`).  `promote` refuses such a
  task, since it compares the two revisions.
* A promotion that was checked for revision 1 applies it after another promotion
  failed and revision 2 was accepted (`delegation_promotion.py:66`, `126`).
* A change of the worktree after the acceptance leaves the task accepted
  (`delegation_promotion.py:61`); what is promoted is the captured revision.
* Two queued tasks that share a file block each other, and entries are never
  removed (`delegation_queue.py:73`).
* A `capture` or `prepare` that dies after making its directory makes every later
  one fail; a promotion that dies leaves its task `promoting`.

Plans.
* A read refreshes approvals and saves the plan it read: one that finished
  meanwhile is set back to approved (`orchestration.py:602`, `625`;
  `docs/orchestration-api-contract.md:52`), and may be executed again.

Memory.
* Retention leaves an approval pending that was asked for after it read its list;
  one lost race ends the whole run (`memory.py:411`).
* Conflicts are recorded at the proposal only; `supersede` does not compare the
  status of the replacement again.
* A process that dies between a decision and its event escapes the limit (`memory.py:257`).
* Repository links are read, changed and written back: of two concurrent changes
  one is lost (`memory.py:307`).

Registry.
* The constructor finds roots before it reads the index's state (`registry.py:35-41`),
  so that a change in between is not noticed.
* Two threads of a server that refresh at once (`registry.py:65-73`) overwrite each other's roots:
  one may load the roots of the other and remember a later state for them, and serve an
  outdated registry until the index changes again.
* Two commands at once share `index.json.tmp` and publish each other's entries.
* An install that fails discards its directory and ignores errors (`local_registry.py:272`): what could not be
  deleted has no entry, so `remove` does not find it, and `install` refuses to replace it.
* A `remove` that is killed, or whose save fails, between the directory and the index
  (`local_registry.py:330-331`) leaves an entry that can be neither installed again nor
  removed, and the server refuses to refresh; two installed versions of one capability make
  every reload fail; a legacy state file beside its copy makes every command refuse
  (`local_registry.py:124`).

Workers.
* An endpoint that is not local and was recorded unhealthy is never selected again;
  a transition that is refused after an attempt has completed marks it unhealthy
  and appends a second launch record.
* `git status` does not show that a file which was already modified has changed again, so a fallback may go on
  in a worktree that a failed worker wrote to (`docs/ai-worker-pool.md`).
* Discovery calls a model that was never probed "stale"
  (`docs/local-model-catalog-reconciliation.md:58`); a changed endpoint, harness or probe
  version does not make a probe stale (`docs/ai-worker-pool-architecture.md:216`); a probe
  measures what the provider serves but records the catalog's version.
* A model forgotten during a launch makes `catalog.get` raise and leaves the task
  `executor_working`; refresh, discover and disable write the endpoint back as read
  (`ai_reconciliation.py:189`); `forget` checks references before it deletes
  (`ai_reconciliation.py:326`).
* A response that was paid for and cannot be parsed (`ai_worker.py:101`, `269`, `273`) ends the
  attempt, and no usage record has it (`ai_worker.py:432-438`).

Stores and migration.
* Of two processes that bring a version 1 database up to date at once, the loser
  raises "table already exists" (`state.py:283`); its retry works.  `docs/sqlite-state-store.md:20`
  says schema version 1, the code has 2.
* A Redis set that is killed, or overlaps a delete, leaves a row lists never show
  (`state.py:1016`); an append that is killed leaves an id taken (`state.py:975`).
* The stores differ in what they reject (SQLite alone rejects duplicate aliases and events of
  absent jobs).
* A migration killed within a log, or a service that logs before the copy of the
  log (`state_migration.py:58`), leaves that log partial for ever, although
  `docs/state-migration.md:22` calls the migration repeatable.
* A service that starts, or notices a changed index, between `state_migration.py:87` and `88` has the
  snapshot of its registry (`jobs.py:54`, `67`) replaced by the legacy one until it writes it again.

## Not modelled

Parsing, formatting, schemas, the contents of artifacts, subprocess and network
I/O, and the read-only views of delegated tasks.  Of delegated tasks: required
commands, which can only refuse a promotion (they count for later revisions too), the
removal of workspaces, which tests alone call, a HEAD that moves and artifacts that were
tampered with, both of which only refuse commands, and the records nothing reads
(sessions, events).  Of memory: projects and their links, audit, export, the
detection of secrets.  Of workers: metadata imports, scores, request formats.  Of
the registry: the seed catalogue and the legacy state file.  Of the stores: event
logs, project links, the order of lists, databases opened as immutable.
`PROJECT.json` gives the reason for each part under `components`.
