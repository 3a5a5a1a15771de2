---------------------------- MODULE WorkerLaunch ----------------------------
(***************************************************************************)
(* The launch of an API worker: AIWorkerAssignmentService.launch           *)
(* (canto/core/ai_assignment.py) tries one model of the catalog after the  *)
(* other, and APIWorkerHarness.run (ai_worker.py) lets each work in the    *)
(* task's worktree within a budget.  Meanwhile other commands change the   *)
(* catalog.                                                                *)
(*                                                                         *)
(* What becomes of the task's row is the matter of WorkerSelection; here   *)
(* the transition at the end may be refused.  The worktree has a content   *)
(* for each file.  allowed_models stands for all the lists of a policy.    *)
(***************************************************************************)
EXTENDS ModelCatalog, Integers

CONSTANTS
    Launcher,    \* processes that launch a worker, each for a task of its own
    Layers,      \* what repository, command and task may say: sets of policies
    MaxTurns,    \* max_turns
    MaxTools,    \* max_tool_calls
    MaxCalls,    \* bound: tool calls in one response
    Content,     \* of the one file a worker writes
    Worktree     \* its contents at the launch; BaseContent for the commit's own

CONSTANT BaseContent

Policy == [models: SUBSET Model, cloud: BOOLEAN, fallback: BOOLEAN]

ASSUME LaunchAssumption ==
    /\ Launcher \subseteq Proc
    /\ \A layers \in Layers : layers # {} /\ layers \subseteq Policy
    /\ MaxTurns \in Nat \ {0} /\ MaxTools \in Nat \ {0} /\ MaxCalls \in Nat
    /\ BaseContent \in Content /\ Worktree \subseteq Content

VARIABLES
    launch,      \* per process: its launch
    content      \* per process: what is in the worktree of the task it launches

lvars == <<cvars, launch, content>>

Launch == [at: {"none", "models", "select", "get", "turn", "tools", "done", "failed"},
           layers: Layers \cup {{}},
           endpoints: [Endpoint -> EndpointRecord \cup {None}],   \* endpoint_map
           remaining: SUBSET Model,
           first: BOOLEAN,
           model: Model \cup {None},
           before: BOOLEAN,          \* git status listed the file when the attempt began
           initially: BOOLEAN,       \* history: and when the launch began
           turns: 0 .. MaxTurns, tools: 0 .. MaxTools, calls: 0 .. MaxCalls,
           unread: SUBSET Model,     \* history: models with a response that could not be read
           unrecorded: Int,          \* history: responses paid for, less turns in usage records
           reached: BOOLEAN]         \* the failure was not the endpoint's

NoLaunch == [at |-> "none", layers |-> {}, endpoints |-> [e \in Endpoint |-> None],
             remaining |-> {}, first |-> TRUE, model |-> None, before |-> FALSE,
             initially |-> FALSE, turns |-> 0, tools |-> 0, calls |-> 0, unread |-> {},
             unrecorded |-> 0, reached |-> TRUE]

LaunchTypeOK ==
    /\ TypeOK
    /\ launch \in [Launcher -> Launch]
    /\ content \in [Launcher -> Content]

InitLaunch ==
    /\ Init
    /\ launch = [p \in Launcher |-> NoLaunch]
    /\ content \in [Launcher -> Worktree]
-----------------------------------------------------------------------------
(* compose_worker_policy.  A list that is empty does not restrict, and     *)
(* what is left of lists that have nothing in common is an empty list.     *)
Narrow(lists) ==
    LET constrained == lists \ {{}}
    IN {m \in UNION constrained : \A list \in constrained : m \in list}

(* Mutated: one layer is enough to allow a fallback.                       *)
ComposeAnyFallback(layers) == [models |-> Narrow({layer.models : layer \in layers}),
                               cloud |-> \A layer \in layers : layer.cloud,
                               fallback |-> \E layer \in layers : layer.fallback]

Compose(layers) == [models |-> Narrow({layer.models : layer \in layers}),
                    cloud |-> \A layer \in layers : layer.cloud,
                    fallback |-> \A layer \in layers : layer.fallback]

Effective(p) == Compose(launch[p].layers)

(* git status --porcelain says which files differ, not what is in them.    *)
Status(p) == content[p] # BaseContent

LaunchAt(p, at) == launch[p].at = at

(* The launch reads the endpoints ...                                      *)
LaunchApi(p, layers) ==
    /\ Begin(p, [Idle EXCEPT !.at = "launch", !.does = "launch"])
    /\ launch' = [launch EXCEPT ![p] = [NoLaunch EXCEPT
            !.at = "models", !.layers = layers, !.endpoints = endpoints,
            !.initially = Status(p)]]
    /\ UNCHANGED <<records, content>>

(* ... and then the models, once for all attempts.                         *)
ReadModels(p) ==
    /\ LaunchAt(p, "models")
    /\ command' = [command EXCEPT ![p].seen = catalog]
    /\ LET allowed == Effective(p).models
       IN launch' = [launch EXCEPT ![p].at = "select", ![p].remaining =
              {m \in Model : catalog[m] # None /\ (allowed = {} \/ m \in allowed)}]
    /\ Others /\ UNCHANGED <<records, content>>

(* Health is read again for each attempt, endpoints and models are not.    *)
Eligible(p) ==
    {m \in launch[p].remaining :
        /\ ~Rejected(command[p].seen[m], launch[p].endpoints[EndpointOf[m]],
                     health[EndpointOf[m]], EndpointOf[m] \in Ollama, "implementation")
        /\ EndpointOf[m] \in Local \/ Effective(p).cloud}

EndLaunch(p, last) ==
    /\ End(p)
    /\ launch' = [launch EXCEPT ![p] = [NoLaunch EXCEPT !.unrecorded = last.unrecorded,
                                                        !.unread = last.unread]]

(* The decision names all candidates; without an eligible one the launch   *)
(* is over.  Which of them has the highest score is left open.             *)
SelectModel(p) ==
    /\ LaunchAt(p, "select")
    /\ selections' = selections \cup launch[p].remaining
    /\ \/ Eligible(p) = {} /\ EndLaunch(p, launch[p])
       \/ \E m \in Eligible(p) :
             /\ launch' = [launch EXCEPT ![p].at = "get", ![p].model = m]
             /\ UNCHANGED command
    /\ Others /\ UNCHANGED <<endpoints, catalog, probes, health, content>>

MayFallBack(p, m) == launch[p].first \/ EndpointOf[m] \in Local \/ Effective(p).fallback

(* The record of the model is read again; that it is gone, or a fallback   *)
(* to the cloud that is not allowed, ends the launch.                      *)
GetModel(p) ==
    /\ LaunchAt(p, "get")
    /\ IF catalog[launch[p].model] # None /\ MayFallBack(p, launch[p].model)
       THEN /\ launch' = [launch EXCEPT ![p].at = "turn", ![p].turns = 0, ![p].tools = 0,
                                        ![p].before = Status(p)]
            /\ UNCHANGED command
       ELSE EndLaunch(p, launch[p])
    /\ Others /\ UNCHANGED <<records, content>>
-----------------------------------------------------------------------------
(* The harness: a turn asks the model, and then runs the tools it calls.   *)
(* Mutated: a worker that was refused a tool, or has used up its budget,   *)
(* leaves its turns uncounted.                                             *)
FailUncounted(p, new, reached) ==
    launch' = [launch EXCEPT ![p] =
        [new EXCEPT !.at = "failed", !.reached = reached, !.tools = 0, !.calls = 0,
                    !.turns = IF reached THEN 0 ELSE @]]

Fail(p, new, reached) ==
    launch' = [launch EXCEPT ![p] = [new EXCEPT !.at = "failed", !.reached = reached,
                                                !.tools = 0, !.calls = 0]]

(* Mutated: one turn more than max_turns.                                  *)
MayTurnOnceMore(p) == LaunchAt(p, "turn") /\ launch[p].turns <= MaxTurns

MayTurn(p) == LaunchAt(p, "turn") /\ launch[p].turns < MaxTurns

(* A response that calls no tool ends the work, one that exceeds the       *)
(* budget for tokens fails it.                                             *)
Complete(p, calls, exceeds) ==
    /\ MayTurn(p)
    /\ LET new == [launch[p] EXCEPT !.turns = @ + 1, !.unrecorded = @ + 1, !.calls = calls]
       IN IF exceeds THEN Fail(p, new, TRUE)
          ELSE launch' = [launch EXCEPT ![p] =
                   IF calls = 0 THEN [new EXCEPT !.at = "done", !.tools = 0]
                   ELSE [new EXCEPT !.at = "tools"]]
    /\ UNCHANGED <<cvars, content>>

(* The provider answers, and is paid, but its answer is not what the       *)
(* adapter expects: no JSON, nothing where the message should be, or       *)
(* arguments of a tool that are none.  This fails the endpoint, and counts *)
(* no turn.                                                                *)
CompleteUnread(p) ==
    /\ MayTurn(p)
    /\ Fail(p, [launch[p] EXCEPT !.unread = @ \cup {launch[p].model}, !.unrecorded = @ + 1], FALSE)
    /\ UNCHANGED <<cvars, content>>

(* The endpoint fails without a response that is paid for, or the time of  *)
(* the attempt is over.                                                    *)
CompleteFails(p, reached) ==
    /\ MayTurn(p)
    /\ Fail(p, launch[p], reached)
    /\ UNCHANGED <<cvars, content>>

OutOfTurns(p) ==
    /\ LaunchAt(p, "turn") /\ launch[p].turns = MaxTurns
    /\ Fail(p, launch[p], TRUE)
    /\ UNCHANGED <<cvars, content>>

(* A tool call is counted before it runs.  It reads, writes or runs a      *)
(* command that writes, or it is refused, which fails the work.            *)
ToolCall(p, written, refused) ==
    /\ LaunchAt(p, "tools")
    /\ LET new == [launch[p] EXCEPT !.tools = @ + 1, !.calls = @ - 1]
       IN IF new.tools > MaxTools \/ refused
          THEN Fail(p, new, TRUE) /\ UNCHANGED content
          ELSE /\ launch' = [launch EXCEPT ![p] =
                      [new EXCEPT !.at = IF new.calls = 0 THEN "turn" ELSE "tools"]]
               /\ content' = [content EXCEPT ![p] = written]
    /\ UNCHANGED cvars

SetHealth(p, up) ==
    health' = [health EXCEPT ![EndpointOf[launch[p].model]] = IF up THEN "up" ELSE "down"]

(* _run_attempt records what was used and the endpoint's health, and moves *)
(* the task on; when it cannot, the attempt fails after all, and that      *)
(* counts as a failure of the endpoint.                                    *)
AttemptEnds(p, refused) ==
    /\ LaunchAt(p, "done")
    /\ SetHealth(p, TRUE)
    /\ LET new == [launch[p] EXCEPT !.unrecorded = @ - launch[p].turns, !.turns = 0]
       IN IF refused THEN Fail(p, new, FALSE) /\ UNCHANGED command
          ELSE EndLaunch(p, new)
    /\ Others /\ UNCHANGED <<endpoints, catalog, probes, selections, content>>

(* Mutated: asked only when the endpoint has failed.                       *)
NoTraceOfFailedCall(p) == launch[p].reached \/ Status(p) = launch[p].before

NoTrace(p) == Status(p) = launch[p].before

(* Mutated: a model whose endpoint was reached may be tried again.         *)
LeftToRetry(p) == {m \in launch[p].remaining : launch[p].reached \/ m # launch[p].model}

Left(p) == launch[p].remaining \ {launch[p].model}

(* A failed attempt is recorded with what it has used.  The next model is  *)
(* tried, unless git status has changed.                                   *)
AttemptFails(p) ==
    /\ LaunchAt(p, "failed")
    /\ SetHealth(p, launch[p].reached)
    /\ LET new == [launch[p] EXCEPT !.unrecorded = @ - launch[p].turns, !.turns = 0,
                                    !.remaining = Left(p), !.first = FALSE]
       IN IF NoTrace(p)
          THEN /\ launch' = [launch EXCEPT ![p] = [new EXCEPT !.at = "select", !.model = None]]
               /\ UNCHANGED command
          ELSE EndLaunch(p, new)
    /\ Others /\ UNCHANGED <<endpoints, catalog, probes, selections, content>>
-----------------------------------------------------------------------------
Turn(p) ==
    \/ \E calls \in 0 .. MaxCalls, exceeds \in BOOLEAN : Complete(p, calls, exceeds)
    \/ CompleteUnread(p) \/ \E reached \in BOOLEAN : CompleteFails(p, reached)
    \/ OutOfTurns(p)
    \/ \E written \in Content, refused \in BOOLEAN : ToolCall(p, written, refused)

LaunchStep(p) ==
    \/ ReadModels(p) \/ SelectModel(p) \/ GetModel(p) \/ Turn(p) \/ AttemptFails(p)
    \/ \E refused \in BOOLEAN : AttemptEnds(p, refused)

NextLaunch ==
    \/ NextCatalog /\ UNCHANGED <<launch, content>>
    \/ \E p \in Launcher : \/ \E layers \in Layers : LaunchApi(p, layers)
                           \/ LaunchStep(p)

(* A launch goes on: every call of a provider and every command of a       *)
(* worker has a time limit.                                                *)
SpecLaunch ==
    /\ InitLaunch /\ [][NextLaunch]_lvars
    /\ \A p \in Launcher : WF_lvars(LaunchStep(p))
-----------------------------------------------------------------------------
(* Properties. *)

(* "Cloud eligibility is authorization decided before selection ... and    *)
(* never silently widens a local-only task"                                *)
(* (docs/ai-worker-pool-architecture.md:286): a cloud model works only     *)
(* when every layer allows the cloud, and after another model has failed   *)
(* only when every layer allows to fall back to it.                        *)
CloudIsAuthorized ==
    \A p \in Launcher :
        launch[p].at \in {"turn", "tools"} /\ EndpointOf[launch[p].model] \notin Local =>
            \A layer \in launch[p].layers : layer.cloud /\ (launch[p].first \/ layer.fallback)

(* "Compose global, repository, and task policy without widening           *)
(* authority" (ai_selection.py:65): a model that works is on every list    *)
(* that a layer has.                                                       *)
PolicyNeverWidens ==
    \A p \in Launcher : launch[p].at \in {"turn", "tools"} =>
        \A layer \in launch[p].layers : layer.models = {} \/ launch[p].model \in layer.models

(* A worker that made the worktree differ from the commit, as git status   *)
(* shows it, is the last of its launch: the next one begins in a worktree  *)
(* that looks as it did when the launch began.                             *)
NextWorkerFindsNoChange ==
    \A p \in Launcher :
        ~launch[p].first /\ launch[p].at = "turn" /\ launch[p].turns = 0 =>
            Status(p) = launch[p].initially

(* Every response that a provider was paid for and that could be read is   *)
(* in a usage record when the attempt is over, however it ended, and is in *)
(* one only.  One that could not be read ends the attempt and is in none,  *)
(* so that of each model tried no more than one response is missing.       *)
SpendIsRecorded ==
    \A p \in Launcher : launch[p].at \in {"none", "select"} =>
        launch[p].unrecorded = Cardinality(launch[p].unread)

(* A launch ends: the models that are left become fewer with each attempt, *)
(* whatever happens to the catalog, and turns and tool calls are limited.  *)
LaunchEnds ==
    \A p \in Launcher : command[p].at = "launch" ~> command[p].at # "launch"

(* What the catalog says of a model is backed by what a provider has shown *)
(* or a probe has measured, and the doctor and the selection read it alike.*)
CatalogIsSound == LaunchTypeOK /\ CurrentIsProbed /\ MissingWasUnlisted /\ ReadyIsNotRejected
=============================================================================
