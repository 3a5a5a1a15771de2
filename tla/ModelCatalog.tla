---------------------------- MODULE ModelCatalog ----------------------------
(***************************************************************************)
(* AI endpoints, the catalog of their models, and the evidence about them: *)
(* canto/core/ai_endpoints.py, ai_discovery.py, ai_reconciliation.py,      *)
(* ai_probe.py, and the selection of a model in ai_selection.py.           *)
(*                                                                         *)
(* Each command is a process of its own.  A command reads records, talks   *)
(* to a provider or a model for a while, and then writes whole records     *)
(* made from the copies it has read; nothing compares them with what has   *)
(* been written meanwhile.  A command that is killed takes no more steps.  *)
(*                                                                         *)
(* Of a model's version and catalog checksum one value is kept, of its     *)
(* description nothing.  Records of the time before refresh existed, with  *)
(* availability "unknown", are left out.                                   *)
(***************************************************************************)
EXTENDS FiniteSets, Naturals

CONSTANTS
    Proc,         \* processes that run commands
    Endpoint,
    Ollama,       \* those whose provider is Ollama
    Local,        \* those of them with a loopback address
    Model,        \* model keys
    EndpointOf,   \* the endpoint of each model key
    Version,
    Able,         \* versions that pass every assertion of the probe
    Served,       \* what the providers may list: functions from models to versions
    Initially,    \* what earlier commands have made of the models: functions to Beginning
    Changes,      \* bound: changes of what they list
    Commands,     \* bound: commands begun
    None          \* the absent value

Beginning == {"unknown", "discovered", "probed"}

ASSUME CatalogAssumption ==
    /\ Local \subseteq Ollama /\ Ollama \subseteq Endpoint
    /\ EndpointOf \in [Model -> Endpoint]
    /\ Able \subseteq Version
    /\ None \notin Version
    /\ Served \subseteq [Model -> Version \cup {None}]
    /\ Initially \subseteq [Model -> Beginning]
    /\ Changes \in Nat /\ Commands \in Nat

EndpointRecord == [enabled: BOOLEAN, valid: BOOLEAN]

Classification == {"implementation", "advisory", "unavailable", "unvalidated"}
Availability == {"available", "missing", "endpoint_unreachable"}

ModelRecord == [version: Version, classification: Classification, stale: BOOLEAN,
                state: {"current", "stale", "absent"}, availability: Availability,
                since: BOOLEAN]             \* missing_since is set

ProbeResult == [model: Model, version: Version, classification: Classification]

Catalog == [Model -> ModelRecord \cup {None}]
Inventory == [Model -> Version \cup {None}]

VARIABLES
    served,      \* the providers: the version of each model, None when it is not listed
    changes,     \* how often that has changed
    unlisted,    \* history: the models that at some time were not listed
    endpoints,   \* endpoint records
    catalog,     \* model records
    probes,      \* probe records, which are never deleted
    health,      \* availability in the latest health record of each endpoint
    selections,  \* the models that a selection record names
    command,     \* per process: the command it runs
    commands     \* commands begun so far

records == <<endpoints, catalog, probes, health, selections>>
cvars == <<served, changes, unlisted, endpoints, catalog, probes, health, selections, command, commands>>

Command == [at: {"idle", "disable", "list", "ask", "read", "write", "missing", "unreachable",
                 "report", "save", "queue", "probe", "conclude", "check", "delete", "choose", "launch"},
            does: {"nothing", "disable", "discover", "refresh", "probe", "forget", "select", "launch"},
            endpoint: Endpoint \cup {None},
            copy: EndpointRecord \cup {None},      \* the endpoint as it was read
            model: Model \cup {None},
            classification: Classification,        \* what the probe has shown
            seen: Catalog,                         \* the models as they were read
            answer: Inventory,                     \* what the provider has listed
            todo: SUBSET Model]                    \* models still to write, or to probe

Idle == [at |-> "idle", does |-> "nothing", endpoint |-> None, copy |-> None, model |-> None,
         classification |-> "unvalidated", seen |-> [m \in Model |-> None],
         answer |-> [m \in Model |-> None], todo |-> {}]

TypeOK ==
    /\ served \in Inventory /\ changes \in 0 .. Changes
    /\ unlisted \subseteq Model
    /\ endpoints \in [Endpoint -> EndpointRecord \cup {None}]
    /\ catalog \in Catalog
    /\ probes \subseteq ProbeResult
    /\ health \in [Endpoint -> {"unknown", "up", "down"}]
    /\ selections \subseteq Model
    /\ command \in [Proc -> Command]
    /\ commands \in 0 .. Commands

(* A model that its endpoint lists, with or without having passed the      *)
(* probe.                                                                  *)
Proven(version) == [version |-> version, classification |-> "implementation", stale |-> FALSE,
                    state |-> "current", availability |-> "available", since |-> FALSE]
Unproven(version) == [Proven(version) EXCEPT !.classification = "unvalidated", !.stale = TRUE,
                                             !.state = "absent"]

Init ==
    /\ served \in Served /\ changes = 0
    /\ unlisted = {m \in Model : served[m] = None}
    /\ \E initially \in Initially, version \in [Model -> Able] :
          /\ endpoints = [e \in Endpoint |->
                IF \E m \in Model : EndpointOf[m] = e /\ initially[m] # "unknown"
                THEN [enabled |-> TRUE, valid |-> TRUE] ELSE None]
          /\ catalog = [m \in Model |->
                CASE initially[m] = "unknown" -> None
                  [] initially[m] = "discovered" -> Unproven(version[m])
                  [] initially[m] = "probed" -> Proven(version[m])]
          /\ probes = {[model |-> m, version |-> version[m], classification |-> "implementation"] :
                          m \in {n \in Model : initially[n] = "probed"}}
    /\ health = [e \in Endpoint |-> "unknown"]
    /\ selections = {}
    /\ command = [p \in Proc |-> Idle]
    /\ commands = 0

(* The provider pulls, updates or removes models. *)
Provider ==
    /\ changes < Changes
    /\ \E s \in Served \ {served} : served' = s
    /\ changes' = changes + 1
    /\ unlisted' = unlisted \cup {m \in Model : served'[m] = None}
    /\ UNCHANGED <<records, command, commands>>

Begin(p, new) ==
    /\ commands < Commands
    /\ command[p].at = "idle"
    /\ commands' = commands + 1
    /\ command' = [command EXCEPT ![p] = new]
    /\ UNCHANGED <<served, changes, unlisted>>

At(p, at) == command[p].at = at
Does(p, does) == command[p].does = does
Goto(p, at) == command' = [command EXCEPT ![p].at = at]
End(p) == command' = [command EXCEPT ![p] = Idle]
Others == UNCHANGED <<served, changes, unlisted, commands>>

Of(e) == {m \in Model : EndpointOf[m] = e}
Listed(inventory) == {m \in Model : inventory[m] # None}
Write(m, record) == catalog' = [catalog EXCEPT ![m] = record]
-----------------------------------------------------------------------------
(* Endpoints.  An endpoint that passes the checks is stored enabled and    *)
(* not validated, whatever it was before.                                  *)
AddEndpoint(p, e) ==
    /\ Begin(p, Idle)
    /\ endpoints' = [endpoints EXCEPT ![e] = [enabled |-> TRUE, valid |-> FALSE]]
    /\ UNCHANGED <<catalog, probes, health, selections>>

Disable(p, e) ==
    /\ endpoints[e] # None
    /\ Begin(p, [Idle EXCEPT !.at = "disable", !.does = "disable", !.endpoint = e,
                             !.copy = endpoints[e]])
    /\ UNCHANGED records

SaveDisabled(p) ==
    /\ At(p, "disable")
    /\ endpoints' = [endpoints EXCEPT ![command[p].endpoint] =
                        [command[p].copy EXCEPT !.enabled = FALSE]]
    /\ End(p)
    /\ Others /\ UNCHANGED <<catalog, probes, health, selections>>
-----------------------------------------------------------------------------
(* Discovery and refresh begin with the endpoint's record; refresh is for  *)
(* local endpoints, and reads all its models before it asks the provider.  *)
Discover(p, e) ==
    /\ endpoints[e] # None /\ endpoints[e].enabled
    /\ Begin(p, [Idle EXCEPT !.at = "ask", !.does = "discover", !.endpoint = e,
                             !.copy = endpoints[e]])
    /\ UNCHANGED records

Refresh(p, e) ==
    /\ e \in Local
    /\ endpoints[e] # None /\ endpoints[e].enabled
    /\ Begin(p, [Idle EXCEPT !.at = "list", !.does = "refresh", !.endpoint = e,
                             !.copy = endpoints[e]])
    /\ UNCHANGED records

ReadPrevious(p) ==
    /\ At(p, "list")
    /\ command' = [command EXCEPT ![p].at = "ask", ![p].seen =
            [m \in Model |-> IF EndpointOf[m] = command[p].endpoint THEN catalog[m] ELSE None]]
    /\ Others /\ UNCHANGED records

(* The provider answers with its list ...                                  *)
Ask(p) ==
    /\ At(p, "ask")
    /\ LET answer == [m \in Model |-> IF EndpointOf[m] = command[p].endpoint
                                      THEN served[m] ELSE None]
       IN command' = [command EXCEPT
              ![p].at = IF Does(p, "discover") THEN "read" ELSE "write",
              ![p].answer = answer, ![p].todo = Listed(answer)]
    /\ Others /\ UNCHANGED records

(* Mutated: what is missing becomes unreachable too.                       *)
KnownAtAll(p) == {m \in Model : command[p].seen[m] # None}

KnownThere(p) ==
    {m \in Model : command[p].seen[m] # None /\ command[p].seen[m].availability # "missing"}

(* ... or cannot be reached, which ends a discovery.                       *)
AskFails(p) ==
    /\ At(p, "ask")
    /\ IF Does(p, "discover") THEN End(p)
       ELSE command' = [command EXCEPT ![p].at = "unreachable", ![p].todo = KnownThere(p)]
    /\ Others /\ UNCHANGED records

MarkUnreachable(p, m) ==
    /\ At(p, "unreachable") /\ m \in command[p].todo
    /\ Write(m, [command[p].seen[m] EXCEPT !.availability = "endpoint_unreachable"])
    /\ command' = [command EXCEPT ![p].todo = @ \ {m}]
    /\ Others /\ UNCHANGED <<endpoints, probes, health, selections>>

ReportFailure(p) ==
    /\ At(p, "unreachable") /\ command[p].todo = {}
    /\ health' = [health EXCEPT ![command[p].endpoint] = "down"]
    /\ End(p)
    /\ Others /\ UNCHANGED <<endpoints, catalog, probes, selections>>

(* Discovery reads the record of each model just before it writes it.      *)
ReadModel(p, m) ==
    /\ At(p, "read") /\ m \in command[p].todo
    /\ command' = [command EXCEPT ![p].at = "write", ![p].model = m, ![p].seen[m] = catalog[m]]
    /\ Others /\ UNCHANGED records

(* A model keeps its evidence when its version is the one recorded.        *)
(* Mutated: only evidence for implementation is dropped.                   *)
ChangedIfProven(old, version) ==
    old # None /\ old.version # version /\ old.classification = "implementation"

Changed(old, version) == old # None /\ old.version # version

StaleAfter(old, version) == old = None \/ old.stale \/ Changed(old, version)

(* A discovery calls a model stale that was never probed; a refresh keeps  *)
(* it "absent".                                                            *)
StateAfter(does, old, version) ==
    IF Changed(old, version) \/ (does = "discover" /\ old # None /\ old.stale) THEN "stale"
    ELSE IF old # None THEN old.state ELSE "absent"

Found(does, old, version) ==
    [version |-> version,
     classification |-> IF old = None THEN "unvalidated" ELSE old.classification,
     stale |-> StaleAfter(old, version),
     state |-> StateAfter(does, old, version),
     availability |-> "available", since |-> FALSE]

WriteModel(p, m) ==
    /\ At(p, "write") /\ m \in command[p].todo
    /\ Does(p, "discover") => m = command[p].model
    /\ Write(m, Found(command[p].does, command[p].seen[m], command[p].answer[m]))
    /\ command' = [command EXCEPT ![p].todo = @ \ {m},
                                  ![p].at = IF Does(p, "discover") THEN "read" ELSE "write"]
    /\ Others /\ UNCHANGED <<endpoints, probes, health, selections>>

(* When all that was listed is written, refresh goes on with what was not. *)
Written(p) ==
    /\ At(p, "write") /\ Does(p, "refresh") /\ command[p].todo = {}
    /\ command' = [command EXCEPT ![p].at = "missing", ![p].todo =
            {m \in Model : command[p].seen[m] # None} \ Listed(command[p].answer)]
    /\ Others /\ UNCHANGED records

MarkMissing(p, m) ==
    /\ At(p, "missing") /\ m \in command[p].todo
    /\ Write(m, [command[p].seen[m] EXCEPT !.availability = "missing", !.since = TRUE])
    /\ command' = [command EXCEPT ![p].todo = @ \ {m}]
    /\ Others /\ UNCHANGED <<endpoints, probes, health, selections>>

(* Snapshot, reconciliation and health are recorded ...                    *)
Report(p) ==
    /\ command[p].todo = {}
    /\ \/ At(p, "missing") /\ health' = [health EXCEPT ![command[p].endpoint] = "up"]
       \/ At(p, "read") /\ UNCHANGED health
    /\ Goto(p, "save")
    /\ Others /\ UNCHANGED <<endpoints, catalog, probes, selections>>

(* ... and then the endpoint, as it was read.  A refresh may go on to      *)
(* probe what it has added, what it has changed, or both.                  *)
Added(p) == {m \in Listed(command[p].answer) : command[p].seen[m] = None}
Updated(p) ==
    {m \in Listed(command[p].answer) : Changed(command[p].seen[m], command[p].answer[m])}

SaveEndpoint(p, new, stale) ==
    /\ At(p, "save")
    /\ (new \/ stale) => Does(p, "refresh")
    /\ endpoints' = [endpoints EXCEPT ![command[p].endpoint] =
                        [command[p].copy EXCEPT !.valid = TRUE]]
    /\ LET queue == (IF new THEN Added(p) ELSE {}) \cup (IF stale THEN Updated(p) ELSE {})
       IN command' = [command EXCEPT ![p] =
              IF queue = {} THEN Idle
              ELSE [Idle EXCEPT !.at = "queue", !.does = "probe", !.todo = queue]]
    /\ Others /\ UNCHANGED <<catalog, probes, health, selections>>
-----------------------------------------------------------------------------
(* Probes. *)
Probe(p, m) ==
    /\ catalog[m] # None
    /\ Begin(p, [Idle EXCEPT !.at = "probe", !.does = "probe", !.model = m,
                             !.seen[m] = catalog[m]])
    /\ UNCHANGED records

(* The queue probes one model after the other, in the order of their keys, *)
(* which is left open here, and ends at one that is not available.         *)
ProbeNext(p, m) ==
    /\ At(p, "queue") /\ m \in command[p].todo
    /\ command' = [command EXCEPT ![p] =
            IF catalog[m] # None /\ catalog[m].availability = "available"
            THEN [command[p] EXCEPT !.at = "probe", !.model = m, !.seen[m] = catalog[m],
                                     !.todo = command[p].todo \ {m}]
            ELSE Idle]
    /\ Others /\ UNCHANGED records

(* What a probe may conclude from the model that the provider runs now;    *)
(* one whose record or endpoint is gone does not respond.                  *)
Shown(m) ==
    {"unavailable"} \cup
    (IF catalog[m] = None \/ endpoints[EndpointOf[m]] = None \/ served[m] = None THEN {}
     ELSE {"advisory"} \cup (IF served[m] \in Able THEN {"implementation"} ELSE {}))

(* The evidence is stored under the version that was read before ...       *)
RunProbe(p) ==
    /\ At(p, "probe")
    /\ LET m == command[p].model IN \E shown \in Shown(m) :
          /\ probes' = probes \cup
                {[model |-> m, version |-> command[p].seen[m].version, classification |-> shown]}
          /\ command' = [command EXCEPT ![p].at = "conclude", ![p].classification = shown]
    /\ Others /\ UNCHANGED <<endpoints, catalog, health, selections>>

(* ... and then the model's record, as it was read, with the conclusion.   *)
SaveProbed(p) ==
    /\ At(p, "conclude")
    /\ Write(command[p].model, [command[p].seen[command[p].model] EXCEPT
            !.classification = command[p].classification, !.stale = FALSE, !.state = "current"])
    /\ command' = [command EXCEPT ![p] =
            IF @.todo = {} THEN Idle
            ELSE [Idle EXCEPT !.at = "queue", !.does = "probe", !.todo = command[p].todo]]
    /\ Others /\ UNCHANGED <<endpoints, probes, health, selections>>
-----------------------------------------------------------------------------
(* Forgetting a model: it is not available, nothing refers to it, and then *)
(* its record is deleted.                                                  *)
Forget(p, m) ==
    /\ catalog[m] # None /\ catalog[m].availability # "available"
    /\ Begin(p, [Idle EXCEPT !.at = "check", !.does = "forget", !.model = m])
    /\ UNCHANGED records

Referenced(m) == m \in selections \/ \E r \in probes : r.model = m

CheckReferences(p) ==
    /\ At(p, "check")
    /\ IF Referenced(command[p].model) THEN End(p) ELSE Goto(p, "delete")
    /\ Others /\ UNCHANGED records

DeleteModel(p) ==
    /\ At(p, "delete")
    /\ Write(command[p].model, None)
    /\ End(p)
    /\ Others /\ UNCHANGED <<endpoints, probes, health, selections>>
-----------------------------------------------------------------------------
(* Selection.  The state of a model that rules it out for work that needs  *)
(* classification, given its endpoint's record and health.                 *)
(* Mutated: a model is ruled out only when it is known to be missing.      *)
RejectedIfMissing(record, endpoint, up, ollama, required) ==
    \/ endpoint = None \/ ~endpoint.enabled
    \/ up = "down"
    \/ ollama /\ record.availability = "missing"
    \/ record.state = "absent" \/ record.stale \/ record.state = "stale"
    \/ record.classification # required

Rejected(record, endpoint, up, ollama, required) ==
    \/ endpoint = None \/ ~endpoint.enabled
    \/ up = "down"
    \/ ollama /\ record.availability # "available"
    \/ record.state = "absent" \/ record.stale \/ record.state = "stale"
    \/ record.classification # required

(* The doctor's word for the same model: _model_status.                    *)
ModelStatus(m, required) ==
    IF catalog[m] = None THEN "missing"
    ELSE LET e == EndpointOf[m] IN
         IF endpoints[e] = None THEN "endpoint_missing"
         ELSE IF ~endpoints[e].enabled THEN "endpoint_disabled"
         ELSE IF health[e] = "down" THEN "endpoint_unhealthy"
         ELSE IF e \in Ollama /\ catalog[m].availability # "available" THEN "availability"
         ELSE IF catalog[m].state # "current" \/ catalog[m].stale THEN "probe"
         ELSE IF catalog[m].classification # required THEN "classification"
         ELSE "ready"

Select(p) ==
    /\ Begin(p, [Idle EXCEPT !.at = "choose", !.does = "select", !.seen = catalog])
    /\ UNCHANGED records

Considered(p) == {m \in Model : command[p].seen[m] # None}

(* The decision names every model that was considered.                     *)
Choose(p) ==
    /\ At(p, "choose")
    /\ selections' = selections \cup Considered(p)
    /\ End(p)
    /\ Others /\ UNCHANGED <<endpoints, catalog, probes, health>>
-----------------------------------------------------------------------------
BeginCommand(p) ==
    \/ \E e \in Endpoint : AddEndpoint(p, e) \/ Disable(p, e) \/ Discover(p, e) \/ Refresh(p, e)
    \/ \E m \in Model : Probe(p, m) \/ Forget(p, m)
    \/ Select(p)

CommandStep(p) ==
    \/ SaveDisabled(p) \/ ReadPrevious(p) \/ Ask(p) \/ AskFails(p) \/ ReportFailure(p)
    \/ Written(p) \/ Report(p) \/ RunProbe(p) \/ SaveProbed(p)
    \/ CheckReferences(p) \/ DeleteModel(p) \/ Choose(p)
    \/ \E m \in Model : MarkUnreachable(p, m) \/ ReadModel(p, m) \/ WriteModel(p, m)
                        \/ MarkMissing(p, m) \/ ProbeNext(p, m)
    \/ \E new, stale \in BOOLEAN : SaveEndpoint(p, new, stale)

NextCatalog ==
    \/ Provider
    \/ \E p \in Proc : BeginCommand(p) \/ CommandStep(p)

SpecCatalog == Init /\ [][NextCatalog]_cvars
-----------------------------------------------------------------------------
(* Properties. *)

(* "A changed version or catalog checksum makes prior probe evidence       *)
(* stale" (docs/ai-worker-pool.md:40): whatever commands overlap, a model  *)
(* whose probe is current has been probed in the version that its record   *)
(* has now, and found to be what the record says.                          *)
CurrentIsProbed ==
    \A m \in Model : catalog[m] # None /\ catalog[m].state = "current" =>
        [model |-> m, version |-> catalog[m].version,
         classification |-> catalog[m].classification] \in probes

(* "Endpoint failure is recorded as uncertainty and does not falsely mark  *)
(* every model missing" (docs/ai-worker-pool.md:47): a model is missing,   *)
(* since some time, only when its provider has once not listed it.         *)
MissingWasUnlisted ==
    \A m \in Model : catalog[m] # None =>
        /\ catalog[m].since <=> catalog[m].availability = "missing"
        /\ catalog[m].since => m \in unlisted

(* The doctor and the selection judge the state of a model each by rules   *)
(* of its own (_model_status, _score): what one calls ready the other does *)
(* not reject.                                                             *)
ReadyIsNotRejected ==
    \A m \in Model, required \in {"implementation", "advisory"} : catalog[m] # None =>
        LET e == EndpointOf[m]
        IN ModelStatus(m, required) = "ready" <=>
           ~Rejected(catalog[m], endpoints[e], health[e], e \in Ollama, required)
=============================================================================
