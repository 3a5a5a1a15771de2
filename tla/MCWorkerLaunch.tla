---------------------------- MODULE MCWorkerLaunch ----------------------------
(* Small instances of WorkerLaunch for TLC: a local endpoint and one in the cloud, each with
   one model. *)
EXTENDS WorkerLaunch

CONSTANTS p1, p2, l1, c1, m1, m2, v1, v2, clean, dirty

EndpointOfEach == [m \in Model |-> IF m = m1 THEN l1 ELSE c1]

(* The local model comes, goes and changes; the one in the cloud stays. *)
ListedModels == {[m \in Model |-> IF m = m1 THEN v ELSE v2] : v \in {v1, v2, None}}

BeginningOfEach ==
    {[m \in Model |-> IF m = m1 THEN b ELSE "probed"] : b \in Beginning}

Allows(models, cloud, fallback) == [models |-> models, cloud |-> cloud, fallback |-> fallback]

(* Cloud and fallback; a list, and no fallback; a task that forbids both. *)
LayersOfEach == {{Allows({}, TRUE, TRUE)},
                 {Allows({m1, m2}, TRUE, TRUE), Allows({}, TRUE, FALSE)},
                 {Allows({}, TRUE, TRUE), Allows({}, FALSE, FALSE)}}

(* The repository allows one model, the task the other. *)
DisjointLayers == {{Allows({m1}, TRUE, FALSE), Allows({m2}, TRUE, FALSE)}}
==============================================================================
