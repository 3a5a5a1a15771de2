SPECIFICATION FairSpec
CONSTANTS
    Proc = {p1, p2}
    Mortal = {p2}
    JobId = {j1, j2}
    ApprovalId = {a1}
    None = None
    Plan = {x}
    StepCount = 2
    Gates <- FirstOrNone
    LateSteps = {2}
    Api = {p1}
INVARIANTS
    PlansAreGranted
    PlanGateHolds
    StepsRanInOrder
PROPERTIES
    ExecutionEnds
