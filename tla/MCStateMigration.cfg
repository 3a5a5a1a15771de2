SPECIFICATION Spec
CONSTANTS
    j1 = j1
    j2 = j2
    a1 = a1
    q1 = q1
    None = None
    JobIds <- TwoJobs
    ApprovalIds <- OneApproval
    PlanIds <- OnePlan
    MaxEvents = 2
    MaxRuns = 2
INVARIANTS
    CopyIsFaithful
PROPERTIES
    LaterStays
CHECK_DEADLOCK FALSE
