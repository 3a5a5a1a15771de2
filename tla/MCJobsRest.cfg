SPECIFICATION FairReviewedSpec
CONSTANTS
    Proc = {p1, p2}
    Mortal = {}
    Unloadable = {p2}
    JobId = {j1, j2, j3}
    ApprovalId = {a1, a2, a3}
    Key = {k1}
    Digest = {d1}
    None = None
    Reserved = {a2, a3}
    Shared = {}
    Forged = {}
    Requests <- MixedRequests
PROPERTIES
    JobComesToRest
    OutcomeIsFinal
CHECK_DEADLOCK FALSE
