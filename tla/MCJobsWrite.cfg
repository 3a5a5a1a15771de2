SPECIFICATION ReviewedSpec
CONSTANTS
    Proc = {p1, p2}
    Mortal = {p1, p2}
    Unloadable = {p1, p2}
    JobId = {j1, j2, j3, j4}
    ApprovalId = {a1, a2}
    Key = {k1, k2}
    Digest = {d1, d2}
    None = None
    Reserved = {}
    Shared = {}
    Forged = {d2}
    Requests <- LiveRequests
SYMMETRY Symmetry
INVARIANTS
    TypeOK
    WriterHoldsKey
    LiveRequestsAreReviewed
PROPERTIES
    SettledKeyIsFinal
    ImplementsLedger
    DecisionIsFinal
CHECK_DEADLOCK FALSE
