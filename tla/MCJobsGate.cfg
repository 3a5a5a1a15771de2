SPECIFICATION Spec
CONSTANTS
    Proc = {p1, p2, p3}
    Mortal = {p1, p2, p3}
    Unloadable = {p1, p2, p3}
    JobId = {j1, j2}
    ApprovalId = {a1, a2}
    Key = {}
    Digest = {}
    None = None
    Reserved = {}
    Shared = {j1, j2}
    Forged = {}
    Requests <- PlainRequests
SYMMETRY Symmetry
INVARIANTS
    ProviderStartsOnce
    GateHolds
CHECK_DEADLOCK FALSE
