SPECIFICATION SpecSelection
CONSTANTS
    p1 = p1
    p2 = p2
    t1 = t1
    c1 = c1
    Proc = {p1, p2}
    Mortal = {p1, p2}
    Task = {t1}
    Patch = {c1}
    Scope <- OnePatchInScope
    MaxRevision = 2
    None = None
SYMMETRY ProcSymmetry
INVARIANTS
    TypeOK
    RevisionsIncrease
    AcceptedWasApproved
PROPERTY ImplementsReviewedWorkButForSaves
