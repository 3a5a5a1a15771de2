SPECIFICATION FairPromoting
CONSTANTS
    p1 = p1
    p2 = p2
    t1 = t1
    t2 = t2
    c1 = c1
    c2 = c2
    c3 = c3
    c4 = c4
    h1 = h1
    h2 = h2
    x = x
    y = y
    f1 = f1
    Proc = {p1, p2}
    Mortal = {}
    Task = {t1, t2}
    Patch = {c1, c2, c3, c4}
    Hunk = {h1, h2}
    FileOf <- OneFile
    Content = {x, y}
    Change <- Changes
    Scope <- PatchesInScope
    MaxRevision = 2
    None = None
INVARIANTS
    PromotionIsReviewed
    PromotedWorkStands
PROPERTY PromotionEnds
CHECK_DEADLOCK FALSE
