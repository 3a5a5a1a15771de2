SPECIFICATION Spec
CONSTANTS
    p1 = p1
    p2 = p2
    a1 = a1
    i1 = i1
    c1 = c1
    r1 = r1
    None = None
    Approval = {a1}
    Item = {i1}
    Claim = {c1}
    Id = {r1}
    Proc = {p1, p2}
    Reader = {p2}
    Calls <- EachCall
    Start <- StartOfEach
    MaxCalls = 3
INVARIANTS
    DatabaseIsSound
    ListIsRegular
PROPERTIES
    ImplementsAtomicStore
    CallsEnd
CHECK_DEADLOCK FALSE
