SPECIFICATION SpecLaunch
CONSTANTS
    p1 = p1
    p2 = p2
    l1 = l1
    c1 = c1
    m1 = m1
    m2 = m2
    v1 = v1
    v2 = v2
    clean = clean
    dirty = dirty
    None = None
    Proc = {p1, p2}
    Launcher = {p1}
    Endpoint = {l1, c1}
    Ollama = {l1}
    Local = {l1}
    Model = {m1, m2}
    EndpointOf <- EndpointOfEach
    Version = {v1, v2}
    Able = {v2}
    Served <- ListedModels
    Initially <- BeginningOfEach
    Changes = 1
    Commands = 2
    Layers <- LayersOfEach
    MaxTurns = 2
    MaxTools = 2
    MaxCalls = 2
    Content = {clean, dirty}
    BaseContent = clean
    Worktree = {clean, dirty}
INVARIANTS
    CatalogIsSound
    CloudIsAuthorized
    NextWorkerFindsNoChange
    
PROPERTY LaunchEnds
CHECK_DEADLOCK FALSE
