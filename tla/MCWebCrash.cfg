SPECIFICATION Spec
CONSTANTS
    i1 = i1
    i2 = i2
    i3 = i3
    h1 = h1
    h2 = h2
    w1 = w1
    w2 = w2
    Ids = {i1, i2}
    Hostnames = {h1, h2}
    Workers = {w1, w2}
    None = None
    Pool = {101}
    Gateway = 1
    TemplateIP = 20
    Ports = {9100, 9101}
    ForeignPorts = {}
    VHostBinds = {TRUE}
    Ops = {"start", "stop", "restart", "delete"}
    Failures = {}
    Crashes = TRUE
    OverlappingProvisions = FALSE
    OverlappingOps = FALSE
SYMMETRY MCSymmetry
INVARIANT TypeOK
INVARIANT RunningIsDeployed
INVARIANT RunningShowsColumn
INVARIANT NothingLeft
PROPERTY FollowsLifecycle
CHECK_DEADLOCK FALSE
