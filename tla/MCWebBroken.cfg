SPECIFICATION Spec
CONSTANTS
    i1 = i1
    i2 = i2
    i3 = i3
    h1 = h1
    h2 = h2
    w1 = w1
    w2 = w2
    Ids = {i1, i2}
    Hostnames = {h1, h2}
    Workers = {w1}
    None = None
    Pool = {101, 102}
    Gateway = 1
    TemplateIP = 0
    Ports = {9100}
    ForeignPorts = {}
    VHostBinds = {TRUE}
    Ops = {"stop", "delete"}
    Failures = {"save", "dns"}
    Crashes = TRUE
    OverlappingProvisions = FALSE
    OverlappingOps = FALSE
SYMMETRY MCSymmetry
INVARIANT UniqueHostnames
INVARIANT UniqueAddresses
PROPERTY NamesAreLeased
PROPERTY FollowsLifecycle
CHECK_DEADLOCK FALSE
