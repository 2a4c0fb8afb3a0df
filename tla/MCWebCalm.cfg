SPECIFICATION Spec
CONSTANTS
    i1 = i1
    i2 = i2
    i3 = i3
    h1 = h1
    h2 = h2
    w1 = w1
    w2 = w2
    Ids = {i1, i2, i3}
    Hostnames = {h1, h2}
    Workers = {w1, w2}
    None = None
    Pool = {101, 102}
    Gateway = 1
    TemplateIP = 20
    Ports = {9100, 9101, 9102}
    ForeignPorts = {9100}
    VHostBinds = {TRUE, FALSE}
    Ops = {"start", "restart", "delete"}
    Failures = {"apache"}
    Crashes = FALSE
    OverlappingProvisions = FALSE
    OverlappingOps = FALSE
SYMMETRY MCSymmetry
INVARIANT RunningIsServed
INVARIANT UrlReachesContent
INVARIANT NoLeakedServer
PROPERTY AddressesAreLeased
CHECK_DEADLOCK FALSE
