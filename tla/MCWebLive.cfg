SPECIFICATION FairSpec
CONSTANTS
    i1 = i1
    i2 = i2
    i3 = i3
    h1 = h1
    h2 = h2
    w1 = w1
    w2 = w2
    Ids = {i1}
    Hostnames = {h1}
    Workers = {w1, w2}
    None = None
    Pool = {101, 102}
    Gateway = 1
    TemplateIP = 20
    Ports = {9100, 9101}
    ForeignPorts = {}
    VHostBinds = {TRUE}
    Ops = {"start", "stop", "restart", "delete"}
    Failures = {"deploy", "dns"}
    Crashes = FALSE
    OverlappingProvisions = FALSE
    OverlappingOps = TRUE
INVARIANT RunningIsDeployed
PROPERTY NoResurrection
PROPERTY ProvisionEnds
PROPERTY StateSettles
PROPERTY DeleteEnds
CHECK_DEADLOCK FALSE
