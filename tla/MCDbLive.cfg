SPECIFICATION FairSpec
CONSTANTS
    d1 = d1
    d2 = d2
    d3 = d3
    w1 = w1
    w2 = w2
    Ids = {d1}
    Workers = {w1}
    None = None
    Web = Web
    Pool = {101}
    MachineEvents = {"halt", "pause", "boot"}
    Failures = {"template", "create", "props", "start", "slow", "ssh", "dns", "poweroff", "unregister", "inspect"}
    WebRequests = FALSE
    Crashes = FALSE
    OverlappingProvisions = FALSE
    OverlappingOps = TRUE
PROPERTY ProvisionEnds
PROPERTY DeleteEnds
PROPERTY ChangesAreShown
CHECK_DEADLOCK FALSE
