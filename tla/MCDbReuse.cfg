SPECIFICATION Spec
CONSTANTS
    d1 = d1
    d2 = d2
    d3 = d3
    w1 = w1
    w2 = w2
    Ids = {d1, d2}
    Workers = {w1}
    None = None
    Web = Web
    Pool = {101}
    MachineEvents = {"abort"}
    Failures = {"template", "create", "props", "ssh", "save"}
    WebRequests = TRUE
    Crashes = TRUE
    OverlappingProvisions = FALSE
    OverlappingOps = FALSE
SYMMETRY MCSymmetry
INVARIANT NothingLeft
INVARIANT ReverseMatchesForward
PROPERTY AddressesAreLeased
CHECK_DEADLOCK FALSE
