SPECIFICATION Spec
CONSTANTS
    d1 = d1
    d2 = d2
    d3 = d3
    w1 = w1
    w2 = w2
    Ids = {d1}
    Workers = {w1}
    None = None
    Web = Web
    Pool = {101}
    MachineEvents = {}
    Failures = {"ssh"}
    WebRequests = FALSE
    Crashes = FALSE
    OverlappingProvisions = FALSE
    OverlappingOps = FALSE
SYMMETRY MCSymmetry
INVARIANT RunningIsSetUp
CHECK_DEADLOCK FALSE
