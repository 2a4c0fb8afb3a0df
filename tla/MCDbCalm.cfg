SPECIFICATION Spec
CONSTANTS
    d1 = d1
    d2 = d2
    d3 = d3
    w1 = w1
    w2 = w2
    Ids = {d1, d2}
    Workers = {w1}
    None = None
    Web = Web
    Pool = {101, 102}
    MachineEvents = {"halt"}
    Failures = {"create", "ssh"}
    WebRequests = FALSE
    Crashes = FALSE
    OverlappingProvisions = FALSE
    OverlappingOps = FALSE
SYMMETRY MCSymmetry
INVARIANT TypeOK
INVARIANT UniqueAddresses
INVARIANT MachineHasOwnAddress
INVARIANT DatabaseAtHome
CHECK_DEADLOCK FALSE
