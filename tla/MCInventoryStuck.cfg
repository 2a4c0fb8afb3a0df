SPECIFICATION FairSpec
CONSTANTS
    v1 = v1
    v2 = v2
    i1 = i1
    i2 = i2
    i3 = i3
    w1 = w1
    w2 = w2
    Vms = {v1}
    Shown = {v1}
    Ids = {i1, i2}
    Sites = {i1}
    Workers = {w1}
    None = None
    Ops = {"start"}
    Failures = {}
    MachineEvents <- MCEvents
PROPERTY StatesAreShown
