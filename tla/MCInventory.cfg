SPECIFICATION FairSpec
CONSTANTS
    v1 = v1
    v2 = v2
    i1 = i1
    i2 = i2
    i3 = i3
    w1 = w1
    w2 = w2
    Vms = {v1, v2}
    Shown = {v1}
    Ids = {i1, i2, i3}
    Sites = {i1}
    Workers = {w1}
    None = None
    Ops = {"start", "stop", "restart", "delete"}
    Failures = {"inspect", "start", "slow", "poweroff"}
    MachineEvents <- MCEvents
INVARIANT TypeOK
INVARIANT OneEntryPerMachine
PROPERTY EntriesGoWithMachines
PROPERTY MachinesAreShown
PROPERTY GoneMachinesGo
PROPERTY OperationsEnd
