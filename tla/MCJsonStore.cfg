SPECIFICATION FairSpec
CONSTANTS
    k1 = k1
    k2 = k2
    w1 = w1
    w2 = w2
    Keys = {k1, k2}
    Callers = {w1, w2}
    Main = Main
    None = None
    MaxVersion = 2
    Failures = {"write", "rename"}
INVARIANT FileIsWhole
INVARIANT AckedIsDurable
PROPERTY FileNeverGoesBack
PROPERTY IsDurableMap
PROPERTY CallsReturn
