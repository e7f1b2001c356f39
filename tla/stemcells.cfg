SPECIFICATION FairSpec
CONSTANTS
    Proc = {p1, p2, p3}
    Image = {i1}
    Alias = {a1, a2}
    None = None
    PredeployStemcell = TRUE
    LockEnabled = TRUE
    MaxFaults = 1
    Crashes = TRUE
    Overlap = TRUE
INVARIANTS TypeOK CidUsable OneAlias DeletedClean NoStrayImage SingleThreaded
PROPERTIES LockPassed ImageReady
CHECK_DEADLOCK FALSE
