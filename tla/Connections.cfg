CONSTANTS
    Conn = {c1, c2}
    Fd = {f1, f2}
    None = None
    Other = Other
    Stalls = {"page"}
SPECIFICATION FairSpec
INVARIANTS ConnInv ReachesItsOwn NothingLeaked OneWriter
PROPERTY StopReturns
CHECK_DEADLOCK FALSE
