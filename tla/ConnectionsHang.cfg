CONSTANTS
    Conn = {c1}
    Fd = {f1, f2}
    None = None
    Other = Other
    Stalls = {"reload"}
SPECIFICATION FairSpec
PROPERTY StopReturns
CHECK_DEADLOCK FALSE
