CONSTANTS
    Tab = {t1}
    Path = {p, q}
    MaxBuild = 2
    MaxDrop = 1
    MaxRestart = 1
SPECIFICATION FairSpec
INVARIANTS PreviewInv ReachedTabsAreCurrent
PROPERTY TabsComeToRest
CHECK_DEADLOCK FALSE
