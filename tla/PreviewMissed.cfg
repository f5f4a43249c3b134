CONSTANTS
    Tab = {t1}
    Path = {p}
    MaxBuild = 2
    MaxDrop = 0
    MaxRestart = 0
SPECIFICATION Spec
INVARIANT SettledTabsAreCurrent
CHECK_DEADLOCK FALSE
