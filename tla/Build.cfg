CONSTANTS
    Key <- SmallKey
    Absent = Absent
    Torn = Torn
    Source = {1, 2}
    Post <- FewPosts
    Layout = {l1, l2}
    Nav = {n1}
    Static = {"icon"}
    Flags = {FALSE}
    Forces = {FALSE}
    Kinds = {"post", "delete", "layout", "static"}
    Mid = {"post", "delete", "layout"}
    Faults = {"coarse", "fail"}
    MaxEdit = 2
    MaxBuild = 3
SPECIFICATION Spec
INVARIANTS MatchesButAbandoned NothingChangedNothingWritten RepeatInv
PROPERTY RefusesOnlyWhatFreshRefuses
SYMMETRY Symmetry
CHECK_DEADLOCK FALSE
