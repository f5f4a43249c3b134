CONSTANTS
    Key <- SmallKey
    Absent = Absent
    Torn = Torn
    Source = {1, 2}
    Post <- FewPosts
    Layout = {l1, l2}
    Nav = {n1}
    Static = {}
    Flags = {FALSE}
    Forces = {FALSE}
    Kinds = {"layout"}
    Mid = {}
    Faults = {"fail"}
    MaxEdit = 2
    MaxBuild = 3
SPECIFICATION Spec
INVARIANT MatchesFreshBuild
SYMMETRY Symmetry
CHECK_DEADLOCK FALSE
