CONSTANTS
    Key <- SmallKey
    Absent = Absent
    Torn = Torn
    Source = {1}
    Post <- OnePost
    Layout = {l1}
    Nav = {n1, n2}
    Static = {"404", "a", "icon"}
    Flags = {TRUE, FALSE}
    Forces = {TRUE, FALSE}
    Kinds = {"post", "delete", "nav", "static"}
    Mid = {}
    Faults = {"fail", "kill"}
    MaxEdit = 2
    MaxBuild = 3
SPECIFICATION Spec
INVARIANTS HistoryInv ForcedMatchesFreshBuild
SYMMETRY Symmetry
CHECK_DEADLOCK FALSE
