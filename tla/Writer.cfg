CONSTANTS
    Key = {k1, k2}
    Bytes = {a, b}
    Thread = {t1, t2}
    Absent = Absent
    Torn = Torn
    MaxCalls = 2
    MaxSession = 3
SPECIFICATION Spec
INVARIANTS NoTornPage ManifestTruthful OneResultPerKey OutputIsExpected WriterInv
PROPERTIES ChangesReported KeepsPagesWhole
SYMMETRY Symmetry
CHECK_DEADLOCK FALSE
