CONSTANTS
    Trans = {t1, t2, t3, t4}
    Table = {a}
    SysTable = {}
    RU = {t4}
    ReqModes = {2, 3, 4}
    MaxWaits = 0
    MaxCount = 1
    NoTable = NoTable
SPECIFICATION Spec
SYMMETRY Symmetry
INVARIANTS GroupExact NoneForgotten
PROPERTY NoOvertaking
