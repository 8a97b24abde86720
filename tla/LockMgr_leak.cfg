CONSTANTS
    Trans = {t1, t2}
    Table = {a, b}
    SysTable = {b}
    RU = {}
    ReqModes = {2, 3}
    MaxWaits = 1
    MaxCount = 1
    NoTable = NoTable
SPECIFICATION SpecNoMemory
INVARIANT EndedHoldNothing
