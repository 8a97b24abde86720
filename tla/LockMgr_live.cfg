CONSTANTS
    Trans = {t1, t2, t3}
    Table = {a}
    SysTable = {}
    RU = {}
    ReqModes = {2, 3}
    MaxWaits = 0
    MaxCount = 1
    NoTable = NoTable
SPECIFICATION SpecFairEnds
PROPERTY WaiterReturns
