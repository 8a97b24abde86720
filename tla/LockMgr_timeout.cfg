CONSTANTS
    Trans = {t1, t2, t3}
    Table = {a, b}
    SysTable = {b}
    RU = {t3}
    ReqModes = {3}
    MaxWaits = 2
    MaxCount = 1
    NoTable = NoTable
SPECIFICATION SpecFair
PROPERTY WaiterReturns
