CONSTANTS
    Trans = {t1, t2, t3}
    Table = {a, b}
    SysTable = {b}
    RU = {t3}
    ReqModes = {2, 3}
    MaxWaits = 1
    MaxCount = 2
    NoTable = NoTable
SPECIFICATION Spec
SYMMETRY Symmetry
INVARIANTS TypeOK HoldersCompatible ItemsExact WaitersQueued GrantHolds ListsAgree NoDeadlock
PROPERTY Refines
