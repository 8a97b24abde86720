CONSTANTS
    Items = {x, y}
    MaxTrans = 3
    MaxId = 3
    FileLen = 1
    MaxLog = 8
    Most <- FewRecords
    MaxCrash = 2
    Faults = {}
SPECIFICATION Spec
SYMMETRY Symmetry
INVARIANTS TypeOK WriteAhead LosersDisjoint LosersExact LogKept SavepointRestored
PROPERTY Refines
\* The log is bounded, so a run stops when it is full.
CHECK_DEADLOCK FALSE
