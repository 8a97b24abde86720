CONSTANTS
    Items = {x}
    MaxTrans = 2
    MaxId = 2
    FileLen = 4
    MaxLog = 9
    Most <- FewRecords
    MaxCrash = 1
    Faults = {"clean"}
SPECIFICATION Spec
PROPERTY Refines
\* The log is bounded, so a run stops when it is full.
CHECK_DEADLOCK FALSE
