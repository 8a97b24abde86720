CONSTANTS
    Record = {1, 2, 3, 4, 5, 6}
    Node = {1, 2, 3, 4, 5}
    MaxItem = 3
    MinItem = 2
    Key = {1, 2, 3, 4, 5}
    KeyOf <- Keys6
    SmallTable = 3
    ScanOn = {{1, 2, 3, 5}}
    MaxMoves = 2
    Faults = {}
SPECIFICATION Spec
INVARIANTS TypeOK Balanced Ordered Findable ScanExact RangeExact
\* The behaviour ends when the statement is done.
CHECK_DEADLOCK FALSE
