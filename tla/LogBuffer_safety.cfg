CONSTANTS
    BufSize = 4
    FileSize = 4
    Sizes = {1, 3}
    MaxFile = 2
    MaxLife = 2
    MaxTorn = 1
    StaleEnds = {2}
SPECIFICATION SpecFair
INVARIANTS TypeOK OneChangePending NeverRefused ReadBack AlreadyFlushed
PROPERTIES WriteEnds Refines
\* The log stops when the log files of the instance are used up.
CHECK_DEADLOCK FALSE
