CONSTANTS
    BufSize = 4
    FileSize = 4
    Sizes = {1, 2, 3}
    MaxFile = 2
    MaxLife = 1
    MaxTorn = 0
    StaleEnds = {}
SPECIFICATION SpecFailures
INVARIANT AlreadyFlushed
