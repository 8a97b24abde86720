CONSTANTS
    BufSize = 4
    FileSize = 4
    Sizes = {1, 2, 3}
    MaxFile = 2
    MaxLife = 2
    MaxTorn = 1
    StaleEnds = {2}
SPECIFICATION Spec
INVARIANT BrokenFileKept
