CONSTANTS
    a = a
    b = b
    x = x
    y = y
    Clients = {a, b}
    Rows = {x, y}
    Dsns = 1
    DsnOf <- FirstDsn
    Modes = {"MOD_SYNC"}
    Answers = {"ACK", "NACK", "UPGRADE"}
    MaxConn = 2
    MaxTime = 2
    MaxFail = 1
    Changes <- DeleteXUpdateY
    Window = 1
    Faults = {}
SYMMETRY Symmetry
SPECIFICATION Spec
INVARIANTS TypeOK NothingMissed UploadWhole ConnectedIsServed
PROPERTY ChangesKept
\* The connections run out.
CHECK_DEADLOCK FALSE
