CONSTANTS
    Procs = {p1, p2}
    Keys = {}
    NoKey = NoKey
    MaxOps = 3
    OperatorMay = {"race"}
    Writers = {w1}
    MaxBackups = 1
    RequireComplete = TRUE
    SeedParts = 2  MaxCuts = 2
    MaxBinary = 2  PgPorts = 2  MaxTrouble = 2  MaxOrders = 1
SPECIFICATION MCSpec
INVARIANT HalfChangedIsRecorded
CHECK_DEADLOCK FALSE
