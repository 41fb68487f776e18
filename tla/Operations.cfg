CONSTANTS
    Procs = {p1, p2}
    Keys = {k1}
    NoKey = NoKey
    MaxOps = 4
    OperatorMay = {"hold"}
    Writers = {w1, w2, w3}
    MaxBackups = 2
    RequireComplete = TRUE
    SeedParts = 2  MaxCuts = 2
    MaxBinary = 2  PgPorts = 2  MaxTrouble = 2  MaxOrders = 1
SPECIFICATION MCSpec
INVARIANTS OperationsAreSafe ArchiveIsWhole DesktopIsWhole DemoIsWhole
PROPERTIES NeverWedged WritersContinue DesktopComesUp DemoComesBack
CHECK_DEADLOCK FALSE
