CONSTANTS
    Names = {a, b}
    MaxRestores = 3
    Kinds = {"candidate", "in-place", "promote"}
    KeepDatabases = 0
SPECIFICATION RestoreSpec
INVARIANTS OldIsKept VerdictIsTrue
CHECK_DEADLOCK FALSE
