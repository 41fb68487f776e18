CONSTANTS
    Names = {a, b}
    MaxRestores = 1
    Kinds = {"candidate"}
    KeepDatabases = 3
SPECIFICATION RestoreSpec
INVARIANT UnchangedIsUntouched
CHECK_DEADLOCK FALSE
