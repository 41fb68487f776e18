CONSTANTS
    Workers = {w1, w2}
    Events <- MCEvents
    MaxAttempts = 2
    MaxFaults = 2
    Keys = {k1}
    Payloads = {x, y}
    Attempts = {a1, a2, a3}
    Nobody = Nobody
SPECIFICATION MCSpec
INVARIANTS OneVerdict VerdictOfLatestRun
PROPERTIES EventuallySettled KeepsPromise EveryAttemptEnds
CHECK_DEADLOCK FALSE
