SPECIFICATION FairSpec
CONSTANTS
    w1 = w1
    w2 = w2
    j1 = j1
    j2 = j2
    k1 = k1
    Workers = {w1, w2}
    Jobs = {j1, j2}
    Callers = {k1}
    Handles <- RollingDeploy
    Delays = {0, 1}
    Lease = 2
    RetryBase = 1
    MaxAttempts = 2
    Limit = 2
    MaxRun = 0
    Existing = {j1}
    MaxTime = 3
    MaxCalls = 1
    MaxCrashes = 1
INVARIANTS TypeOK ExclusiveClaim OwedIsNotDone
PROPERTY OwedIsServed
CHECK_DEADLOCK FALSE
