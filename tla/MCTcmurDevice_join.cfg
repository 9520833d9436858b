CONSTANTS
    c1 = c1
    c2 = c2
    c3 = c3
    lk = lk
    rc = rc
    td = td
    Callers <- MCCallers
    LockThr = lk
    RecoveryThr = rc
    Teardown = td
    MaxCalls = 2
    MaxCmds = 2
    MaxOpenFails = 2

SPECIFICATION Spec

INVARIANT JoinsTargetCreatedThreads
