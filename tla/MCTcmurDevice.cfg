CONSTANTS
    c1 = c1
    c2 = c2
    c3 = c3
    lk = lk
    rc = rc
    td = td
    Callers <- MCCallers
    LockThr = lk
    RecoveryThr = rc
    Teardown = td
    MaxCalls = 2
    MaxCmds = 3
    MaxOpenFails = 2

SPECIFICATION Spec

INVARIANT ReopenSingleFlight
INVARIANT QuiescentReopen
INVARIANT LockStateTracksLockThread
INVARIANT BackendHandlesBalanced
INVARIANT RemovalQuiesces
INVARIANT LockJoinTargetsLiveThread
INVARIANT RecoveryFlagOwned
INVARIANT LockDroppedByReopen
PROPERTY ReopenReturns
PROPERTY ReopenRefinesAbstract
PROPERTY LockThreadFinishes
PROPERTY TeardownCompletes
