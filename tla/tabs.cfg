SPECIFICATION FairSpec
CONSTANTS
    r1 = r1
    r2 = r2
    r3 = r3
    left = left
    right = right
    Tab = {left, right}
    Request = {r1, r2, r3}
    TabOf <- OneReloaded
    Restoring = {r3}
    Browsers <- NewAndOld
    MaxAbandoned = 1
    First = First
    Null = Null
INVARIANTS OneCallWithLocks NoLogoutByConcurrency
PROPERTIES EveryRequestEnds
CHECK_DEADLOCK FALSE
