SPECIFICATION FairLockSpec
CONSTANTS
    Tasks = {t1, t2, t3}
    Products = {1, 2}
    Carts = {c1}
    Nobody = Nobody
    NoCart = NoCart
    NoLock = NoLock
INVARIANTS
    LockTypeOK
    HoldsWhatItPassed
    QueuesAreExact
    WaitsAscend
PROPERTIES
    EveryWaiterIsServed
