SPECIFICATION Spec
CONSTANTS
    Tasks = {t1, t2}
    Products = {1}
    Carts = {"c1", "c2", "c3"}
    Customers = {"alice", "bob"}
    Keys = {"k1", "k2"}
    Prices = {1, 2}
    RewardN = 2
    RewardX = 50
    StockTotal <- AtomicStock
    Requests <- AtomicRequests
    Nobody = Nobody
    NoCart = NoCart
    NoLock = NoLock
SYMMETRY ByTask
INVARIANTS
    MilestonesAreRewardedOnce
PROPERTIES
    ImplementsAtomicShop
