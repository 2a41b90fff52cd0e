SPECIFICATION Spec
CONSTANTS
    Tasks = {t1, t2}
    Products = {1}
    Carts = {"c1", "c2", "c3"}
    Customers = {"alice", "bob"}
    Keys = {"k1"}
    Prices = {1}
    RewardN <- Backwards
    RewardX = 150
    StockTotal <- MisconfiguredStock
    Requests <- MisconfiguredRequests
    Nobody = Nobody
    NoCart = NoCart
    NoLock = NoLock
SYMMETRY ByTask
INVARIANTS
    CouponsAreUsedOnce
    ClaimsHaveOneWorker
PROPERTIES
    GenerateTellsTheTruth
