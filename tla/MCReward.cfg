SPECIFICATION Spec
CONSTANTS
    Tasks = {t1, t2, t3}
    Products = {1, 2}
    Carts = {"c1", "c2", "c3"}
    Customers = {"alice", "bob"}
    Keys = {"k1"}
    Prices = {1}
    RewardN = 1
    RewardX = 50
    StockTotal <- RewardStock
    Requests <- RewardRequests
    Nobody = Nobody
    NoCart = NoCart
    NoLock = NoLock
SYMMETRY ByTask
INVARIANTS
    CouponsAreUsedOnce
    MilestonesAreRewardedOnce
    CouponIsNeverInUse
