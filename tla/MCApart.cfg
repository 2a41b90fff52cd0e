SPECIFICATION Spec
CONSTANTS
    Tasks = {t1, t2}
    Products = {1, 2}
    Carts = {"c1", "c2"}
    Customers = {"alice", "bob"}
    Keys = {"k1"}
    Prices = {1}
    RewardN = 5
    RewardX = 10
    StockTotal <- ApartStock
    Requests <- ApartRequests
    Nobody = Nobody
    NoCart = NoCart
    NoLock = NoLock
SYMMETRY ByTask
INVARIANTS
    DifferentProductsProceed
