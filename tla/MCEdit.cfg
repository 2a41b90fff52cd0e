SPECIFICATION Spec
CONSTANTS
    Tasks = {t1, t2}
    Products = {1, 2}
    Carts = {"c1", "c2"}
    Customers = {"alice"}
    Keys = {"k1", "k2"}
    Prices = {1, 2}
    RewardN = 1
    RewardX = 50
    StockTotal <- EditStock
    Requests <- EditRequests
    Nobody = Nobody
    NoCart = NoCart
    NoLock = NoLock
SYMMETRY ByTask
INVARIANTS
    PaidCartIsFrozen
    OrdersAddUp
PROPERTIES
    HistoryIsFinal
    ImplementsAtomicShop
