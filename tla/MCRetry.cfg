SPECIFICATION Spec
CONSTANTS
    Tasks = {t1, t2, t3}
    Products = {1}
    Carts = {"c1"}
    Customers = {"alice", "bob"}
    Keys = {"k1", "k2"}
    Prices = {1}
    RewardN = 1
    RewardX = 50
    StockTotal <- RetryStock
    Requests <- RetryRequests
    Nobody = Nobody
    NoCart = NoCart
    NoLock = NoLock
SYMMETRY ByTask
INVARIANTS
    OneOrderPerCart
    RecordsLeadToOrders
    ClaimsHaveOneWorker
    PaidCheckoutsCommit
    AnswersMatchTheRequest
PROPERTIES
    ImplementsAtomicShop
