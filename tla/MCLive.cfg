SPECIFICATION FairSpec
CONSTANTS
    Tasks = {t1, t2, t3}
    Products = {1}
    Carts = {"c1", "c2"}
    Customers = {"alice"}
    Keys = {"k1"}
    Prices = {1}
    RewardN = 1
    RewardX = 50
    StockTotal <- LiveStock
    Requests <- LiveRequests
    Nobody = Nobody
    NoCart = NoCart
    NoLock = NoLock
PROPERTIES
    EveryRequestEnds
    ClaimsSettle
