SPECIFICATION ApiSpec
CONSTANTS
    Tasks = {t1, t2}
    Products = {1}
    Carts = {"c1", "c2"}
    Customers = {"alice"}
    Keys = {"k1"}
    Prices = {1, 2}
    RewardN = 1
    RewardX = 50
    StockTotal <- ApiStock
    Requests <- ApiRequests
    Calls <- ApiCalls
    Nobody = Nobody
    NoCart = NoCart
    NoLock = NoLock
SYMMETRY ByTask
INVARIANTS
    ViewsAgree
    AnOrderReadsTheSame
PROPERTIES
    StatusTellsTheOutcome
    ReportFollowsTheAnswers
