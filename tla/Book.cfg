SPECIFICATION Spec
CONSTANTS
    alice = alice
    bob = bob
    anon = anon
    Anonymous = anon
    Ids = {o1, o2, o3}
    Users = {alice, anon}
    MaxPrice = 2
    MaxQty = 2
    LevelCap = 3
    TickSize = 1
    LotSize = 1
    MinSize = 0
    MaxSize = 2
    InitialStpModes = {"None"}
    Orders <- AllKinds
    MarketClose = 1
    MaxTime = 1
    HasTracker = FALSE
    InitialConfig <- NoRisk
    RiskConfigs = {}
    Operations = {"AddOrder", "AddDuplicate", "CancelOrder", "UpdateOrderCancel", "UpdatePrice", "UpdatePriceAndQuantity", "Replace", "UpdateQuantity", "CancelOrdersBySide", "CancelOrdersByUser", "CancelOrdersByPriceRange", "CancelAllOrders", "EvictExpiredOrders", "SubmitMarketOrder", "SubmitMarketOrderByAmount"}
SYMMETRY IdSymmetry
INVARIANTS TypeOK IndexesAgree NotCrossed
 
