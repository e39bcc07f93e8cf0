SPECIFICATION Spec
CONSTANTS
    alice = alice
    bob = bob
    anon = anon
    Anonymous = anon
    Ids = {o1, o2, o3}
    Users = {alice, anon}
    MaxPrice = 2
    MaxQty = 4
    LevelCap = 10
    TickSize = 1
    LotSize = 2
    MinSize = 0
    MaxSize = 4
    InitialStpModes = {"None"}
    Orders <- GtcOrders
    MarketClose = 1
    MaxTime = 0
    HasTracker = FALSE
    InitialConfig <- Limits
    RiskConfigs = {}
    Operations = {"AddOrder", "CancelOrder", "UpdateQuantity", "DisableRisk", "SubmitMarketOrder", "SubmitMarketOrderByAmount"}
SYMMETRY IdSymmetry
INVARIANTS LotIntegrity NotCrossed
