SPECIFICATION Spec
CONSTANTS
    alice = alice
    bob = bob
    anon = anon
    Anonymous = anon
    Ids = {o1, o2, o3}
    Users = {alice, anon}
    MaxPrice = 4
    MaxQty = 1
    LevelCap = 10
    TickSize = 1
    LotSize = 1
    MinSize = 0
    MaxSize = 1
    InitialStpModes = {"None"}
    Orders <- GtcOrders
    MarketClose = 1
    MaxTime = 0
    HasTracker = FALSE
    InitialConfig <- MidBand
    RiskConfigs = {}
    Operations = {"AddOrder", "CancelOrder", "UpdatePrice"}
SYMMETRY IdSymmetry
PROPERTIES ModifyKeepsOrder
