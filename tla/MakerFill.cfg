SPECIFICATION HSpec
CONSTANTS
    alice = alice
    bob = bob
    anon = anon
    Anonymous = anon
    Ids = {o1, o2, o3}
    Users = {alice, anon}
    MaxPrice = 2
    MaxQty = 2
    LevelCap = 10
    TickSize = 1
    LotSize = 1
    MinSize = 0
    MaxSize = 2
    InitialStpModes = {"None"}
    Orders <- GtcOrders
    MarketClose = 1
    MaxTime = 0
    HasTracker = TRUE
    InitialConfig <- NoRisk
    RiskConfigs = {}
    Operations = {"AddOrder", "CancelOrder"}
SYMMETRY IdSymmetry
INVARIANTS FillsTracked
