SPECIFICATION Spec
CONSTANTS
    alice = alice
    bob = bob
    anon = anon
    Anonymous = anon
    Ids = {o1, o2}
    Users = {alice, bob, anon}
    MaxPrice = 2
    MaxQty = 2
    LevelCap = 10
    TickSize = 1
    LotSize = 1
    MinSize = 0
    MaxSize = 2
    InitialStpModes = {"CancelMaker"}
    Orders <- TwoUsers
    MarketClose = 1
    MaxTime = 0
    HasTracker = FALSE
    InitialConfig <- NoRisk
    RiskConfigs = {}
    Operations = {"AddOrder", "CancelOrdersByUser", "UpdatePrice", "KillSwitch", "SubmitMarketOrderByAmount"}
PROPERTIES CallReturns
