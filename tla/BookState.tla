----------------------------- MODULE BookState -----------------------------
(***************************************************************************)
(* The state of one OrderBook (book.rs) driven by one caller at a time,    *)
(* and the helpers its operations share.  A public call is one entry       *)
(* action; the matching walk of a call, the re-add half of a modify and a  *)
(* batch of cancels then take one step per loop iteration, with the call   *)
(* in progress held in `op'.  Between two steps of a call only the clock   *)
(* and the kill switch (an atomic flag any thread may store) can change.   *)
(*                                                                         *)
(* Orders have one tranche.  A price level (crate pricelevel, external) is *)
(* the set of orders with its side and price; the place of an order in the *)
(* level's queue is `ahead', the set of orders the sweep consumes first.   *)
(***************************************************************************)
EXTENDS Integers, FiniteSets, FiniteSetsExt

CONSTANTS
    Ids,            \* order ids
    Users,          \* accounts (Hash32)
    Anonymous,      \* Hash32::zero()
    MaxPrice,       \* bound: prices are 1..MaxPrice
    MaxQty,         \* bound: a modify or a market order asks for 1..MaxQty
    LevelCap,       \* capacity of a level's aggregate counter (2^64-1)
    TickSize,       \* tick_size, 1 = not configured
    LotSize,        \* lot_size, 1 = not configured
    MinSize,        \* min_order_size, 0 = not configured
    MaxSize,        \* max_order_size, MaxQty = not configured
    InitialStpModes, \* the modes of self-trade prevention a new book may have
    Orders,         \* the orders the client submits
    MarketClose,    \* market_close_timestamp
    MaxTime,        \* bound: the clock is 0..MaxTime
    HasTracker,     \* an OrderStateTracker is installed
    InitialConfig,  \* risk configuration installed before the first order
    RiskConfigs,    \* the configurations set_risk_config may install later
    Operations      \* the entry points the client uses

Sides == {"Buy", "Sell"}
Prices == 1..MaxPrice
TimesInForce == {"GTC", "IOC", "FOK", "DAY"}
StpModes == {"None", "CancelTaker", "CancelMaker", "CancelBoth"}
Kinds == {"limit", "market", "quote"}

RiskConfig == [on : BOOLEAN, maxOpen : Nat, maxNotional : Nat, band : Nat,
               source : {"none", "last", "mid", "fixed"}, fixed : Nat]

ASSUME BoundsAssumption ==
    /\ MaxPrice \in Nat \ {0} /\ MaxQty \in Nat \ {0} /\ LevelCap \in Nat
    /\ TickSize \in Nat \ {0} /\ LotSize \in Nat \ {0}
    /\ MinSize \in Nat /\ MaxSize \in Nat
    /\ MarketClose \in Nat /\ MaxTime \in Nat

ASSUME DomainAssumption ==
    /\ IsFiniteSet(Ids)
    /\ Anonymous \in Users
    /\ InitialStpModes \subseteq StpModes /\ HasTracker \in BOOLEAN
    /\ InitialConfig \in RiskConfig /\ RiskConfigs \subseteq RiskConfig

VARIABLES
    resting,           \* id -> order, for every order in a price level
    levels,            \* side -> prices that are keys of bids / asks
    order_locations,   \* id -> <<price, side>>
    user_orders,       \* user -> ids
    risk_orders,       \* id -> RiskEntry
    open_count,        \* user -> RiskCounters.open_count
    resting_notional,  \* user -> RiskCounters.resting_notional
    risk_config,
    status,            \* id -> the tracker's latest OrderStatus
    last_trade_price,  \* 0 until has_traded
    kill_switch,
    stp_mode,
    now,               \* the book's clock
    op                 \* the call in progress

riskVars == <<risk_orders, open_count, resting_notional>>
bookVars == <<resting, levels, order_locations, user_orders>>
envVars == <<risk_config, kill_switch, stp_mode, now>>
vars == <<bookVars, riskVars, status, last_trade_price, envVars, op>>

---------------------------------------------------------------------------
\* Orders, levels and queues

Order == [side : Sides, price : Prices, qty : Nat \ {0}, user : Users,
          tif : TimesInForce, post : BOOLEAN]

ASSUME OrdersAssumption == Orders \subseteq Order

RestingOrder == [side : Sides, price : Prices, qty : Nat \ {0}, user : Users,
                 tif : TimesInForce, post : BOOLEAN,
                 ahead : SUBSET Ids]

RiskEntry == [account : Users, price : Prices, remaining_qty : Nat]

OrderStatus == [st : {"Open", "PartiallyFilled", "Filled", "Cancelled",
                      "Rejected"},
                filled : Nat]

IsMap(f, K, V) == DOMAIN f \subseteq K /\ f \in [DOMAIN f -> V]
EmptyMap == [x \in {} |-> x]
Put(f, k, v) == [x \in DOMAIN f \cup {k} |-> IF x = k THEN v ELSE f[x]]
Drop(f, S) == [x \in DOMAIN f \ S |-> f[x]]

\* Mutant of MinOf: the comparison is the wrong way round.
MinOfSwapped(a, b) == IF a <= b THEN b ELSE a

MinOf(a, b) == IF a <= b THEN a ELSE b
SatSub(a, b) == IF a <= b THEN 0 ELSE a - b

Opposite(s) == IF s = "Buy" THEN "Sell" ELSE "Buy"

\* Price p of side s is swept before price q.
Better(s, p, q) == IF s = "Sell" THEN p < q ELSE p > q

\* Mutant of Crosses: an equal price does not cross.
CrossesStrictly(o, p) == IF o.side = "Buy" THEN p < o.price ELSE p > o.price

\* An order o crosses price p of the opposite side.
Crosses(o, p) == IF o.side = "Buy" THEN p <= o.price ELSE p >= o.price

\* The order is located, and found in its level.
Live(id) == id \in DOMAIN order_locations /\ id \in DOMAIN resting

At(s, p) == {m \in DOMAIN resting : resting[m].side = s /\ resting[m].price = p}

Depth(S) == MapThenSumSet(LAMBDA m : resting[m].qty, S)

\* PriceLevel::add_order: the order joins the back of its level's queue.
Enqueue(id, o, q) ==
    Put(resting, id, [side |-> o.side, price |-> o.price, qty |-> q,
                      user |-> o.user, tif |-> o.tif, post |-> o.post,
                      ahead |-> At(o.side, o.price) \ {id}])

\* PriceLevel::update_order(Cancel), and a full fill: the order leaves its queue.
Dequeue(id) ==
    [m \in DOMAIN resting \ {id} |->
        [resting[m] EXCEPT !.ahead = @ \ {id}]]

\* Mutant of LevelsWithout: the emptied level stays.
LevelsKept(id) == levels

\* The price keys left once order id is gone and its level, if it is then
\* empty, has been removed from the map.
LevelsWithout(id) ==
    LET o == resting[id]
    IN  IF At(o.side, o.price) = {id}
        THEN [levels EXCEPT ![o.side] = @ \ {o.price}]
        ELSE levels

\* best_bid and best_ask; their cache is transparent to a single caller, since
\* every change of the book invalidates it first.
BestPrice(s) == CHOOSE p \in levels[s] : \A q \in levels[s] : q = p \/ Better(s, p, q)

WillCross(o) ==
    LET s == Opposite(o.side) IN levels[s] # {} /\ Crosses(o, BestPrice(s))

Expired(tif, t) == tif = "DAY" /\ t >= MarketClose
IsImmediate(o) == o.tif \in {"IOC", "FOK"}
=============================================================================
