----------------------------- MODULE OrderBook -----------------------------
(***************************************************************************)
(* The public operations of the book: submission (modifications.rs,        *)
(* operations.rs), modification and cancellation (modifications.rs), mass  *)
(* cancellation and expiry (mass_cancel.rs), and the operator's switches   *)
(* (book.rs).  A call that is refused without a state change is a          *)
(* stuttering step and has no action.                                      *)
(***************************************************************************)
EXTENDS BookMatching

May(operation) == operation \in Operations /\ op = Idle

---------------------------------------------------------------------------
\* Admission

\* Mutant of Malformed: quantities off the lot grid are accepted.
MalformedButLots(o) ==
    \/ stp_mode # "None" /\ o.user = Anonymous
    \/ o.price % TickSize # 0
    \/ o.qty < MinSize
    \/ o.qty > MaxSize

\* The size, grid and owner checks of validate_order_shape.
Malformed(o) ==
    \/ stp_mode # "None" /\ o.user = Anonymous
    \/ o.price % TickSize # 0
    \/ o.qty % LotSize # 0
    \/ o.qty < MinSize
    \/ o.qty > MaxSize

\* validate_order_shape, with what record_shape_rejection then records:
\* nothing for an expired order, Cancelled for an infeasible fill-or-kill.
ShapeVerdict(o) ==
    IF Malformed(o) THEN "Rejected"
    ELSE IF Expired(o.tif, now) THEN "Untracked"
    ELSE IF o.post /\ WillCross(o) THEN "Rejected"
    ELSE IF o.tif = "FOK" /\ FokFillable(o) < o.qty THEN "Cancelled"
    ELSE "Ok"

\* The residual-admission headroom check: a crossing order that may rest must
\* fit its level's aggregate counter in full.
NoHeadroom(o) ==
    /\ ~IsImmediate(o) /\ WillCross(o)
    /\ o.price \in levels[o.side]
    /\ Depth(At(o.side, o.price)) + o.qty > LevelCap

AdmissionVerdict(id, o) ==
    IF kill_switch \/ ~RiskAdmits(o) THEN "Rejected"
    ELSE IF id \in DOMAIN order_locations THEN "Untracked"
    ELSE IF ShapeVerdict(o) # "Ok" THEN ShapeVerdict(o)
    ELSE IF NoHeadroom(o) THEN "Rejected"
    ELSE "Ok"

\* add_order_inner up to the match.
Admit(id, o, modify) ==
    LET verdict == AdmissionVerdict(id, o)
    IN  /\ op' = IF verdict = "Ok"
                 THEN NewCall("walk", id, o, "limit", modify, o.qty) ELSE Idle
        /\ IF verdict \in {"Rejected", "Cancelled"}
           THEN Track(id, verdict, 0) ELSE UNCHANGED status
        /\ UNCHANGED <<bookVars, riskVars, last_trade_price, envVars>>

AddOrder(id, o) ==
    /\ May("AddOrder")
    /\ id \notin DOMAIN order_locations
    /\ Admit(id, o, FALSE)

\* The client submits an id that is still live.
AddDuplicate(id, o) ==
    /\ May("AddDuplicate")
    /\ id \in DOMAIN order_locations
    /\ Admit(id, o, FALSE)

---------------------------------------------------------------------------
\* The end of a submission: add_order_inner after the match

Finish(st, filled) ==
    /\ Track(op.id, st, filled)
    /\ op' = Idle
    /\ UNCHANGED <<bookVars, riskVars, last_trade_price, envVars>>

AtOutcome(kinds) == op.pc = "outcome" /\ op.kind \in kinds


StpCancelled ==
    /\ AtOutcome(Kinds)
    /\ op.stp /\ (op.kind = "limit" \/ op.got = 0)
    /\ Finish("Cancelled", op.got)

\* Market paths report to the caller only.
MarketDone ==
    /\ AtOutcome({"market", "quote"})
    /\ ~(op.stp /\ op.got = 0)
    /\ op' = Idle
    /\ UNCHANGED <<bookVars, riskVars, status, last_trade_price, envVars>>

FullyFilled ==
    /\ AtOutcome({"limit"})
    /\ ~op.stp /\ op.left = 0
    /\ Finish("Filled", op.o.qty)

ImmediateDropped ==
    /\ AtOutcome({"limit"})
    /\ ~op.stp /\ op.left > 0 /\ IsImmediate(op.o)
    /\ Finish("Cancelled", op.got)

ResidualToRest ==
    AtOutcome({"limit"}) /\ ~op.stp /\ op.left > 0 /\ ~IsImmediate(op.o)

LevelAccepts == Depth(At(op.o.side, op.o.price)) + op.left <= LevelCap

Rest ==
    LET o == op.o
    IN  /\ ResidualToRest
        /\ LevelAccepts
        /\ resting' = Enqueue(op.id, o, op.left)
        /\ levels' = [levels EXCEPT ![o.side] = @ \cup {o.price}]
        /\ order_locations' = Put(order_locations, op.id, <<o.price, o.side>>)
        /\ user_orders' = [user_orders EXCEPT ![o.user] = @ \cup {op.id}]
        /\ OnAdmission(op.id, o.user, o.price, op.left)
        /\ Track(op.id, IF op.got > 0 THEN "PartiallyFilled" ELSE "Open", op.got)
        /\ op' = Idle
        /\ UNCHANGED <<last_trade_price, envVars>>

\* The level refuses the residual: no tracker record, and a level created for
\* it is removed again.
RestFailed ==
    /\ ResidualToRest
    /\ ~LevelAccepts
    /\ op' = Idle
    /\ UNCHANGED <<bookVars, riskVars, status, last_trade_price, envVars>>

Outcome ==
    \/ StpCancelled
    \/ MarketDone
    \/ FullyFilled
    \/ ImmediateDropped
    \/ Rest
    \/ RestFailed

---------------------------------------------------------------------------
\* Market orders (operations.rs): no limit price, never rest

MarketTaker(s, user) ==
    [side |-> s, price |-> IF s = "Buy" THEN MaxPrice ELSE 1, qty |-> 1,
     user |-> user, tif |-> "IOC", post |-> FALSE]

Submit(id, s, user, kind, budget) ==
    /\ id \notin DOMAIN order_locations
    /\ op' = IF kill_switch THEN Idle
             ELSE NewCall("walk", id, MarketTaker(s, user), kind, FALSE, budget)
    /\ IF kill_switch THEN Track(id, "Rejected", 0) ELSE UNCHANGED status
    /\ UNCHANGED <<bookVars, riskVars, last_trade_price, envVars>>

SubmitMarketOrder(id, s, user) ==
    /\ May("SubmitMarketOrder")
    /\ \E q \in 1..MaxQty : Submit(id, s, user, "market", q)

SubmitMarketOrderByAmount(id, s, user) ==
    /\ May("SubmitMarketOrderByAmount")
    /\ \E amount \in 1..(MaxQty * MaxPrice) : Submit(id, s, user, "quote", amount)

---------------------------------------------------------------------------
\* Cancellation

\* cancel_order_with_reason of a resting order.
CancelWithReason(id) ==
    /\ Live(id)
    /\ CancelRestingMaker(id)
    /\ levels' = LevelsWithout(id)
    /\ UNCHANGED <<last_trade_price, envVars>>

CancelOrder(id) ==
    /\ May("CancelOrder")
    /\ CancelWithReason(id)
    /\ UNCHANGED op

\* update_order(Cancel): neither the tracker nor the risk counters hear of it.
UpdateOrderCancel(id) ==
    /\ May("UpdateOrderCancel")
    /\ Live(id)
    /\ resting' = Dequeue(id)
    /\ levels' = LevelsWithout(id)
    /\ order_locations' = Drop(order_locations, {id})
    /\ user_orders' = [u \in Users |-> user_orders[u] \ {id}]
    /\ UNCHANGED <<riskVars, status, last_trade_price, envVars, op>>

\* A batch cancels the ids it collected one by one.  The code's order within
\* a batch is fixed; any order is allowed here.
StartBatch(ids) ==
    /\ ids # {}
    /\ op' = [pc |-> "batch", pending |-> ids]
    /\ UNCHANGED <<resting, levels, order_locations, riskVars, status,
                   last_trade_price, envVars>>

CancelOrdersBySide(s) ==
    /\ May("CancelOrdersBySide")
    /\ StartBatch({m \in DOMAIN resting : resting[m].side = s})
    /\ UNCHANGED user_orders

\* The user's index entry is taken out of the map first.
CancelOrdersByUser(u) ==
    /\ May("CancelOrdersByUser")
    /\ StartBatch(user_orders[u])
    /\ user_orders' = [user_orders EXCEPT ![u] = {}]

CancelOrdersByPriceRange(s, lo, hi) ==
    /\ May("CancelOrdersByPriceRange")
    /\ StartBatch({m \in DOMAIN resting :
                      resting[m].side = s /\ resting[m].price \in lo..hi})
    /\ UNCHANGED user_orders

\* The caller supplies the time of the sweep.
EvictExpiredOrders(t) ==
    /\ May("EvictExpiredOrders")
    /\ StartBatch({m \in DOMAIN resting : Expired(resting[m].tif, t)})
    /\ UNCHANGED user_orders

CancelNextInBatch(id) ==
    /\ op.pc = "batch"
    /\ id \in op.pending
    /\ CancelWithReason(id)
    /\ op' = IF op.pending = {id} THEN Idle ELSE [op EXCEPT !.pending = @ \ {id}]

\* cancel_all_orders empties every map at once.
CancelAllOrders ==
    /\ May("CancelAllOrders")
    /\ DOMAIN resting # {}
    /\ resting' = EmptyMap /\ order_locations' = EmptyMap /\ risk_orders' = EmptyMap
    /\ levels' = [s \in Sides |-> {}]
    /\ user_orders' = [u \in Users |-> {}]
    /\ open_count' = [u \in Users |-> 0]
    /\ resting_notional' = [u \in Users |-> 0]
    /\ TrackEach([i \in DOMAIN resting |-> TrackedFill(i)], "Cancelled")
    /\ UNCHANGED <<last_trade_price, envVars, op>>

---------------------------------------------------------------------------
\* Modification

\* Mutant of ModifySelfCrosses: the pre-check is missing.
ModifySelfCrossesUnchecked(o) == FALSE

\* check_modify_stp_self_cross: the sweep of o would reach a level with a
\* same-user maker before o is used up.
ModifySelfCrosses(o) ==
    \E p \in levels[Opposite(o.side)] :
        /\ Crosses(o, p)
        /\ StpCancelsTaker(o, p)
        /\ Depth({m \in DOMAIN resting :
                     /\ resting[m].side = Opposite(o.side)
                     /\ Better(Opposite(o.side), resting[m].price, p)}) < o.qty

ModifyValid(id, o) ==
    /\ ~kill_switch
    /\ ShapeVerdict(o) = "Ok"
    /\ RiskAdmitsModify(id, o)

\* Validate first, cancel the original, then add o under the same id.
CancelThenAdd(id, o) ==
    /\ ModifyValid(id, o)
    /\ ~ModifySelfCrosses(o)
    /\ CancelWithReason(id)
    /\ op' = NewCall("admit", id, o, "limit", TRUE, o.qty)

\* The resting order id with another side, price and quantity.
Revised(id, s, p, q) ==
    [side |-> s, price |-> p, qty |-> q, user |-> resting[id].user,
     tif |-> resting[id].tif, post |-> resting[id].post]

UpdatePrice(id, p) ==
    /\ May("UpdatePrice")
    /\ Live(id)
    /\ p # order_locations[id][1]
    /\ CancelThenAdd(id, Revised(id, resting[id].side, p, resting[id].qty))

UpdatePriceAndQuantity(id, p, q) ==
    /\ May("UpdatePriceAndQuantity")
    /\ Live(id)
    /\ CancelThenAdd(id, Revised(id, resting[id].side, p, q))

Replace(id, s, p, q) ==
    /\ May("Replace")
    /\ Live(id)
    /\ CancelThenAdd(id, Revised(id, s, p, q))

ReAdd ==
    /\ op.pc = "admit"
    /\ Admit(op.id, op.o, TRUE)


KeepsPriority(q, old) == q <= old

\* In place: a larger quantity sends the order to the back of its queue.
UpdateQuantity(id, q) ==
    LET o == resting[id]
        peers == At(o.side, o.price) \ {id}
    IN  /\ May("UpdateQuantity")
        /\ Live(id)
        /\ ModifyValid(id, Revised(id, o.side, o.price, q))
        /\ Depth(peers) + q <= LevelCap
        /\ resting' = IF KeepsPriority(q, o.qty) THEN [resting EXCEPT ![id].qty = q]
                      ELSE [m \in DOMAIN resting |->
                             IF m = id
                             THEN [resting[m] EXCEPT !.qty = q, !.ahead = peers]
                             ELSE [resting[m] EXCEPT !.ahead = @ \ {id}]]
        /\ OnQuantityUpdate(id, q)
        /\ UNCHANGED <<levels, order_locations, user_orders, status,
                       last_trade_price, envVars, op>>

---------------------------------------------------------------------------
\* The operator and the clock

SetKillSwitch(on) ==
    /\ "KillSwitch" \in Operations
    /\ kill_switch # on
    /\ kill_switch' = on
    /\ UNCHANGED <<bookVars, riskVars, status, last_trade_price,
                   risk_config, stp_mode, now, op>>

\* set_risk_config and disable_risk keep the counters and the entries.
SetRiskConfig(c) ==
    /\ May("SetRiskConfig")
    /\ risk_config' = c
    /\ UNCHANGED <<bookVars, riskVars, status, last_trade_price,
                   kill_switch, stp_mode, now, op>>

DisableRisk ==
    /\ May("DisableRisk")
    /\ risk_config.on
    /\ risk_config' = [risk_config EXCEPT !.on = FALSE]
    /\ UNCHANGED <<bookVars, riskVars, status, last_trade_price,
                   kill_switch, stp_mode, now, op>>

SetStpMode(mode) ==
    /\ May("SetStpMode")
    /\ stp_mode # mode
    /\ stp_mode' = mode
    /\ UNCHANGED <<bookVars, riskVars, status, last_trade_price,
                   risk_config, kill_switch, now, op>>

Tick ==
    /\ now < MaxTime
    /\ now' = now + 1
    /\ UNCHANGED <<bookVars, riskVars, status, last_trade_price,
                   risk_config, kill_switch, stp_mode, op>>

---------------------------------------------------------------------------
Init ==
    /\ resting = EmptyMap /\ order_locations = EmptyMap /\ risk_orders = EmptyMap
    /\ levels = [s \in Sides |-> {}]
    /\ user_orders = [u \in Users |-> {}]
    /\ open_count = [u \in Users |-> 0]
    /\ resting_notional = [u \in Users |-> 0]
    /\ risk_config = InitialConfig
    /\ status = EmptyMap
    /\ last_trade_price = 0
    /\ kill_switch = FALSE
    /\ stp_mode \in InitialStpModes
    /\ now = 0
    /\ op = Idle

SubmitStep ==
    \E id \in Ids :
        \/ \E o \in Orders : AddOrder(id, o) \/ AddDuplicate(id, o)
        \/ \E s \in Sides, u \in Users :
              SubmitMarketOrder(id, s, u) \/ SubmitMarketOrderByAmount(id, s, u)

ModifyStep ==
    \E id \in Ids :
        \/ \E p \in Prices : UpdatePrice(id, p)
        \/ \E p \in Prices, q \in 1..MaxQty : UpdatePriceAndQuantity(id, p, q)
        \/ \E s \in Sides, p \in Prices, q \in 1..MaxQty : Replace(id, s, p, q)
        \/ \E q \in 1..MaxQty : UpdateQuantity(id, q)

CancelStep ==
    \/ \E id \in Ids : CancelOrder(id) \/ UpdateOrderCancel(id)
    \/ \E s \in Sides : CancelOrdersBySide(s)
    \/ \E u \in Users : CancelOrdersByUser(u)
    \/ \E s \in Sides, lo, hi \in Prices : CancelOrdersByPriceRange(s, lo, hi)
    \/ \E t \in 0..MaxTime : EvictExpiredOrders(t)
    \/ CancelAllOrders

OperatorStep ==
    \/ \E on \in BOOLEAN : SetKillSwitch(on)
    \/ \E c \in RiskConfigs : SetRiskConfig(c)
    \/ DisableRisk
    \/ \E mode \in StpModes : SetStpMode(mode)

\* The steps a call in progress takes by itself.
CallStep ==
    \/ ReAdd
    \/ MatchingStep
    \/ Outcome
    \/ \E id \in Ids : CancelNextInBatch(id)

Next ==
    \/ SubmitStep
    \/ ModifyStep
    \/ CancelStep
    \/ OperatorStep
    \/ Tick
    \/ CallStep

\* A call runs to completion in its thread.
Spec == Init /\ [][Next]_vars /\ WF_vars(CallStep)

---------------------------------------------------------------------------
\* Properties

\* The maps, counters and call records stay in their ranges: no resting order
\* has quantity zero, no level key is off the price range, and no counter that
\* the accounting hooks of risk.rs decrement goes below zero.
TypeOK ==
    /\ IsMap(resting, Ids, RestingOrder)
    /\ levels \in [Sides -> SUBSET Prices]
    /\ IsMap(order_locations, Ids, Prices \X Sides)
    /\ user_orders \in [Users -> SUBSET Ids]
    /\ IsMap(risk_orders, Ids, RiskEntry)
    /\ open_count \in [Users -> Nat]
    /\ resting_notional \in [Users -> Nat]
    /\ risk_config \in RiskConfig
    /\ IsMap(status, Ids, OrderStatus)
    /\ last_trade_price \in 0..MaxPrice
    /\ kill_switch \in BOOLEAN
    /\ stp_mode \in StpModes
    /\ now \in 0..MaxTime
    /\ op \in {Idle} \cup [pc : {"batch"}, pending : SUBSET Ids] \cup Call

OwnedBy(u) == {m \in DOMAIN resting : resting[m].user = u}
PricesOf(s) == {resting[m].price : m \in {n \in DOMAIN resting : resting[n].side = s}}

\* Between calls the four views of the book (the levels' queues, the keys of
\* the bid and ask maps, order_locations and the user index) name exactly the
\* same orders: no phantom level, no orphan, no stale index entry.
IndexesAgree ==
    op = Idle =>
        /\ DOMAIN order_locations = DOMAIN resting
        /\ \A m \in DOMAIN resting :
              order_locations[m] = <<resting[m].price, resting[m].side>>
        /\ \A u \in Users : user_orders[u] = OwnedBy(u)
        /\ \A s \in Sides : levels[s] = PricesOf(s)

\* The makers the walk has consumed, and the side it sweeps: they are indexed
\* until "close".
InWalk == op.pc \in {"walk", "cancelMakers", "match", "close", "outcome"}
Consumed == IF InWalk THEN {m \in Ids : op.filled[m] > 0} ELSE {}
Sweeping(s) == InWalk /\ op.pc # "outcome" /\ s = Opposite(op.o.side)

LocationsInv ==
    /\ Consumed \cap DOMAIN resting = {}
    /\ DOMAIN order_locations = DOMAIN resting \cup Consumed
    /\ \A m \in DOMAIN resting :
          order_locations[m] = <<resting[m].price, resting[m].side>>

UserIndexInv ==
    \A u \in Users :
        \/ user_orders[u] \ Consumed = OwnedBy(u)
        \/ op.pc = "batch" /\ user_orders[u] = {} /\ OwnedBy(u) \subseteq op.pending

LevelKeysInv ==
    \A s \in Sides :
        /\ PricesOf(s) \subseteq levels[s]
        /\ levels[s] \subseteq PricesOf(s) \cup (IF Sweeping(s) THEN op.seen ELSE {})

CallInv ==
    /\ op.pc = "batch" => op.pending \subseteq DOMAIN resting
    /\ op.pc \in {"cancelMakers", "match"} => op.at \in op.seen
    /\ op.pc = "admit" \/ (InWalk /\ op.kind = "limit")
          => op.id \notin DOMAIN order_locations
    /\ op.pc = "outcome" => Consumed = {}

\* What the four views are at every step of a call, and the inductive form of
\* IndexesAgree: inside match_order_inner exactly the consumed makers are still
\* indexed and exactly visited levels may be empty; while cancel_orders_by_user
\* runs the user's index entry is gone and all of the user's orders are pending.
IndexInv == LocationsInv /\ UserIndexInv /\ LevelKeysInv /\ CallInv

\* The book is never crossed, not even in the middle of a walk.
NotCrossed ==
    \A bid \in levels["Buy"], ask \in levels["Sell"] : bid < ask

---------------------------------------------------------------------------
\* Matching

\* Resting order m trades in this step.
Trades(m) ==
    /\ op.pc = "match" /\ op'.got # op.got
    /\ m \in DOMAIN resting' => resting'[m].qty # resting[m].qty



\* With self-trade prevention on, no order trades against an order of the same
\* (non-anonymous) user.
NoSelfTrade ==
    [][\A m \in DOMAIN resting : Trades(m) /\ StpActive(op.o.user) =>
          resting[m].user # op.o.user]_vars

\* A fill-or-kill order that is admitted executes in full: the feasibility
\* check predicts the walk exactly (lots, self-trade prevention, limit price).
FokAllOrNothing ==
    op.pc = "outcome" /\ op.kind = "limit" /\ op.o.tif = "FOK"
        => op.got = op.o.qty

\* Self-trade prevention cancels a taker only while it has quantity left.
StpCancelsUnfilledTaker ==
    op.pc = "outcome" /\ op.stp => op.left > 0

\* Every resting quantity stays a whole number of lots, although market and
\* quote-amount takers of any size trade against it.
LotIntegrity ==
    \A m \in DOMAIN resting : resting[m].qty % LotSize = 0

---------------------------------------------------------------------------
\* Modification

Modifying == op.pc \notin {"idle", "batch"} /\ op.modify

\* A modify that passes validation never destroys the order: when the call
\* returns, the order rests again or has been filled.
ModifyKeepsOrder ==
    [][Modifying /\ op' = Idle =>
          \/ op.id \in DOMAIN resting'
          \/ op.pc = "outcome" /\ op.left = 0 /\ ~op.stp]_vars

---------------------------------------------------------------------------
\* Risk

Exposure(S) == MapThenSumSet(LAMBDA m : resting[m].qty * resting[m].price, S)

\* While a configuration is installed, the risk counters equal what the account
\* really has in the book, at every step of every walk, modify and batch.
RiskCountersExact ==
    risk_config.on =>
        \A u \in Users :
            /\ open_count[u] = Cardinality(OwnedBy(u))
            /\ resting_notional[u] = Exposure(OwnedBy(u))

\* No step raises an account's resting orders, or their notional, above the
\* limit in force: not a submission, and neither half of a modify, also after
\* set_risk_config has lowered the limits below what rests already.
RiskLimits ==
    [][risk_config.on =>
        \A u \in Users :
            LET count == Cardinality(OwnedBy(u))
                notional == Exposure(OwnedBy(u))
            IN  /\ count' > count => count' <= risk_config.maxOpen
                /\ notional' > notional => notional' <= risk_config.maxNotional]_vars

---------------------------------------------------------------------------
\* The order-state tracker

IsActive(id) ==
    id \in DOMAIN status /\ status[id].st \in {"Open", "PartiallyFilled"}

\* Between calls the tracker reports an order as active exactly when it rests.
TrackerAgrees ==
    HasTracker /\ op = Idle => \A id \in Ids : IsActive(id) <=> id \in DOMAIN resting

---------------------------------------------------------------------------
\* Every call returns: the walk visits each level once, each visit ends.
CallReturns == (op # Idle) ~> (op = Idle)
=============================================================================
