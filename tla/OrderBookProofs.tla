-------------------------- MODULE OrderBookProofs --------------------------
(***************************************************************************)
(* Theorems about OrderBook for every value of its constants: any number   *)
(* of orders, users and prices, any mode of self-trade prevention, any     *)
(* risk configuration and any subset of the entry points.                  *)
(***************************************************************************)
EXTENDS OrderBook, TLAPS

---------------------------------------------------------------------------
\* Maps

\* A put into a map with the key and the value in range gives a map.
LEMMA PutIsMap ==
    ASSUME NEW K, NEW V, NEW f, IsMap(f, K, V), NEW k \in K, NEW v \in V
    PROVE  IsMap(Put(f, k, v), K, V)
BY DEF IsMap, Put

\* Removing keys from a map gives a map.
LEMMA DropIsMap ==
    ASSUME NEW K, NEW V, NEW f, IsMap(f, K, V), NEW S
    PROVE  IsMap(Drop(f, S), K, V)
BY DEF IsMap, Drop

\* The empty map is a map.
LEMMA EmptyIsMap ==
    ASSUME NEW K, NEW V
    PROVE  IsMap(EmptyMap, K, V)
BY DEF IsMap, EmptyMap

\* Replacing the value of a key gives a map.
LEMMA ExceptIsMap ==
    ASSUME NEW K, NEW V, NEW f, IsMap(f, K, V), NEW k, NEW v \in V
    PROVE  IsMap([f EXCEPT ![k] = v], K, V)
BY Zenon DEF IsMap

\* The product of two naturals is a natural.
LEMMA NatProduct ==
    ASSUME NEW a \in Nat, NEW b \in Nat
    PROVE  a * b \in Nat
OBVIOUS

---------------------------------------------------------------------------
\* Type correctness: what each helper action leaves typed

RiskTypes ==
    /\ IsMap(risk_orders, Ids, RiskEntry)
    /\ open_count \in [Users -> Nat]
    /\ resting_notional \in [Users -> Nat]

\* on_admission of an order with a quantity keeps the risk state typed.
LEMMA OnAdmissionTypes ==
    ASSUME RiskTypes, NEW id \in Ids, NEW user \in Users, NEW price \in Prices,
           NEW q \in Nat, OnAdmission(id, user, price, q)
    PROVE  RiskTypes'
<1>1. CASE ~risk_config.on
  BY <1>1 DEF OnAdmission, RiskTypes, riskVars, IsMap
<1>2. CASE risk_config.on
  <2>1. [account |-> user, price |-> price, remaining_qty |-> q] \in RiskEntry
    BY DEF RiskEntry
  <2>2. IsMap(risk_orders', Ids, RiskEntry)
    BY <1>2, <2>1, PutIsMap DEF OnAdmission, RiskTypes
  <2>3. q * price \in Nat
    BY NatProduct, BoundsAssumption DEF Prices
  <2>4. open_count' \in [Users -> Nat] /\ resting_notional' \in [Users -> Nat]
    BY <1>2, <2>3 DEF OnAdmission, RiskTypes
  <2> QED BY <2>2, <2>4 DEF RiskTypes
<1> QED BY <1>1, <1>2

\* on_cancel keeps the risk state typed.
LEMMA OnCancelTypes ==
    ASSUME RiskTypes, NEW id, OnCancel(id)
    PROVE  RiskTypes'
<1>1. CASE ~Accounts(id)
  BY <1>1 DEF OnCancel, RiskTypes, riskVars, IsMap
<1>2. CASE Accounts(id)
  <2> DEFINE e == risk_orders[id]
  <2>1. e \in RiskEntry
    BY <1>2 DEF Accounts, RiskTypes, IsMap
  <2>2. e.remaining_qty * e.price \in Nat
    BY <2>1, NatProduct, BoundsAssumption DEF RiskEntry, Prices
  <2>3. IsMap(risk_orders', Ids, RiskEntry)
    BY <1>2, DropIsMap DEF OnCancel, RiskTypes
  <2>4. open_count' \in [Users -> Nat]
    BY <1>2, <2>1 DEF OnCancel, RiskTypes, RiskEntry, SatSub
  <2>5. resting_notional' = [resting_notional EXCEPT ![e.account] =
                                SatSub(@, e.remaining_qty * e.price)]
    BY <1>2 DEF OnCancel
  <2>6. resting_notional' \in [Users -> Nat]
    BY <2>1, <2>2, <2>5 DEF RiskTypes, RiskEntry, SatSub
  <2> QED BY <2>3, <2>4, <2>6 DEF RiskTypes
<1> QED BY <1>1, <1>2

\* on_fill keeps the risk state typed.
LEMMA OnFillTypes ==
    ASSUME RiskTypes, NEW id, NEW filled \in Nat, OnFill(id, filled)
    PROVE  RiskTypes'
<1>1. CASE ~Accounts(id)
  BY <1>1 DEF OnFill, RiskTypes, riskVars, IsMap
<1>2. CASE Accounts(id)
  <2> DEFINE e == risk_orders[id]
             left == SatSub(e.remaining_qty, filled)
  <2>1. e \in RiskEntry /\ id \in DOMAIN risk_orders
    BY <1>2 DEF Accounts, RiskTypes, IsMap
  <2>2. filled * e.price \in Nat
    BY <2>1, NatProduct, BoundsAssumption DEF RiskEntry, Prices
  <2>3. left \in Nat /\ [e EXCEPT !.remaining_qty = left] \in RiskEntry
    BY <2>1 DEF RiskEntry, SatSub
  <2>4. /\ resting_notional' = [resting_notional EXCEPT ![e.account] =
                                  SatSub(@, filled * e.price)]
        /\ open_count' = IF left = 0
              THEN [open_count EXCEPT ![e.account] = SatSub(@, 1)]
              ELSE open_count
        /\ risk_orders' = IF left = 0
              THEN Drop(risk_orders, {id})
              ELSE [risk_orders EXCEPT ![id] = [e EXCEPT !.remaining_qty = left]]
    BY <1>2 DEF OnFill
  <2>5. IsMap(risk_orders', Ids, RiskEntry)
    BY <2>3, <2>4, DropIsMap, ExceptIsMap, Zenon DEF RiskTypes
  <2>6. open_count' \in [Users -> Nat]
    BY <2>1, <2>4 DEF RiskTypes, RiskEntry, SatSub
  <2>7. resting_notional' \in [Users -> Nat]
    BY <2>1, <2>2, <2>4 DEF RiskTypes, RiskEntry, SatSub
  <2> QED BY <2>5, <2>6, <2>7 DEF RiskTypes
<1> QED BY <1>1, <1>2

\* on_quantity_update keeps the risk state typed.
LEMMA OnQuantityUpdateTypes ==
    ASSUME RiskTypes, NEW id, NEW q \in Nat, OnQuantityUpdate(id, q)
    PROVE  RiskTypes'
<1>1. CASE ~Accounts(id)
  BY <1>1 DEF OnQuantityUpdate, RiskTypes, riskVars, IsMap
<1>2. CASE Accounts(id)
  <2> DEFINE e == risk_orders[id]
             up == (q - e.remaining_qty) * e.price
             down == (e.remaining_qty - q) * e.price
  <2>1. e \in RiskEntry /\ id \in DOMAIN risk_orders
    BY <1>2 DEF Accounts, RiskTypes, IsMap
  <2>2. q >= e.remaining_qty => up \in Nat
    BY <2>1, NatProduct, BoundsAssumption DEF RiskEntry, Prices
  <2>3. ~(q >= e.remaining_qty) => down \in Nat
    BY <2>1, NatProduct, BoundsAssumption DEF RiskEntry, Prices
  <2>4. [e EXCEPT !.remaining_qty = q] \in RiskEntry
    BY <2>1 DEF RiskEntry
  <2>5. /\ risk_orders' = [risk_orders EXCEPT ![id] = [e EXCEPT !.remaining_qty = q]]
        /\ resting_notional' = [resting_notional EXCEPT ![e.account] =
              IF q >= e.remaining_qty THEN @ + up ELSE SatSub(@, down)]
        /\ open_count' = open_count
    BY <1>2 DEF OnQuantityUpdate
  <2>6. IsMap(risk_orders', Ids, RiskEntry)
    BY <2>4, <2>5, ExceptIsMap, Zenon DEF RiskTypes
  <2> HIDE DEF up, down
  <2>7. resting_notional' \in [Users -> Nat]
    BY <2>1, <2>2, <2>3, <2>5 DEF RiskTypes, RiskEntry, SatSub
  <2> QED BY <2>5, <2>6, <2>7 DEF RiskTypes
<1> QED BY <1>1, <1>2

\* track_state keeps the tracker typed.
LEMMA TrackEachTypes ==
    ASSUME IsMap(status, Ids, OrderStatus), NEW fills, IsMap(fills, Ids, Nat),
           NEW st \in {"Open", "PartiallyFilled", "Filled", "Cancelled", "Rejected"},
           TrackEach(fills, st)
    PROVE  IsMap(status', Ids, OrderStatus)
<1>1. CASE ~HasTracker
  BY <1>1 DEF TrackEach
<1>2. CASE HasTracker
  <2> DEFINE rec(i) == [st |-> st, filled |-> fills[i]]
  <2>1. \A i \in DOMAIN fills : rec(i) \in OrderStatus
    BY DEF IsMap, OrderStatus
  <2>2. status' = [i \in DOMAIN status \cup DOMAIN fills |->
                      IF i \in DOMAIN fills THEN rec(i) ELSE status[i]]
    BY <1>2 DEF TrackEach
  <2> HIDE DEF rec
  <2> QED BY <2>1, <2>2 DEF IsMap
<1> QED BY <1>1, <1>2

\* Recording a status (track_state) keeps the tracker a map of statuses.
LEMMA TrackTypes ==
    ASSUME IsMap(status, Ids, OrderStatus), NEW id \in Ids, NEW filled \in Nat,
           NEW st \in {"Open", "PartiallyFilled", "Filled", "Cancelled", "Rejected"},
           Track(id, st, filled)
    PROVE  IsMap(status', Ids, OrderStatus)
<1>1. IsMap([i \in {id} |-> filled], Ids, Nat)
  BY DEF IsMap
<1>2. TrackEach([i \in {id} |-> filled], st)
  BY DEF Track
<1> QED BY <1>1, <1>2, TrackEachTypes

\* The fill the tracker remembers of an order is a natural.
LEMMA TrackedFillNat ==
    ASSUME IsMap(status, Ids, OrderStatus), NEW id
    PROVE  TrackedFill(id) \in Nat
BY DEF IsMap, TrackedFill, OrderStatus

\* A level's queue without one of its orders is still a queue of orders.
LEMMA DequeueTypes ==
    ASSUME IsMap(resting, Ids, RestingOrder), NEW id
    PROVE  IsMap(Dequeue(id), Ids, RestingOrder)
<1>1. \A m \in DOMAIN resting :
         [resting[m] EXCEPT !.ahead = @ \ {id}] \in RestingOrder
  BY DEF IsMap, RestingOrder
<1> DEFINE rest(m) == [resting[m] EXCEPT !.ahead = @ \ {id}]
<1>2. Dequeue(id) = [m \in DOMAIN resting \ {id} |-> rest(m)]
  BY DEF Dequeue
<1>3. \A m \in DOMAIN resting : rest(m) \in RestingOrder
  BY <1>1
<1> HIDE DEF rest
<1> QED BY <1>2, <1>3 DEF IsMap

\* Cancelling a resting order, with all the accounting, keeps the state typed.
LEMMA CancelRestingMakerTypes ==
    ASSUME TypeOK, NEW m \in Ids, CancelRestingMaker(m)
    PROVE  /\ IsMap(resting', Ids, RestingOrder)
           /\ IsMap(order_locations', Ids, Prices \X Sides)
           /\ user_orders' \in [Users -> SUBSET Ids]
           /\ RiskTypes'
           /\ IsMap(status', Ids, OrderStatus)
<1>1. IsMap(resting', Ids, RestingOrder)
  BY DequeueTypes DEF CancelRestingMaker, TypeOK
<1>2. IsMap(order_locations', Ids, Prices \X Sides)
  BY DropIsMap DEF CancelRestingMaker, TypeOK
<1>3. user_orders' \in [Users -> SUBSET Ids]
  BY Zenon DEF CancelRestingMaker, TypeOK
<1>4. RiskTypes'
  BY OnCancelTypes DEF CancelRestingMaker, TypeOK, RiskTypes
<1>5. IsMap(status', Ids, OrderStatus)
  BY TrackTypes, TrackedFillNat DEF CancelRestingMaker, TypeOK
<1> QED BY <1>1, <1>2, <1>3, <1>4, <1>5

\* A call that has just started is a call.
LEMMA NewCallType ==
    ASSUME NEW pc \in {"admit", "walk"}, NEW id \in Ids, NEW o \in Order,
           NEW kind \in Kinds, NEW modify \in BOOLEAN, NEW budget \in Nat
    PROVE  NewCall(pc, id, o, kind, modify, budget) \in Call
BY BoundsAssumption DEF NewCall, Call, NoneConsumed

\* Outside a batch, a call in progress is a Call.
LEMMA OpIsCall ==
    ASSUME TypeOK, op.pc \notin {"idle", "batch"}
    PROVE  op \in Call
BY DEF TypeOK, Idle

\* Every step of the matching walk keeps the state typed.
LEMMA MatchingTypes ==
    ASSUME TypeOK, MatchingStep
    PROVE  TypeOK'
<1> USE DEF Sides
<1>1. ASSUME NEW p \in Prices, EnterLevel(p) PROVE TypeOK'
  <2>1. op \in Call
    BY <1>1, OpIsCall DEF EnterLevel
  <2>2. \E cap \in 0..LevelQtyCap(p), stp \in BOOLEAN, pc \in {"cancelMakers", "match"} :
           op' = [op EXCEPT !.at = p, !.seen = @ \cup {p}, !.cap = cap,
                            !.stp = stp, !.pc = pc]
    BY <1>1, Zenon DEF EnterLevel, StpCancelsTaker
  <2>3. op.seen \cup {p} \in SUBSET Prices /\ p \in 0..MaxPrice
    BY <2>1 DEF Call, Prices
  <2>4. op' \in Call
    <3>1. PICK cap \in 0..LevelQtyCap(p), stp \in BOOLEAN, pc \in {"cancelMakers", "match"} :
             op' = [op EXCEPT !.at = p, !.seen = @ \cup {p}, !.cap = cap,
                              !.stp = stp, !.pc = pc]
      BY <2>2, Zenon
    <3>2. cap \in Nat
      OBVIOUS
    <3> QED BY <2>1, <2>3, <3>1, <3>2, Zenon DEF Call
  <2> QED BY <1>1, <2>4 DEF EnterLevel, TypeOK, bookVars, riskVars, envVars
<1>2. ASSUME NEW m \in Ids, CancelSelfMaker(m) PROVE TypeOK'
  BY <1>2, CancelRestingMakerTypes, Zenon DEF CancelSelfMaker, TypeOK, RiskTypes, envVars
<1>3. CASE SelfMakersCancelled
  <2>1. op' \in Call
    BY <1>3, OpIsCall DEF SelfMakersCancelled, Call
  <2> QED BY <1>3, <2>1 DEF SelfMakersCancelled, TypeOK, bookVars, riskVars, envVars
<1>4. ASSUME NEW m \in Ids, Trade(m) PROVE TypeOK'
  <2> DEFINE t == MinOf(op.cap, resting[m].qty)
             spent == IF op.kind = "quote" THEN t * op.at ELSE t
             fill == IF t = resting[m].qty THEN t ELSE op.filled[m]
  <2>1. op \in Call /\ m \in DOMAIN resting /\ resting[m] \in RestingOrder
    BY <1>4, OpIsCall DEF Trade, At, TypeOK, IsMap
  <2>2. /\ t \in Nat /\ op.cap - t \in Nat
        /\ t # resting[m].qty => resting[m].qty - t \in Nat \ {0}
    BY <2>1 DEF Call, RestingOrder, MinOf
  <2>3. t * op.at \in Nat
    BY <2>1, <2>2, NatProduct, BoundsAssumption DEF Call
  <2> HIDE DEF t
  <2>4. SatSub(op.left, spent) \in Nat /\ fill \in Nat /\ op.got + t \in Nat
    BY <2>1, <2>2, <2>3 DEF Call, SatSub
  <2>5. op' = [op EXCEPT !.cap = op.cap - t, !.got = op.got + t,
                         !.left = SatSub(op.left, spent),
                         !.filled = [op.filled EXCEPT ![m] = fill]]
    BY <1>4, <2>1 DEF Trade, Call, t
  <2>6. [op.filled EXCEPT ![m] = fill] \in [Ids -> Nat]
    BY <2>1, <2>4 DEF Call
  <2>7. op' \in Call
    BY <2>1, <2>2, <2>4, <2>5, <2>6, Zenon DEF Call
  <2>8. IsMap(resting', Ids, RestingOrder)
    <3>1. CASE t = resting[m].qty
      BY <1>4, <3>1, DequeueTypes DEF Trade, TypeOK, t
    <3>2. CASE t # resting[m].qty
      <4>1. [resting[m] EXCEPT !.qty = @ - t] \in RestingOrder
        BY <2>1, <2>2, <3>2 DEF RestingOrder
      <4>2. resting' = [resting EXCEPT ![m] = [resting[m] EXCEPT !.qty = @ - t]]
        BY <1>4, <3>2 DEF Trade, t
      <4> QED BY <4>1, <4>2, ExceptIsMap, Zenon DEF TypeOK
    <3> QED BY <3>1, <3>2
  <2>9. RiskTypes'
    BY <1>4, <2>2, OnFillTypes DEF Trade, TypeOK, RiskTypes, t
  <2>10. last_trade_price' \in 0..MaxPrice
    BY <1>4, <2>1 DEF Trade, Call
  <2> QED BY <1>4, <2>7, <2>8, <2>9, <2>10 DEF Trade, TypeOK, RiskTypes, envVars
<1>5. ASSUME NEW m \in Ids, CancelBothSides(m) PROVE TypeOK'
  <2>1. op' \in Call
    BY <1>5, OpIsCall, Zenon DEF CancelBothSides, LevelMatched, Call
  <2> QED BY <1>5, <2>1, CancelRestingMakerTypes, Zenon
          DEF CancelBothSides, TypeOK, RiskTypes, envVars
<1>6. CASE LeaveLevel
  <2>1. op' \in Call
    BY <1>6, OpIsCall, Zenon DEF LeaveLevel, LevelMatched, Call
  <2> QED BY <1>6, <2>1 DEF LeaveLevel, TypeOK, bookVars, riskVars, envVars
<1>7. CASE WalkEnds
  <2>1. op' \in Call
    BY <1>7, OpIsCall DEF WalkEnds, Call
  <2> QED BY <1>7, <2>1 DEF WalkEnds, TypeOK, bookVars, riskVars, envVars
<1>8. CASE CloseWalk
  <2> DEFINE consumed == {m \in Ids : op.filled[m] > 0}
  <2>1. op \in Call
    BY <1>8, OpIsCall DEF CloseWalk
  <2>2. op' \in Call
    BY <1>8, <2>1, Zenon DEF CloseWalk, Call, NoneConsumed
  <2>3. IsMap([m \in consumed |-> op.filled[m]], Ids, Nat)
    BY <2>1 DEF IsMap, Call
  <2>4. TrackEach([m \in consumed |-> op.filled[m]], "Filled")
    BY <1>8 DEF CloseWalk
  <2>5. IsMap(status', Ids, OrderStatus)
    BY <2>3, <2>4, TrackEachTypes DEF TypeOK
  <2>6. IsMap(order_locations', Ids, Prices \X Sides)
    BY <1>8, DropIsMap DEF CloseWalk, TypeOK
  <2>7. levels' \in [Sides -> SUBSET Prices] /\ user_orders' \in [Users -> SUBSET Ids]
    BY <1>8, Zenon DEF CloseWalk, TypeOK
  <2> QED BY <1>8, <2>2, <2>5, <2>6, <2>7 DEF CloseWalk, TypeOK, riskVars, envVars
<1> QED BY <1>1, <1>2, <1>3, <1>4, <1>5, <1>6, <1>7, <1>8 DEF MatchingStep

\* add_order_inner up to the match keeps the state typed.
LEMMA AdmitTypes ==
    ASSUME TypeOK, NEW id \in Ids, NEW o \in Order, NEW modify \in BOOLEAN,
           Admit(id, o, modify)
    PROVE  TypeOK'
<1> DEFINE verdict == AdmissionVerdict(id, o)
<1>1. op' = Idle \/ op' \in Call
  <2>1. o.qty \in Nat
    BY DEF Order
  <2>2. NewCall("walk", id, o, "limit", modify, o.qty) \in Call
    BY <2>1, NewCallType DEF Kinds
  <2> QED BY <2>2 DEF Admit
<1>2. IsMap(status', Ids, OrderStatus)
  <2>1. CASE verdict \in {"Rejected", "Cancelled"}
    <3>1. Track(id, verdict, 0)
      BY <2>1 DEF Admit
    <3> QED BY <2>1, <3>1, TrackTypes DEF TypeOK
  <2>2. CASE verdict \notin {"Rejected", "Cancelled"}
    BY <2>2 DEF Admit, TypeOK
  <2> QED BY <2>1, <2>2
<1> QED BY <1>1, <1>2 DEF Admit, TypeOK, bookVars, riskVars, envVars

\* The end of a submission keeps the state typed.
LEMMA OutcomeTypes ==
    ASSUME TypeOK, Outcome
    PROVE  TypeOK'
<1> USE DEF Sides
<1>1. op \in Call /\ op.id \in Ids /\ op.o \in Order /\ op.got \in Nat /\ op.left \in Nat
  <2>1. op.pc = "outcome"
    BY DEF Outcome, StpCancelled, MarketDone, FullyFilled, ImmediateDropped, Rest,
           RestFailed, ResidualToRest, AtOutcome
  <2> QED BY <2>1, OpIsCall, SMTT(40) DEF Call
<1>2. ASSUME NEW st \in {"Cancelled", "Filled"}, NEW filled \in Nat, Finish(st, filled)
      PROVE  TypeOK'
  <2>1. IsMap(status', Ids, OrderStatus)
    BY <1>1, <1>2, TrackTypes DEF Finish, TypeOK
  <2> QED BY <1>2, <2>1 DEF Finish, TypeOK, bookVars, riskVars, envVars
<1>3. CASE StpCancelled
  BY <1>1, <1>2, <1>3 DEF StpCancelled
<1>4. CASE MarketDone
  BY <1>4 DEF MarketDone, TypeOK, bookVars, riskVars, envVars
<1>5. CASE FullyFilled
  BY <1>1, <1>2, <1>5 DEF FullyFilled, Order
<1>6. CASE ImmediateDropped
  BY <1>1, <1>2, <1>6, SMTT(40) DEF ImmediateDropped
<1>7. CASE Rest
  <2> DEFINE o == op.o
             entry == [side |-> o.side, price |-> o.price, qty |-> op.left,
                       user |-> o.user, tif |-> o.tif, post |-> o.post,
                       ahead |-> At(o.side, o.price) \ {op.id}]
  <2>1. At(o.side, o.price) \subseteq Ids
    BY DEF At, TypeOK, IsMap
  <2>2. op.left \in Nat \ {0}
    BY <1>1, <1>7, SMTT(40) DEF Rest, ResidualToRest
  <2>3. entry \in RestingOrder
    BY <1>1, <2>1, <2>2, SMTT(40) DEF Order, RestingOrder
  <2>4. resting' = Put(resting, op.id, entry)
    BY <1>7 DEF Rest, Enqueue
  <2> HIDE DEF entry
  <2>5. IsMap(resting', Ids, RestingOrder)
    BY <1>1, <2>3, <2>4, PutIsMap DEF TypeOK
  <2>6. <<o.price, o.side>> \in Prices \X Sides
    BY <1>1, SMTT(40) DEF Order
  <2>7. IsMap(order_locations', Ids, Prices \X Sides)
    BY <1>1, <1>7, <2>6, PutIsMap, SMTT(40) DEF Rest, TypeOK
  <2>8. levels' \in [Sides -> SUBSET Prices] /\ user_orders' \in [Users -> SUBSET Ids]
    BY <1>1, <1>7, SMTT(40) DEF Rest, TypeOK, Order
  <2>9. RiskTypes'
    BY <1>1, <1>7, OnAdmissionTypes, SMTT(40) DEF Rest, TypeOK, RiskTypes, Order
  <2>10. IsMap(status', Ids, OrderStatus)
    BY <1>1, <1>7, TrackTypes DEF Rest, TypeOK
  <2> QED BY <1>7, <2>5, <2>7, <2>8, <2>9, <2>10 DEF Rest, TypeOK, RiskTypes, envVars
<1>8. CASE RestFailed
  BY <1>8 DEF RestFailed, TypeOK, bookVars, riskVars, envVars
<1> QED BY <1>3, <1>4, <1>5, <1>6, <1>7, <1>8 DEF Outcome

\* Cancelling an order by id, as cancel_order_with_reason does, keeps
\* everything but the call typed.
LEMMA CancelWithReasonTypes ==
    ASSUME TypeOK, NEW id \in Ids, CancelWithReason(id),
           op' \in {Idle} \cup [pc : {"batch"}, pending : SUBSET Ids] \cup Call
    PROVE  TypeOK'
<1>1. LevelsWithout(id) \in [Sides -> SUBSET Prices]
  BY Zenon DEF LevelsWithout, TypeOK
<1> QED BY <1>1, CancelRestingMakerTypes, Zenon
        DEF CancelWithReason, TypeOK, RiskTypes, envVars

\* A batch that starts keeps the state typed.
LEMMA StartBatchTypes ==
    ASSUME TypeOK, NEW ids \in SUBSET Ids, StartBatch(ids),
           user_orders' \in [Users -> SUBSET Ids]
    PROVE  TypeOK'
<1>1. op' \in [pc : {"batch"}, pending : SUBSET Ids]
  BY DEF StartBatch
<1> QED BY <1>1 DEF StartBatch, TypeOK, riskVars, envVars

\* Submissions keep the state typed.
LEMMA SubmitTypes ==
    ASSUME TypeOK, SubmitStep
    PROVE  TypeOK'
<1>1. ASSUME NEW id \in Ids, NEW o \in Orders, AddOrder(id, o) \/ AddDuplicate(id, o)
      PROVE  TypeOK'
  BY <1>1, AdmitTypes, OrdersAssumption, Zenon DEF AddOrder, AddDuplicate
<1>2. ASSUME NEW id \in Ids, NEW s \in Sides, NEW u \in Users,
             NEW kind \in Kinds, NEW budget \in Nat, Submit(id, s, u, kind, budget)
      PROVE  TypeOK'
  <2>1. MarketTaker(s, u) \in Order
    BY BoundsAssumption DEF MarketTaker, Order, Prices, TimesInForce
  <2>2. op' = Idle \/ op' \in Call
    BY <1>2, <2>1, NewCallType, Zenon DEF Submit
  <2>3. IsMap(status', Ids, OrderStatus)
    BY <1>2, TrackTypes DEF Submit, TypeOK
  <2> QED BY <1>2, <2>2, <2>3, Zenon DEF Submit, TypeOK, bookVars, riskVars, envVars
<1>3. ASSUME NEW id \in Ids, NEW s \in Sides, NEW u \in Users, SubmitMarketOrder(id, s, u)
      PROVE  TypeOK'
  <2>1. PICK q \in 1..MaxQty : Submit(id, s, u, "market", q)
    BY <1>3 DEF SubmitMarketOrder
  <2>2. q \in Nat
    OBVIOUS
  <2> QED BY <1>2, <2>1, <2>2 DEF Kinds
<1>4. ASSUME NEW id \in Ids, NEW s \in Sides, NEW u \in Users,
             SubmitMarketOrderByAmount(id, s, u)
      PROVE  TypeOK'
  <2>1. PICK q \in 1..(MaxQty * MaxPrice) : Submit(id, s, u, "quote", q)
    BY <1>4 DEF SubmitMarketOrderByAmount
  <2>2. q \in Nat
    OBVIOUS
  <2> QED BY <1>2, <2>1, <2>2 DEF Kinds
<1> QED BY <1>1, <1>3, <1>4 DEF SubmitStep

\* Modifications keep the state typed.
LEMMA ModifyTypes ==
    ASSUME TypeOK, ModifyStep
    PROVE  TypeOK'
<1>1. ASSUME NEW id \in Ids, NEW s \in Sides, NEW p \in Prices, NEW q \in Nat \ {0},
             Live(id)
      PROVE  Revised(id, s, p, q) \in Order
  BY <1>1 DEF Revised, Order, RestingOrder, Live, TypeOK, IsMap
<1>2. ASSUME NEW id \in Ids, NEW o \in Order, CancelThenAdd(id, o)
      PROVE  TypeOK'
  <2>1. NewCall("admit", id, o, "limit", TRUE, o.qty) \in Call
    BY NewCallType, Zenon DEF Order, Kinds
  <2> QED BY <1>2, <2>1, CancelWithReasonTypes, Zenon DEF CancelThenAdd
<1>3. ASSUME NEW id \in Ids, Live(id)
      PROVE  resting[id] \in RestingOrder /\ resting[id].side \in Sides
             /\ resting[id].qty \in Nat \ {0}
  BY <1>3 DEF Live, TypeOK, IsMap, RestingOrder
<1>4. ASSUME NEW id \in Ids, NEW p \in Prices, UpdatePrice(id, p) PROVE TypeOK'
  <2>1. Revised(id, resting[id].side, p, resting[id].qty) \in Order
    BY <1>1, <1>3, <1>4 DEF UpdatePrice
  <2> QED BY <1>2, <1>4, <2>1 DEF UpdatePrice
<1>5. ASSUME NEW id \in Ids, NEW p \in Prices, NEW q \in 1..MaxQty,
             UpdatePriceAndQuantity(id, p, q)
      PROVE  TypeOK'
  <2>1. q \in Nat \ {0}
    OBVIOUS
  <2>2. Revised(id, resting[id].side, p, q) \in Order
    BY <1>1, <1>3, <1>5, <2>1 DEF UpdatePriceAndQuantity
  <2> QED BY <1>2, <1>5, <2>2 DEF UpdatePriceAndQuantity
<1>6. ASSUME NEW id \in Ids, NEW s \in Sides, NEW p \in Prices, NEW q \in 1..MaxQty,
             Replace(id, s, p, q)
      PROVE  TypeOK'
  <2>1. q \in Nat \ {0}
    OBVIOUS
  <2>2. Revised(id, s, p, q) \in Order
    BY <1>1, <1>6, <2>1, SMTT(40) DEF Replace
  <2> QED BY <1>2, <1>6, <2>2 DEF Replace
<1>7. ASSUME NEW id \in Ids, NEW q \in 1..MaxQty, UpdateQuantity(id, q)
      PROVE  TypeOK'
  <2> DEFINE o == resting[id]
             peers == At(o.side, o.price) \ {id}
             back(m) == [resting[m] EXCEPT !.qty = q, !.ahead = peers]
             other(m) == [resting[m] EXCEPT !.ahead = @ \ {id}]
  <2>0. Live(id)
    BY <1>7, Zenon DEF UpdateQuantity
  <2>1. q \in Nat \ {0} /\ id \in DOMAIN resting /\ o \in RestingOrder
    BY <1>3, <2>0 DEF Live
  <2>2. peers \subseteq Ids
    BY DEF At, TypeOK, IsMap
  <2>3. \A m \in DOMAIN resting : back(m) \in RestingOrder /\ other(m) \in RestingOrder
    BY <2>1, <2>2, ZenonT(40) DEF TypeOK, IsMap, RestingOrder
  <2>4. [o EXCEPT !.qty = q] \in RestingOrder
    BY <2>1 DEF RestingOrder
  <2>5. \/ resting' = [resting EXCEPT ![id] = [o EXCEPT !.qty = q]]
        \/ resting' = [m \in DOMAIN resting |-> IF m = id THEN back(m) ELSE other(m)]
    BY <1>7, Zenon DEF UpdateQuantity
  <2> HIDE DEF back, other
  <2>6. IsMap(resting', Ids, RestingOrder)
    BY <2>3, <2>4, <2>5 DEF TypeOK, IsMap
  <2>7. RiskTypes'
    BY <1>7, <2>1, OnQuantityUpdateTypes, Zenon DEF UpdateQuantity, TypeOK, RiskTypes
  <2> QED BY <1>7, <2>6, <2>7, ZenonT(40) DEF UpdateQuantity, TypeOK, RiskTypes, envVars
<1> QED BY <1>4, <1>5, <1>6, <1>7 DEF ModifyStep

\* Cancellations keep the state typed.
LEMMA CancelTypes ==
    ASSUME TypeOK, CancelStep
    PROVE  TypeOK'
<1>1. ASSUME NEW id \in Ids, CancelOrder(id) PROVE TypeOK'
  BY <1>1, CancelWithReasonTypes, Zenon DEF CancelOrder, TypeOK
<1>2. ASSUME NEW id \in Ids, UpdateOrderCancel(id) PROVE TypeOK'
  <2>1. LevelsWithout(id) \in [Sides -> SUBSET Prices]
    BY Zenon DEF LevelsWithout, TypeOK
  <2>2. user_orders' \in [Users -> SUBSET Ids]
    BY <1>2 DEF UpdateOrderCancel, TypeOK
  <2>3. /\ IsMap(resting', Ids, RestingOrder)
        /\ IsMap(order_locations', Ids, Prices \X Sides)
    BY <1>2, DequeueTypes, DropIsMap DEF UpdateOrderCancel, TypeOK
  <2> QED BY <1>2, <2>1, <2>2, <2>3 DEF UpdateOrderCancel, TypeOK, riskVars, envVars
<1>3. \A P \in SUBSET DOMAIN resting : P \in SUBSET Ids
  BY DEF TypeOK, IsMap
<1>4. ASSUME NEW P \in SUBSET DOMAIN resting, StartBatch(P), UNCHANGED user_orders
      PROVE  TypeOK'
  BY <1>3, <1>4, StartBatchTypes, Zenon DEF TypeOK
<1>5. ASSUME NEW s \in Sides, CancelOrdersBySide(s) PROVE TypeOK'
  BY <1>4, <1>5 DEF CancelOrdersBySide
<1>6. ASSUME NEW u \in Users, CancelOrdersByUser(u) PROVE TypeOK'
  BY <1>6, StartBatchTypes, Zenon DEF CancelOrdersByUser, TypeOK
<1>7. ASSUME NEW s \in Sides, NEW lo \in Prices, NEW hi \in Prices,
             CancelOrdersByPriceRange(s, lo, hi)
      PROVE  TypeOK'
  BY <1>4, <1>7 DEF CancelOrdersByPriceRange
<1>8. ASSUME NEW t \in 0..MaxTime, EvictExpiredOrders(t) PROVE TypeOK'
  BY <1>4, <1>8 DEF EvictExpiredOrders
<1>9. CASE CancelAllOrders
  <2> DEFINE fills == [i \in DOMAIN resting |-> TrackedFill(i)]
  <2>1. IsMap(fills, Ids, Nat)
    BY TrackedFillNat, SMTT(40) DEF TypeOK, IsMap
  <2>2. IsMap(status', Ids, OrderStatus)
    BY <1>9, <2>1, TrackEachTypes, Zenon DEF CancelAllOrders, TypeOK
  <2> QED BY <1>9, <2>2, EmptyIsMap DEF CancelAllOrders, TypeOK, envVars
<1> QED BY <1>1, <1>2, <1>5, <1>6, <1>7, <1>8, <1>9 DEF CancelStep

\* The initial state is typed.
LEMMA InitTypes == Init => TypeOK
<1> SUFFICES ASSUME Init PROVE TypeOK
  OBVIOUS
<1>1. /\ IsMap(resting, Ids, RestingOrder)
      /\ IsMap(order_locations, Ids, Prices \X Sides)
      /\ IsMap(risk_orders, Ids, RiskEntry)
      /\ IsMap(status, Ids, OrderStatus)
  BY EmptyIsMap DEF Init
<1>2. /\ levels \in [Sides -> SUBSET Prices]
      /\ user_orders \in [Users -> SUBSET Ids]
      /\ open_count \in [Users -> Nat]
      /\ resting_notional \in [Users -> Nat]
  BY DEF Init
<1>3. last_trade_price \in 0..MaxPrice /\ now \in 0..MaxTime
  BY BoundsAssumption DEF Init
<1>4. /\ risk_config \in RiskConfig /\ kill_switch \in BOOLEAN
      /\ stp_mode \in StpModes /\ op = Idle
  BY DomainAssumption, Zenon DEF Init
<1> QED BY <1>1, <1>2, <1>3, <1>4 DEF TypeOK

\* Every step keeps the state typed.
LEMMA NextTypes ==
    ASSUME TypeOK, [Next]_vars
    PROVE  TypeOK'
<1>1. CASE OperatorStep
  BY <1>1, DomainAssumption, Zenon
     DEF OperatorStep, SetKillSwitch, SetRiskConfig, DisableRisk, SetStpMode,
         TypeOK, RiskConfig, bookVars, riskVars
<1>2. CASE Tick
  BY <1>2, BoundsAssumption DEF Tick, TypeOK, bookVars, riskVars
<1>3. CASE ReAdd
  <2>1. op.id \in Ids /\ op.o \in Order
    BY <1>3, OpIsCall DEF ReAdd, Call
  <2> QED BY <1>3, <2>1, AdmitTypes, Zenon DEF ReAdd
<1>4. ASSUME NEW id \in Ids, CancelNextInBatch(id) PROVE TypeOK'
  <2>1. op \in [pc : {"batch"}, pending : SUBSET Ids]
    BY <1>4 DEF CancelNextInBatch, TypeOK, Idle, Call
  <2>2. op' = Idle \/ op' \in [pc : {"batch"}, pending : SUBSET Ids]
    BY <1>4, <2>1, SMTT(40) DEF CancelNextInBatch
  <2> QED BY <1>4, <2>2, CancelWithReasonTypes DEF CancelNextInBatch
<1>5. CASE UNCHANGED vars
  BY <1>5 DEF vars, bookVars, riskVars, envVars, TypeOK
<1> QED BY <1>1, <1>2, <1>3, <1>4, <1>5, SubmitTypes, ModifyTypes, CancelTypes,
           MatchingTypes, OutcomeTypes DEF Next, CallStep

\* Type correctness: over every sequence of calls the maps, counters and call
\* records of the book stay in their ranges; in particular no resting order
\* ever has quantity zero, and no counter ever wraps below zero.
THEOREM TypeCorrect == Spec => []TypeOK
<1>1. Init => TypeOK
  BY InitTypes
<1>2. TypeOK /\ [Next]_vars => TypeOK'
  BY NextTypes
<1> QED BY <1>1, <1>2, PTL DEF Spec
=============================================================================
