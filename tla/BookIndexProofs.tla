-------------------------- MODULE BookIndexProofs --------------------------
(***************************************************************************)
(* The book's indexes agree, for every value of the constants: IndexInv is *)
(* inductive relative to TypeOK and implies IndexesAgree.                  *)
(***************************************************************************)
EXTENDS OrderBookProofs

---------------------------------------------------------------------------
\* What the views of the book are made of

\* A price has an order on side s exactly when its queue is not empty.
LEMMA PricesOfQueue ==
    ASSUME NEW s, NEW p
    PROVE  p \in PricesOf(s) <=> At(s, p) # {}
BY DEF PricesOf, At

\* The same of the next state.
LEMMA PricesOfQueueNext ==
    ASSUME NEW s, NEW p
    PROVE  p \in PricesOf(s)' <=> At(s, p)' # {}
BY DEF PricesOf, At

SameViews ==
    /\ DOMAIN resting' = DOMAIN resting
    /\ \A m \in DOMAIN resting :
          /\ resting'[m].price = resting[m].price
          /\ resting'[m].side = resting[m].side
          /\ resting'[m].user = resting[m].user

\* The next state has the same orders but m.
WithoutOrder(m) ==
    /\ DOMAIN resting' = DOMAIN resting \ {m}
    /\ \A n \in DOMAIN resting' :
          /\ resting'[n].price = resting[n].price
          /\ resting'[n].side = resting[n].side
          /\ resting'[n].user = resting[n].user

\* A step that keeps the owner, side and price of every order keeps what the
\* indexes must say.
LEMMA SameViewsKeep ==
    ASSUME SameViews
    PROVE  /\ \A u : OwnedBy(u)' = OwnedBy(u)
           /\ \A s : PricesOf(s)' = PricesOf(s)
<1>1. \A u : OwnedBy(u)' = OwnedBy(u)
  BY DEF SameViews, OwnedBy
<1>2. \A s, p : At(s, p)' = At(s, p)
  BY DEF SameViews, At
<1>3. ASSUME NEW s PROVE PricesOf(s)' = PricesOf(s)
  <2>1. \A p : p \in PricesOf(s)' <=> p \in PricesOf(s)
    BY <1>2, PricesOfQueue, PricesOfQueueNext
  <2> QED BY <2>1 DEF PricesOf
<1> QED BY <1>1, <1>3

\* An order that leaves its queue takes itself out of the views and nothing
\* else.
LEMMA DequeueRemoves ==
    ASSUME TypeOK, NEW m, resting' = Dequeue(m)
    PROVE  WithoutOrder(m)
<1>1. \A n \in DOMAIN resting : resting[n] \in RestingOrder
  BY DEF TypeOK, IsMap
<1> QED BY <1>1 DEF Dequeue, WithoutOrder, RestingOrder

\* What the owners and prices of the resting orders become when one order
\* leaves its level.
LEMMA WithoutOrderViews ==
    ASSUME NEW m \in DOMAIN resting, WithoutOrder(m)
    PROVE  /\ \A u : OwnedBy(u)' = OwnedBy(u) \ {m}
           /\ \A s, p : At(s, p)' = At(s, p) \ {m}
BY DEF WithoutOrder, OwnedBy, At

---------------------------------------------------------------------------
\* Steps that leave the book alone

\* A step that only moves the call on keeps the invariant when it consumes
\* nothing and forgets no visited level.
LEMMA CallMoves ==
    ASSUME TypeOK, IndexInv, UNCHANGED bookVars, op.pc # "batch",
           Consumed' = Consumed, CallInv',
           \A s \in Sides : Sweeping(s) => Sweeping(s)' /\ op.seen \subseteq op'.seen
    PROVE  IndexInv'
<1>1. SameViews
  BY DEF SameViews, bookVars
<1>2. LocationsInv'
  BY DEF IndexInv, LocationsInv, bookVars
<1>3. UserIndexInv'
  BY <1>1, SameViewsKeep DEF IndexInv, UserIndexInv, bookVars
<1>4. LevelKeysInv'
  BY <1>1, SameViewsKeep DEF IndexInv, LevelKeysInv, bookVars
<1> QED BY <1>2, <1>3, <1>4 DEF IndexInv

\* A step that leaves the book and the call alone keeps the invariant.
LEMMA NothingMoves ==
    ASSUME IndexInv, UNCHANGED <<bookVars, op>>
    PROVE  IndexInv'
BY DEF IndexInv, LocationsInv, UserIndexInv, LevelKeysInv, CallInv, bookVars,
       Consumed, InWalk, Sweeping, OwnedBy, PricesOf

\* Nothing is consumed by a call that has just started.
LEMMA NewCallConsumesNothing ==
    ASSUME NEW pc, NEW id, NEW o, NEW kind, NEW modify, NEW budget,
           op' = NewCall(pc, id, o, kind, modify, budget)
    PROVE  /\ op'.pc = pc /\ op'.id = id /\ op'.kind = kind /\ op'.seen = {}
           /\ Consumed' = {}
<1>1. \A m \in Ids : op'.filled[m] = 0
  BY DEF NewCall, NoneConsumed
<1> QED BY <1>1 DEF NewCall, Consumed

---------------------------------------------------------------------------
\* Cancelling one order

\* The location map and the user index after the cancellation of order m.
LEMMA CancelRestingMakerIndexes ==
    ASSUME TypeOK, IndexInv, NEW m \in DOMAIN resting, CancelRestingMaker(m),
           Consumed' = Consumed,
           \/ op.pc # "batch"
           \/ op'.pc = "batch" /\ op.pending \ {m} \subseteq op'.pending
           \/ op.pending = {m}
    PROVE  LocationsInv' /\ UserIndexInv'
<1>1. WithoutOrder(m)
  BY DequeueRemoves DEF CancelRestingMaker
<1>2. LocationsInv'
  BY <1>1 DEF IndexInv, LocationsInv, CancelRestingMaker, WithoutOrder, Drop
<1>3. resting[m].user \in Users
  BY DEF TypeOK, IsMap, RestingOrder
<1>4. ASSUME NEW u \in Users
      PROVE  \/ user_orders'[u] \ Consumed' = OwnedBy(u)'
             \/ op'.pc = "batch" /\ user_orders'[u] = {} /\ OwnedBy(u)' \subseteq op'.pending
  <2>1. user_orders'[u] = IF u = resting[m].user THEN user_orders[u] \ {m}
                          ELSE user_orders[u]
    BY <1>3, Zenon DEF CancelRestingMaker, TypeOK
  <2>2. OwnedBy(u)' = OwnedBy(u) \ {m}
    BY <1>1, WithoutOrderViews
  <2>3. u # resting[m].user => m \notin OwnedBy(u)
    BY DEF OwnedBy
  <2>4. CASE user_orders[u] \ Consumed = OwnedBy(u)
    BY <2>1, <2>2, <2>3, <2>4
  <2>5. CASE op.pc = "batch" /\ user_orders[u] = {} /\ OwnedBy(u) \subseteq op.pending
    <3>1. user_orders'[u] = {}
      BY <2>1, <2>5
    <3>2. CASE op'.pc = "batch" /\ op.pending \ {m} \subseteq op'.pending
      BY <2>2, <2>5, <3>1, <3>2
    <3>3. CASE op.pending = {m}
      BY <2>2, <2>5, <3>1, <3>3
    <3> QED BY <2>5, <3>2, <3>3
  <2> QED BY <2>4, <2>5 DEF IndexInv, UserIndexInv
<1> QED BY <1>2, <1>4 DEF UserIndexInv

\* Self-trade prevention cancels a maker of the level the walk is on: the
\* level may be left empty, and is then one of the visited ones.
LEMMA CancelInWalk ==
    ASSUME TypeOK, IndexInv, NEW m \in Ids, op.pc \in {"cancelMakers", "match"},
           m \in At(Opposite(op.o.side), op.at), CancelRestingMaker(m),
           UNCHANGED levels, Consumed' = Consumed, CallInv',
           \A s \in Sides : Sweeping(s) => Sweeping(s)' /\ op.seen \subseteq op'.seen
    PROVE  IndexInv'
<1>1. m \in DOMAIN resting /\ resting[m].side = Opposite(op.o.side)
      /\ resting[m].price = op.at /\ op.at \in op.seen
  BY DEF At, IndexInv, CallInv
<1>2. WithoutOrder(m)
  BY DequeueRemoves DEF CancelRestingMaker
<1>3. LocationsInv' /\ UserIndexInv'
  BY <1>1, CancelRestingMakerIndexes
<1>4. ASSUME NEW s \in Sides
      PROVE  /\ PricesOf(s)' \subseteq levels'[s]
             /\ levels'[s] \subseteq PricesOf(s)' \cup (IF Sweeping(s)' THEN op'.seen ELSE {})
  <2>1. \A p : At(s, p)' = At(s, p) \ {m}
    BY <1>1, <1>2, WithoutOrderViews
  <2>2. \A p : p \in PricesOf(s)' => p \in PricesOf(s)
    BY <2>1, PricesOfQueue, PricesOfQueueNext
  <2>3. ASSUME NEW p, p \in PricesOf(s), p \notin PricesOf(s)'
        PROVE  s = Opposite(op.o.side) /\ p = op.at
    <3>1. m \in At(s, p)
      BY <2>1, <2>3, PricesOfQueue, PricesOfQueueNext
    <3> QED BY <1>1, <3>1 DEF At
  <2>4. s = Opposite(op.o.side) => Sweeping(s)
    BY DEF Sweeping, InWalk
  <2> QED BY <1>1, <2>2, <2>3, <2>4 DEF IndexInv, LevelKeysInv
<1> QED BY <1>3, <1>4 DEF IndexInv, LevelKeysInv

\* The level keys after a cancellation outside a walk: the level goes exactly
\* when its last order does.
LEMMA CancelDropsLevel ==
    ASSUME TypeOK, LevelKeysInv, NEW id \in DOMAIN resting, WithoutOrder(id),
           levels' = LevelsWithout(id), ~InWalk
    PROVE  LevelKeysInv'
<1> DEFINE o == resting[id]
<1>1. o.side \in Sides
  BY DEF TypeOK, IsMap, RestingOrder
<1>2. ASSUME NEW s \in Sides, NEW p PROVE p \in levels'[s] <=> p \in PricesOf(s)'
  <2>1. At(s, p)' = At(s, p) \ {id}
    BY WithoutOrderViews
  <2>2. p \in levels[s] <=> At(s, p) # {}
    BY PricesOfQueue DEF LevelKeysInv, Sweeping
  <2>3. id \in At(s, p) <=> s = o.side /\ p = o.price
    BY DEF At
  <2>4. p \in levels'[s] <=> p \in levels[s] /\ ~(At(o.side, o.price) = {id}
                                                   /\ s = o.side /\ p = o.price)
    BY <1>1 DEF LevelsWithout, TypeOK
  <2>5. CASE s = o.side /\ p = o.price
    BY <2>1, <2>2, <2>3, <2>4, <2>5, PricesOfQueueNext
  <2>6. CASE ~(s = o.side /\ p = o.price)
    BY <2>1, <2>2, <2>3, <2>4, <2>6, PricesOfQueueNext
  <2> QED BY <2>5, <2>6
<1> QED BY <1>2 DEF LevelKeysInv

---------------------------------------------------------------------------
\* The matching walk

\* A trade consumes the maker or leaves it in place with less quantity.
LEMMA TradeIndexes ==
    ASSUME TypeOK, IndexInv, NEW m \in Ids, Trade(m)
    PROVE  IndexInv'
<1> DEFINE t == MinOf(op.cap, resting[m].qty)
           fill == IF t = resting[m].qty THEN t ELSE op.filled[m]
<1>1. /\ op \in Call /\ op.pc = "match" /\ m \in DOMAIN resting
      /\ resting[m] \in RestingOrder
      /\ resting[m].side = Opposite(op.o.side) /\ resting[m].price = op.at
  BY OpIsCall DEF Trade, At, TypeOK, IsMap
<1>2. t > 0
  BY <1>1 DEF Trade, MinOf, Call, RestingOrder
<1>3. /\ op'.filled = [op.filled EXCEPT ![m] = fill]
      /\ op'.pc = op.pc /\ op'.o = op.o /\ op'.seen = op.seen /\ op'.at = op.at
      /\ op'.id = op.id /\ op'.kind = op.kind
  BY <1>1 DEF Trade, Call
<1>4. CallInv' /\ \A s \in Sides : Sweeping(s) => Sweeping(s)' /\ op.seen \subseteq op'.seen
  BY <1>1, <1>3 DEF CallInv, IndexInv, Sweeping, InWalk, Trade
<1>5. CASE t # resting[m].qty
  <2>1. SameViews
    BY <1>1, <1>5 DEF Trade, SameViews, RestingOrder, TypeOK, IsMap
  <2>2. Consumed' = Consumed
    BY <1>1, <1>3, <1>5, SMTT(40) DEF Consumed, InWalk, Call
  <2>3. LocationsInv'
    BY <2>1, <2>2 DEF IndexInv, LocationsInv, SameViews, Trade
  <2>4. UserIndexInv'
    BY <1>1, <2>1, <2>2, SameViewsKeep DEF IndexInv, UserIndexInv, Trade
  <2>5. LevelKeysInv'
    BY <1>4, <2>1, SameViewsKeep, SMTT(40) DEF IndexInv, LevelKeysInv, Trade
  <2> QED BY <1>4, <2>3, <2>4, <2>5 DEF IndexInv
<1>6. CASE t = resting[m].qty
  <2>1. WithoutOrder(m)
    BY <1>6, DequeueRemoves DEF Trade
  <2>2. Consumed' = Consumed \cup {m}
    <3>1. \A n \in Ids : op'.filled[n] > 0 <=> op.filled[n] > 0 \/ n = m
      BY <1>1, <1>2, <1>3, <1>6, SMTT(40) DEF Call
    <3> QED BY <1>1, <1>3, <3>1 DEF Consumed, InWalk
  <2>3. LocationsInv'
    BY <1>1, <2>1, <2>2 DEF IndexInv, LocationsInv, WithoutOrder, Trade
  <2>4. UserIndexInv'
    BY <1>1, <2>1, <2>2, WithoutOrderViews DEF IndexInv, UserIndexInv, Trade
  <2>5. ASSUME NEW s \in Sides
        PROVE  /\ PricesOf(s)' \subseteq levels'[s]
               /\ levels'[s] \subseteq PricesOf(s)' \cup (IF Sweeping(s)' THEN op'.seen ELSE {})
    <3>1. \A p : At(s, p)' = At(s, p) \ {m}
      BY <1>1, <2>1, WithoutOrderViews
    <3>2. \A p : p \in PricesOf(s)' => p \in PricesOf(s)
      BY <3>1, PricesOfQueue, PricesOfQueueNext
    <3>3. ASSUME NEW p, p \in PricesOf(s), p \notin PricesOf(s)'
          PROVE  Sweeping(s) /\ p \in op.seen
      <4>1. m \in At(s, p)
        BY <3>1, <3>3, PricesOfQueue, PricesOfQueueNext
      <4>2. op.at \in op.seen
        BY <1>1 DEF IndexInv, CallInv
      <4> QED BY <1>1, <4>1, <4>2 DEF At, Sweeping, InWalk
    <3> QED BY <1>4, <3>2, <3>3 DEF IndexInv, LevelKeysInv, Trade
  <2> QED BY <1>4, <2>3, <2>4, <2>5 DEF IndexInv, LevelKeysInv
<1> QED BY <1>5, <1>6

\* The removals after the walk bring the indexes back into agreement.
LEMMA CloseWalkIndexes ==
    ASSUME TypeOK, IndexInv, CloseWalk
    PROVE  IndexInv'
<1> DEFINE consumed == {m \in Ids : op.filled[m] > 0}
<1>1. op \in Call /\ op.pc = "close"
  BY OpIsCall DEF CloseWalk
<1>2. consumed = Consumed
  BY <1>1 DEF Consumed, InWalk
<1>3. op'.pc = "outcome" /\ op'.id = op.id /\ op'.kind = op.kind
      /\ op'.filled = NoneConsumed
  BY <1>1 DEF CloseWalk, Call
<1>4. Consumed' = {}
  BY <1>3 DEF Consumed, NoneConsumed
<1>5. order_locations' = Drop(order_locations, Consumed)
      /\ user_orders' = [u \in Users |-> user_orders[u] \ Consumed]
      /\ resting' = resting
  BY <1>2, Zenon DEF CloseWalk
<1>6. SameViews
  BY <1>5 DEF SameViews
<1>7. LocationsInv'
  BY <1>4, <1>5, Zenon DEF IndexInv, LocationsInv, Drop
<1>8. UserIndexInv'
  BY <1>1, <1>4, <1>5, <1>6, SameViewsKeep DEF IndexInv, UserIndexInv
<1>9. CallInv'
  BY <1>1, <1>3, <1>4, <1>5 DEF IndexInv, CallInv, InWalk, Drop
<1>10. ASSUME NEW s \in Sides
       PROVE  /\ PricesOf(s)' \subseteq levels'[s]
              /\ levels'[s] \subseteq PricesOf(s)' \cup (IF Sweeping(s)' THEN op'.seen ELSE {})
  <2>1. \A p : p \in PricesOf(s)' <=> At(s, p) # {}
    BY <1>6, SameViewsKeep, PricesOfQueue
  <2>2. \A p : p \in levels'[s] <=>
             p \in levels[s] /\ ~(s = Opposite(op.o.side) /\ p \in op.seen /\ At(s, p) = {})
    BY DEF CloseWalk, TypeOK
  <2>3. s = Opposite(op.o.side) <=> Sweeping(s)
    BY <1>1 DEF Sweeping, InWalk
  <2>4. \A p : At(s, p) # {} <=> p \in PricesOf(s)
    BY PricesOfQueue
  <2> QED BY <2>1, <2>2, <2>3, <2>4 DEF IndexInv, LevelKeysInv
<1> QED BY <1>7, <1>8, <1>9, <1>10 DEF IndexInv, LevelKeysInv

\* Every step of the walk keeps the invariant.
LEMMA MatchingIndexes ==
    ASSUME TypeOK, IndexInv, MatchingStep
    PROVE  IndexInv'
<1>1. ASSUME NEW p \in Prices, EnterLevel(p) PROVE IndexInv'
  <2>1. op \in Call /\ op.pc = "walk"
    BY <1>1, OpIsCall DEF EnterLevel
  <2>2. /\ op'.pc \in {"cancelMakers", "match"} /\ op'.filled = op.filled
        /\ op'.o = op.o /\ op'.id = op.id /\ op'.kind = op.kind
        /\ op'.seen = op.seen \cup {p} /\ op'.at = p
    BY <1>1, <2>1 DEF EnterLevel, Call
  <2>3. UNCHANGED bookVars
    BY <1>1 DEF EnterLevel
  <2>4. Consumed' = Consumed
    BY <2>1, <2>2 DEF Consumed, InWalk
  <2>5. CallInv'
    BY <2>1, <2>2, <2>3 DEF IndexInv, CallInv, InWalk, bookVars
  <2>6. \A s \in Sides : Sweeping(s) => Sweeping(s)' /\ op.seen \subseteq op'.seen
    BY <2>2 DEF Sweeping, InWalk
  <2> QED BY <2>1, <2>3, <2>4, <2>5, <2>6, CallMoves
<1>2. ASSUME NEW m \in Ids, CancelSelfMaker(m) PROVE IndexInv'
  <2>1. op.pc = "cancelMakers" /\ op' = op /\ m \in At(Opposite(op.o.side), op.at)
        /\ CancelRestingMaker(m) /\ UNCHANGED levels
    BY <1>2 DEF CancelSelfMaker, IsFirstSelfMaker, SelfMakers
  <2>2. Consumed' = Consumed
    BY <2>1, SMTT(40) DEF Consumed, InWalk
  <2>3. CallInv'
    BY <2>1 DEF IndexInv, CallInv, InWalk, CancelRestingMaker, Drop
  <2>4. \A s \in Sides : Sweeping(s) => Sweeping(s)' /\ op.seen \subseteq op'.seen
    BY <2>1 DEF Sweeping, InWalk
  <2> QED BY <2>1, <2>2, <2>3, <2>4, CancelInWalk, SMTT(40)
<1>3. ASSUME UNCHANGED bookVars,
             op.pc \in {"walk", "cancelMakers", "match"},
             op'.pc \in {"walk", "match", "close"},
             op'.pc = "match" => op.pc = "cancelMakers",
             op' = [op EXCEPT !.pc = op'.pc] \/ op' = [op EXCEPT !.cap = 0, !.pc = op'.pc]
      PROVE  IndexInv'
  <2>1. op \in Call
    BY <1>3, OpIsCall
  <2>2. /\ op'.filled = op.filled /\ op'.o = op.o /\ op'.id = op.id
        /\ op'.kind = op.kind /\ op'.seen = op.seen /\ op'.at = op.at
    BY <1>3, <2>1, ZenonT(40) DEF Call
  <2>3. Consumed' = Consumed
    BY <1>3, <2>2 DEF Consumed, InWalk
  <2>4. CallInv'
    BY <1>3, <2>2 DEF IndexInv, CallInv, InWalk, bookVars
  <2>5. \A s \in Sides : Sweeping(s) => Sweeping(s)' /\ op.seen \subseteq op'.seen
    BY <1>3, <2>2 DEF Sweeping, InWalk
  <2> QED BY <1>3, <2>3, <2>4, <2>5, CallMoves
<1>4. CASE SelfMakersCancelled
  <2>1. op \in Call
    BY <1>4, OpIsCall DEF SelfMakersCancelled
  <2> QED BY <1>3, <1>4, <2>1 DEF SelfMakersCancelled, Call
<1>5. ASSUME NEW m \in Ids, CancelBothSides(m) PROVE IndexInv'
  <2>1. op \in Call /\ op.pc = "match" /\ m \in At(Opposite(op.o.side), op.at)
        /\ CancelRestingMaker(m) /\ UNCHANGED levels
    BY <1>5, OpIsCall DEF CancelBothSides, LevelMatched, IsFirstSelfMaker, SelfMakers
  <2>2. /\ op'.filled = op.filled /\ op'.o = op.o /\ op'.id = op.id /\ op'.pc = "close"
        /\ op'.kind = op.kind /\ op'.seen = op.seen
    BY <1>5, <2>1 DEF CancelBothSides, Call
  <2>3. Consumed' = Consumed
    BY <2>1, <2>2, SMTT(40) DEF Consumed, InWalk
  <2>4. CallInv'
    BY <2>1, <2>2 DEF IndexInv, CallInv, InWalk, CancelRestingMaker, Drop
  <2>5. \A s \in Sides : Sweeping(s) => Sweeping(s)' /\ op.seen \subseteq op'.seen
    BY <2>2 DEF Sweeping, InWalk
  <2> QED BY <2>1, <2>3, <2>4, <2>5, CancelInWalk
<1>6. CASE LeaveLevel
  <2>1. op \in Call
    BY <1>6, OpIsCall DEF LeaveLevel, LevelMatched
  <2> QED BY <1>3, <1>6, <2>1 DEF LeaveLevel, LevelMatched, Call
<1>7. CASE WalkEnds
  <2>1. op \in Call
    BY <1>7, OpIsCall DEF WalkEnds
  <2> QED BY <1>3, <1>7, <2>1 DEF WalkEnds, Call
<1> QED BY <1>1, <1>2, <1>4, <1>5, <1>6, <1>7, TradeIndexes, CloseWalkIndexes, SMTT(40)
        DEF MatchingStep

---------------------------------------------------------------------------
\* Submission

\* A step that starts a call, or ends one, and leaves the book alone.
LEMMA CallStartsOrEnds ==
    ASSUME TypeOK, IndexInv, UNCHANGED bookVars, op.pc \in {"idle", "admit", "outcome"},
           \/ op' = Idle
           \/ /\ op'.pc = "walk" /\ Consumed' = {}
              /\ op'.kind = "limit" => op'.id \notin DOMAIN order_locations
    PROVE  IndexInv'
<1>1. Consumed = {} /\ \A s \in Sides : ~Sweeping(s)
  BY DEF IndexInv, CallInv, Consumed, InWalk, Sweeping
<1>2. Consumed' = {}
  BY DEF Consumed, InWalk, Idle
<1>3. CallInv'
  BY <1>2 DEF CallInv, InWalk, Idle, bookVars
<1> QED BY <1>1, <1>2, <1>3, CallMoves

\* The first half of add_order_inner keeps the invariant.
LEMMA AdmitIndexes ==
    ASSUME TypeOK, IndexInv, op.pc \in {"idle", "admit"},
           NEW id \in Ids, NEW o \in Order, NEW modify \in BOOLEAN, Admit(id, o, modify)
    PROVE  IndexInv'
<1>1. UNCHANGED bookVars
  BY DEF Admit
<1>2. CASE AdmissionVerdict(id, o) # "Ok"
  BY <1>1, <1>2, CallStartsOrEnds DEF Admit
<1>3. CASE AdmissionVerdict(id, o) = "Ok"
  <2>1. id \notin DOMAIN order_locations
    BY <1>3 DEF AdmissionVerdict
  <2>2. op' = NewCall("walk", id, o, "limit", modify, o.qty)
    BY <1>3 DEF Admit
  <2>3. op'.pc = "walk" /\ op'.id = id /\ Consumed' = {}
    BY <2>2, NewCallConsumesNothing
  <2> QED BY <1>1, <2>1, <2>3, CallStartsOrEnds
<1> QED BY <1>2, <1>3

\* A resting residual enters all four views at once.
LEMMA RestIndexes ==
    ASSUME TypeOK, IndexInv, Rest
    PROVE  IndexInv'
<1> DEFINE o == op.o
           id == op.id
<1>1. /\ op \in Call /\ op.pc = "outcome" /\ op.kind = "limit" /\ id \in Ids
      /\ o \in Order /\ o.side \in Sides /\ o.user \in Users
  <2>1. op.pc = "outcome" /\ op.kind = "limit"
    BY DEF Rest, ResidualToRest, AtOutcome
  <2> QED BY <2>1, OpIsCall DEF Call, Order
<1>2. Consumed = {} /\ id \notin DOMAIN order_locations
      /\ DOMAIN order_locations = DOMAIN resting
  BY <1>1, SMTT(40) DEF IndexInv, CallInv, InWalk, LocationsInv
<1>3. op' = Idle /\ Consumed' = {} /\ \A s \in Sides : ~Sweeping(s) /\ ~Sweeping(s)'
  BY <1>1, SMTT(40) DEF Rest, Consumed, InWalk, Idle, Sweeping
<1>4. /\ DOMAIN resting' = DOMAIN resting \cup {id}
      /\ resting'[id].price = o.price /\ resting'[id].side = o.side
      /\ resting'[id].user = o.user
      /\ \A m \in DOMAIN resting : resting'[m] = resting[m]
  BY <1>2, SMTT(40) DEF Rest, Enqueue, Put
<1>5. LocationsInv'
  BY <1>2, <1>3, <1>4, ZenonT(40) DEF IndexInv, LocationsInv, Rest, Put
<1>6. ASSUME NEW u \in Users PROVE user_orders'[u] \ Consumed' = OwnedBy(u)'
  <2>1. user_orders[u] = OwnedBy(u)
    BY <1>1, <1>2, SMTT(40) DEF IndexInv, UserIndexInv
  <2>2. user_orders'[u] = IF u = o.user THEN user_orders[u] \cup {id} ELSE user_orders[u]
    BY <1>1, ZenonT(40) DEF Rest, TypeOK
  <2>3. OwnedBy(u)' = IF u = o.user THEN OwnedBy(u) \cup {id} ELSE OwnedBy(u)
    BY <1>2, <1>4 DEF OwnedBy
  <2> QED BY <1>3, <2>1, <2>2, <2>3, SMTT(40)
<1>7. ASSUME NEW s \in Sides, NEW p PROVE p \in levels'[s] <=> p \in PricesOf(s)'
  <2>1. p \in levels[s] <=> p \in PricesOf(s)
    BY <1>3 DEF IndexInv, LevelKeysInv
  <2>2. At(s, p)' = IF s = o.side /\ p = o.price THEN At(s, p) \cup {id} ELSE At(s, p)
    BY <1>2, <1>4, SMTT(40) DEF At
  <2>3. p \in levels'[s] <=> p \in levels[s] \/ (s = o.side /\ p = o.price)
    BY <1>1 DEF Rest, TypeOK
  <2> QED BY <2>1, <2>2, <2>3, PricesOfQueue, PricesOfQueueNext
<1>8. CallInv'
  BY <1>3 DEF CallInv, InWalk, Idle
<1>9. LevelKeysInv'
  BY <1>7 DEF LevelKeysInv
<1>10. UserIndexInv'
  BY <1>6 DEF UserIndexInv
<1> QED BY <1>5, <1>8, <1>9, <1>10 DEF IndexInv

\* The end of a submission keeps the invariant.
LEMMA OutcomeIndexes ==
    ASSUME TypeOK, IndexInv, Outcome
    PROVE  IndexInv'
<1>1. CASE Rest
  BY <1>1, RestIndexes
<1>2. CASE ~Rest
  <2>1. op.pc = "outcome" /\ op' = Idle /\ UNCHANGED bookVars
    BY <1>2 DEF Outcome, StpCancelled, MarketDone, FullyFilled, ImmediateDropped,
       RestFailed, ResidualToRest, AtOutcome, Finish
  <2> QED BY <2>1, CallStartsOrEnds, SMTT(40)
<1> QED BY <1>1, <1>2

\* Submissions keep the invariant.
LEMMA SubmitIndexes ==
    ASSUME TypeOK, IndexInv, SubmitStep
    PROVE  IndexInv'
<1>1. ASSUME NEW id \in Ids, NEW o \in Orders, AddOrder(id, o) \/ AddDuplicate(id, o)
      PROVE  IndexInv'
  <2>1. op = Idle /\ Admit(id, o, FALSE)
    BY <1>1, Zenon DEF AddOrder, AddDuplicate, May
  <2>2. op.pc = "idle"
    BY <2>1 DEF Idle
  <2> QED BY <2>1, <2>2, AdmitIndexes, OrdersAssumption, Zenon
<1>2. ASSUME NEW id, NEW s, NEW u, NEW budget, NEW kind \in {"market", "quote"},
             op = Idle, Submit(id, s, u, kind, budget)
      PROVE  IndexInv'
  <2>1. UNCHANGED bookVars /\ op.pc = "idle"
    BY <1>2 DEF Submit, Idle
  <2>2. CASE kill_switch
    BY <1>2, <2>1, <2>2, CallStartsOrEnds DEF Submit
  <2>3. CASE ~kill_switch
    <3>1. op' = NewCall("walk", id, MarketTaker(s, u), kind, FALSE, budget)
      BY <1>2, <2>3 DEF Submit
    <3>2. op'.pc = "walk" /\ op'.kind = kind /\ Consumed' = {}
      BY <3>1, NewCallConsumesNothing, ZenonT(40)
    <3> QED BY <2>1, <3>2, CallStartsOrEnds
  <2> QED BY <2>2, <2>3
<1>3. ASSUME NEW id \in Ids, NEW s \in Sides, NEW u \in Users,
             SubmitMarketOrder(id, s, u) \/ SubmitMarketOrderByAmount(id, s, u)
      PROVE  IndexInv'
  BY <1>2, <1>3 DEF SubmitMarketOrder, SubmitMarketOrderByAmount, May
<1> QED BY <1>1, <1>3 DEF SubmitStep

---------------------------------------------------------------------------
\* Cancellation and modification

\* cancel_order_with_reason between walks keeps the invariant.
LEMMA CancelWithReasonIndexes ==
    ASSUME TypeOK, IndexInv, NEW id, CancelWithReason(id), ~InWalk, Consumed' = {}, CallInv',
           \/ op.pc # "batch"
           \/ op'.pc = "batch" /\ op.pending \ {id} \subseteq op'.pending
           \/ op.pending = {id}
    PROVE  IndexInv'
<1>1. id \in DOMAIN resting /\ CancelRestingMaker(id) /\ levels' = LevelsWithout(id)
  BY DEF CancelWithReason, Live
<1>2. Consumed = {}
  BY DEF Consumed
<1>3. LocationsInv' /\ UserIndexInv'
  BY <1>1, <1>2, CancelRestingMakerIndexes, SMTT(40)
<1>4. WithoutOrder(id)
  BY <1>1, DequeueRemoves DEF CancelRestingMaker
<1>5. LevelKeysInv'
  BY <1>1, <1>4, CancelDropsLevel, SMTT(40) DEF IndexInv
<1> QED BY <1>3, <1>5 DEF IndexInv

\* Modifications keep the invariant.
LEMMA ModifyIndexes ==
    ASSUME TypeOK, IndexInv, ModifyStep
    PROVE  IndexInv'
<1>1. ASSUME NEW id \in Ids, NEW o, op = Idle, CancelThenAdd(id, o)
      PROVE  IndexInv'
  <2>1. op' = NewCall("admit", id, o, "limit", TRUE, o.qty)
    BY <1>1 DEF CancelThenAdd
  <2>2. op'.pc = "admit" /\ op'.id = id /\ Consumed' = {}
    BY <2>1, NewCallConsumesNothing, Zenon
  <2>3. op.pc = "idle" /\ ~InWalk
    BY <1>1 DEF Idle, InWalk
  <2>4. CallInv'
    BY <1>1, <2>2, Zenon DEF CallInv, InWalk, CancelThenAdd, CancelWithReason,
       CancelRestingMaker, Drop
  <2> QED BY <1>1, <2>2, <2>3, <2>4, CancelWithReasonIndexes DEF CancelThenAdd
<1>2. ASSUME NEW id \in Ids, NEW q, UpdateQuantity(id, q) PROVE IndexInv'
  <2> DEFINE o == resting[id]
             peers == At(o.side, o.price) \ {id}
  <2>1. \A m \in DOMAIN resting : resting[m] \in RestingOrder
    BY DEF TypeOK, IsMap
  <2>2. SameViews
    <3>1. CASE resting' = [resting EXCEPT ![id] = [o EXCEPT !.qty = q]]
      BY <1>2, <2>1, <3>1 DEF SameViews, RestingOrder
    <3>2. CASE resting' = [m \in DOMAIN resting |->
                             IF m = id
                             THEN [resting[m] EXCEPT !.qty = q, !.ahead = peers]
                             ELSE [resting[m] EXCEPT !.ahead = @ \ {id}]]
      BY <2>1, <3>2, ZenonT(40) DEF SameViews, RestingOrder
    <3> QED BY <1>2, <3>1, <3>2, Zenon DEF UpdateQuantity
  <2>3. UNCHANGED <<levels, order_locations, user_orders, op>>
    BY <1>2, ZenonT(40) DEF UpdateQuantity
  <2>4. Consumed' = Consumed /\ CallInv' /\ \A s \in Sides : Sweeping(s)' = Sweeping(s)
    BY <2>2, <2>3, SMTT(40) DEF IndexInv, CallInv, Consumed, InWalk, Sweeping, SameViews
  <2>5. LocationsInv'
    BY <2>2, <2>3, <2>4, SMTT(40) DEF IndexInv, LocationsInv, SameViews
  <2>6. UserIndexInv'
    BY <2>2, <2>3, <2>4, SameViewsKeep, SMTT(40) DEF IndexInv, UserIndexInv
  <2>7. LevelKeysInv'
    BY <2>2, <2>3, <2>4, SameViewsKeep DEF IndexInv, LevelKeysInv
  <2> QED BY <2>4, <2>5, <2>6, <2>7 DEF IndexInv
<1> QED BY <1>1, <1>2, SMTT(40) DEF ModifyStep, UpdatePrice, UpdatePriceAndQuantity, Replace, May

\* A batch that starts keeps the invariant: its orders rest, and a user's
\* index entry is taken out only with all of the user's orders in the batch.
LEMMA StartBatchIndexes ==
    ASSUME TypeOK, IndexInv, op = Idle, NEW ids, StartBatch(ids),
           \/ UNCHANGED user_orders /\ ids \subseteq DOMAIN resting
           \/ \E u \in Users : /\ ids = user_orders[u]
                               /\ user_orders' = [user_orders EXCEPT ![u] = {}]
    PROVE  IndexInv'
<1>1. /\ op.pc = "idle" /\ op'.pc = "batch" /\ op'.pending = ids
      /\ UNCHANGED <<resting, levels, order_locations>>
  BY DEF StartBatch, Idle
<1>2. Consumed = {} /\ Consumed' = {} /\ \A s \in Sides : ~Sweeping(s) /\ ~Sweeping(s)'
  BY <1>1 DEF Consumed, InWalk, Sweeping
<1>3. SameViews
  BY <1>1 DEF SameViews
<1>4. \A u \in Users : user_orders[u] = OwnedBy(u)
  BY <1>1, <1>2, SMTT(40) DEF IndexInv, UserIndexInv
<1>5. LocationsInv'
  BY <1>1, <1>2, SMTT(40) DEF IndexInv, LocationsInv
<1>6. LevelKeysInv'
  BY <1>1, <1>2, <1>3, SameViewsKeep DEF IndexInv, LevelKeysInv
<1>7. ids \subseteq DOMAIN resting
  BY <1>4, SMTT(40) DEF OwnedBy
<1>8. CallInv'
  BY <1>1, <1>7 DEF CallInv, InWalk
<1>9. CASE UNCHANGED user_orders
  <2>1. UserIndexInv'
    BY <1>2, <1>3, <1>4, <1>9, SameViewsKeep DEF UserIndexInv
  <2> QED BY <1>5, <1>6, <1>8, <2>1, SMTT(40) DEF IndexInv
<1>10. ASSUME NEW u \in Users, ids = user_orders[u],
              user_orders' = [user_orders EXCEPT ![u] = {}]
       PROVE  IndexInv'
  <2>1. \A v \in Users : user_orders'[v] = IF v = u THEN {} ELSE user_orders[v]
    BY <1>10, SMTT(40) DEF TypeOK
  <2>2. UserIndexInv'
    BY <1>1, <1>2, <1>3, <1>4, <1>10, <2>1, SameViewsKeep, SMTT(40) DEF UserIndexInv
  <2> QED BY <1>5, <1>6, <1>8, <2>2, SMTT(40) DEF IndexInv
<1> QED BY <1>9, <1>10

\* Cancellations keep the invariant.
LEMMA CancelIndexes ==
    ASSUME TypeOK, IndexInv, CancelStep
    PROVE  IndexInv'
<1>1. ASSUME NEW id \in Ids, CancelOrder(id) PROVE IndexInv'
  <2>1. op = Idle /\ op' = op /\ CancelWithReason(id)
    BY <1>1, Zenon DEF CancelOrder, May
  <2>2. op.pc = "idle" /\ ~InWalk /\ Consumed' = {} /\ CallInv'
    BY <2>1 DEF Idle, InWalk, Consumed, CallInv
  <2> QED BY <2>1, <2>2, CancelWithReasonIndexes
<1>2. ASSUME NEW id \in Ids, UpdateOrderCancel(id) PROVE IndexInv'
  <2>1. op = Idle /\ op' = op
    BY <1>2, Zenon DEF UpdateOrderCancel, May
  <2>2. ~InWalk /\ Consumed = {} /\ Consumed' = {} /\ CallInv' /\ op.pc = "idle"
    BY <2>1 DEF Idle, InWalk, Consumed, CallInv
  <2>3. id \in DOMAIN resting /\ levels' = LevelsWithout(id)
    BY <1>2, SMTT(40) DEF UpdateOrderCancel, Live
  <2>4. WithoutOrder(id)
    BY <1>2, DequeueRemoves DEF UpdateOrderCancel
  <2>5. LevelKeysInv'
    BY <2>2, <2>3, <2>4, CancelDropsLevel, SMTT(40) DEF IndexInv
  <2>6. LocationsInv'
    BY <1>2, <2>2, <2>4, SMTT(40) DEF IndexInv, LocationsInv, UpdateOrderCancel, WithoutOrder, Drop
  <2>7. UserIndexInv'
    <3>1. \A u \in Users : user_orders'[u] = user_orders[u] \ {id}
      BY <1>2, SMTT(40) DEF UpdateOrderCancel
    <3>2. \A u \in Users : user_orders[u] = OwnedBy(u)
      BY <2>2 DEF IndexInv, UserIndexInv
    <3>3. \A u : OwnedBy(u)' = OwnedBy(u) \ {id}
      BY <2>3, <2>4, WithoutOrderViews
    <3> QED BY <2>2, <3>1, <3>2, <3>3, Zenon DEF UserIndexInv
  <2> QED BY <2>2, <2>5, <2>6, <2>7 DEF IndexInv
<1>3. ASSUME NEW s \in Sides, CancelOrdersBySide(s) PROVE IndexInv'
  BY <1>3, StartBatchIndexes DEF CancelOrdersBySide, May
<1>4. ASSUME NEW u \in Users, CancelOrdersByUser(u) PROVE IndexInv'
  BY <1>4, StartBatchIndexes, Zenon DEF CancelOrdersByUser, May
<1>5. ASSUME NEW s \in Sides, NEW lo \in Prices, NEW hi \in Prices,
             CancelOrdersByPriceRange(s, lo, hi)
      PROVE  IndexInv'
  BY <1>5, StartBatchIndexes DEF CancelOrdersByPriceRange, May
<1>6. ASSUME NEW t \in 0..MaxTime, EvictExpiredOrders(t) PROVE IndexInv'
  BY <1>6, StartBatchIndexes DEF EvictExpiredOrders, May
<1>7. CASE CancelAllOrders
  <2>1. op = Idle /\ op' = op
    BY <1>7 DEF CancelAllOrders, May
  <2>2. DOMAIN resting' = {} /\ DOMAIN order_locations' = {}
    BY <1>7, SMTT(40) DEF CancelAllOrders, EmptyMap
  <2>3. \A s \in Sides : levels'[s] = {} /\ PricesOf(s)' = {}
    BY <1>7, <2>2 DEF CancelAllOrders, PricesOf
  <2>4. \A u \in Users : user_orders'[u] = {} /\ OwnedBy(u)' = {}
    BY <1>7, <2>2 DEF CancelAllOrders, OwnedBy
  <2>5. Consumed' = {} /\ CallInv'
    BY <2>1 DEF Consumed, InWalk, Idle, CallInv
  <2> QED BY <2>2, <2>3, <2>4, <2>5, Zenon DEF IndexInv, LocationsInv, UserIndexInv, LevelKeysInv
<1> QED BY <1>1, <1>2, <1>3, <1>4, <1>5, <1>6, <1>7, SMTT(40) DEF CancelStep

\* The next order of a batch keeps the invariant.
LEMMA BatchIndexes ==
    ASSUME TypeOK, IndexInv, NEW id \in Ids, CancelNextInBatch(id)
    PROVE  IndexInv'
<1>1. op \in [pc : {"batch"}, pending : SUBSET Ids]
  BY DEF CancelNextInBatch, TypeOK, Idle, Call
<1>2. op.pc = "batch" /\ ~InWalk /\ CancelWithReason(id) /\ DOMAIN resting' = DOMAIN resting \ {id}
  BY <1>1 DEF InWalk, CancelNextInBatch, CancelWithReason, CancelRestingMaker, Dequeue
<1>3. CASE op.pending = {id}
  <2>1. op' = Idle
    BY <1>3 DEF CancelNextInBatch
  <2>2. Consumed' = {} /\ CallInv'
    BY <2>1, SMTT(40) DEF Consumed, InWalk, Idle, CallInv
  <2> QED BY <1>2, <1>3, <2>2, CancelWithReasonIndexes
<1>4. CASE op.pending # {id}
  <2>1. op'.pc = "batch" /\ op'.pending = op.pending \ {id}
    BY <1>1, <1>4, SMTT(40) DEF CancelNextInBatch
  <2>2. Consumed' = {} /\ CallInv'
    BY <1>2, <2>1, SMTT(40) DEF Consumed, InWalk, IndexInv, CallInv
  <2> QED BY <1>2, <2>1, <2>2, CancelWithReasonIndexes
<1> QED BY <1>3, <1>4

---------------------------------------------------------------------------
\* The theorem

\* The views of a new book agree.
LEMMA InitIndexes == Init => IndexInv
<1> SUFFICES ASSUME Init PROVE IndexInv
  OBVIOUS
<1>1. DOMAIN resting = {} /\ DOMAIN order_locations = {} /\ op.pc = "idle"
  BY DEF Init, EmptyMap, Idle
<1>2. Consumed = {} /\ CallInv
  BY <1>1 DEF Consumed, InWalk, CallInv
<1> QED BY <1>1, <1>2 DEF Init, IndexInv, LocationsInv, UserIndexInv, LevelKeysInv,
        OwnedBy, PricesOf

\* Every step of every operation preserves the indexes.
LEMMA NextIndexes ==
    ASSUME TypeOK, IndexInv, [Next]_vars
    PROVE  IndexInv'
<1>1. CASE OperatorStep \/ Tick
  <2>1. UNCHANGED <<bookVars, op>>
    BY <1>1 DEF OperatorStep, SetKillSwitch, SetRiskConfig, DisableRisk, SetStpMode, Tick
  <2> QED BY <2>1, NothingMoves
<1>2. CASE ReAdd
  <2>1. op.id \in Ids /\ op.o \in Order /\ op.pc = "admit"
    BY <1>2, OpIsCall DEF ReAdd, Call
  <2> QED BY <1>2, <2>1, AdmitIndexes, Zenon DEF ReAdd
<1>3. CASE UNCHANGED vars
  BY <1>3, NothingMoves DEF vars
<1> QED BY <1>1, <1>2, <1>3, SubmitIndexes, ModifyIndexes, CancelIndexes, MatchingIndexes,
           OutcomeIndexes, BatchIndexes DEF Next, CallStep

\* IndexInv between calls is IndexesAgree.
LEMMA IndexInvImpliesAgreement == IndexInv => IndexesAgree
<1> SUFFICES ASSUME IndexInv, op = Idle PROVE IndexesAgree
  BY DEF IndexesAgree
<1>1. Consumed = {} /\ op.pc = "idle" /\ \A s \in Sides : ~Sweeping(s)
  BY DEF Consumed, InWalk, Idle, Sweeping
<1> QED BY <1>1, Zenon DEF IndexesAgree, IndexInv, LocationsInv, UserIndexInv, LevelKeysInv

\* The strengthened invariant holds in every reachable state, also in the
\* middle of a walk or a batch.
THEOREM IndexInvariant == Spec => []IndexInv
<1>1. Init => IndexInv
  BY InitIndexes
<1>2. TypeOK /\ IndexInv /\ [Next]_vars => IndexInv'
  BY NextIndexes
<1> QED BY <1>1, <1>2, TypeCorrect, PTL DEF Spec

\* Between calls the queues, the level keys, order_locations and the user index
\* name the same orders, whatever calls of whatever kind came before.
THEOREM IndexesAlwaysAgree == Spec => []IndexesAgree
<1>1. IndexInv => IndexesAgree
  BY IndexInvImpliesAgreement
<1> QED BY <1>1, IndexInvariant, PTL
=============================================================================
