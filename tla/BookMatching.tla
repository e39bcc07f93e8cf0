---------------------------- MODULE BookMatching ----------------------------
(***************************************************************************)
(* The matching walk of match_order_inner (matching.rs) with self-trade    *)
(* prevention (stp.rs).  A walk is a call whose `pc' goes                  *)
(*                                                                         *)
(*    walk -> (cancelMakers ->) match -> walk ... -> close -> outcome      *)
(*                                                                         *)
(* one round per price level, one "match" step per trade.  The level keys  *)
(* and the indexes still name consumed makers until "close".               *)
(***************************************************************************)
EXTENDS BookRisk

Idle == [pc |-> "idle"]

\* A call in progress: `left' is the remaining budget (StopCondition, quote
\* units when kind is "quote"), `got' the base quantity executed, `cap' what
\* may still be matched on level `at', `seen' the levels visited, `filled'
\* what each consumed maker executed in this walk (0: not consumed), `stp' that
\* self-trade prevention cancels the taker.
Call == [pc : {"admit", "walk", "cancelMakers", "match", "close", "outcome"},
         id : Ids, o : Order, kind : Kinds, modify : BOOLEAN,
         left : Nat, got : Nat, cap : Nat, at : 0..MaxPrice,
         seen : SUBSET Prices, filled : [Ids -> Nat], stp : BOOLEAN]

NoneConsumed == [i \in Ids |-> 0]

NewCall(pc, id, o, kind, modify, budget) ==
    [pc |-> pc, id |-> id, o |-> o, kind |-> kind, modify |-> modify,
     left |-> budget, got |-> 0, cap |-> 0, at |-> 0,
     seen |-> {}, filled |-> NoneConsumed, stp |-> FALSE]

\* track_state of every order in the domain of `fills'; a no-op without a
\* tracker.
TrackEach(fills, st) ==
    status' = IF ~HasTracker THEN status
              ELSE [i \in DOMAIN status \cup DOMAIN fills |->
                      IF i \in DOMAIN fills THEN [st |-> st, filled |-> fills[i]]
                      ELSE status[i]]

\* Mutant of Track: a recorded status is final.
TrackOnce(id, st, filled) ==
    IF id \in DOMAIN status THEN UNCHANGED status
    ELSE TrackEach([i \in {id} |-> filled], st)

Track(id, st, filled) == TrackEach([i \in {id} |-> filled], st)

TrackedFill(id) == IF id \in DOMAIN status THEN status[id].filled ELSE 0

---------------------------------------------------------------------------
\* Self-trade prevention

StpActive(user) == stp_mode # "None" /\ user # Anonymous

\* Same-user makers on level p of the side a taker o sweeps.
SelfMakers(o, p) ==
    {m \in At(Opposite(o.side), p) : StpActive(o.user) /\ resting[m].user = o.user}

IsFirstSelfMaker(m, o, p) ==
    m \in SelfMakers(o, p) /\ resting[m].ahead \cap SelfMakers(o, p) = {}

\* Mutant of SafeQuantity: the whole level counts as safe.
SafeQuantityWholeLevel(o, p) == Depth(At(Opposite(o.side), p))

\* safe_quantity: the quantity queued before the first same-user maker.
SafeQuantity(o, p) ==
    Depth({m \in At(Opposite(o.side), p) :
              (resting[m].ahead \cup {m}) \cap SelfMakers(o, p) = {}})

StpCancelsTaker(o, p) ==
    stp_mode \in {"CancelTaker", "CancelBoth"} /\ SelfMakers(o, p) # {}

StpCancelsMakers(o, p) == stp_mode = "CancelMaker" /\ SelfMakers(o, p) # {}

\* Mutant of CancelRestingMaker: the user index keeps the order.
CancelRestingMakerIndexed(m) ==
    /\ resting' = Dequeue(m)
    /\ order_locations' = Drop(order_locations, {m})
    /\ OnCancel(m)
    /\ Track(m, "Cancelled", TrackedFill(m))
    /\ UNCHANGED user_orders

\* cancel_resting_maker_on_level: the level key stays until "close".
CancelRestingMaker(m) ==
    /\ resting' = Dequeue(m)
    /\ order_locations' = Drop(order_locations, {m})
    /\ user_orders' = [user_orders EXCEPT ![resting[m].user] = @ \ {m}]
    /\ OnCancel(m)
    /\ Track(m, "Cancelled", TrackedFill(m))

---------------------------------------------------------------------------
\* The walk

\* Mutant of LotRound: no rounding.
LotRoundNone(q) == q

\* level_qty_cap: the budget at price p, rounded down to whole lots.
LotRound(q) == q - (q % LotSize)

LevelQtyCap(p) ==
    LotRound(IF op.kind = "quote" THEN op.left \div p ELSE op.left)

\* Mutant of Unvisited: every round looks at the whole side again.
UnvisitedAll == levels[Opposite(op.o.side)]

\* Levels the walk has yet to visit, and the next one.
Unvisited == levels[Opposite(op.o.side)] \ op.seen


IsNextLevel(p) ==
    /\ p \in Unvisited
    /\ \A q \in Unvisited : q = p \/ Better(Opposite(op.o.side), p, q)

WalkContinues(p) ==
    /\ IsNextLevel(p)
    /\ op.kind = "limit" => Crosses(op.o, p)
    /\ LevelQtyCap(p) > 0

\* What may be matched on level p: a level that cancels the taker is matched
\* up to its safe quantity only.
MatchQty(p) ==
    IF StpCancelsTaker(op.o, p)
    THEN MinOf(LevelQtyCap(p), SafeQuantity(op.o, p))
    ELSE LevelQtyCap(p)

EnterLevel(p) ==
    /\ op.pc = "walk"
    /\ WalkContinues(p)
    /\ \E cap \in 0..LevelQtyCap(p) :
         /\ cap = MatchQty(p)
         /\ op' = [op EXCEPT
              !.at = p, !.seen = @ \cup {p}, !.cap = cap,
              !.stp = StpCancelsTaker(op.o, p),
              !.pc = IF StpCancelsMakers(op.o, p) THEN "cancelMakers" ELSE "match"]
    /\ UNCHANGED <<bookVars, riskVars, status, last_trade_price, envVars>>

CancelSelfMaker(m) ==
    /\ op.pc = "cancelMakers"
    /\ IsFirstSelfMaker(m, op.o, op.at)
    /\ CancelRestingMaker(m)
    /\ UNCHANGED <<levels, last_trade_price, envVars, op>>

SelfMakersCancelled ==
    /\ op.pc = "cancelMakers"
    /\ SelfMakers(op.o, op.at) = {}
    /\ op' = [op EXCEPT !.pc = IF At(Opposite(op.o.side), op.at) = {}
                               THEN "walk" ELSE "match"]
    /\ UNCHANGED <<bookVars, riskVars, status, last_trade_price, envVars>>

\* One trade of PriceLevel::match_order against the maker at the front of the
\* queue, with the accounting process_level_match does for it.
Trade(m) ==
    /\ op.pc = "match"
    /\ op.cap > 0
    /\ m \in At(Opposite(op.o.side), op.at)
    /\ resting[m].ahead = {}
    /\ LET t == MinOf(op.cap, resting[m].qty)
           full == t = resting[m].qty
       IN  /\ resting' = IF full THEN Dequeue(m)
                ELSE [resting EXCEPT ![m].qty = @ - t]
           /\ OnFill(m, t)
           /\ op' = [op EXCEPT
                !.cap = @ - t, !.got = @ + t,
                !.left = SatSub(@, IF op.kind = "quote" THEN t * op.at ELSE t),
                !.filled[m] = IF full THEN t ELSE @]
    /\ last_trade_price' = op.at
    /\ UNCHANGED <<levels, order_locations, user_orders, status, envVars>>

LevelMatched ==
    /\ op.pc = "match"
    /\ op.cap = 0 \/ At(Opposite(op.o.side), op.at) = {}

\* The level is matched: under CancelBoth the first same-user maker goes with
\* the taker; a cancelled taker or an exhausted budget ends the walk.
CancelBothSides(m) ==
    /\ LevelMatched
    /\ op.stp /\ stp_mode = "CancelBoth"
    /\ IsFirstSelfMaker(m, op.o, op.at)
    /\ CancelRestingMaker(m)
    /\ op' = [op EXCEPT !.cap = 0, !.pc = "close"]
    /\ UNCHANGED <<levels, last_trade_price, envVars>>

LeaveLevel ==
    /\ LevelMatched
    /\ ~(op.stp /\ stp_mode = "CancelBoth")
    /\ op' = [op EXCEPT !.cap = 0, !.pc = IF op.stp \/ op.left = 0
                                          THEN "close" ELSE "walk"]
    /\ UNCHANGED <<bookVars, riskVars, status, last_trade_price, envVars>>

WalkEnds ==
    /\ op.pc = "walk"
    /\ \A p \in Prices : ~WalkContinues(p)
    /\ op' = [op EXCEPT !.pc = "close"]
    /\ UNCHANGED <<bookVars, riskVars, status, last_trade_price, envVars>>

\* The batch removals after the walk: emptied levels, then the consumed makers.
CloseWalk ==
    LET s == Opposite(op.o.side)
        consumed == {m \in Ids : op.filled[m] > 0}
    IN  /\ op.pc = "close"
        /\ levels' = [levels EXCEPT ![s] = @ \ {p \in op.seen : At(s, p) = {}}]
        /\ order_locations' = Drop(order_locations, consumed)
        /\ user_orders' = [u \in Users |-> user_orders[u] \ consumed]
        /\ TrackEach([m \in consumed |-> op.filled[m]], "Filled")
        /\ op' = [op EXCEPT !.pc = "outcome", !.filled = NoneConsumed]
        /\ UNCHANGED <<resting, riskVars, last_trade_price, envVars>>

MatchingStep ==
    \/ \E p \in Prices : EnterLevel(p)
    \/ \E m \in Ids : CancelSelfMaker(m)
    \/ SelfMakersCancelled
    \/ \E m \in Ids : Trade(m)
    \/ \E m \in Ids : CancelBothSides(m)
    \/ LeaveLevel
    \/ WalkEnds
    \/ CloseWalk

---------------------------------------------------------------------------
\* Fill-or-kill feasibility

\* The k-th price a taker on side s sweeps.
SweptPrice(s, k) == IF s = "Buy" THEN k ELSE MaxPrice + 1 - k

\* Mutant of Reachable: raw depth, as peek_match sums it.
ReachableRawDepth(o, p) == Depth(At(Opposite(o.side), p))

\* What a walk for o can take from level p.
Reachable(o, p) ==
    CASE StpCancelsTaker(o, p) -> SafeQuantity(o, p)
      [] StpCancelsMakers(o, p) -> Depth(At(Opposite(o.side), p) \ SelfMakers(o, p))
      [] OTHER -> Depth(At(Opposite(o.side), p))

\* fok_fillable_quantity(o).
FokFillable(o) ==
    LET after[k \in 0..MaxPrice] ==
          IF k = 0 THEN [got |-> 0, stop |-> FALSE]
          ELSE LET w == after[k - 1]
                   p == SweptPrice(o.side, k)
                   cap == LotRound(o.qty - w.got)
               IN  IF w.stop \/ cap = 0 \/ ~Crosses(o, p)
                        \/ p \notin levels[Opposite(o.side)]
                   THEN w
                   ELSE [got |-> w.got + MinOf(cap, Reachable(o, p)),
                         stop |-> StpCancelsTaker(o, p)]
    IN  after[MaxPrice].got
=============================================================================
