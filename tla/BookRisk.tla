------------------------------ MODULE BookRisk ------------------------------
(***************************************************************************)
(* The pre-trade risk layer (risk.rs) and the book's calls into it: the    *)
(* admission checks as predicates, the accounting hooks as actions on      *)
(* risk_orders, open_count and resting_notional.  An account without       *)
(* counters reads as zero, so the eviction of zeroed counters changes      *)
(* nothing here.                                                           *)
(***************************************************************************)
EXTENDS BookState

Accounts(id) == risk_config.on /\ id \in DOMAIN risk_orders

\* resolve_reference_price; 0 stands for None.
ReferencePrice ==
    CASE risk_config.source = "none" -> 0
      [] risk_config.source = "last" -> last_trade_price
      [] risk_config.source = "mid" ->
            IF levels["Buy"] # {} /\ levels["Sell"] # {}
            THEN (BestPrice("Buy") + BestPrice("Sell")) \div 2
            ELSE last_trade_price
      [] risk_config.source = "fixed" -> risk_config.fixed

\* check_price_band: |price - ref| * 10000 > bps * ref rejects.
InPriceBand(price) ==
    LET ref == ReferencePrice
        diff == IF price >= ref THEN price - ref ELSE ref - price
    IN  ref > 0 => diff * 10000 <= risk_config.band * ref

\* Mutant of RiskAdmits: the open-order limit admits one order too many.
RiskAdmitsOneMore(o) ==
    risk_config.on =>
        /\ open_count[o.user] <= risk_config.maxOpen
        /\ resting_notional[o.user] + o.qty * o.price <= risk_config.maxNotional
        /\ InPriceBand(o.price)

\* check_limit_admission of order o.
RiskAdmits(o) ==
    risk_config.on =>
        /\ open_count[o.user] < risk_config.maxOpen
        /\ resting_notional[o.user] + o.qty * o.price <= risk_config.maxNotional
        /\ InPriceBand(o.price)

\* check_modify_admission: resting order id is about to become o.
RiskAdmitsModify(id, o) ==
    risk_config.on =>
        IF id \notin DOMAIN risk_orders THEN RiskAdmits(o)
        ELSE LET old == risk_orders[id]
             IN  /\ SatSub(resting_notional[o.user],
                           old.remaining_qty * old.price)
                      + o.qty * o.price <= risk_config.maxNotional
                 /\ InPriceBand(o.price)

OnAdmission(id, user, price, q) ==
    IF risk_config.on
    THEN /\ risk_orders' = Put(risk_orders, id,
                [account |-> user, price |-> price, remaining_qty |-> q])
         /\ open_count' = [open_count EXCEPT ![user] = @ + 1]
         /\ resting_notional' = [resting_notional EXCEPT ![user] = @ + q * price]
    ELSE UNCHANGED riskVars

\* Mutant of OnFill: a fully filled order keeps its place in open_count.
OnFillKeepsCount(id, filled) ==
    IF Accounts(id)
    THEN LET e == risk_orders[id]
         IN  /\ resting_notional' = [resting_notional EXCEPT ![e.account] =
                                        SatSub(@, filled * e.price)]
             /\ risk_orders' = IF filled >= e.remaining_qty
                    THEN Drop(risk_orders, {id})
                    ELSE [risk_orders EXCEPT ![id].remaining_qty = @ - filled]
             /\ UNCHANGED open_count
    ELSE UNCHANGED riskVars

\* A fill of `filled' against resting order id.
OnFill(id, filled) ==
    IF Accounts(id)
    THEN LET e == risk_orders[id]
             left == SatSub(e.remaining_qty, filled)
         IN  /\ resting_notional' = [resting_notional EXCEPT ![e.account] =
                                        SatSub(@, filled * e.price)]
             /\ open_count' = IF left = 0
                    THEN [open_count EXCEPT ![e.account] = SatSub(@, 1)]
                    ELSE open_count
             /\ risk_orders' = IF left = 0
                    THEN Drop(risk_orders, {id})
                    ELSE [risk_orders EXCEPT ![id].remaining_qty = left]
    ELSE UNCHANGED riskVars

OnCancel(id) ==
    IF Accounts(id)
    THEN LET e == risk_orders[id]
         IN  /\ risk_orders' = Drop(risk_orders, {id})
             /\ open_count' = [open_count EXCEPT ![e.account] = SatSub(@, 1)]
             /\ resting_notional' = [resting_notional EXCEPT ![e.account] =
                                        SatSub(@, e.remaining_qty * e.price)]
    ELSE UNCHANGED riskVars

OnQuantityUpdate(id, q) ==
    IF Accounts(id)
    THEN LET e == risk_orders[id]
         IN  /\ risk_orders' = [risk_orders EXCEPT ![id].remaining_qty = q]
             /\ resting_notional' = [resting_notional EXCEPT ![e.account] =
                    IF q >= e.remaining_qty
                    THEN @ + (q - e.remaining_qty) * e.price
                    ELSE SatSub(@, (e.remaining_qty - q) * e.price)]
             /\ UNCHANGED open_count
    ELSE UNCHANGED riskVars
=============================================================================
