-------------------------- MODULE OrderBookHistory --------------------------
(***************************************************************************)
(* OrderBook with a history variable: what each order has really executed  *)
(* since it was last submitted.  The properties compare the order-state    *)
(* tracker (order_state.rs) with it.                                       *)
(***************************************************************************)
EXTENDS OrderBook

VARIABLE executed    \* id -> quantity

hvars == <<vars, executed>>

HInit == Init /\ executed = [i \in Ids |-> 0]

\* Quantity order i executes in this step, as the maker or as the taker.
Executes(i) ==
    IF i \in DOMAIN resting /\ Trades(i)
    THEN resting[i].qty - (IF i \in DOMAIN resting' THEN resting'[i].qty ELSE 0)
    ELSE IF op.pc = "match" /\ i = op.id THEN op'.got - op.got ELSE 0

\* Order i starts a new life in this step: it enters a walk or is refused.
Submitted(i) ==
    /\ op.pc \in {"idle", "admit"} /\ i \notin DOMAIN resting
    /\ \/ op'.pc = "walk" /\ op'.id = i
       \/ op'.pc = "idle" /\ i \in DOMAIN status'
             /\ (i \in DOMAIN status => status'[i] # status[i])

HNext ==
    /\ Next
    /\ executed' = [i \in Ids |-> IF Submitted(i) THEN 0
                                  ELSE executed[i] + Executes(i)]

HSpec == HInit /\ [][HNext]_hvars

\* The filled quantity the tracker reports for an order is what the order has
\* executed, whether process_level_match filled it as a maker or it walked the
\* book as a taker.
FillsTracked ==
    op = Idle => \A i \in DOMAIN status : status[i].filled = executed[i]

=============================================================================
