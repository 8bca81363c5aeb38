---------------------------- MODULE RiskManager ----------------------------
(***************************************************************************)
(* calm::RiskManager: the check every order passes before it reaches the   *)
(* gateway, and the callback that lets go of orders that ended.  The PnL   *)
(* limits are a verdict of the environment here: pnl_ok.                   *)
(***************************************************************************)
EXTENDS OrderObjects

CONSTANT order_flow_lmt   \* how many orders may be active at a time

ASSUME FlowLimitIsNat == order_flow_lmt \in Nat

VARIABLE active_orders    \* ids of the requests that passed the check

RiskTypeOK == active_orders \in SUBSET (Orders \cup {UnsetLong})

RiskInit == active_orders = {}

\* check_risk returns true, or false; under order_m.
PassesRisk(order_id, pnl_ok) ==
    /\ pnl_ok
    /\ Cardinality(active_orders) < order_flow_lmt
    /\ active_orders' = active_orders \cup {order_id}

FailsRisk(pnl_ok) ==
    /\ ~pnl_ok \/ Cardinality(active_orders) >= order_flow_lmt
    /\ UNCHANGED active_orders

risk_order_cb(data) ==
    active_orders' = IF is_active_order(data.status)
                     THEN active_orders
                     ELSE active_orders \ {data.order_id}
=============================================================================
