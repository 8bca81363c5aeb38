---------------------------- MODULE OrderObjects ----------------------------
(***************************************************************************)
(* The values that travel between the parts of the order flow: order       *)
(* statuses, the OrderData snapshots of IBApi, the messages of TWS and the *)
(* events of the event engine.  Symbols, exchanges, sources and timestamps *)
(* are left out: one algo trades one symbol.  Every order is a market      *)
(* order of a whole number of lots.                                        *)
(***************************************************************************)
EXTENDS Integers, Sequences, FiniteSets

CONSTANTS
    MaxOrders,    \* bound: orders sent to TWS
    UnsetLong,    \* order_id of a request for a new order
    NoOrder       \* a null OrderData

Orders == 1 .. MaxOrders

Statuses == {"pending_submit", "pending_cancel", "pre_submitted", "submitted",
             "api_cancelled", "cancelled", "filled", "inactive"}

\* Mutant: an order that TWS works on counts as ended.
is_active_order_mutant(status) ==
    status \in {"pending_submit", "pending_cancel", "pre_submitted"}

is_active_order(status) ==
    status \in {"pending_submit", "pending_cancel", "pre_submitted", "submitted"}

Actions == {"buy", "sell"}

\* A quantity as it changes a position: bought lots count, sold lots count down.
Signed(action, n) == IF action = "buy" THEN n ELSE -n

\* avg_trade_price: an average over the fills, which moves with every fill.
\* error_code: only whether it is set is ever looked at.
OrderData ==
    [order_id : Orders, action : Actions, total_quantity : Nat,
     traded_quantity : Nat, avg_trade_price : Nat, commission : Nat,
     status : Statuses, error_code : BOOLEAN]

ASSUME MaxOrdersIsNat == MaxOrders \in Nat
ASSUME UnsetLongIsNoOrderId == UnsetLong \notin Int
ASSUME NoOrderIsNoData == NoOrder \notin OrderData

\* The snapshot IBApi::send_order starts an order with.
NewOrder(id, action, quantity) ==
    [order_id |-> id, action |-> action, total_quantity |-> quantity,
     traded_quantity |-> 0, avg_trade_price |-> 0, commission |-> 0,
     status |-> "pending_submit", error_code |-> FALSE]

\* The events of the engine that concern orders, and the algo's own.
OrderEvents == [e_type : {"order_data"}, data : OrderData]

OrderEvent(data) == [e_type |-> "order_data", data |-> data]

PosUpdates == [e_type : {"algo_pos_update"}, pos : Int, retry : BOOLEAN]

PosUpdate(pos, retry) ==
    [e_type |-> "algo_pos_update", pos |-> pos, retry |-> retry]
=============================================================================
