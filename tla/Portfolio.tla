----------------------------- MODULE Portfolio -----------------------------
(***************************************************************************)
(* calm::Portfolio, its book of orders: a thread of its own takes the      *)
(* order events from its queue and adds what changed since the last        *)
(* snapshot of the same order to the position and to the cost.  The loop   *)
(* does not look at the result of try_pop: when the wait expires it        *)
(* handles the event it handled last once more.                            *)
(***************************************************************************)
EXTENDS OrderObjects

VARIABLES
    pq,            \* the queue of the portfolio
    plast,         \* the local event of run_actions
    port_orders,   \* the last snapshot of each order (active_orders)
    pos,           \* the position of the algo in its symbol, in lots
    cost           \* what the position cost, commissions included

portVars == <<pq, plast, port_orders, pos, cost>>

PortTypeOK ==
    /\ pq \in Seq(OrderData)
    /\ plast \in OrderData \cup {NoOrder}
    /\ port_orders \in [Orders -> OrderData \cup {NoOrder}]
    /\ pos \in Int
    /\ cost \in Int

PortInit ==
    /\ pq = << >>
    /\ plast = NoOrder
    /\ port_orders = [id \in Orders |-> NoOrder]
    /\ pos = 0
    /\ cost = 0

event_engine_order_data_cb(data) ==
    /\ pq' = Append(pq, data)
    /\ UNCHANGED <<plast, port_orders, pos, cost>>

\* What a snapshot stands for, relative to none at all.
Traded(data)   == IF data = NoOrder THEN 0 ELSE data.traded_quantity
Notional(data) == IF data = NoOrder THEN 0
                  ELSE data.traded_quantity * data.avg_trade_price
Fees(data)     == IF data = NoOrder THEN 0 ELSE data.commission

\* Mutant: a snapshot that replaces another one is not stored.
order_data_cb_first_only(data) ==
    LET old == port_orders[data.order_id]
    IN  /\ port_orders' = [port_orders EXCEPT ![data.order_id] =
                              IF old = NoOrder THEN data ELSE old]
        /\ pos' = pos + Signed(data.action, Traded(data) - Traded(old))
        /\ cost' = cost + Signed(data.action, Notional(data) - Notional(old))
                        + Fees(data) - Fees(old)

order_data_cb(data) ==
    LET old == port_orders[data.order_id]
    IN  /\ port_orders' = [port_orders EXCEPT ![data.order_id] = data]
        /\ pos' = pos + Signed(data.action, Traded(data) - Traded(old))
        /\ cost' = cost + Signed(data.action, Notional(data) - Notional(old))
                        + Fees(data) - Fees(old)

HandleOrder ==
    /\ pq # << >>
    /\ pq' = Tail(pq)
    /\ plast' = Head(pq)
    /\ order_data_cb(Head(pq))

(* try_pop timed out and its result is ignored.  Before the first event    *)
(* the local event is uninitialised; here its garbage type is none the     *)
(* loop acts on.                                                           *)
HandleAgain ==
    /\ pq = << >>
    /\ plast # NoOrder
    /\ order_data_cb(plast)
    /\ UNCHANGED <<pq, plast>>

PortStep == HandleOrder \/ HandleAgain
=============================================================================
