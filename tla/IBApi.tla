------------------------------- MODULE IBApi -------------------------------
(***************************************************************************)
(* calm::IBApi, between the algo's thread, which sends and cancels orders, *)
(* and its own callback thread, which reads the messages of TWS.  Both     *)
(* keep the order's snapshot in the map orders, under orders_m, and both   *)
(* copy the snapshot there and hand the copy to the event engine only      *)
(* after orders_m is released: held is that copy, on its way.              *)
(***************************************************************************)
EXTENDS TWS

VARIABLES
    m_order_id,   \* the id of the next order
    orders,       \* the latest snapshot of each order sent
    held,         \* per thread, the copy it is about to hand over
    eq            \* the queue of the event engine

apiVars == <<m_order_id, orders, held, eq>>

ApiThreads == {"callback", "sender"}

ApiTypeOK ==
    /\ m_order_id \in Nat \ {0}
    /\ orders \in [Orders -> OrderData \cup {NoOrder}]
    /\ held \in [ApiThreads -> OrderData \cup {NoOrder}]
    /\ eq \in Seq(OrderEvents)

\* start() returned: nextValidId has set m_order_id, which starts at 1.
ApiInit ==
    /\ m_order_id = 1
    /\ orders = [id \in Orders |-> NoOrder]
    /\ held = [th \in ApiThreads |-> NoOrder]
    /\ eq = << >>

\* orders_m is held: the snapshot is replaced and copied.
Snapshot(th, data) ==
    /\ orders' = [orders EXCEPT ![data.order_id] = data]
    /\ held' = [held EXCEPT ![th] = data]

\* gateway.on_order, with orders_m released.
on_order(th) ==
    /\ held[th] # NoOrder
    /\ eq' = Append(eq, OrderEvent(held[th]))
    /\ held' = [held EXCEPT ![th] = NoOrder]
    /\ UNCHANGED <<m_order_id, orders>>
-----------------------------------------------------------------------------
orderStatus(msg) ==
    Snapshot("callback", [orders[msg.id] EXCEPT !.status = msg.status,
                                                !.traded_quantity = msg.filled,
                                                !.avg_trade_price = msg.px])

openOrder(msg) ==
    Snapshot("callback", [orders[msg.id] EXCEPT !.commission = msg.commission])

\* On the callback thread for an error of TWS; on the sender's own thread
\* when the client finds the socket down.  The code is never taken back.
error(th, id) ==
    Snapshot(th, [orders[id] EXCEPT !.error_code = TRUE])

\* The callback thread reads one message, once it is done with the last.  A
\* message about an order of somebody else is dropped.
ProcessMessage ==
    /\ wire # << >>
    /\ held["callback"] = NoOrder
    /\ LET msg   == Head(wire)
           known == orders[msg.id] # NoOrder
       IN  \/ ~known /\ UNCHANGED <<orders, held>>
           \/ known /\ msg.type = "orderStatus" /\ orderStatus(msg)
           \/ known /\ msg.type = "openOrder" /\ openOrder(msg)
           \/ known /\ msg.type = "error" /\ error("callback", msg.id)
    /\ wire' = Tail(wire)
    /\ UNCHANGED <<m_order_id, eq, book, connected, notes>>

ForwardMessage == on_order("callback") /\ UNCHANGED twsVars
-----------------------------------------------------------------------------
\* send_order of a new order, up to the release of orders_m.
InsertOrder(action, quantity) ==
    /\ m_order_id' = m_order_id + 1
    /\ Snapshot("sender", NewOrder(m_order_id, action, quantity))
    /\ UNCHANGED eq

\* m_pClient->placeOrder, which answers at once when the socket is down.
placeOrder(id) ==
    \/ /\ connected
       /\ Accept(id, orders[id].action, orders[id].total_quantity)
       /\ UNCHANGED <<orders, held>>
    \/ /\ ~connected
       /\ error("sender", id)
       /\ UNCHANGED book

cancelOrder(id) ==
    \/ /\ connected
       /\ RequestCancel(id)
       /\ UNCHANGED <<orders, held>>
    \/ /\ ~connected
       /\ error("sender", id)
       /\ UNCHANGED book
=============================================================================
