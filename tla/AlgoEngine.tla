----------------------------- MODULE AlgoEngine -----------------------------
(***************************************************************************)
(* calm::AlgoEngine.  Its action thread takes position updates of the      *)
(* strategy and order events from one queue.  An update that finds an      *)
(* order in flight cancels it and goes to the back of the queue, to be     *)
(* retried; an update that finds none sends an order for the difference.   *)
(*                                                                         *)
(* pos_order_m is left out: all it guards is touched by this thread only.  *)
(* A call is split where another thread can come in between: around the    *)
(* queues, the map of IBApi and the socket.                                *)
(***************************************************************************)
EXTENDS IBApi, RiskManager

CONSTANTS
    Targets,      \* the positions the strategy asks for
    MaxUpdates    \* bound: position updates the strategy sends

ASSUME TargetsAreInts == Targets \subseteq Int
ASSUME MaxUpdatesIsNat == MaxUpdates \in Nat

VARIABLES
    aq,                  \* the queue of the algo engine
    updates,             \* how many position updates the strategy has sent
    pcA,                 \* where the action thread is
    upd,                 \* the update it is about to put back
    req,                 \* the order it is sending
    inflight_order_id,   \* the order in flight, or -1
    order_cancelled,     \* whether the order in flight was cancelled
    order_filled,        \* lots of the order in flight counted in curr_pos
    curr_pos,            \* the position the algo believes it has
    target_pos,          \* the position asked for last
    order_status         \* status of each order sent, as far as it knows

algoVars == <<aq, updates, pcA, upd, req, inflight_order_id, order_cancelled,
              order_filled, curr_pos, target_pos, order_status>>

\* The values upd and req have when the thread is not using them.
NoUpdate == PosUpdate(0, FALSE)
NoReq    == [order_id |-> -1, action |-> "buy", quantity |-> 0]

Requests == [order_id : Orders \cup {-1}, action : Actions, quantity : Nat]

Sending == {"insert", "forward", "place", "place_error", "track"}

AlgoTypeOK ==
    /\ aq \in Seq(OrderEvents \cup PosUpdates)
    /\ updates \in Nat
    /\ pcA \in {"idle", "cancel_error", "requeue", "terminated"} \cup Sending
    /\ upd \in PosUpdates
    /\ req \in Requests
    /\ inflight_order_id \in Orders \cup {-1}
    /\ order_cancelled \in BOOLEAN
    /\ order_filled \in Nat
    /\ curr_pos \in Int
    /\ target_pos \in Int
    /\ order_status \in [Orders -> Statuses \cup {"untracked"}]

AlgoInit ==
    /\ aq = << >>
    /\ updates = 0
    /\ pcA = "idle"
    /\ upd = NoUpdate
    /\ req = NoReq
    /\ inflight_order_id = -1
    /\ order_cancelled = FALSE
    /\ order_filled = 0
    /\ curr_pos = 0
    /\ target_pos = 0
    /\ order_status = [id \in Orders |-> "untracked"]
-----------------------------------------------------------------------------
\* The listen thread: an update of the strategy arrives through Redis.
mq_message_cb(target) ==
    /\ updates < MaxUpdates
    /\ updates' = updates + 1
    /\ aq' = Append(aq, PosUpdate(target, FALSE))
    /\ UNCHANGED <<pcA, upd, req, inflight_order_id, order_cancelled,
                   order_filled, curr_pos, target_pos, order_status>>
    /\ UNCHANGED <<twsVars, apiVars, active_orders>>

\* Mutant: the filter of order_cb is applied on the event engine's thread.
event_engine_order_cb_filtering(data) ==
    /\ aq' = IF order_status[data.order_id] = "untracked" THEN aq
             ELSE Append(aq, OrderEvent(data))
    /\ UNCHANGED <<updates, pcA, upd, req, inflight_order_id, order_cancelled,
                   order_filled, curr_pos, target_pos, order_status>>

\* The event engine's thread hands over an order event; whose it is, is
\* looked at by order_cb.
event_engine_order_cb(data) ==
    /\ aq' = Append(aq, OrderEvent(data))
    /\ UNCHANGED <<updates, pcA, upd, req, inflight_order_id, order_cancelled,
                   order_filled, curr_pos, target_pos, order_status>>
-----------------------------------------------------------------------------
\* The action thread takes the next event off its queue.
Pops(e_type) ==
    /\ pcA = "idle"
    /\ aq # << >>
    /\ Head(aq).e_type = e_type
    /\ aq' = Tail(aq)
    /\ UNCHANGED <<updates, order_status>>

\* Mutant of update_pos_cb: the cancellation is not remembered.
CancelForgotten ==
    /\ Pops("algo_pos_update")
    /\ inflight_order_id > 0 /\ ~order_cancelled
    /\ cancelOrder(inflight_order_id)
    /\ upd' = PosUpdate(Head(aq).pos, TRUE)
    /\ pcA' = IF connected THEN "requeue" ELSE "cancel_error"
    /\ UNCHANGED <<req, inflight_order_id, order_cancelled, order_filled,
                   curr_pos, target_pos>>
    /\ UNCHANGED <<wire, connected, notes, m_order_id, eq, active_orders>>

\* The order in flight has not been cancelled: cancel it, retry later.
CancelInflight ==
    /\ Pops("algo_pos_update")
    /\ inflight_order_id > 0 /\ ~order_cancelled
    /\ cancelOrder(inflight_order_id)
    /\ order_cancelled' = TRUE
    /\ upd' = PosUpdate(Head(aq).pos, TRUE)
    /\ pcA' = IF connected THEN "requeue" ELSE "cancel_error"
    /\ UNCHANGED <<req, inflight_order_id, order_filled, curr_pos, target_pos>>
    /\ UNCHANGED <<wire, connected, notes, m_order_id, eq, active_orders>>

\* cancelOrder reported that the socket is down, on this very thread.
ForwardCancelError ==
    /\ pcA = "cancel_error"
    /\ on_order("sender")
    /\ pcA' = "requeue"
    /\ UNCHANGED <<aq, updates, upd, req, inflight_order_id, order_cancelled,
                   order_filled, curr_pos, target_pos, order_status>>
    /\ UNCHANGED <<twsVars, active_orders>>

\* The cancellation is under way and this update waits for it already.
WaitForCancel ==
    /\ Pops("algo_pos_update")
    /\ inflight_order_id > 0 /\ order_cancelled
    /\ Head(aq).retry
    /\ upd' = Head(aq)
    /\ pcA' = "requeue"
    /\ UNCHANGED <<req, inflight_order_id, order_cancelled, order_filled,
                   curr_pos, target_pos>>
    /\ UNCHANGED <<twsVars, apiVars, active_orders>>

\* A second update while the first one waits: the exception leaves the
\* thread and ends the process.
LatencyTooHigh ==
    /\ Pops("algo_pos_update")
    /\ inflight_order_id > 0 /\ order_cancelled
    /\ ~Head(aq).retry
    /\ pcA' = "terminated"
    /\ UNCHANGED <<upd, req, inflight_order_id, order_cancelled, order_filled,
                   curr_pos, target_pos>>
    /\ UNCHANGED <<twsVars, apiVars, active_orders>>

Requeue ==
    /\ pcA = "requeue"
    /\ aq' = Append(aq, upd)
    /\ upd' = NoUpdate
    /\ pcA' = "idle"
    /\ UNCHANGED <<updates, req, inflight_order_id, order_cancelled,
                   order_filled, curr_pos, target_pos, order_status>>
    /\ UNCHANGED <<twsVars, apiVars, active_orders>>
-----------------------------------------------------------------------------
\* No order in flight: head for the new target, if the risk manager agrees.
Retarget(pnl_ok) ==
    LET diff == Head(aq).pos - curr_pos
    IN  /\ Pops("algo_pos_update")
        /\ ~(inflight_order_id > 0)
        /\ target_pos' = Head(aq).pos
        /\ \/ /\ diff = 0
              /\ UNCHANGED <<pcA, req, active_orders>>
           \/ /\ diff # 0
              /\ PassesRisk(UnsetLong, pnl_ok)
              /\ req' = [order_id |-> -1,
                         action   |-> IF diff < 0 THEN "sell" ELSE "buy",
                         quantity |-> IF diff < 0 THEN -diff ELSE diff]
              /\ pcA' = "insert"
           \/ /\ diff # 0
              /\ FailsRisk(pnl_ok)
              /\ UNCHANGED <<pcA, req>>
        /\ UNCHANGED <<upd, inflight_order_id, order_cancelled, order_filled,
                       curr_pos>>
        /\ UNCHANGED <<twsVars, apiVars>>

\* gateway.send_order: the snapshot, its event, the socket.
InsertNewOrder ==
    /\ pcA = "insert"
    /\ m_order_id \in Orders
    /\ InsertOrder(req.action, req.quantity)
    /\ req' = [req EXCEPT !.order_id = m_order_id]
    /\ pcA' = "forward"
    /\ UNCHANGED <<aq, updates, upd, inflight_order_id, order_cancelled,
                   order_filled, curr_pos, target_pos, order_status>>
    /\ UNCHANGED <<twsVars, active_orders>>

\* The snapshot of the new order, or the error placeOrder met, is handed over.
ForwardNewOrder ==
    /\ pcA \in {"forward", "place_error"}
    /\ on_order("sender")
    /\ pcA' = IF pcA = "forward" THEN "place" ELSE "track"
    /\ UNCHANGED <<aq, updates, upd, req, inflight_order_id, order_cancelled,
                   order_filled, curr_pos, target_pos, order_status>>
    /\ UNCHANGED <<twsVars, active_orders>>

\* Mutant: the order goes to TWS before its snapshot is handed over.
PlaceBeforeForward ==
    /\ \/ /\ pcA = "forward"
          /\ book[req.order_id].state = "absent"
          /\ placeOrder(req.order_id)
          /\ UNCHANGED pcA
       \/ /\ pcA = "place"
          /\ pcA' = "track"
          /\ UNCHANGED <<book, orders, held>>
    /\ UNCHANGED <<aq, updates, upd, req, inflight_order_id, order_cancelled,
                   order_filled, curr_pos, target_pos, order_status>>
    /\ UNCHANGED <<wire, connected, notes, m_order_id, eq, active_orders>>

PlaceNewOrder ==
    /\ pcA = "place"
    /\ placeOrder(req.order_id)
    /\ pcA' = IF connected THEN "track" ELSE "place_error"
    /\ UNCHANGED <<aq, updates, upd, req, inflight_order_id, order_cancelled,
                   order_filled, curr_pos, target_pos, order_status>>
    /\ UNCHANGED <<wire, connected, notes, m_order_id, eq, active_orders>>

\* Mutants of Track: the id is looked up after the fact, when m_order_id is
\* the next one already; the fills of the order before stay counted.
TrackNextId ==
    /\ pcA = "track"
    /\ inflight_order_id' = m_order_id
    /\ order_status' = [order_status EXCEPT ![req.order_id] = "pending_submit"]
    /\ order_filled' = 0
    /\ req' = NoReq
    /\ pcA' = "idle"
    /\ UNCHANGED <<aq, updates, upd, order_cancelled, curr_pos, target_pos>>
    /\ UNCHANGED <<twsVars, apiVars, active_orders>>

TrackKeepingFills ==
    /\ pcA = "track"
    /\ inflight_order_id' = req.order_id
    /\ order_status' = [order_status EXCEPT ![req.order_id] = "pending_submit"]
    /\ req' = NoReq
    /\ pcA' = "idle"
    /\ UNCHANGED <<aq, updates, upd, order_cancelled, order_filled, curr_pos,
                   target_pos>>
    /\ UNCHANGED <<twsVars, apiVars, active_orders>>

\* The id is back in AlgoEngine::send_order; TWS may have answered already.
Track ==
    /\ pcA = "track"
    /\ inflight_order_id' = req.order_id
    /\ order_status' = [order_status EXCEPT ![req.order_id] = "pending_submit"]
    /\ order_filled' = 0
    /\ req' = NoReq
    /\ pcA' = "idle"
    /\ UNCHANGED <<aq, updates, upd, order_cancelled, curr_pos, target_pos>>
    /\ UNCHANGED <<twsVars, apiVars, active_orders>>
-----------------------------------------------------------------------------
\* Mutant: an order that was refused with an error alone still counts.
active_ignoring_errors(data) == is_active_order(data.status)

active_order(data) == is_active_order(data.status) /\ ~data.error_code

\* Mutant: the cancellation stays on record when its order ends.
SettleKeepingCancelled(active) ==
    /\ inflight_order_id' = IF active THEN inflight_order_id ELSE -1
    /\ UNCHANGED order_cancelled

Settle(active) ==
    /\ inflight_order_id' = IF active THEN inflight_order_id ELSE -1
    /\ order_cancelled' = (active /\ order_cancelled)

\* An order event.  Not active, or with an error: nothing is in flight.
order_cb ==
    LET data == Head(aq).data
        id   == data.order_id
    IN  /\ pcA = "idle"
        /\ aq # << >>
        /\ Head(aq).e_type = "order_data"
        /\ aq' = Tail(aq)
        /\ IF order_status[id] = "untracked"
           THEN UNCHANGED <<curr_pos, order_filled, order_status,
                            inflight_order_id, order_cancelled>>
           ELSE /\ curr_pos' = curr_pos +
                      Signed(data.action, data.traded_quantity - order_filled)
                /\ order_filled' = data.traded_quantity
                /\ order_status' = [order_status EXCEPT ![id] = data.status]
                /\ Settle(active_order(data))
        /\ UNCHANGED <<updates, pcA, upd, req, target_pos>>
        /\ UNCHANGED <<twsVars, apiVars, active_orders>>

ActionThread ==
    \/ CancelInflight \/ ForwardCancelError \/ WaitForCancel \/ LatencyTooHigh
    \/ Requeue
    \/ \E pnl_ok \in BOOLEAN : Retarget(pnl_ok)
    \/ InsertNewOrder \/ ForwardNewOrder \/ PlaceNewOrder \/ Track
    \/ order_cb
=============================================================================
