----------------------------- MODULE OrderFlow -----------------------------
(***************************************************************************)
(* An order on its way through the running system: the algo engine's       *)
(* action thread sends and cancels orders through the risk manager and     *)
(* IBApi; TWS answers; IBApi's callback thread turns the answers into      *)
(* events; the event engine's thread hands each event to every registered  *)
(* callback; the portfolio's thread keeps the books.  Five threads and one *)
(* peer take turns in any order.                                           *)
(*                                                                         *)
(* The queues between the threads are the ones FifoQueue specifies: a push *)
(* or a pop is one step, as LBQueue guarantees.                            *)
(***************************************************************************)
EXTENDS AlgoEngine, Portfolio, Functions

CONSTANT CallbackOrder   \* the order_data callbacks, as the engine's map has them

ASSUME CallbackOrderIsASeq ==
    CallbackOrder \in Seq({"portfolio_order_data_cb", "risk_order_cb",
                           "algo_engine_order_data"})

VARIABLE disp   \* the event being handed out, and the callbacks still to run

vars == <<twsVars, apiVars, active_orders, algoVars, portVars, disp>>

Dispatching ==
    [data : OrderData \cup {NoOrder},
     todo : Seq({"portfolio_order_data_cb", "risk_order_cb",
                 "algo_engine_order_data"})]

TypeOK ==
    /\ TwsTypeOK
    /\ ApiTypeOK
    /\ RiskTypeOK
    /\ AlgoTypeOK
    /\ PortTypeOK
    /\ disp \in Dispatching

Init ==
    /\ TwsInit
    /\ ApiInit
    /\ RiskInit
    /\ AlgoInit
    /\ PortInit
    /\ disp = [data |-> NoOrder, todo |-> << >>]
-----------------------------------------------------------------------------
\* EventEngine::run.
PopEvent ==
    /\ disp.todo = << >>
    /\ eq # << >>
    /\ eq' = Tail(eq)
    /\ disp' = [data |-> Head(eq).data, todo |-> CallbackOrder]
    /\ UNCHANGED <<twsVars, m_order_id, orders, held, active_orders, algoVars,
                   portVars>>

RunCallback(cb_name) ==
    /\ disp.todo # << >>
    /\ Head(disp.todo) = cb_name
    /\ disp' = [data |-> IF Len(disp.todo) = 1 THEN NoOrder ELSE disp.data,
                todo |-> Tail(disp.todo)]
    /\ UNCHANGED <<twsVars, apiVars>>

ToPortfolio ==
    /\ RunCallback("portfolio_order_data_cb")
    /\ event_engine_order_data_cb(disp.data)
    /\ UNCHANGED <<active_orders, algoVars>>

ToRiskManager ==
    /\ RunCallback("risk_order_cb")
    /\ risk_order_cb(disp.data)
    /\ UNCHANGED <<algoVars, portVars>>

ToAlgoEngine ==
    /\ RunCallback("algo_engine_order_data")
    /\ event_engine_order_cb(disp.data)
    /\ UNCHANGED <<active_orders, portVars>>

Dispatch == PopEvent \/ ToPortfolio \/ ToRiskManager \/ ToAlgoEngine
-----------------------------------------------------------------------------
Strategy ==
    /\ \E target \in Targets : mq_message_cb(target)
    /\ UNCHANGED <<portVars, disp>>

Algo == ActionThread /\ UNCHANGED <<portVars, disp>>

Callback ==
    /\ ProcessMessage \/ ForwardMessage
    /\ UNCHANGED <<active_orders, algoVars, portVars, disp>>

Books == PortStep /\ UNCHANGED <<twsVars, apiVars, active_orders, algoVars, disp>>

Peer ==
    /\ TwsStep \/ Disconnect
    /\ UNCHANGED <<apiVars, active_orders, algoVars, portVars, disp>>

(* The throw in update_pos_cb leaves the action thread and ends the        *)
(* process: then only TWS goes on.                                         *)
Alive == pcA # "terminated"

Next ==
    \/ Alive /\ Strategy
    \/ Alive /\ Algo
    \/ Alive /\ Callback
    \/ Alive /\ Dispatch
    \/ Alive /\ Books
    \/ Peer

Spec == Init /\ [][Next]_vars

(* The threads keep running, and TWS deals with the orders it has.  That   *)
(* the strategy sends updates, that TWS sends notes or that the connection *)
(* breaks, is not promised.                                                *)
FairSpec ==
    /\ Spec
    /\ WF_vars(Alive /\ Algo)
    /\ WF_vars(Alive /\ Callback)
    /\ WF_vars(Alive /\ Dispatch)
    /\ WF_vars(Alive /\ Books)
    /\ WF_vars(TwsProgress /\ UNCHANGED <<apiVars, active_orders, algoVars,
                                          portVars, disp>>)
-----------------------------------------------------------------------------
(* Every step that answers an order has been taken: all TWS said has       *)
(* reached the callbacks.                                                  *)
Delivered ==
    /\ wire = << >>
    /\ held = [th \in ApiThreads |-> NoOrder]
    /\ eq = << >>
    /\ disp.todo = << >>

Placed == Working \cup Done

TradedAtTws(id) == Signed(book[id].action, book[id].filled)

PosAtTws == SumFunctionOnSet([id \in Placed |-> TradedAtTws(id)], Placed)

SpentAtTws(id) ==
    Signed(book[id].action, book[id].filled * AvgPrice(book[id].filled)) + Fees(orders[id])

CostAtTws == SumFunctionOnSet([id \in Placed |-> SpentAtTws(id)], Placed)

(* Once everything is delivered the portfolio's position and cost are those *)
(* of the fills TWS made and of the commissions it told, whatever TWS      *)
(* repeated, sent late or interleaved, and however often a wait expired    *)
(* (Portfolio::order_data_cb, run_actions; IBApi hands copies over outside *)
(* its lock).  While the connection holds.                                 *)
PortfolioExact ==
    Delivered /\ pq = << >> /\ connected => pos = PosAtTws /\ cost = CostAtTws

(* An order is asked to cancel at most once, however often its update is   *)
(* retried (order_cancelled in update_pos_cb).                             *)
CancelOnce == \A id \in Orders : book[id].cancels <= 1

Retries == {i \in 1 .. Len(aq) : aq[i].e_type = "algo_pos_update" /\ aq[i].retry}

(* order_cancelled is set only while an order is in flight and an update   *)
(* waits for its end.  Were it left set, the next update would end the     *)
(* process for an order that is long gone (update_pos_cb, order_cb).       *)
CancelledForARetry ==
    order_cancelled =>
        /\ inflight_order_id > 0
        /\ Retries # {} \/ pcA \in {"cancel_error", "requeue", "terminated"}

(* The filter of order_cb drops no event of an order this algo sent, even  *)
(* when TWS answers before send_order has come back with the id: once all  *)
(* is handled the algo knows the status IBApi knows.                       *)
NoAnswerLost ==
    Delivered /\ aq = << >> /\ pcA = "idle" /\ connected =>
        \A id \in Orders : orders[id] # NoOrder => order_status[id] = orders[id].status

(* "no inflight order at this point": when update_pos_cb goes on to send   *)
(* an order, no earlier order of the algo is in the market, or on its way  *)
(* there (update_pos_cb, order_cb).                                        *)
NoInflightOrder == pcA = "insert" => Working = {}

(* Once everything is handled the algo's position is what TWS filled,      *)
(* while the connection holds (send_order, order_cb).                      *)
CurrPosExact ==
    Delivered /\ aq = << >> /\ pcA = "idle" /\ connected => curr_pos = PosAtTws

(* The statuses an order ends with. *)
Over == {status \in Statuses : ~is_active_order(status)}

\* A snapshot that says at least as much of its order: fills, commissions and
\* errors are not taken back, and the status of an order that is over stays.
NoOlder(new, old) ==
    /\ new.traded_quantity >= old.traded_quantity
    /\ new.commission >= old.commission
    /\ old.error_code => new.error_code
    /\ old.status \in Over => new.status = old.status

(* A snapshot never replaces a newer one in the portfolio's books, although *)
(* two threads of IBApi copy snapshots and hand the copies over outside     *)
(* orders_m, and a wait that expired has the last one handled again         *)
(* (IBApi::send_order, orderStatus, openOrder, error;                       *)
(* Portfolio::order_data_cb).  While the connection holds: once it broke,   *)
(* the sender's error may be overtaken by what was still to be read.        *)
BooksGoForward ==
    [][\A id \in Orders : connected /\ port_orders[id] # NoOrder =>
          NoOlder(port_orders'[id], port_orders[id])]_vars

(* An order the algo took for ended is not taken for active, or for ended   *)
(* some other way, afterwards: no answer reaches order_cb out of order,     *)
(* although it goes through three threads and two queues.                   *)
AnswersGoForward ==
    [][\A id \in Orders : connected /\ order_status[id] \in Over =>
          order_status'[id] = order_status[id]]_vars

(* An order that ended does not stay in flight: the algo hears of its end, *)
(* or the process has ended.                                               *)
InflightResolves ==
    \A id \in Orders :
        (inflight_order_id = id /\ book[id].state = "done")
            ~> (inflight_order_id # id \/ ~Alive)

(* An update that waits for a cancellation gets its turn: it does not go   *)
(* around the queue for ever (retry in update_pos_cb).                     *)
RetryServed == order_cancelled ~> (~order_cancelled \/ ~Alive)
=============================================================================
