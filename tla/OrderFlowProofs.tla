-------------------------- MODULE OrderFlowProofs --------------------------
(***************************************************************************)
(* What the order flow guarantees.  For any number of orders, updates and  *)
(* notes, any targets, and with or without a working connection: types,    *)
(* cancellations, the portfolio's books if its callback is registered, and *)
(* the algo's answers if its callback is; and that neither goes back, as   *)
(* no copy of a snapshot overtakes a newer one.  And, of the order flow    *)
(* with its record of mistakes, that there is one order in the market and  *)
(* that the algo's position is exact, up to the first of them.             *)
(***************************************************************************)
EXTENDS OrderMistakes, Sums, SequenceTheorems, FiniteSetTheorems, TLAPS

(* A snapshot is filed under its own id.                                   *)
FiledUnderId == \A id \in Orders : orders[id] # NoOrder => orders[id].order_id = id

(* An order that is being sent, or is in flight, is one IBApi knows.       *)
SentIsKnown ==
    pcA \in {"forward", "place", "place_error", "track"} =>
        req.order_id \in Orders /\ orders[req.order_id] # NoOrder

InflightIsKnown == inflight_order_id \in Orders => orders[inflight_order_id] # NoOrder

(* Callbacks run with an event in hand.                                    *)
EventInHand == disp.todo # << >> => disp.data # NoOrder

Links == FiledUnderId /\ SentIsKnown /\ InflightIsKnown /\ EventInHand

TypeInv == TypeOK /\ Links

Callbacks == {"portfolio_order_data_cb", "risk_order_cb", "algo_engine_order_data"}

-----------------------------------------------------------------------------
(* Parts a step does not touch keep their types.                           *)
LEMMA UnchangedTypes ==
    /\ TwsTypeOK /\ UNCHANGED twsVars => TwsTypeOK'
    /\ ApiTypeOK /\ UNCHANGED apiVars => ApiTypeOK'
    /\ RiskTypeOK /\ UNCHANGED active_orders => RiskTypeOK'
    /\ AlgoTypeOK /\ UNCHANGED algoVars => AlgoTypeOK'
    /\ PortTypeOK /\ UNCHANGED portVars => PortTypeOK'
  BY DEF TwsTypeOK, ApiTypeOK, RiskTypeOK, AlgoTypeOK, PortTypeOK, twsVars, apiVars,
         algoVars, portVars

(* The links between ids and snapshots need only these variables.          *)
LEMMA UnchangedLinks ==
    Links /\ UNCHANGED <<orders, pcA, req, inflight_order_id, disp>> => Links'
  BY DEF Links, FiledUnderId, SentIsKnown, InflightIsKnown, EventInHand

(* The map of snapshots after a snapshot is replaced and copied.           *)
LEMMA SnapshotTypes ==
    ASSUME ApiTypeOK, FiledUnderId, NEW th \in ApiThreads, NEW data \in OrderData,
           Snapshot(th, data)
    PROVE  /\ orders' \in [Orders -> OrderData \cup {NoOrder}]
           /\ held' \in [ApiThreads -> OrderData \cup {NoOrder}]
           /\ FiledUnderId'
           /\ \A id \in Orders : orders[id] # NoOrder => orders'[id] # NoOrder
           /\ orders'[data.order_id] # NoOrder
  <1>1. data.order_id \in Orders
    BY DEF OrderData
  <1>2. data # NoOrder
    BY NoOrderIsNoData
  <1> QED BY <1>1, <1>2 DEF Snapshot, ApiTypeOK, FiledUnderId

(* What is handed over is an order event.                                  *)
LEMMA HandOverTypes ==
    ASSUME ApiTypeOK, NEW th \in ApiThreads, on_order(th)
    PROVE  ApiTypeOK'
  <1>1. OrderEvent(held[th]) \in OrderEvents
    BY DEF on_order, ApiTypeOK, OrderEvent, OrderEvents
  <1>2. eq' \in Seq(OrderEvents)
    BY <1>1, AppendProperties DEF on_order, ApiTypeOK
  <1> QED BY <1>2 DEF on_order, ApiTypeOK

(* The three handlers of the callback thread keep a snapshot a snapshot.   *)
LEMMA HandlerTypes ==
    ASSUME ApiTypeOK, NEW id \in Orders, orders[id] # NoOrder
    PROVE  /\ [orders[id] EXCEPT !.error_code = TRUE] \in OrderData
           /\ \A status \in Statuses, filled \in Nat, px \in Nat :
                 [orders[id] EXCEPT !.status = status, !.traded_quantity = filled,
                                    !.avg_trade_price = px] \in OrderData
           /\ \A commission \in Nat :
                 [orders[id] EXCEPT !.commission = commission] \in OrderData
  <1>1. orders[id] \in OrderData
    BY DEF ApiTypeOK
  <1> QED BY <1>1 DEF OrderData
-----------------------------------------------------------------------------
(* At the start every variable has its type.                               *)
LEMMA TypeInvInit == Init => TypeInv
  <1> SUFFICES ASSUME Init PROVE TypeInv
    OBVIOUS
  <1>1. TwsTypeOK
    BY EmptySeq DEF Init, TwsInit, TwsTypeOK, BookEntries, Absent, Statuses, Actions
  <1>2. ApiTypeOK
    BY EmptySeq DEF Init, ApiInit, ApiTypeOK
  <1>3. RiskTypeOK
    BY DEF Init, RiskInit, RiskTypeOK
  <1>4. AlgoTypeOK
    <2>1. NoUpdate \in PosUpdates /\ NoReq \in Requests
      BY DEF NoUpdate, PosUpdate, PosUpdates, NoReq, Requests, Actions
    <2>2. aq \in Seq(OrderEvents \cup PosUpdates)
      BY EmptySeq DEF Init, AlgoInit
    <2>3. order_status \in [Orders -> Statuses \cup {"untracked"}]
      BY DEF Init, AlgoInit
    <2>4. AlgoInit
      BY DEF Init
    <2>5. pcA = "idle" /\ inflight_order_id = -1 /\ order_cancelled = FALSE
      BY <2>4 DEF AlgoInit
    <2>6. upd = NoUpdate /\ req = NoReq
      BY <2>4 DEF AlgoInit
    <2>7. updates = 0 /\ order_filled = 0 /\ curr_pos = 0 /\ target_pos = 0
      BY <2>4 DEF AlgoInit
    <2>11. pcA \in {"idle", "cancel_error", "requeue", "terminated"} \cup Sending
      BY <2>5
    <2>12. inflight_order_id \in Orders \cup {-1}
      BY <2>5
    <2>13. order_cancelled \in BOOLEAN
      BY <2>5
    <2>14. updates \in Nat /\ order_filled \in Nat /\ curr_pos \in Int /\ target_pos \in Int
      BY <2>7
    <2>15. upd \in PosUpdates /\ req \in Requests
      BY <2>1, <2>6
    <2> QED BY <2>2, <2>3, <2>11, <2>12, <2>13, <2>14, <2>15 DEF AlgoTypeOK
  <1>5. PortTypeOK
    BY EmptySeq DEF Init, PortInit, PortTypeOK
  <1>6. disp \in Dispatching
    BY EmptySeq DEF Init, Dispatching
  <1>7. Links
    BY MaxOrdersIsNat DEF Init, ApiInit, AlgoInit, Links, FiledUnderId, SentIsKnown,
       InflightIsKnown, EventInHand, Orders
  <1> QED BY <1>1, <1>2, <1>3, <1>4, <1>5, <1>6, <1>7 DEF TypeInv, TypeOK

(* TWS reports what it does in messages IBApi can read.                    *)
LEMMA PeerTypes == TypeInv /\ Peer => TypeInv'
  <1> SUFFICES ASSUME TypeInv, Peer PROVE TypeInv'
    OBVIOUS
  <1>1. TwsTypeOK'
    <2>1. ASSUME NEW id \in Orders, NEW state \in {"working", "done"},
                 NEW status \in Statuses, NEW filled \in Nat,
                 Report(id, state, status, filled)
          PROVE  book' \in [Orders -> BookEntries] /\ wire' \in Seq(Messages)
      <3>1. book \in [Orders -> BookEntries] /\ book[id] \in BookEntries
        BY DEF TypeInv, TypeOK, TwsTypeOK
      <3>2. [book[id] EXCEPT !.state = state, !.status = status, !.filled = filled] \in BookEntries
        BY <3>1 DEF BookEntries
      <3>3. book' \in [Orders -> BookEntries]
        BY <2>1, <3>1, <3>2 DEF Report
      <3>4. StatusMsg(id, status, filled) \in Messages
        BY DEF StatusMsg, Messages, AvgPrice
      <3> QED BY <2>1, <3>3, <3>4, AppendProperties DEF Report, TypeInv, TypeOK, TwsTypeOK
    <2>2. ASSUME NEW id \in Orders, Acknowledge(id)
          PROVE  book' \in [Orders -> BookEntries] /\ wire' \in Seq(Messages)
      BY <2>1, <2>2 DEF Acknowledge, Statuses
    <2>3. ASSUME NEW id \in Orders, Fill(id)
          PROVE  book' \in [Orders -> BookEntries] /\ wire' \in Seq(Messages)
      <3>1. book[id].filled + 1 \in Nat
        BY DEF TypeInv, TypeOK, TwsTypeOK, BookEntries
      <3>2. CASE book[id].filled + 1 = book[id].quantity
        BY <2>1, <2>3, <3>1, <3>2 DEF Fill, Statuses
      <3>3. CASE book[id].filled + 1 # book[id].quantity
        BY <2>1, <2>3, <3>1, <3>3 DEF Fill, Statuses
      <3> QED BY <3>2, <3>3
    <2>4. ASSUME NEW id \in Orders, Cancel(id)
          PROVE  book' \in [Orders -> BookEntries] /\ wire' \in Seq(Messages)
      <3>1. book[id].filled \in Nat
        BY DEF TypeInv, TypeOK, TwsTypeOK, BookEntries
      <3> QED BY <2>1, <2>4, <3>1 DEF Cancel, Statuses
    <2>5. ASSUME NEW id \in Orders, Reject(id)
          PROVE  book' \in [Orders -> BookEntries] /\ wire' \in Seq(Messages)
      <3>1. book \in [Orders -> BookEntries] /\ book[id] \in BookEntries
        BY DEF TypeInv, TypeOK, TwsTypeOK
      <3>2. [book[id] EXCEPT !.state = "done", !.status = "inactive"] \in BookEntries
        BY <3>1 DEF BookEntries, Statuses
      <3>3. book' \in [Orders -> BookEntries]
        BY <2>5, <3>1, <3>2 DEF Reject
      <3>4. ErrorMsg(id) \in Messages
        BY DEF ErrorMsg, Messages
      <3> QED BY <2>5, <3>3, <3>4, AppendProperties DEF Reject, TypeInv, TypeOK, TwsTypeOK
    <2>6. ASSUME NEW id \in Orders, NEW kind \in NoteKinds, Note(id, kind)
          PROVE  book' = book /\ wire' \in Seq(Messages) /\ notes' \in Nat
      <3>1. StatusMsg(id, book[id].status, book[id].filled) \in Messages
        BY DEF StatusMsg, Messages, AvgPrice, TypeInv, TypeOK, TwsTypeOK, BookEntries
      <3>2. CommissionMsg(id) \in Messages
        BY DEF CommissionMsg, Commission, Messages, TypeInv, TypeOK, TwsTypeOK, BookEntries
      <3>3. ErrorMsg(id) \in Messages
        BY DEF ErrorMsg, Messages
      <3>4. PICK msg \in Messages : wire' = Append(wire, msg)
        BY <2>6, <3>1, <3>2, <3>3, NoteKindsAreKinds DEF Note
      <3>5. wire' \in Seq(Messages)
        BY <3>4, AppendProperties DEF TypeInv, TypeOK, TwsTypeOK
      <3>6. book' = book /\ notes' = notes + 1
        BY <2>6 DEF Note
      <3> QED BY <3>5, <3>6 DEF TypeInv, TypeOK, TwsTypeOK
    <2>7. CASE Disconnect
      BY <2>7 DEF Disconnect, TypeInv, TypeOK, TwsTypeOK
    <2>8. CASE TwsStep
      BY <2>2, <2>3, <2>4, <2>5, <2>6, <2>8
      DEF TwsStep, Working, Done, Acknowledge, Fill, Cancel, Reject, TypeInv, TypeOK, TwsTypeOK
    <2> QED BY <2>7, <2>8 DEF Peer
  <1>2. UNCHANGED <<apiVars, active_orders, algoVars, portVars, disp>>
    BY DEF Peer
  <1> QED BY <1>1, <1>2, UnchangedTypes, UnchangedLinks DEF TypeInv, TypeOK, apiVars, algoVars

-----------------------------------------------------------------------------
(* An update of the strategy keeps the types.                              *)
LEMMA StrategyTypes == TypeInv /\ Strategy => TypeInv'
  <1> SUFFICES ASSUME TypeInv, NEW target \in Targets, mq_message_cb(target),
                      UNCHANGED <<portVars, disp>>
               PROVE  TypeInv'
    BY DEF Strategy
  <1>1. PosUpdate(target, FALSE) \in PosUpdates
    BY TargetsAreInts DEF PosUpdate, PosUpdates
  <1>2. aq' = Append(aq, PosUpdate(target, FALSE)) /\ updates' = updates + 1
    BY DEF mq_message_cb
  <1>3. aq' \in Seq(OrderEvents \cup PosUpdates)
    BY <1>1, <1>2, AppendProperties DEF TypeInv, TypeOK, AlgoTypeOK
  <1>4. UNCHANGED <<pcA, upd, req, inflight_order_id, order_cancelled, order_filled,
                    curr_pos, target_pos, order_status>>
    BY DEF mq_message_cb
  <1>5. UNCHANGED <<twsVars, apiVars, active_orders>>
    BY DEF mq_message_cb
  <1>6. AlgoTypeOK'
    <2>1. AlgoTypeOK
      BY DEF TypeInv, TypeOK
    <2>2. updates' \in Nat
      BY <2>1, <1>2 DEF AlgoTypeOK
    <2> QED BY <2>1, <2>2, <1>3, <1>4 DEF AlgoTypeOK
  <1> QED BY <1>4, <1>5, <1>6, UnchangedTypes, UnchangedLinks DEF TypeInv, TypeOK, apiVars

(* IBApi's callback thread: a message is read, its snapshot handed over.   *)
LEMMA CallbackTypes == TypeInv /\ Callback => TypeInv'
  <1> SUFFICES ASSUME TypeInv, Callback PROVE TypeInv'
    OBVIOUS
  <1>1. UNCHANGED <<active_orders, algoVars, portVars, disp>>
    BY DEF Callback
  <1>2. ApiTypeOK /\ FiledUnderId /\ TwsTypeOK
    BY DEF TypeInv, TypeOK, Links
  <1>3. CASE ProcessMessage
    <2>1. Head(wire) \in Messages /\ Tail(wire) \in Seq(Messages)
      BY <1>2, <1>3, HeadTailProperties DEF ProcessMessage, TwsTypeOK
    <2>2. TwsTypeOK'
      BY <2>1, <1>2, <1>3 DEF ProcessMessage, TwsTypeOK
    <2>3. UNCHANGED <<m_order_id, eq>>
      BY <1>3 DEF ProcessMessage
    <2>4. UNCHANGED <<orders, held>>
             \/ \E data \in OrderData : Snapshot("callback", data)
      <3> DEFINE msg == Head(wire)
      <3>1. CASE orders[msg.id] = NoOrder
        BY <1>3, <3>1 DEF ProcessMessage
      <3>2. CASE orders[msg.id] # NoOrder /\ msg.type = "orderStatus"
        <4>1. msg.id \in Orders /\ msg.status \in Statuses /\ msg.filled \in Nat /\ msg.px \in Nat
          BY <2>1, <3>2 DEF Messages
        <4>2. orderStatus(msg)
          BY <1>3, <3>2 DEF ProcessMessage
        <4> QED BY <4>1, <4>2, <3>2, <1>2, HandlerTypes DEF orderStatus
      <3>3. CASE orders[msg.id] # NoOrder /\ msg.type = "openOrder"
        <4>1. msg.id \in Orders /\ msg.commission \in Nat
          BY <2>1, <3>3 DEF Messages
        <4>2. openOrder(msg)
          BY <1>3, <3>3 DEF ProcessMessage
        <4> QED BY <4>1, <4>2, <3>3, <1>2, HandlerTypes DEF openOrder
      <3>4. CASE orders[msg.id] # NoOrder /\ msg.type = "error"
        <4>1. msg.id \in Orders
          BY <2>1, <3>4 DEF Messages
        <4>2. error("callback", msg.id)
          BY <1>3, <3>4 DEF ProcessMessage
        <4> QED BY <4>1, <4>2, <3>4, <1>2, HandlerTypes DEF error
      <3>5. msg.type \in {"orderStatus", "openOrder", "error"}
        BY <2>1 DEF Messages
      <3> QED BY <3>1, <3>2, <3>3, <3>4, <3>5
    <2>5. CASE UNCHANGED <<orders, held>>
      BY <2>2, <2>3, <2>5, <1>1, UnchangedTypes, UnchangedLinks
      DEF TypeInv, TypeOK, apiVars, algoVars
    <2>6. CASE \E data \in OrderData : Snapshot("callback", data)
      <3>1. PICK data \in OrderData : Snapshot("callback", data)
        BY <2>6
      <3>2. /\ orders' \in [Orders -> OrderData \cup {NoOrder}]
            /\ held' \in [ApiThreads -> OrderData \cup {NoOrder}]
            /\ FiledUnderId'
            /\ \A id \in Orders : orders[id] # NoOrder => orders'[id] # NoOrder
        BY <3>1, <1>2, SnapshotTypes DEF ApiThreads
      <3>3. ApiTypeOK'
        BY <3>2, <2>3, <1>2 DEF ApiTypeOK
      <3>4. Links'
        BY <3>2, <1>1 DEF TypeInv, Links, SentIsKnown, InflightIsKnown, EventInHand, algoVars
      <3> QED BY <3>3, <3>4, <2>2, <1>1, UnchangedTypes DEF TypeInv, TypeOK
    <2> QED BY <2>4, <2>5, <2>6
  <1>4. CASE ForwardMessage
    <2>1. ApiTypeOK' /\ UNCHANGED <<twsVars, orders>>
      BY <1>2, <1>4, HandOverTypes DEF ForwardMessage, ApiThreads, on_order
    <2> QED BY <2>1, <1>1, UnchangedTypes, UnchangedLinks DEF TypeInv, TypeOK, algoVars
  <1> QED BY <1>3, <1>4 DEF Callback

(* The event engine's thread: an event is popped and given to a callback.  *)
LEMMA DispatchTypes == TypeInv /\ Dispatch => TypeInv'
  <1> SUFFICES ASSUME TypeInv, Dispatch PROVE TypeInv'
    OBVIOUS
  <1> DEFINE Names == {"portfolio_order_data_cb", "risk_order_cb", "algo_engine_order_data"}
  <1>1. disp \in Dispatching /\ EventInHand /\ ApiTypeOK /\ PortTypeOK /\ RiskTypeOK /\ AlgoTypeOK
    BY DEF TypeInv, TypeOK, Links
  <1>2. CASE PopEvent
    <2>1. Head(eq) \in OrderEvents /\ Tail(eq) \in Seq(OrderEvents)
      BY <1>1, <1>2, HeadTailProperties DEF PopEvent, ApiTypeOK
    <2>2. Head(eq).data \in OrderData
      BY <2>1 DEF OrderEvents
    <2>3. ApiTypeOK'
      BY <2>1, <1>1, <1>2 DEF PopEvent, ApiTypeOK
    <2>4. disp' \in Dispatching
      BY <2>2, <1>2, CallbackOrderIsASeq DEF PopEvent, Dispatching
    <2>5. Links'
      BY <2>2, <1>2, NoOrderIsNoData DEF PopEvent, TypeInv, Links, FiledUnderId, SentIsKnown,
         InflightIsKnown, EventInHand, algoVars
    <2>6. UNCHANGED <<twsVars, active_orders, algoVars, portVars>>
      BY <1>2 DEF PopEvent
    <2> QED BY <2>3, <2>4, <2>5, <2>6, UnchangedTypes DEF TypeInv, TypeOK
  <1>3. ASSUME NEW cb_name, RunCallback(cb_name),
               UNCHANGED <<pcA, req, inflight_order_id>>
        PROVE  /\ disp.data \in OrderData
               /\ disp' \in Dispatching
               /\ TwsTypeOK' /\ ApiTypeOK' /\ Links'
    <2>1. disp.data \in OrderData
      BY <1>1, <1>3 DEF RunCallback, Dispatching, EventInHand
    <2>2. Tail(disp.todo) \in Seq(Names) /\ (Len(disp.todo) = 1 => Tail(disp.todo) = << >>)
      <3>1. disp.todo \in Seq(Names) /\ disp.todo # << >>
        BY <1>1, <1>3 DEF RunCallback, Dispatching
      <3> HIDE DEF Names
      <3>2. Tail(disp.todo) \in Seq(Names) /\ Len(Tail(disp.todo)) = Len(disp.todo) - 1
        BY <3>1, HeadTailProperties
      <3>3. \A seq \in Seq(Names) : seq # << >> => Len(seq) \in Nat \ {0}
        BY EmptySeq
      <3>4. SUFFICES ASSUME Len(disp.todo) = 1 PROVE Tail(disp.todo) = << >>
        BY <3>2
      <3>5. Len(Tail(disp.todo)) = 0
        BY <3>2, <3>4
      <3> QED BY <3>2, <3>3, <3>5
    <2>3. disp' = [data |-> IF Len(disp.todo) = 1 THEN NoOrder ELSE disp.data,
                   todo |-> Tail(disp.todo)]
      BY <1>3 DEF RunCallback
    <2>4. disp' \in Dispatching
      BY <2>1, <2>2, <2>3 DEF Dispatching
    <2>5. EventInHand'
      BY <2>1, <2>2, <2>3, NoOrderIsNoData DEF EventInHand
    <2>6. UNCHANGED <<twsVars, apiVars>>
      BY <1>3 DEF RunCallback
    <2>7. Links'
      BY <2>5, <2>6, <1>3 DEF TypeInv, Links, FiledUnderId, SentIsKnown, InflightIsKnown, apiVars
    <2> QED BY <2>1, <2>4, <2>6, <2>7, UnchangedTypes DEF TypeInv, TypeOK
  <1>4. CASE ToPortfolio
    <2>1. RunCallback("portfolio_order_data_cb") /\ UNCHANGED <<active_orders, algoVars>>
      BY <1>4 DEF ToPortfolio
    <2>2. disp.data \in OrderData /\ disp' \in Dispatching /\ TwsTypeOK' /\ ApiTypeOK' /\ Links'
      BY <2>1, <1>3 DEF algoVars
    <2>3. pq' \in Seq(OrderData)
      BY <2>2, <1>1, <1>4, AppendProperties DEF ToPortfolio, event_engine_order_data_cb, PortTypeOK
    <2>4. PortTypeOK'
      BY <2>3, <1>1, <1>4 DEF ToPortfolio, event_engine_order_data_cb, PortTypeOK
    <2> QED BY <2>1, <2>2, <2>4, UnchangedTypes DEF TypeInv, TypeOK
  <1>5. CASE ToRiskManager
    <2>1. RunCallback("risk_order_cb") /\ UNCHANGED <<algoVars, portVars>>
      BY <1>5 DEF ToRiskManager
    <2>2. disp.data \in OrderData /\ disp' \in Dispatching /\ TwsTypeOK' /\ ApiTypeOK' /\ Links'
      BY <2>1, <1>3 DEF algoVars
    <2>3. RiskTypeOK'
      BY <1>1, <1>5 DEF ToRiskManager, risk_order_cb, RiskTypeOK
    <2> QED BY <2>1, <2>2, <2>3, UnchangedTypes DEF TypeInv, TypeOK
  <1>6. CASE ToAlgoEngine
    <2>1. RunCallback("algo_engine_order_data") /\ UNCHANGED <<active_orders, portVars>>
      BY <1>6 DEF ToAlgoEngine
    <2>2. UNCHANGED <<updates, pcA, upd, req, inflight_order_id, order_cancelled,
                      order_filled, curr_pos, target_pos, order_status>>
      BY <1>6 DEF ToAlgoEngine, event_engine_order_cb
    <2>3. disp.data \in OrderData /\ disp' \in Dispatching /\ TwsTypeOK' /\ ApiTypeOK' /\ Links'
      BY <2>1, <2>2, <1>3
    <2>4. aq' \in Seq(OrderEvents \cup PosUpdates)
      <3>1. OrderEvent(disp.data) \in OrderEvents
        BY <2>3 DEF OrderEvent, OrderEvents
      <3> QED BY <3>1, <1>1, <1>6, AppendProperties
          DEF ToAlgoEngine, event_engine_order_cb, AlgoTypeOK
    <2>5. AlgoTypeOK'
      BY <2>2, <2>4, <1>1 DEF AlgoTypeOK
    <2> QED BY <2>1, <2>3, <2>5, UnchangedTypes DEF TypeInv, TypeOK
  <1> QED BY <1>2, <1>4, <1>5, <1>6 DEF Dispatch

(* The portfolio's thread: positions and costs stay integers.              *)
LEMMA BooksTypes == TypeInv /\ Books => TypeInv'
  <1> SUFFICES ASSUME TypeInv, Books PROVE TypeInv'
    OBVIOUS
  <1>1. PortTypeOK
    BY DEF TypeInv, TypeOK
  <1>2. ASSUME NEW data \in OrderData, order_data_cb(data)
        PROVE  /\ port_orders' \in [Orders -> OrderData \cup {NoOrder}]
               /\ pos' \in Int /\ cost' \in Int
    <2>1. data.order_id \in Orders /\ data.action \in Actions
      BY DEF OrderData
    <2>2. port_orders' \in [Orders -> OrderData \cup {NoOrder}]
      BY <1>1, <1>2, <2>1 DEF order_data_cb, PortTypeOK
    <2>3. \A d \in OrderData \cup {NoOrder} :
             Traded(d) \in Int /\ Notional(d) \in Int /\ Fees(d) \in Int
      BY DEF Traded, Notional, Fees, OrderData
    <2>4. port_orders[data.order_id] \in OrderData \cup {NoOrder}
      BY <1>1, <2>1 DEF PortTypeOK
    <2>5. \A n \in Int : Signed(data.action, n) \in Int
      BY DEF Signed
    <2> DEFINE old == port_orders[data.order_id]
    <2>6. pos' = pos + Signed(data.action, Traded(data) - Traded(old))
      BY <1>2 DEF order_data_cb
    <2>7. cost' = cost + Signed(data.action, Notional(data) - Notional(old))
                       + Fees(data) - Fees(old)
      BY <1>2 DEF order_data_cb
    <2>8. Traded(data) - Traded(old) \in Int /\ Notional(data) - Notional(old) \in Int
             /\ Fees(data) \in Int /\ Fees(old) \in Int
      BY <2>3, <2>4
    <2>9. pos \in Int /\ cost \in Int
      BY <1>1 DEF PortTypeOK
    <2>10. pos' \in Int
      BY <2>5, <2>6, <2>8, <2>9
    <2>11. cost' \in Int
      <3> HIDE DEF old
      <3> QED BY <2>5, <2>7, <2>8, <2>9
    <2> QED BY <2>2, <2>10, <2>11
  <1>3. PortTypeOK'
    <2>1. CASE HandleOrder
      <3>1. Head(pq) \in OrderData /\ Tail(pq) \in Seq(OrderData)
        BY <1>1, <2>1, HeadTailProperties DEF HandleOrder, PortTypeOK
      <3>2. order_data_cb(Head(pq)) /\ pq' = Tail(pq) /\ plast' = Head(pq)
        BY <2>1 DEF HandleOrder
      <3> QED BY <3>1, <3>2, <1>2 DEF PortTypeOK
    <2>2. CASE HandleAgain
      <3>1. plast \in OrderData
        BY <1>1, <2>2 DEF HandleAgain, PortTypeOK
      <3>2. order_data_cb(plast) /\ UNCHANGED <<pq, plast>>
        BY <2>2 DEF HandleAgain
      <3> QED BY <3>1, <3>2, <1>1, <1>2 DEF PortTypeOK
    <2> QED BY <2>1, <2>2 DEF Books, PortStep
  <1>4. UNCHANGED <<twsVars, apiVars, active_orders, algoVars, disp>>
    BY DEF Books
  <1> QED BY <1>3, <1>4, UnchangedTypes, UnchangedLinks DEF TypeInv, TypeOK, apiVars, algoVars
-----------------------------------------------------------------------------
(* The action thread takes an update of the strategy off its queue.        *)
LEMMA PopsTypes ==
    ASSUME AlgoTypeOK, Pops("algo_pos_update")
    PROVE  /\ pcA = "idle"
           /\ Head(aq) \in PosUpdates
           /\ aq' \in Seq(OrderEvents \cup PosUpdates)
           /\ UNCHANGED <<updates, order_status>>
  <1>1. Head(aq) \in OrderEvents \cup PosUpdates /\ Tail(aq) \in Seq(OrderEvents \cup PosUpdates)
    BY HeadTailProperties DEF Pops, AlgoTypeOK
  <1>2. Head(aq).e_type = "algo_pos_update"
    BY DEF Pops
  <1>3. Head(aq) \notin OrderEvents
    BY <1>2 DEF OrderEvents
  <1> QED BY <1>1, <1>3 DEF Pops

(* The socket is used on behalf of an order that IBApi knows.              *)
LEMMA SocketTypes ==
    ASSUME TwsTypeOK, ApiTypeOK, FiledUnderId, NEW id \in Orders, orders[id] # NoOrder,
           placeOrder(id) \/ cancelOrder(id)
    PROVE  /\ book' \in [Orders -> BookEntries]
           /\ orders' \in [Orders -> OrderData \cup {NoOrder}]
           /\ held' \in [ApiThreads -> OrderData \cup {NoOrder}]
           /\ FiledUnderId'
           /\ \A i \in Orders : orders[i] # NoOrder => orders'[i] # NoOrder
  <1>1. orders[id].action \in Actions /\ orders[id].total_quantity \in Nat
    BY DEF ApiTypeOK, OrderData
  <1>2. book' \in [Orders -> BookEntries]
    <2>1. book[id] \in BookEntries /\ book \in [Orders -> BookEntries]
      BY DEF TwsTypeOK
    <2>2. CASE Accept(id, orders[id].action, orders[id].total_quantity)
      <3>1. [Absent EXCEPT !.state = "working", !.action = orders[id].action,
                           !.quantity = orders[id].total_quantity] \in BookEntries
        BY <1>1 DEF Absent, BookEntries, Statuses
      <3> QED BY <2>1, <2>2, <3>1 DEF Accept
    <2>3. CASE RequestCancel(id)
      <3>1. [book[id] EXCEPT !.cancels = @ + 1] \in BookEntries
        BY <2>1 DEF BookEntries
      <3>2. book' = [book EXCEPT ![id] = [book[id] EXCEPT !.cancels = @ + 1]]
        BY <2>3 DEF RequestCancel
      <3> QED BY <2>1, <3>1, <3>2
    <2> QED BY <2>1, <2>2, <2>3 DEF placeOrder, cancelOrder
  <1>4. CASE UNCHANGED <<orders, held>>
    BY <1>2, <1>4 DEF ApiTypeOK, FiledUnderId
  <1>5. CASE error("sender", id)
    <2>1. [orders[id] EXCEPT !.error_code = TRUE] \in OrderData
      BY HandlerTypes
    <2> QED BY <1>2, <1>5, <2>1, SnapshotTypes DEF error, ApiThreads
  <1> QED BY <1>4, <1>5 DEF placeOrder, cancelOrder

(* What every step of the action thread has to keep.                       *)
AlgoGoal ==
    /\ TwsTypeOK /\ ApiTypeOK /\ RiskTypeOK /\ AlgoTypeOK
    /\ FiledUnderId /\ SentIsKnown /\ InflightIsKnown

(* The action thread cancels the order in flight, or waits for its end.    *)
LEMMA CancelPathTypes ==
    ASSUME AlgoGoal,
           CancelInflight \/ ForwardCancelError \/ WaitForCancel \/ LatencyTooHigh \/ Requeue
    PROVE  AlgoGoal'
  <1>1. TwsTypeOK /\ ApiTypeOK /\ RiskTypeOK /\ AlgoTypeOK /\ FiledUnderId
    BY DEF AlgoGoal
  <1>2. CASE CancelInflight
    <2>1. /\ Pops("algo_pos_update") /\ cancelOrder(inflight_order_id)
          /\ inflight_order_id > 0
          /\ order_cancelled' = TRUE
          /\ upd' = PosUpdate(Head(aq).pos, TRUE)
          /\ pcA' \in {"requeue", "cancel_error"}
          /\ UNCHANGED <<req, inflight_order_id, order_filled, curr_pos, target_pos>>
          /\ UNCHANGED <<wire, connected, notes, m_order_id, eq, active_orders>>
      BY <1>2 DEF CancelInflight
    <2>2. Head(aq) \in PosUpdates /\ aq' \in Seq(OrderEvents \cup PosUpdates)
             /\ UNCHANGED <<updates, order_status>>
      BY <1>1, <2>1, PopsTypes
    <2>3. inflight_order_id \in Orders /\ orders[inflight_order_id] # NoOrder
      BY <1>1, <2>1 DEF AlgoGoal, AlgoTypeOK, InflightIsKnown
    <2>4. /\ book' \in [Orders -> BookEntries]
          /\ orders' \in [Orders -> OrderData \cup {NoOrder}]
          /\ held' \in [ApiThreads -> OrderData \cup {NoOrder}]
          /\ FiledUnderId'
          /\ \A i \in Orders : orders[i] # NoOrder => orders'[i] # NoOrder
      BY <1>1, <2>1, <2>3, SocketTypes
    <2>5. upd' \in PosUpdates
      BY <2>1, <2>2 DEF PosUpdate, PosUpdates
    <2>6. AlgoTypeOK'
      BY <1>1, <2>1, <2>2, <2>5 DEF AlgoTypeOK
    <2>7. TwsTypeOK' /\ ApiTypeOK'
      BY <1>1, <2>1, <2>4 DEF TwsTypeOK, ApiTypeOK
    <2>8. SentIsKnown' /\ InflightIsKnown'
      BY <2>1, <2>4 DEF AlgoGoal, SentIsKnown, InflightIsKnown
    <2> QED BY <1>1, <2>1, <2>4, <2>6, <2>7, <2>8, UnchangedTypes DEF AlgoGoal
  <1>3. CASE ForwardCancelError
    <2>1. /\ on_order("sender") /\ pcA' = "requeue"
          /\ UNCHANGED <<aq, updates, upd, req, inflight_order_id, order_cancelled,
                         order_filled, curr_pos, target_pos, order_status>>
          /\ UNCHANGED <<twsVars, active_orders>>
      BY <1>3 DEF ForwardCancelError
    <2>2. ApiTypeOK' /\ UNCHANGED orders
      BY <1>1, <2>1, HandOverTypes DEF ApiThreads, on_order
    <2>3. AlgoTypeOK'
      BY <1>1, <2>1 DEF AlgoTypeOK
    <2> QED BY <1>1, <2>1, <2>2, <2>3, UnchangedTypes
        DEF AlgoGoal, FiledUnderId, SentIsKnown, InflightIsKnown
  <1>4. CASE WaitForCancel \/ LatencyTooHigh
    <2>1. /\ Pops("algo_pos_update")
          /\ upd' \in {upd, Head(aq)}
          /\ pcA' \in {"requeue", "terminated"}
          /\ UNCHANGED <<req, inflight_order_id, order_cancelled, order_filled,
                         curr_pos, target_pos>>
          /\ UNCHANGED <<twsVars, apiVars, active_orders>>
      BY <1>4 DEF WaitForCancel, LatencyTooHigh
    <2>2. Head(aq) \in PosUpdates /\ aq' \in Seq(OrderEvents \cup PosUpdates)
             /\ UNCHANGED <<updates, order_status>>
      BY <1>1, <2>1, PopsTypes
    <2>3. AlgoTypeOK'
      BY <1>1, <2>1, <2>2 DEF AlgoTypeOK
    <2> QED BY <1>1, <2>1, <2>3, UnchangedTypes
        DEF AlgoGoal, FiledUnderId, SentIsKnown, InflightIsKnown, apiVars
  <1>5. CASE Requeue
    <2>1. /\ aq' = Append(aq, upd) /\ upd' = NoUpdate /\ pcA' = "idle"
          /\ UNCHANGED <<updates, req, inflight_order_id, order_cancelled,
                         order_filled, curr_pos, target_pos, order_status>>
          /\ UNCHANGED <<twsVars, apiVars, active_orders>>
      BY <1>5 DEF Requeue
    <2>2. aq' \in Seq(OrderEvents \cup PosUpdates)
      BY <1>1, <2>1, AppendProperties DEF AlgoTypeOK
    <2>3. NoUpdate \in PosUpdates
      BY DEF NoUpdate, PosUpdate, PosUpdates
    <2>4. AlgoTypeOK'
      BY <1>1, <2>1, <2>2, <2>3 DEF AlgoTypeOK
    <2> QED BY <1>1, <2>1, <2>4, UnchangedTypes
        DEF AlgoGoal, FiledUnderId, SentIsKnown, InflightIsKnown, apiVars
  <1> QED BY <1>2, <1>3, <1>4, <1>5

(* The action thread sends an order.                                       *)
LEMMA SendPathTypes ==
    ASSUME AlgoGoal,
           (\E pnl_ok \in BOOLEAN : Retarget(pnl_ok))
              \/ InsertNewOrder \/ ForwardNewOrder \/ PlaceNewOrder \/ Track
    PROVE  AlgoGoal'
  <1>1. TwsTypeOK /\ ApiTypeOK /\ RiskTypeOK /\ AlgoTypeOK /\ FiledUnderId
    BY DEF AlgoGoal
  <1>2. ASSUME NEW pnl_ok \in BOOLEAN, Retarget(pnl_ok) PROVE AlgoGoal'
    <2> DEFINE diff == Head(aq).pos - curr_pos
               sent == [order_id |-> -1,
                        action   |-> IF diff < 0 THEN "sell" ELSE "buy",
                        quantity |-> IF diff < 0 THEN -diff ELSE diff]
    <2>1. /\ Pops("algo_pos_update")
          /\ target_pos' = Head(aq).pos
          /\ UNCHANGED <<upd, inflight_order_id, order_cancelled, order_filled, curr_pos>>
          /\ UNCHANGED <<twsVars, apiVars>>
      BY <1>2 DEF Retarget
    <2>2. (pcA' = pcA /\ req' = req) \/ (pcA' = "insert" /\ req' = sent)
      BY <1>2 DEF Retarget
    <2>3. active_orders' = active_orders \/ active_orders' = active_orders \cup {UnsetLong}
      BY <1>2 DEF Retarget, PassesRisk, FailsRisk
    <2>4. /\ pcA = "idle" /\ Head(aq) \in PosUpdates
          /\ aq' \in Seq(OrderEvents \cup PosUpdates) /\ UNCHANGED <<updates, order_status>>
      BY <1>1, <2>1, PopsTypes
    <2>5. Head(aq).pos \in Int
      BY <2>4 DEF PosUpdates
    <2>6. diff \in Int
      BY <1>1, <2>5 DEF AlgoTypeOK
    <2>7. sent \in Requests
      BY <2>6 DEF Requests, Actions
    <2>8. AlgoTypeOK'
      BY <1>1, <2>1, <2>2, <2>4, <2>5, <2>7 DEF AlgoTypeOK, Sending
    <2>9. RiskTypeOK'
      BY <1>1, <2>3 DEF RiskTypeOK
    <2> QED BY <1>1, <2>1, <2>2, <2>4, <2>8, <2>9, UnchangedTypes
        DEF AlgoGoal, FiledUnderId, SentIsKnown, InflightIsKnown, apiVars
  <1>3. CASE InsertNewOrder
    <2> DEFINE data == NewOrder(m_order_id, req.action, req.quantity)
    <2>1. /\ m_order_id \in Orders /\ m_order_id' = m_order_id + 1
          /\ Snapshot("sender", data)
          /\ req' = [req EXCEPT !.order_id = m_order_id]
          /\ pcA' = "forward"
          /\ UNCHANGED <<aq, updates, upd, inflight_order_id, order_cancelled,
                         order_filled, curr_pos, target_pos, order_status>>
          /\ UNCHANGED <<twsVars, active_orders, eq>>
      BY <1>3 DEF InsertNewOrder, InsertOrder
    <2>2. req.action \in Actions /\ req.quantity \in Nat
      BY <1>1 DEF AlgoTypeOK, Requests
    <2>3. data \in OrderData /\ data.order_id = m_order_id
      BY <2>1, <2>2 DEF NewOrder, OrderData, Statuses
    <2>4. /\ orders' \in [Orders -> OrderData \cup {NoOrder}]
          /\ held' \in [ApiThreads -> OrderData \cup {NoOrder}]
          /\ FiledUnderId'
          /\ \A id \in Orders : orders[id] # NoOrder => orders'[id] # NoOrder
          /\ orders'[m_order_id] # NoOrder
      <3> HIDE DEF data
      <3> QED BY <1>1, <2>1, <2>3, SnapshotTypes DEF ApiThreads
    <2>5. m_order_id' \in Nat \ {0}
      BY <1>1, <2>1 DEF ApiTypeOK
    <2>6. ApiTypeOK'
      BY <1>1, <2>1, <2>4, <2>5 DEF ApiTypeOK
    <2>7. req' \in Requests /\ req'.order_id = m_order_id
      BY <1>1, <2>1 DEF AlgoTypeOK, Requests
    <2>8. AlgoTypeOK'
      BY <1>1, <2>1, <2>7 DEF AlgoTypeOK, Sending
    <2>9. SentIsKnown' /\ InflightIsKnown'
      BY <2>1, <2>4, <2>7 DEF AlgoGoal, SentIsKnown, InflightIsKnown
    <2> QED BY <1>1, <2>1, <2>4, <2>6, <2>8, <2>9, UnchangedTypes DEF AlgoGoal
  <1>4. CASE ForwardNewOrder
    <2>1. /\ on_order("sender") /\ pcA \in {"forward", "place_error"}
          /\ pcA' \in {"place", "track"}
          /\ UNCHANGED <<aq, updates, upd, req, inflight_order_id, order_cancelled,
                         order_filled, curr_pos, target_pos, order_status>>
          /\ UNCHANGED <<twsVars, active_orders>>
      BY <1>4 DEF ForwardNewOrder
    <2>2. ApiTypeOK' /\ UNCHANGED orders
      BY <1>1, <2>1, HandOverTypes DEF ApiThreads, on_order
    <2>3. AlgoTypeOK'
      BY <1>1, <2>1 DEF AlgoTypeOK, Sending
    <2> QED BY <1>1, <2>1, <2>2, <2>3, UnchangedTypes
        DEF AlgoGoal, FiledUnderId, SentIsKnown, InflightIsKnown
  <1>5. CASE PlaceNewOrder
    <2>1. /\ placeOrder(req.order_id) /\ pcA = "place"
          /\ pcA' \in {"track", "place_error"}
          /\ UNCHANGED <<aq, updates, upd, req, inflight_order_id, order_cancelled,
                         order_filled, curr_pos, target_pos, order_status>>
          /\ UNCHANGED <<wire, connected, notes, m_order_id, eq, active_orders>>
      BY <1>5 DEF PlaceNewOrder
    <2>2. req.order_id \in Orders /\ orders[req.order_id] # NoOrder
      BY <2>1 DEF AlgoGoal, SentIsKnown
    <2>3. /\ book' \in [Orders -> BookEntries]
          /\ orders' \in [Orders -> OrderData \cup {NoOrder}]
          /\ held' \in [ApiThreads -> OrderData \cup {NoOrder}]
          /\ FiledUnderId'
          /\ \A i \in Orders : orders[i] # NoOrder => orders'[i] # NoOrder
      BY <1>1, <2>1, <2>2, SocketTypes
    <2>4. AlgoTypeOK'
      BY <1>1, <2>1 DEF AlgoTypeOK, Sending
    <2>5. TwsTypeOK' /\ ApiTypeOK'
      BY <1>1, <2>1, <2>3 DEF TwsTypeOK, ApiTypeOK
    <2>6. SentIsKnown' /\ InflightIsKnown'
      BY <2>1, <2>2, <2>3 DEF AlgoGoal, SentIsKnown, InflightIsKnown
    <2> QED BY <1>1, <2>1, <2>3, <2>4, <2>5, <2>6, UnchangedTypes DEF AlgoGoal
  <1>6. CASE Track
    <2>1. /\ pcA = "track" /\ pcA' = "idle" /\ req' = NoReq
          /\ inflight_order_id' = req.order_id /\ order_filled' = 0
          /\ order_status' = [order_status EXCEPT ![req.order_id] = "pending_submit"]
          /\ UNCHANGED <<aq, updates, upd, order_cancelled, curr_pos, target_pos>>
          /\ UNCHANGED <<twsVars, apiVars, active_orders>>
      BY <1>6 DEF Track
    <2>2. req.order_id \in Orders /\ orders[req.order_id] # NoOrder
      BY <2>1 DEF AlgoGoal, SentIsKnown
    <2>3. NoReq \in Requests
      BY DEF NoReq, Requests, Actions
    <2>4. order_status' \in [Orders -> Statuses \cup {"untracked"}]
      BY <1>1, <2>1, <2>2 DEF AlgoTypeOK, Statuses
    <2>5. AlgoTypeOK'
      BY <1>1, <2>1, <2>2, <2>3, <2>4 DEF AlgoTypeOK
    <2> QED BY <1>1, <2>1, <2>2, <2>5, UnchangedTypes
        DEF AlgoGoal, FiledUnderId, SentIsKnown, InflightIsKnown, apiVars
  <1> QED BY <1>2, <1>3, <1>4, <1>5, <1>6

(* The action thread takes note of an order event.                         *)
LEMMA OrderCbTypes ==
    ASSUME AlgoGoal, order_cb
    PROVE  AlgoGoal'
  <1> DEFINE data == Head(aq).data
  <1>1. TwsTypeOK /\ ApiTypeOK /\ RiskTypeOK /\ AlgoTypeOK /\ FiledUnderId
    BY DEF AlgoGoal
  <1>2. /\ aq # << >> /\ Head(aq).e_type = "order_data" /\ aq' = Tail(aq)
        /\ UNCHANGED <<updates, pcA, upd, req, target_pos>>
        /\ UNCHANGED <<twsVars, apiVars, active_orders>>
    BY DEF order_cb
  <1>3. Head(aq) \in OrderEvents \cup PosUpdates /\ Tail(aq) \in Seq(OrderEvents \cup PosUpdates)
    BY <1>1, <1>2, HeadTailProperties DEF AlgoTypeOK
  <1>4. Head(aq) \notin PosUpdates
    BY <1>2 DEF PosUpdates
  <1>5. data \in OrderData
    BY <1>3, <1>4 DEF OrderEvents
  <1>6. /\ data.order_id \in Orders /\ data.status \in Statuses
        /\ data.traded_quantity \in Nat
    BY <1>5 DEF OrderData
  <1>7. \/ UNCHANGED <<curr_pos, order_filled, order_status, inflight_order_id, order_cancelled>>
        \/ /\ curr_pos' = curr_pos + Signed(data.action, data.traded_quantity - order_filled)
           /\ order_filled' = data.traded_quantity
           /\ order_status' = [order_status EXCEPT ![data.order_id] = data.status]
           /\ Settle(active_order(data))
    BY DEF order_cb
  <1>8. curr_pos' \in Int /\ order_filled' \in Nat
    <2>1. data.traded_quantity - order_filled \in Int /\ curr_pos \in Int /\ order_filled \in Nat
      BY <1>1, <1>6 DEF AlgoTypeOK
    <2>2. Signed(data.action, data.traded_quantity - order_filled) \in Int
      BY <2>1 DEF Signed
    <2> QED BY <1>6, <1>7, <2>1, <2>2
  <1>9. order_status' \in [Orders -> Statuses \cup {"untracked"}]
    BY <1>1, <1>6, <1>7 DEF AlgoTypeOK
  <1>10. inflight_order_id' \in {inflight_order_id, -1} /\ order_cancelled' \in BOOLEAN
    <2>1. order_cancelled \in BOOLEAN
      BY <1>1 DEF AlgoTypeOK
    <2>2. active_order(data) \in BOOLEAN
      BY DEF active_order
    <2> QED BY <1>7, <2>1, <2>2 DEF Settle
  <1>11. inflight_order_id' \in Orders \cup {-1}
    BY <1>1, <1>10 DEF AlgoTypeOK
  <1>12. AlgoTypeOK'
    BY <1>1, <1>2, <1>3, <1>8, <1>9, <1>10, <1>11 DEF AlgoTypeOK
  <1>13. InflightIsKnown'
    BY <1>2, <1>10 DEF AlgoGoal, InflightIsKnown, Orders, apiVars
  <1> QED BY <1>1, <1>2, <1>12, <1>13, UnchangedTypes
      DEF AlgoGoal, FiledUnderId, SentIsKnown, apiVars
-----------------------------------------------------------------------------
(* Every step of a thread or of TWS keeps the types.                       *)
LEMMA TypeInvStep == TypeInv /\ [Next]_vars => TypeInv'
  <1> SUFFICES ASSUME TypeInv, [Next]_vars PROVE TypeInv'
    OBVIOUS
  <1>1. CASE Algo
    <2>1. AlgoGoal /\ EventInHand /\ PortTypeOK /\ disp \in Dispatching
      BY DEF TypeInv, TypeOK, Links, AlgoGoal
    <2>2. AlgoGoal'
      BY <1>1, <2>1, CancelPathTypes, SendPathTypes, OrderCbTypes DEF Algo, ActionThread
    <2>3. UNCHANGED <<portVars, disp>>
      BY <1>1 DEF Algo
    <2> QED BY <2>1, <2>2, <2>3, UnchangedTypes
        DEF TypeInv, TypeOK, Links, AlgoGoal, EventInHand
  <1>2. CASE UNCHANGED vars
    BY <1>2, UnchangedTypes, UnchangedLinks DEF vars, TypeInv, TypeOK, apiVars, algoVars
  <1> QED BY <1>1, <1>2, StrategyTypes, CallbackTypes, DispatchTypes, BooksTypes, PeerTypes DEF Next

(* The types and links hold in every state.                                *)
LEMMA TypeInvariant == Spec => []TypeInv
  BY TypeInvInit, TypeInvStep, PTL DEF Spec

(* Every value of the order flow stays in its range, for any number of     *)
(* orders, updates and notes: ids on their way to a map are ids IBApi      *)
(* knows, and no callback runs without an event (IBApi::orders.at,         *)
(* EventEngine::run).                                                      *)
THEOREM FlowTypeCorrect == Spec => []TypeOK
  <1>1. TypeInv => TypeOK
    BY DEF TypeInv
  <1> QED BY <1>1, TypeInvariant, PTL
-----------------------------------------------------------------------------
(* Why order_cancelled always has an update that waits for it: the thread  *)
(* that sets it puts the update back before it takes anything else.        *)
WaitsForItsEnd ==
    /\ order_cancelled => inflight_order_id > 0
    /\ order_cancelled => Retries # {} \/ pcA \in {"cancel_error", "requeue", "terminated"}
    /\ pcA \in {"cancel_error", "requeue"} => upd.retry
    /\ pcA \in Sending => ~order_cancelled

(* Why no order is cancelled twice: an id that was not given out, an order *)
(* being sent and an order in flight that was not cancelled have no        *)
(* request to cancel at TWS.                                               *)
CancelledAtMostOnce ==
    /\ CancelOnce
    /\ \A id \in Orders : id >= m_order_id => orders[id] = NoOrder /\ book[id].cancels = 0
    /\ pcA \in {"forward", "place", "place_error", "track"} => book[req.order_id].cancels = 0
    /\ inflight_order_id \in Orders /\ ~order_cancelled =>
          book[inflight_order_id].cancels = 0

(* Appending to the algo's queue leaves the updates to be retried there.   *)
LEMMA RetryAppended ==
    ASSUME AlgoTypeOK, NEW event \in OrderEvents \cup PosUpdates, aq' = Append(aq, event)
    PROVE  /\ Retries # {} => Retries' # {}
           /\ event.e_type = "algo_pos_update" /\ event.retry => Retries' # {}
  <1>1. Len(aq') = Len(aq) + 1 /\ Len(aq) \in Nat
    BY AppendProperties DEF AlgoTypeOK
  <1>2. \A i \in 1 .. Len(aq) : aq'[i] = aq[i]
    BY AppendProperties DEF AlgoTypeOK
  <1>3. aq'[Len(aq) + 1] = event
    BY AppendProperties DEF AlgoTypeOK
  <1>4. ASSUME NEW i \in Retries PROVE i \in Retries'
    BY <1>1, <1>2, <1>4 DEF Retries
  <1>5. event.e_type = "algo_pos_update" /\ event.retry => Len(aq) + 1 \in Retries'
    BY <1>1, <1>3 DEF Retries
  <1> QED BY <1>4, <1>5

(* Taking something else off the algo's queue leaves them there as well.   *)
LEMMA RetryLeftBehind ==
    ASSUME AlgoTypeOK, aq # << >>, aq' = Tail(aq),
           ~(Head(aq).e_type = "algo_pos_update" /\ Head(aq).retry), Retries # {}
    PROVE  Retries' # {}
  <1>1. PICK i \in 1 .. Len(aq) : aq[i].e_type = "algo_pos_update" /\ aq[i].retry
    BY DEF Retries
  <1>2. aq[1] = Head(aq)
    BY DEF AlgoTypeOK
  <1>3. i # 1
    BY <1>1, <1>2
  <1>4. Len(aq) \in Nat /\ Len(aq') = Len(aq) - 1 /\ \A k \in 1 .. Len(aq') : aq'[k] = aq[k + 1]
    BY HeadTailProperties DEF AlgoTypeOK
  <1>5. i - 1 \in 1 .. Len(aq') /\ aq'[i - 1] = aq[i]
    BY <1>1, <1>3, <1>4
  <1>6. i - 1 \in Retries'
    BY <1>1, <1>5 DEF Retries
  <1> QED BY <1>6

(* At the start nothing was cancelled.                                     *)
LEMMA WaitsInit == Init => WaitsForItsEnd
  BY DEF Init, AlgoInit, WaitsForItsEnd, Sending

(* Every step keeps an update that waits for each cancellation.            *)
LEMMA WaitsStep == TypeInv /\ WaitsForItsEnd /\ [Next]_vars => WaitsForItsEnd'
  <1> SUFFICES ASSUME TypeInv, WaitsForItsEnd, [Next]_vars PROVE WaitsForItsEnd'
    OBVIOUS
  <1>1. AlgoTypeOK /\ SentIsKnown
    BY DEF TypeInv, TypeOK, Links
  <1>2. CASE UNCHANGED <<order_cancelled, inflight_order_id, pcA, upd, aq>>
    BY <1>2 DEF WaitsForItsEnd, Retries
  <1>3. ASSUME NEW event \in OrderEvents \cup PosUpdates, aq' = Append(aq, event),
               UNCHANGED <<order_cancelled, inflight_order_id, pcA, upd>>
        PROVE  WaitsForItsEnd'
    <2>1. Retries # {} => Retries' # {}
      BY <1>1, <1>3, RetryAppended
    <2> QED BY <2>1, <1>3 DEF WaitsForItsEnd
  <1>4. CASE Strategy
    <2>1. PICK target \in Targets : mq_message_cb(target)
      BY <1>4 DEF Strategy
    <2>2. PosUpdate(target, FALSE) \in PosUpdates
      BY TargetsAreInts DEF PosUpdate, PosUpdates
    <2>3. aq' = Append(aq, PosUpdate(target, FALSE))
             /\ UNCHANGED <<order_cancelled, inflight_order_id, pcA, upd>>
      BY <2>1 DEF mq_message_cb
    <2> QED BY <2>2, <2>3, <1>3
  <1>5. CASE ToAlgoEngine
    <2>1. aq' = Append(aq, OrderEvent(disp.data))
             /\ UNCHANGED <<order_cancelled, inflight_order_id, pcA, upd>>
      BY <1>5 DEF ToAlgoEngine, event_engine_order_cb
    <2>2. disp.data \in OrderData
      BY <1>5 DEF ToAlgoEngine, RunCallback, TypeInv, TypeOK, Links, EventInHand, Dispatching
    <2>3. OrderEvent(disp.data) \in OrderEvents
      BY <2>2 DEF OrderEvent, OrderEvents
    <2> QED BY <2>1, <2>3, <1>3
  <1>6. CASE CancelInflight
    <2>1. /\ inflight_order_id > 0 /\ order_cancelled' = TRUE
          /\ upd' = PosUpdate(Head(aq).pos, TRUE) /\ pcA' \in {"requeue", "cancel_error"}
          /\ UNCHANGED inflight_order_id
      BY <1>6 DEF CancelInflight
    <2> QED BY <2>1 DEF WaitsForItsEnd, PosUpdate, Sending
  <1>7. CASE ForwardCancelError
    BY <1>7 DEF ForwardCancelError, WaitsForItsEnd, Sending
  <1>8. CASE WaitForCancel
    BY <1>8 DEF WaitForCancel, WaitsForItsEnd, Sending
  <1>9. CASE LatencyTooHigh
    BY <1>9 DEF LatencyTooHigh, WaitsForItsEnd, Sending
  <1>10. CASE Requeue
    <2>1. /\ pcA = "requeue" /\ aq' = Append(aq, upd) /\ pcA' = "idle"
          /\ UNCHANGED <<inflight_order_id, order_cancelled>>
      BY <1>10 DEF Requeue
    <2>2. upd \in PosUpdates /\ upd.retry /\ upd.e_type = "algo_pos_update"
      BY <2>1, <1>1 DEF WaitsForItsEnd, AlgoTypeOK, PosUpdates
    <2>3. Retries' # {}
      BY <2>1, <2>2, <1>1, RetryAppended
    <2> QED BY <2>1, <2>3 DEF WaitsForItsEnd, Sending
  <1>11. ASSUME NEW pnl_ok \in BOOLEAN, Retarget(pnl_ok) PROVE WaitsForItsEnd'
    <2>1. /\ pcA = "idle" /\ ~(inflight_order_id > 0) /\ pcA' \in {"idle", "insert"}
          /\ UNCHANGED <<inflight_order_id, order_cancelled>>
      BY <1>11 DEF Retarget, Pops
    <2>2. ~order_cancelled
      BY <2>1 DEF WaitsForItsEnd
    <2> QED BY <2>1, <2>2 DEF WaitsForItsEnd
  <1>12. CASE InsertNewOrder
    BY <1>12 DEF InsertNewOrder, WaitsForItsEnd, Sending
  <1>13. CASE ForwardNewOrder
    BY <1>13 DEF ForwardNewOrder, WaitsForItsEnd, Sending
  <1>14. CASE PlaceNewOrder
    BY <1>14 DEF PlaceNewOrder, WaitsForItsEnd, Sending
  <1>15. CASE Track
    BY <1>15 DEF Track, WaitsForItsEnd, Sending
  <1>16. CASE order_cb
    <2>1. /\ pcA = "idle" /\ aq # << >> /\ Head(aq).e_type = "order_data" /\ aq' = Tail(aq)
          /\ UNCHANGED pcA
      BY <1>16 DEF order_cb
    <2>2. Retries # {} => Retries' # {}
      BY <2>1, <1>1, RetryLeftBehind
    <2>3. order_cancelled' => order_cancelled /\ inflight_order_id' = inflight_order_id
      <3>1. UNCHANGED <<order_cancelled, inflight_order_id>> \/ Settle(active_order(Head(aq).data))
        BY <1>16 DEF order_cb
      <3>2. CASE UNCHANGED <<order_cancelled, inflight_order_id>>
        BY <3>2
      <3>3. CASE Settle(active_order(Head(aq).data))
        BY <3>3 DEF Settle
      <3> QED BY <3>1, <3>2, <3>3
    <2> QED BY <2>1, <2>2, <2>3 DEF WaitsForItsEnd, Sending
  <1>17. CASE Algo
    BY <1>17, <1>6, <1>7, <1>8, <1>9, <1>10, <1>11, <1>12, <1>13, <1>14, <1>15, <1>16
    DEF Algo, ActionThread
  <1>18. CASE Callback \/ Books \/ Peer \/ UNCHANGED vars
    BY <1>18, <1>2 DEF Callback, Books, Peer, vars, algoVars
  <1>19. CASE PopEvent \/ ToPortfolio \/ ToRiskManager
    BY <1>19, <1>2 DEF PopEvent, ToPortfolio, ToRiskManager, algoVars
  <1> QED BY <1>4, <1>5, <1>17, <1>18, <1>19 DEF Next, Dispatch

(* order_cancelled is set only while an order is in flight and an update   *)
(* waits for its end, whatever the strategy sends, TWS answers or the      *)
(* connection does: the next update does not end the process for an order  *)
(* that is long gone (AlgoEngine::update_pos_cb, order_cb).                *)
THEOREM CancelledOnlyForARetry == Spec => []CancelledForARetry
  <1>1. WaitsForItsEnd => CancelledForARetry
    BY DEF WaitsForItsEnd, CancelledForARetry
  <1> QED BY <1>1, WaitsInit, WaitsStep, TypeInvariant, PTL DEF Spec
-----------------------------------------------------------------------------
(* At the start no order was asked to cancel.                              *)
LEMMA CancelsInit == Init => CancelledAtMostOnce
  BY DEF Init, TwsInit, ApiInit, AlgoInit, Absent, CancelledAtMostOnce, CancelOnce, Orders

(* The callback thread changes only snapshots that exist.                  *)
LEMMA UnknownStaysUnknown ==
    ASSUME TypeInv, Callback
    PROVE  /\ \A id \in Orders : orders[id] = NoOrder => orders'[id] = NoOrder
           /\ UNCHANGED <<book, m_order_id, algoVars>>
  <1>1. ApiTypeOK /\ TwsTypeOK /\ FiledUnderId
    BY DEF TypeInv, TypeOK, Links
  <1>2. CASE ProcessMessage
    <2> DEFINE msg == Head(wire)
    <2>1. msg \in Messages
      BY <1>1, <1>2, HeadTailProperties DEF ProcessMessage, TwsTypeOK
    <2>2. msg.id \in Orders
      BY <2>1 DEF Messages
    <2>3. orders' = orders
             \/ (orders[msg.id] # NoOrder /\ \E th \in ApiThreads : \E data :
                    data.order_id = orders[msg.id].order_id /\ Snapshot(th, data))
      <3> DEFINE status == [orders[msg.id] EXCEPT !.status = msg.status,
                                                  !.traded_quantity = msg.filled,
                                                  !.avg_trade_price = msg.px]
                 commission == [orders[msg.id] EXCEPT !.commission = msg.commission]
                 code == [orders[msg.id] EXCEPT !.error_code = TRUE]
      <3>1. CASE orders[msg.id] = NoOrder
        BY <1>2, <3>1 DEF ProcessMessage
      <3> SUFFICES ASSUME orders[msg.id] # NoOrder
                   PROVE  \E th \in ApiThreads : \E data :
                              data.order_id = orders[msg.id].order_id /\ Snapshot(th, data)
        BY <3>1
      <3>2. Snapshot("callback", status) \/ Snapshot("callback", commission)
               \/ Snapshot("callback", code)
        BY <1>2 DEF ProcessMessage, orderStatus, openOrder, error
      <3>3. orders[msg.id] \in OrderData
        BY <1>1, <2>2 DEF ApiTypeOK
      <3>4. /\ status.order_id = orders[msg.id].order_id
            /\ commission.order_id = orders[msg.id].order_id
            /\ code.order_id = orders[msg.id].order_id
        BY <3>3 DEF OrderData
      <3> HIDE DEF status, commission, code
      <3> QED BY <3>2, <3>4 DEF ApiThreads
    <2>4. UNCHANGED <<book, m_order_id, algoVars>>
      BY <1>2 DEF ProcessMessage, Callback
    <2>5. CASE orders' = orders
      BY <2>4, <2>5
    <2>6. CASE orders[msg.id] # NoOrder /\ \E th \in ApiThreads : \E data :
                  data.order_id = orders[msg.id].order_id /\ Snapshot(th, data)
      <3>1. orders[msg.id].order_id = msg.id
        BY <1>1, <2>2, <2>6 DEF FiledUnderId
      <3>2. \A id \in Orders : id # msg.id => orders'[id] = orders[id]
        BY <1>1, <2>6, <3>1 DEF Snapshot, ApiTypeOK
      <3> QED BY <2>4, <2>6, <3>2
    <2> QED BY <2>3, <2>5, <2>6
  <1>3. CASE ForwardMessage
    BY <1>3 DEF ForwardMessage, on_order, twsVars, Callback
  <1> QED BY <1>2, <1>3 DEF Callback

(* TWS never forgets or invents a request to cancel.                       *)
LEMMA PeerKeepsCancels ==
    ASSUME TypeInv, Peer
    PROVE  \A id \in Orders : book'[id].cancels = book[id].cancels
  <1>1. book \in [Orders -> BookEntries]
    BY DEF TypeInv, TypeOK, TwsTypeOK
  <1>2. ASSUME NEW id \in Orders, NEW state, NEW status, NEW filled,
               Report(id, state, status, filled)
        PROVE  \A i \in Orders : book'[i].cancels = book[i].cancels
    BY <1>1, <1>2 DEF Report, BookEntries
  <1>3. ASSUME NEW id \in Orders, Reject(id)
        PROVE  \A i \in Orders : book'[i].cancels = book[i].cancels
    BY <1>1, <1>3 DEF Reject, BookEntries
  <1>4. ASSUME NEW id \in Orders, Acknowledge(id) \/ Fill(id) \/ Cancel(id)
        PROVE  \A i \in Orders : book'[i].cancels = book[i].cancels
    BY <1>2, <1>4 DEF Acknowledge, Fill, Cancel
  <1>5. CASE Disconnect
    BY <1>5 DEF Disconnect
  <1>6. ASSUME NEW id, NEW kind, Note(id, kind) PROVE UNCHANGED book
    BY <1>6 DEF Note
  <1>7. CASE TwsStep
    BY <1>3, <1>4, <1>6, <1>7 DEF TwsStep, Working
  <1> QED BY <1>5, <1>7 DEF Peer

(* Every step asks an order to cancel at most once.                        *)
LEMMA CancelsStep == TypeInv /\ CancelledAtMostOnce /\ [Next]_vars => CancelledAtMostOnce'
  <1> SUFFICES ASSUME TypeInv, CancelledAtMostOnce, [Next]_vars PROVE CancelledAtMostOnce'
    OBVIOUS
  <1>1. AlgoTypeOK /\ ApiTypeOK /\ TwsTypeOK /\ Links
    BY DEF TypeInv, TypeOK
  <1>2. ASSUME \A id \in Orders : orders[id] = NoOrder => orders'[id] = NoOrder,
               \A id \in Orders : book'[id].cancels = book[id].cancels,
               UNCHANGED <<m_order_id, pcA, req, inflight_order_id, order_cancelled>>
        PROVE  CancelledAtMostOnce'
    BY <1>1, <1>2 DEF CancelledAtMostOnce, CancelOnce, Links, SentIsKnown
  <1>3. CASE Callback
    BY <1>2, <1>3, UnknownStaysUnknown DEF algoVars
  <1>4. CASE Peer
    <2>1. UNCHANGED <<apiVars, algoVars>>
      BY <1>4 DEF Peer
    <2> QED BY <2>1, <1>2, <1>4, PeerKeepsCancels DEF apiVars, algoVars
  <1>5. CASE Strategy \/ Books \/ Dispatch \/ UNCHANGED vars
    <2>1. UNCHANGED <<book, orders, m_order_id, pcA, req, inflight_order_id, order_cancelled>>
      <3>1. CASE Strategy
        BY <3>1 DEF Strategy, mq_message_cb, twsVars, apiVars
      <3>2. CASE Books \/ UNCHANGED vars
        BY <3>2 DEF Books, vars, twsVars, apiVars, algoVars
      <3>3. CASE PopEvent
        BY <3>3 DEF PopEvent, twsVars, algoVars
      <3>4. CASE ToPortfolio \/ ToRiskManager \/ ToAlgoEngine
        BY <3>4 DEF ToPortfolio, ToRiskManager, ToAlgoEngine, RunCallback,
           event_engine_order_cb, twsVars, apiVars, algoVars
      <3> QED BY <1>5, <3>1, <3>2, <3>3, <3>4 DEF Dispatch
    <2> QED BY <2>1, <1>2
  <1>6. ASSUME UNCHANGED <<book, orders, m_order_id, req>>,
               pcA' \in {"forward", "place", "place_error", "track"} =>
                  pcA \in {"forward", "place", "place_error", "track"},
               UNCHANGED <<inflight_order_id, order_cancelled>>
                  \/ inflight_order_id' = -1
        PROVE  CancelledAtMostOnce'
    BY <1>1, <1>6 DEF CancelledAtMostOnce, CancelOnce, Orders
  <1>7. CASE CancelInflight
    <2>1. /\ inflight_order_id > 0 /\ ~order_cancelled /\ order_cancelled' = TRUE
          /\ cancelOrder(inflight_order_id)
          /\ pcA' \in {"requeue", "cancel_error"}
          /\ UNCHANGED <<req, inflight_order_id, m_order_id>>
      BY <1>7 DEF CancelInflight
    <2>2. inflight_order_id \in Orders /\ orders[inflight_order_id] # NoOrder
             /\ book[inflight_order_id].cancels = 0
      BY <1>1, <2>1 DEF AlgoTypeOK, Links, InflightIsKnown, CancelledAtMostOnce
    <2>3. book \in [Orders -> BookEntries] /\ book[inflight_order_id] \in BookEntries
      BY <1>1, <2>2 DEF TwsTypeOK
    <2>4. \A id \in Orders : book'[id].cancels =
             IF id = inflight_order_id /\ connected THEN 1 ELSE book[id].cancels
      BY <2>1, <2>2, <2>3 DEF cancelOrder, RequestCancel, BookEntries
    <2>5. \A id \in Orders : orders[id] = NoOrder => orders'[id] = NoOrder
      <3>1. orders[inflight_order_id] \in OrderData
               /\ orders[inflight_order_id].order_id = inflight_order_id
        BY <1>1, <2>2 DEF ApiTypeOK, Links, FiledUnderId
      <3>2. [orders[inflight_order_id] EXCEPT !.error_code = TRUE].order_id = inflight_order_id
        BY <3>1 DEF OrderData
      <3> QED BY <1>1, <2>1, <2>2, <3>2 DEF cancelOrder, error, Snapshot, ApiTypeOK
    <2>6. \A id \in Orders : id >= m_order_id => id # inflight_order_id
      BY <2>2 DEF CancelledAtMostOnce
    <2>7. CancelOnce'
      BY <2>4 DEF CancelledAtMostOnce, CancelOnce
    <2> QED BY <2>1, <2>4, <2>5, <2>6, <2>7 DEF CancelledAtMostOnce
  <1>8. CASE ForwardCancelError \/ WaitForCancel \/ LatencyTooHigh \/ Requeue
    BY <1>8, <1>6 DEF ForwardCancelError, on_order, WaitForCancel, LatencyTooHigh, Requeue,
       twsVars, apiVars
  <1>9. ASSUME NEW pnl_ok \in BOOLEAN, Retarget(pnl_ok) PROVE CancelledAtMostOnce'
    <2>1. pcA = "idle" /\ pcA' \in {"idle", "insert"}
             /\ UNCHANGED <<book, orders, m_order_id, inflight_order_id, order_cancelled>>
      BY <1>9 DEF Retarget, Pops, twsVars, apiVars
    <2> QED BY <2>1 DEF CancelledAtMostOnce, CancelOnce
  <1>10. CASE InsertNewOrder
    <2>1. /\ m_order_id \in Orders /\ m_order_id' = m_order_id + 1
          /\ Snapshot("sender", NewOrder(m_order_id, req.action, req.quantity))
          /\ req' = [req EXCEPT !.order_id = m_order_id]
          /\ UNCHANGED <<book, inflight_order_id, order_cancelled>>
      BY <1>10 DEF InsertNewOrder, InsertOrder, twsVars
    <2>2. req'.order_id = m_order_id
      BY <1>1, <2>1 DEF AlgoTypeOK, Requests
    <2>3. book[m_order_id].cancels = 0
      BY <2>1 DEF CancelledAtMostOnce, Orders
    <2>4. \A id \in Orders : id # m_order_id => orders'[id] = orders[id]
      BY <1>1, <2>1 DEF Snapshot, NewOrder, ApiTypeOK
    <2>5. \A id \in Orders : id >= m_order_id' => id >= m_order_id /\ id # m_order_id
      BY <2>1 DEF Orders
    <2> QED BY <2>1, <2>2, <2>3, <2>4, <2>5 DEF CancelledAtMostOnce, CancelOnce
  <1>11. CASE ForwardNewOrder
    BY <1>11, <1>6 DEF ForwardNewOrder, on_order, twsVars
  <1>12. CASE PlaceNewOrder
    <2>1. /\ pcA = "place" /\ placeOrder(req.order_id)
          /\ UNCHANGED <<req, m_order_id, inflight_order_id, order_cancelled>>
      BY <1>12 DEF PlaceNewOrder
    <2>2. req.order_id \in Orders /\ orders[req.order_id] # NoOrder
             /\ book[req.order_id].cancels = 0
      BY <1>1, <2>1 DEF Links, SentIsKnown, CancelledAtMostOnce
    <2>3. book \in [Orders -> BookEntries]
      BY <1>1 DEF TwsTypeOK
    <2>4. \A id \in Orders : book'[id].cancels = book[id].cancels
      <3> DEFINE entry == [Absent EXCEPT !.state = "working",
                                         !.action = orders[req.order_id].action,
                                         !.quantity = orders[req.order_id].total_quantity]
      <3>1. entry.cancels = 0
        BY DEF Absent
      <3>2. book' = book \/ book' = [book EXCEPT ![req.order_id] = entry]
        BY <2>1 DEF placeOrder, Accept
      <3> HIDE DEF entry
      <3> QED BY <2>2, <2>3, <3>1, <3>2
    <2>5. \A id \in Orders : orders[id] = NoOrder => orders'[id] = NoOrder
      <3>1. orders[req.order_id] \in OrderData
               /\ orders[req.order_id].order_id = req.order_id
        BY <1>1, <2>2 DEF ApiTypeOK, Links, FiledUnderId
      <3>2. [orders[req.order_id] EXCEPT !.error_code = TRUE].order_id = req.order_id
        BY <3>1 DEF OrderData
      <3> QED BY <1>1, <2>1, <2>2, <3>2 DEF placeOrder, error, Snapshot, ApiTypeOK
    <2> QED BY <2>1, <2>2, <2>4, <2>5 DEF CancelledAtMostOnce, CancelOnce
  <1>13. CASE Track
    <2>1. /\ pcA = "track" /\ pcA' = "idle" /\ inflight_order_id' = req.order_id
          /\ UNCHANGED <<book, orders, m_order_id, order_cancelled>>
      BY <1>13 DEF Track, twsVars, apiVars
    <2> QED BY <2>1 DEF CancelledAtMostOnce, CancelOnce
  <1>14. CASE order_cb
    <2>1. UNCHANGED <<book, orders, m_order_id, req, pcA>>
      BY <1>14 DEF order_cb, twsVars, apiVars
    <2>2. UNCHANGED <<inflight_order_id, order_cancelled>> \/ inflight_order_id' = -1
      <3>1. order_cancelled \in BOOLEAN
        BY <1>1 DEF AlgoTypeOK
      <3>2. UNCHANGED <<inflight_order_id, order_cancelled>> \/ Settle(active_order(Head(aq).data))
        BY <1>14 DEF order_cb
      <3>3. CASE Settle(active_order(Head(aq).data)) /\ active_order(Head(aq).data)
        BY <3>1, <3>3 DEF Settle
      <3>4. CASE Settle(active_order(Head(aq).data)) /\ ~active_order(Head(aq).data)
        BY <3>4 DEF Settle
      <3> QED BY <3>2, <3>3, <3>4
    <2> QED BY <2>1, <2>2, <1>6
  <1>15. CASE Algo
    BY <1>15, <1>7, <1>8, <1>9, <1>10, <1>11, <1>12, <1>13, <1>14 DEF Algo, ActionThread
  <1> QED BY <1>3, <1>4, <1>5, <1>15 DEF Next

(* No order is asked to cancel twice, however often its update goes around *)
(* the queue, whatever TWS answers in between and whether the connection   *)
(* holds or not (order_cancelled in AlgoEngine::update_pos_cb).            *)
THEOREM NoSecondCancel == Spec => []CancelOnce
  <1>1. CancelledAtMostOnce => CancelOnce
    BY DEF CancelledAtMostOnce
  <1> QED BY <1>1, CancelsInit, CancelsStep, TypeInvariant, PTL DEF Spec
-----------------------------------------------------------------------------
(* Appending to a queue.                                                   *)
LEMMA Appended ==
    ASSUME NEW S, NEW q \in Seq(S), NEW e \in S
    PROVE  /\ Append(q, e) \in Seq(S)
           /\ Len(Append(q, e)) = Len(q) + 1
           /\ \A i \in 1 .. Len(q) : Append(q, e)[i] = q[i]
           /\ Append(q, e)[Len(q) + 1] = e
           /\ Len(q) \in Nat
  BY AppendProperties, LenProperties

(* Taking the head of a queue off.                                         *)
LEMMA Taken ==
    ASSUME NEW S, NEW q \in Seq(S), q # << >>
    PROVE  /\ Tail(q) \in Seq(S)
           /\ Len(q) \in Nat /\ Len(q) >= 1
           /\ Len(Tail(q)) = Len(q) - 1
           /\ \A i \in 1 .. Len(q) - 1 : Tail(q)[i] = q[i + 1]
           /\ Head(q) = q[1] /\ Head(q) \in S
  BY HeadTailProperties, LenProperties, EmptySeq, ElementOfSeq
-----------------------------------------------------------------------------
(* A step of TWS, IBApi or the action thread is, for the orders, of one of *)
(* the kinds below.                                                        *)
Unplaced(id) == book[id].state = "absent"

(* The order is known to IBApi and not yet given to TWS.                   *)
Unsent == {"forward", "place", "place_error"}

(* TWS tells of an order it has: a status is the one it has on record, and *)
(* what it has filled changes only along with a status.                    *)
Tells(id, msg, entry) ==
    /\ ~Unplaced(id) /\ entry.state # "absent" /\ entry.action = book[id].action
    /\ book' = [book EXCEPT ![id] = entry]
    /\ msg.id = id
    /\ wire' = Append(wire, msg)
    /\ msg.type = "orderStatus" => msg.filled = entry.filled /\ msg.px = AvgPrice(entry.filled)
    /\ msg.type # "orderStatus" => entry.filled = book[id].filled
    /\ UNCHANGED <<connected, orders, held, m_order_id, eq, pcA, req>>

Breaks ==
    /\ connected' = FALSE
    /\ UNCHANGED <<book, wire, orders, held, m_order_id, eq, pcA, req>>

(* The callback thread reads a message and takes a copy.                   *)
Reads(msg, data) ==
    /\ wire # << >> /\ msg = Head(wire) /\ wire' = Tail(wire)
    /\ held["callback"] = NoOrder
    /\ Snapshot("callback", data)
    /\ data.order_id = msg.id /\ data.action = orders[msg.id].action
    /\ msg.type = "orderStatus" =>
          data.traded_quantity = msg.filled /\ data.avg_trade_price = msg.px
    /\ msg.type # "orderStatus" =>
          /\ data.traded_quantity = orders[msg.id].traded_quantity
          /\ data.avg_trade_price = orders[msg.id].avg_trade_price
    /\ UNCHANGED <<book, connected, m_order_id, eq, pcA, req>>

(* A message about an order IBApi does not know is dropped.                *)
Drops ==
    /\ wire # << >> /\ orders[Head(wire).id] = NoOrder
    /\ wire' = Tail(wire)
    /\ UNCHANGED <<book, connected, orders, held, m_order_id, eq, pcA, req>>

(* A thread hands its copy to the event engine.                            *)
Hands(th) ==
    /\ on_order(th)
    /\ UNCHANGED <<book, wire, connected, req>>
    /\ th = "callback" => UNCHANGED pcA
    /\ th = "sender" => /\ pcA \in {"forward", "place_error", "cancel_error"}
                        /\ pcA' \notin {"forward", "place_error"}
                        /\ pcA' \in Unsent => pcA \in Unsent

(* The action thread begins to send an order.                              *)
Inserts ==
    /\ m_order_id \in Orders /\ m_order_id' = m_order_id + 1
    /\ Snapshot("sender", NewOrder(m_order_id, req.action, req.quantity))
    /\ pcA = "insert" /\ pcA' = "forward"
    /\ req' = [req EXCEPT !.order_id = m_order_id]
    /\ UNCHANGED <<book, wire, connected, eq>>

(* It gives the order to TWS.                                              *)
Places ==
    /\ pcA = "place" /\ pcA' = "track" /\ connected
    /\ Accept(req.order_id, orders[req.order_id].action, orders[req.order_id].total_quantity)
    /\ UNCHANGED <<wire, connected, orders, held, m_order_id, eq, req>>

(* It asks TWS to cancel one.                                              *)
Cancels(id) ==
    /\ pcA = "idle" /\ pcA' = "requeue" /\ connected
    /\ RequestCancel(id)
    /\ UNCHANGED <<wire, connected, orders, held, m_order_id, eq, req>>

(* It finds the socket down when it sends, or cancels, an order.           *)
Fails(id) ==
    /\ ~connected /\ orders[id] # NoOrder
    /\ error("sender", id)
    /\ pcA' \in Unsent => pcA \in Unsent
    /\ UNCHANGED <<book, wire, connected, m_order_id, eq, req>>

(* The action thread does something else, and neither begins nor ends to   *)
(* send an order.                                                          *)
Aside ==
    /\ UNCHANGED <<book, wire, connected, orders, held, m_order_id, eq>>
    /\ UNCHANGED <<pcA, req>> \/ (pcA \notin Unsent /\ pcA' \notin Unsent)

(* TWS tells of an order it has, or the socket breaks.                     *)
LEMMA PeerTells ==
    ASSUME TypeInv, Peer
    PROVE  Breaks \/ \E id \in Orders, msg \in Messages, entry \in BookEntries :
                         Tells(id, msg, entry)
  <1>1. book \in [Orders -> BookEntries]
    BY DEF TypeInv, TypeOK, TwsTypeOK
  <1>2. UNCHANGED <<orders, held, m_order_id, eq, pcA, req>>
    BY DEF Peer, apiVars, algoVars
  <1>3. ASSUME NEW id \in Working, NEW state \in {"working", "done"},
               NEW status \in Statuses, NEW filled \in Nat,
               Report(id, state, status, filled), UNCHANGED connected
        PROVE  \E msg \in Messages, entry \in BookEntries : Tells(id, msg, entry)
    <2> DEFINE entry == [book[id] EXCEPT !.state = state, !.status = status, !.filled = filled]
               msg == StatusMsg(id, status, filled)
    <2>1. id \in Orders /\ book[id].state = "working" /\ book[id] \in BookEntries
      BY <1>1 DEF Working
    <2>2. entry \in BookEntries /\ entry.state = state /\ entry.filled = filled
             /\ entry.action = book[id].action
      BY <2>1 DEF BookEntries
    <2>3. msg \in Messages /\ msg.id = id /\ msg.type = "orderStatus"
             /\ msg.filled = filled /\ msg.px = AvgPrice(filled)
      BY <2>1 DEF Messages, StatusMsg, AvgPrice
    <2>4. book' = [book EXCEPT ![id] = entry] /\ wire' = Append(wire, msg)
      BY <1>1, <1>3, <2>1 DEF Report
    <2> HIDE DEF entry, msg
    <2>5. Tells(id, msg, entry)
      BY <1>2, <1>3, <2>1, <2>2, <2>3, <2>4 DEF Tells, Unplaced
    <2> QED BY <2>2, <2>3, <2>5
  <1>4. ASSUME NEW id \in Working, Reject(id), UNCHANGED connected
        PROVE  \E msg \in Messages, entry \in BookEntries : Tells(id, msg, entry)
    <2> DEFINE entry == [book[id] EXCEPT !.state = "done", !.status = "inactive"]
               msg == ErrorMsg(id)
    <2>1. id \in Orders /\ book[id].state = "working" /\ book[id] \in BookEntries
      BY <1>1 DEF Working
    <2>2. entry \in BookEntries /\ entry.state = "done" /\ entry.filled = book[id].filled
             /\ entry.action = book[id].action
      BY <2>1 DEF BookEntries, Statuses
    <2>3. msg \in Messages /\ msg.id = id /\ msg.type = "error"
      BY <2>1 DEF Messages, ErrorMsg
    <2>4. book' = [book EXCEPT ![id] = entry] /\ wire' = Append(wire, msg)
      BY <1>1, <1>4, <2>1 DEF Reject
    <2> HIDE DEF entry, msg
    <2>5. Tells(id, msg, entry)
      BY <1>2, <1>4, <2>1, <2>2, <2>3, <2>4 DEF Tells, Unplaced
    <2> QED BY <2>2, <2>3, <2>5
  <1>5. ASSUME NEW id \in Working \cup Done, NEW kind \in NoteKinds, Note(id, kind),
               UNCHANGED connected
        PROVE  \E msg \in Messages, entry \in BookEntries : Tells(id, msg, entry)
    <2> DEFINE entry == book[id]
               status == StatusMsg(id, book[id].status, book[id].filled)
               commission == CommissionMsg(id)
               code == ErrorMsg(id)
    <2>1. id \in Orders /\ book[id].state # "absent" /\ book[id] \in BookEntries
      BY <1>1 DEF Working, Done
    <2>2. book[id].status \in Statuses /\ book[id].filled \in Nat
      BY <2>1 DEF BookEntries
    <2>3. status \in Messages /\ status.id = id /\ status.type = "orderStatus"
             /\ status.filled = entry.filled /\ status.px = AvgPrice(entry.filled)
      BY <2>1, <2>2 DEF Messages, StatusMsg, AvgPrice
    <2>4. commission \in Messages /\ commission.id = id /\ commission.type = "openOrder"
      BY <2>1, <2>2 DEF Messages, CommissionMsg, Commission
    <2>5. code \in Messages /\ code.id = id /\ code.type = "error"
      BY <2>1 DEF Messages, ErrorMsg
    <2>6. book' = [book EXCEPT ![id] = entry]
      BY <1>1, <1>5, <2>1 DEF Note
    <2>7. kind \in {"repeat", "commission", "error"}
      BY NoteKindsAreKinds
    <2>8. \E msg \in {status, commission, code} : wire' = Append(wire, msg)
      BY <1>5, <2>7 DEF Note
    <2> HIDE DEF entry, status, commission, code
    <2>9. PICK msg \in {status, commission, code} : wire' = Append(wire, msg)
      BY <2>8
    <2>10. msg \in Messages /\ msg.id = id
             /\ (msg.type = "orderStatus" =>
                   msg.filled = entry.filled /\ msg.px = AvgPrice(entry.filled))
      BY <2>3, <2>4, <2>5
    <2>11. entry = book[id]
      BY DEF entry
    <2>12. Tells(id, msg, entry)
      BY <1>2, <1>5, <2>1, <2>6, <2>9, <2>10, <2>11 DEF Tells, Unplaced, Note
    <2> QED BY <2>1, <2>10, <2>11, <2>12
  <1>6. ASSUME NEW id \in Working, Acknowledge(id) \/ Fill(id) \/ Cancel(id), UNCHANGED connected
        PROVE  \E msg \in Messages, entry \in BookEntries : Tells(id, msg, entry)
    <2>1. book[id].filled \in Nat /\ book[id].filled + 1 \in Nat /\ 0 \in Nat
      BY <1>1 DEF BookEntries, Working
    <2>2. {"submitted", "filled", "cancelled"} \subseteq Statuses
      BY DEF Statuses
    <2>3. CASE Acknowledge(id)
      <3>1. Report(id, "working", "submitted", 0)
        BY <2>3 DEF Acknowledge
      <3> QED BY <1>3, <1>6, <2>1, <2>2, <3>1
    <2>4. CASE Fill(id)
      <3> DEFINE filled == book[id].filled + 1
                 full == filled = book[id].quantity
                 state == IF full THEN "done" ELSE "working"
                 status == IF full THEN "filled" ELSE "submitted"
      <3>1. Report(id, state, status, filled)
        BY <2>4 DEF Fill
      <3>2. state \in {"working", "done"} /\ status \in Statuses /\ filled \in Nat
        BY <2>1, <2>2
      <3> HIDE DEF filled, full, state, status
      <3> QED BY <1>3, <1>6, <3>1, <3>2
    <2>5. CASE Cancel(id)
      <3>1. Report(id, "done", "cancelled", book[id].filled)
        BY <2>5 DEF Cancel
      <3> QED BY <1>3, <1>6, <2>1, <2>2, <3>1
    <2> QED BY <1>6, <2>3, <2>4, <2>5
  <1>7. CASE Disconnect
    BY <1>2, <1>7 DEF Disconnect, Breaks
  <1>8. CASE TwsStep
    <2>1. UNCHANGED connected
      BY <1>8 DEF TwsStep
    <2>2. Working \subseteq Orders /\ Done \subseteq Orders
      BY DEF Working, Done
    <2>3. CASE \E id \in Working : Acknowledge(id) \/ Fill(id) \/ Cancel(id) \/ Reject(id)
      BY <1>4, <1>6, <2>1, <2>2, <2>3
    <2>4. CASE \E id \in Working \cup Done, kind \in NoteKinds : Note(id, kind)
      BY <1>5, <2>1, <2>2, <2>4
    <2> QED BY <1>8, <2>3, <2>4 DEF TwsStep
  <1> QED BY <1>7, <1>8 DEF Peer

(* The callback thread reads a message, drops it, or hands over its copy.  *)
LEMMA CallbackReads ==
    ASSUME TypeInv, Callback
    PROVE  \/ Drops
           \/ Hands("callback")
           \/ \E msg \in Messages, data \in OrderData : Reads(msg, data)
  <1>1. ApiTypeOK /\ TwsTypeOK /\ FiledUnderId
    BY DEF TypeInv, TypeOK, Links
  <1>2. UNCHANGED <<pcA, req>>
    BY DEF Callback, algoVars
  <1>3. CASE ForwardMessage
    BY <1>2, <1>3 DEF ForwardMessage, Hands, twsVars
  <1>4. CASE ProcessMessage
    <2>1. PICK msg : msg = Head(wire)
      OBVIOUS
    <2>2. wire # << >> /\ msg \in Messages
      BY <1>1, <1>4, <2>1, Taken DEF ProcessMessage, TwsTypeOK
    <2>3. msg.id \in Orders
      BY <2>2 DEF Messages
    <2>4. /\ wire' = Tail(wire) /\ held["callback"] = NoOrder
          /\ UNCHANGED <<book, connected, m_order_id, eq, pcA, req>>
      BY <1>2, <1>4 DEF ProcessMessage
    <2>5. CASE orders[msg.id] = NoOrder
      <3>1. UNCHANGED <<orders, held>>
        BY <1>4, <2>1, <2>5 DEF ProcessMessage
      <3> QED BY <2>1, <2>2, <2>4, <2>5, <3>1 DEF Drops
    <2>6. CASE orders[msg.id] # NoOrder
      <3>1. orders[msg.id] \in OrderData /\ orders[msg.id].order_id = msg.id
        BY <1>1, <2>3, <2>6 DEF ApiTypeOK, FiledUnderId
      <3>2. \/ msg.type = "orderStatus" /\ orderStatus(msg)
            \/ msg.type = "openOrder" /\ openOrder(msg)
            \/ msg.type = "error" /\ error("callback", msg.id)
        BY <1>4, <2>1, <2>6 DEF ProcessMessage
      <3>3. ASSUME NEW data \in OrderData, Snapshot("callback", data), data.order_id = msg.id,
                   data.action = orders[msg.id].action,
                   msg.type = "orderStatus" =>
                      data.traded_quantity = msg.filled /\ data.avg_trade_price = msg.px,
                   msg.type # "orderStatus" =>
                      /\ data.traded_quantity = orders[msg.id].traded_quantity
                      /\ data.avg_trade_price = orders[msg.id].avg_trade_price
            PROVE  Reads(msg, data)
        BY <2>1, <2>2, <2>4, <3>3 DEF Reads
      <3>4. CASE msg.type = "orderStatus" /\ orderStatus(msg)
        <4>1. PICK data : data = [orders[msg.id] EXCEPT !.status = msg.status,
                                                        !.traded_quantity = msg.filled,
                                                        !.avg_trade_price = msg.px]
          OBVIOUS
        <4>2. msg.status \in Statuses /\ msg.filled \in Nat /\ msg.px \in Nat
          BY <2>2, <3>4 DEF Messages
        <4>3. data \in OrderData /\ data.order_id = msg.id /\ data.action = orders[msg.id].action
                /\ data.traded_quantity = msg.filled /\ data.avg_trade_price = msg.px
          BY <3>1, <4>1, <4>2 DEF OrderData
        <4>4. Snapshot("callback", data)
          BY <3>4, <4>1 DEF orderStatus
        <4> QED BY <3>3, <3>4, <4>3, <4>4, <2>2
      <3>5. CASE msg.type = "openOrder" /\ openOrder(msg)
        <4>1. PICK data : data = [orders[msg.id] EXCEPT !.commission = msg.commission]
          OBVIOUS
        <4>2. msg.commission \in Nat
          BY <2>2, <3>5 DEF Messages
        <4>3. data \in OrderData /\ data.order_id = msg.id /\ data.action = orders[msg.id].action
                /\ data.traded_quantity = orders[msg.id].traded_quantity
                /\ data.avg_trade_price = orders[msg.id].avg_trade_price
          BY <3>1, <4>1, <4>2 DEF OrderData
        <4>4. Snapshot("callback", data)
          BY <3>5, <4>1 DEF openOrder
        <4> QED BY <3>3, <3>5, <4>3, <4>4, <2>2
      <3>6. CASE msg.type = "error" /\ error("callback", msg.id)
        <4>1. PICK data : data = [orders[msg.id] EXCEPT !.error_code = TRUE]
          OBVIOUS
        <4>2. data \in OrderData /\ data.order_id = msg.id /\ data.action = orders[msg.id].action
                /\ data.traded_quantity = orders[msg.id].traded_quantity
                /\ data.avg_trade_price = orders[msg.id].avg_trade_price
          BY <3>1, <4>1 DEF OrderData
        <4>3. Snapshot("callback", data)
          BY <3>6, <4>1 DEF error
        <4> QED BY <3>3, <3>6, <4>2, <4>3, <2>2
      <3> QED BY <3>2, <3>4, <3>5, <3>6
    <2> QED BY <2>5, <2>6
  <1> QED BY <1>3, <1>4 DEF Callback

(* What the action thread does to the flow.                                *)
LEMMA AlgoKinds ==
    ASSUME TypeInv, Algo
    PROVE  \/ Hands("sender") \/ Inserts \/ Places \/ Aside
           \/ \E id \in Orders : Cancels(id) \/ Fails(id)
  <1>1. AlgoTypeOK /\ ApiTypeOK /\ TwsTypeOK /\ Links
    BY DEF TypeInv, TypeOK
  <1>2. CASE CancelInflight
    <2>1. /\ pcA = "idle" /\ pcA' = IF connected THEN "requeue" ELSE "cancel_error"
          /\ inflight_order_id > 0 /\ cancelOrder(inflight_order_id)
          /\ UNCHANGED <<req, wire, connected, m_order_id, eq>>
      BY <1>2 DEF CancelInflight, Pops
    <2>2. inflight_order_id \in Orders /\ orders[inflight_order_id] # NoOrder
      BY <1>1, <2>1 DEF AlgoTypeOK, Links, InflightIsKnown
    <2>3. Cancels(inflight_order_id) \/ Fails(inflight_order_id)
      BY <2>1, <2>2 DEF cancelOrder, Cancels, Fails, Unsent
    <2> QED BY <2>2, <2>3
  <1>3. CASE ForwardCancelError
    BY <1>3 DEF ForwardCancelError, Hands, Unsent, twsVars
  <1>4. CASE WaitForCancel \/ LatencyTooHigh \/ Requeue
    BY <1>4 DEF WaitForCancel, LatencyTooHigh, Requeue, Pops, Aside, Unsent, twsVars, apiVars
  <1>5. ASSUME NEW pnl_ok \in BOOLEAN, Retarget(pnl_ok) PROVE Aside
    <2>1. pcA = "idle" /\ pcA' \in {"idle", "insert"} /\ UNCHANGED <<twsVars, apiVars>>
      BY <1>5 DEF Retarget, Pops
    <2> QED BY <2>1 DEF Aside, Unsent, twsVars, apiVars
  <1>6. CASE InsertNewOrder
    BY <1>6 DEF InsertNewOrder, InsertOrder, Inserts, twsVars
  <1>7. CASE ForwardNewOrder
    BY <1>7 DEF ForwardNewOrder, Hands, Unsent, twsVars
  <1>8. CASE PlaceNewOrder
    <2>1. /\ pcA = "place" /\ pcA' = IF connected THEN "track" ELSE "place_error"
          /\ placeOrder(req.order_id)
          /\ UNCHANGED <<req, wire, connected, m_order_id, eq>>
      BY <1>8 DEF PlaceNewOrder
    <2>2. req.order_id \in Orders /\ orders[req.order_id] # NoOrder
      BY <1>1, <2>1 DEF Links, SentIsKnown
    <2>3. Places \/ Fails(req.order_id)
      BY <2>1, <2>2 DEF placeOrder, Places, Fails, Unsent
    <2> QED BY <2>2, <2>3
  <1>9. CASE Track
    BY <1>9 DEF Track, Aside, Unsent, twsVars, apiVars
  <1>10. CASE order_cb
    BY <1>10 DEF order_cb, Aside, twsVars, apiVars
  <1> QED BY <1>2, <1>3, <1>4, <1>5, <1>6, <1>7, <1>8, <1>9, <1>10 DEF Algo, ActionThread

(* What the event engine and the portfolio leave alone.                    *)
LEMMA DownstreamOnly ==
    ASSUME Dispatch \/ Books
    PROVE  UNCHANGED <<book, wire, connected, orders, held, m_order_id, pcA, req>>
  <1>1. CASE Books
    BY <1>1 DEF Books, twsVars, apiVars, algoVars
  <1>2. CASE PopEvent
    BY <1>2 DEF PopEvent, twsVars, algoVars
  <1>3. CASE ToPortfolio \/ ToRiskManager \/ ToAlgoEngine
    BY <1>3 DEF ToPortfolio, ToRiskManager, ToAlgoEngine, RunCallback,
       event_engine_order_cb, twsVars, apiVars, algoVars
  <1> QED BY <1>1, <1>2, <1>3 DEF Dispatch

(* Every step but those is of one of the kinds.                            *)
LEMMA StepKinds ==
    ASSUME TypeInv, [Next]_vars, ~(Dispatch \/ Books)
    PROVE  /\ UNCHANGED <<disp, portVars>>
           /\ \/ \E id \in Orders, msg \in Messages, entry \in BookEntries :
                    Tells(id, msg, entry)
              \/ Breaks
              \/ \E msg \in Messages, data \in OrderData : Reads(msg, data)
              \/ Drops
              \/ \E th \in ApiThreads : Hands(th)
              \/ Inserts \/ Places
              \/ \E id \in Orders : Cancels(id) \/ Fails(id)
              \/ Aside
  <1>1. CASE Strategy
    BY <1>1 DEF Strategy, mq_message_cb, Aside, twsVars, apiVars
  <1>2. CASE UNCHANGED vars
    BY <1>2 DEF vars, Aside, twsVars, apiVars, algoVars
  <1>3. CASE Algo
    BY <1>3, AlgoKinds DEF ApiThreads, Algo
  <1>4. CASE Callback
    BY <1>4, CallbackReads DEF ApiThreads, Callback
  <1>5. CASE Peer
    BY <1>5, PeerTells DEF Peer
  <1> QED BY <1>1, <1>2, <1>3, <1>4, <1>5 DEF Next
-----------------------------------------------------------------------------
(* What TWS has and what IBApi knows.  TWS only has, and only tells of,    *)
(* orders that IBApi filed before it sent them.                            *)
PlacedIsKnown ==
    /\ \A i \in 1 .. Len(wire) : ~Unplaced(wire[i].id)
    /\ \A id \in Orders :
          ~Unplaced(id) => orders[id] # NoOrder /\ orders[id].action = book[id].action
    /\ held["callback"] # NoOrder => ~Unplaced(held["callback"].order_id)

(* Ids are given out in order, and TWS has no order before it is placed.   *)
NewIsUnplaced ==
    /\ \A id \in Orders : id >= m_order_id => orders[id] = NoOrder
    /\ pcA \in Unsent => Unplaced(req.order_id)
    /\ connected /\ held["sender"] # NoOrder =>
          pcA = "forward" /\ held["sender"].order_id = req.order_id
    /\ \A id \in Orders : Unplaced(id) /\ orders[id] # NoOrder =>
          /\ orders[id].traded_quantity = 0
          /\ orders[id].avg_trade_price = 0
          /\ orders[id].commission = 0

(* The statuses of an order that are under way to IBApi.                   *)
StatusesOf(id) == {i \in 1 .. Len(wire) : wire[i].type = "orderStatus" /\ wire[i].id = id}

(* The last status under way tells what TWS filled, and at which price;    *)
(* when none is under way the snapshot does.                               *)
FillsAreTold ==
    \A id \in Orders :
        /\ \A i \in StatusesOf(id) : (\A j \in StatusesOf(id) : j <= i) =>
              wire[i].filled = book[id].filled /\ wire[i].px = AvgPrice(book[id].filled)
        /\ ~Unplaced(id) /\ StatusesOf(id) = {} =>
              /\ orders[id].traded_quantity = book[id].filled
              /\ orders[id].avg_trade_price = AvgPrice(book[id].filled)

PlacedInv == PlacedIsKnown /\ NewIsUnplaced /\ FillsAreTold

(* A snapshot replaces that of one order and becomes one thread's copy.    *)
LEMMA SnapshotTaken ==
    ASSUME ApiTypeOK, NEW th \in ApiThreads, NEW data \in OrderData, Snapshot(th, data)
    PROVE  /\ orders'[data.order_id] = data /\ data.order_id \in Orders
           /\ \A id \in Orders : id # data.order_id => orders'[id] = orders[id]
           /\ held'[th] = data /\ data # NoOrder
           /\ \A t \in ApiThreads : t # th => held'[t] = held[t]
  <1>1. data.order_id \in Orders
    BY DEF OrderData
  <1>2. data # NoOrder
    BY NoOrderIsNoData
  <1> QED BY <1>1, <1>2 DEF Snapshot, ApiTypeOK

(* The error the sender meets leaves the rest of the snapshot alone.       *)
LEMMA FailsTaken ==
    ASSUME TypeInv, NEW id \in Orders, Fails(id)
    PROVE  /\ \A i \in Orders : orders'[i] # NoOrder <=> orders[i] # NoOrder
           /\ \A i \in Orders : orders[i] # NoOrder =>
                 /\ orders'[i].action = orders[i].action
                 /\ orders'[i].traded_quantity = orders[i].traded_quantity
                 /\ orders'[i].avg_trade_price = orders[i].avg_trade_price
                 /\ orders'[i].commission = orders[i].commission
           /\ held'["callback"] = held["callback"]
           /\ held'["sender"].order_id = id /\ held'["sender"].action = orders[id].action
  <1>1. ApiTypeOK /\ orders[id] \in OrderData /\ orders[id].order_id = id
    BY DEF TypeInv, TypeOK, Links, FiledUnderId, ApiTypeOK, Fails
  <1>2. PICK data : data = [orders[id] EXCEPT !.error_code = TRUE]
    OBVIOUS
  <1>3. /\ data \in OrderData /\ data.order_id = id /\ data.action = orders[id].action
        /\ data.traded_quantity = orders[id].traded_quantity
        /\ data.avg_trade_price = orders[id].avg_trade_price
        /\ data.commission = orders[id].commission
    BY <1>1, <1>2 DEF OrderData
  <1>4. Snapshot("sender", data)
    BY <1>2 DEF Fails, error
  <1>5. /\ orders'[id] = data /\ data # NoOrder
        /\ \A i \in Orders : i # id => orders'[i] = orders[i]
        /\ held'["sender"] = data /\ held'["callback"] = held["callback"]
    BY <1>1, <1>3, <1>4, SnapshotTaken DEF ApiThreads
  <1>6. orders[id] # NoOrder
    BY DEF Fails
  <1> QED BY <1>3, <1>5, <1>6

(* Nothing is known, placed or told at the start.                          *)
LEMMA PlacedInit == Init => PlacedInv
  <1> SUFFICES ASSUME Init PROVE PlacedInv
    OBVIOUS
  <1>1. /\ book = [id \in Orders |-> Absent] /\ wire = << >> /\ pcA = "idle"
        /\ orders = [id \in Orders |-> NoOrder] /\ held = [th \in ApiThreads |-> NoOrder]
    BY DEF Init, TwsInit, ApiInit, AlgoInit
  <1>2. \A id \in Orders : Unplaced(id) /\ orders[id] = NoOrder
    BY <1>1 DEF Unplaced, Absent
  <1>3. held["callback"] = NoOrder /\ held["sender"] = NoOrder
    BY <1>1 DEF ApiThreads
  <1>4. 1 .. Len(wire) = {}
    BY <1>1
  <1> QED BY <1>1, <1>2, <1>3, <1>4
      DEF PlacedInv, PlacedIsKnown, NewIsUnplaced, FillsAreTold, StatusesOf, Unsent

(* TWS tells of an order it has.                                           *)
LEMMA TellsPlaced ==
    ASSUME TypeInv, PlacedInv, NEW id \in Orders, NEW msg \in Messages,
           NEW entry \in BookEntries, Tells(id, msg, entry)
    PROVE  PlacedInv'
  <1>1. book \in [Orders -> BookEntries] /\ wire \in Seq(Messages)
    BY DEF TypeInv, TypeOK, TwsTypeOK
  <1>2. PICK n : n = Len(wire)
    OBVIOUS
  <1>3. /\ n \in Nat /\ Len(wire') = n + 1
        /\ \A i \in 1 .. n : wire'[i] = wire[i]
        /\ wire'[n + 1] = msg /\ msg.id = id
    BY <1>1, <1>2, Appended DEF Tells
  <1>4. /\ book'[id] = entry /\ \A i \in Orders : i # id => book'[i] = book[i]
        /\ \A i \in Orders : Unplaced(i)' <=> Unplaced(i)
        /\ \A i \in Orders : book'[i].action = book[i].action
    BY <1>1 DEF Tells, Unplaced
  <1>5. UNCHANGED <<connected, orders, held, m_order_id, eq, pcA, req>>
    BY DEF Tells
  <1>6. \A i \in 1 .. n : wire[i].id \in Orders
    <2>1. \A i \in 1 .. n : wire[i] \in Messages
      BY <1>1, <1>2, ElementOfSeq
    <2> QED BY <2>1 DEF Messages
  <1>7. PlacedIsKnown'
    <2>1. ASSUME NEW i \in 1 .. n + 1 PROVE book'[wire'[i].id].state # "absent"
      <3>1. CASE i = n + 1
        BY <1>3, <1>4, <3>1 DEF Tells, Unplaced
      <3>2. CASE i # n + 1
        <4>1. i \in 1 .. n
          BY <1>3, <3>2
        <4>2. ~Unplaced(wire[i].id)
          BY <1>2, <4>1 DEF PlacedInv, PlacedIsKnown
        <4> QED BY <1>3, <1>4, <1>6, <4>1, <4>2 DEF Unplaced
      <3> QED BY <3>1, <3>2
    <2>2. held["callback"] # NoOrder => ~Unplaced(held["callback"].order_id)
      BY DEF PlacedInv, PlacedIsKnown
    <2>3. held["callback"] # NoOrder => held["callback"].order_id \in Orders
      BY DEF TypeInv, TypeOK, ApiTypeOK, ApiThreads, OrderData
    <2>4. (held["callback"] # NoOrder => ~Unplaced(held["callback"].order_id))'
      BY <1>4, <1>5, <2>2, <2>3 DEF Unplaced
    <2>5. \A i \in Orders :
             ~Unplaced(i) => orders[i] # NoOrder /\ orders[i].action = book[i].action
      BY DEF PlacedInv, PlacedIsKnown
    <2> QED BY <1>3, <1>4, <1>5, <2>1, <2>4, <2>5 DEF PlacedIsKnown, Unplaced
  <1>8. NewIsUnplaced'
    <2>1. pcA \in Unsent => req.order_id \in Orders
      BY DEF TypeInv, Links, SentIsKnown, Unsent
    <2>2. NewIsUnplaced
      BY DEF PlacedInv
    <2> QED BY <1>4, <1>5, <2>1, <2>2 DEF NewIsUnplaced, Unplaced
  <1>9. ASSUME NEW x \in Orders
        PROVE  /\ \A i \in StatusesOf(x)' : (\A j \in StatusesOf(x)' : j <= i) =>
                    wire'[i].filled = book'[x].filled /\ wire'[i].px = AvgPrice(book'[x].filled)
               /\ ~Unplaced(x)' /\ StatusesOf(x)' = {} =>
                    /\ orders'[x].traded_quantity = book'[x].filled
                    /\ orders'[x].avg_trade_price = AvgPrice(book'[x].filled)
    <2>1. FillsAreTold
      BY DEF PlacedInv
    <2>2. CASE x = id /\ msg.type = "orderStatus"
      <3>1. n + 1 \in StatusesOf(x)'
        BY <1>3, <2>2 DEF StatusesOf
      <3>2. ASSUME NEW i \in StatusesOf(x)', \A j \in StatusesOf(x)' : j <= i
            PROVE  i = n + 1
        <4>1. i \in 1 .. n + 1 /\ n + 1 <= i
          BY <1>3, <3>1, <3>2 DEF StatusesOf
        <4> QED BY <1>3, <4>1
      <3> QED BY <1>3, <1>4, <2>2, <3>1, <3>2 DEF Tells
    <2>3. CASE ~(x = id /\ msg.type = "orderStatus")
      <3>1. \A i : i \in StatusesOf(x)' <=> i \in StatusesOf(x)
        <4>1. n + 1 \notin StatusesOf(x)'
          BY <1>3, <2>3 DEF StatusesOf
        <4> QED BY <1>2, <1>3, <4>1 DEF StatusesOf
      <3>2. StatusesOf(x)' = StatusesOf(x)
        BY <3>1
      <3>3. book'[x].filled = book[x].filled
        BY <1>4, <2>3 DEF Tells
      <3>4. \A i \in StatusesOf(x) : wire'[i] = wire[i]
        BY <1>2, <1>3 DEF StatusesOf
      <3> QED BY <1>4, <1>5, <2>1, <3>2, <3>3, <3>4 DEF FillsAreTold
    <2> QED BY <2>2, <2>3
  <1>10. FillsAreTold'
    BY <1>9 DEF FillsAreTold
  <1> QED BY <1>7, <1>8, <1>10 DEF PlacedInv

(* The callback thread reads one message.                                  *)
LEMMA ReadsPlaced ==
    ASSUME TypeInv, PlacedInv, NEW msg \in Messages, NEW data \in OrderData, Reads(msg, data)
    PROVE  PlacedInv'
  <1>1. wire \in Seq(Messages) /\ ApiTypeOK
    BY DEF TypeInv, TypeOK, TwsTypeOK
  <1>2. PICK n : n = Len(wire)
    OBVIOUS
  <1>3. /\ n \in Nat /\ n >= 1 /\ Len(wire') = n - 1 /\ msg = wire[1]
        /\ \A i \in 1 .. n - 1 : wire'[i] = wire[i + 1]
    BY <1>1, <1>2, Taken DEF Reads
  <1>4. msg.id \in Orders
    BY DEF Messages
  <1>5. /\ orders'[msg.id] = data /\ data # NoOrder
        /\ \A id \in Orders : id # msg.id => orders'[id] = orders[id]
        /\ held'["callback"] = data /\ held'["sender"] = held["sender"]
        /\ data.order_id = msg.id
    BY <1>1, SnapshotTaken DEF Reads, ApiThreads
  <1>6. UNCHANGED <<book, connected, m_order_id, pcA, req>>
    BY DEF Reads
  <1>7. ~Unplaced(msg.id) /\ \A id \in Orders : Unplaced(id)' <=> Unplaced(id)
    BY <1>2, <1>3, <1>6 DEF PlacedInv, PlacedIsKnown, Unplaced
  <1>8. PlacedIsKnown'
    <2>1. ASSUME NEW i \in 1 .. n - 1 PROVE book'[wire'[i].id].state # "absent"
      <3>1. i + 1 \in 1 .. n /\ wire'[i] = wire[i + 1]
        BY <1>3
      <3>2. ~Unplaced(wire[i + 1].id)
        BY <1>2, <3>1 DEF PlacedInv, PlacedIsKnown
      <3> QED BY <1>6, <3>1, <3>2 DEF Unplaced
    <2>2. \A id \in Orders :
             ~Unplaced(id) => orders'[id] # NoOrder /\ orders'[id].action = book[id].action
      BY <1>5 DEF PlacedInv, PlacedIsKnown, Reads
    <2>3. book'[held'["callback"].order_id].state # "absent"
      BY <1>5, <1>6, <1>7 DEF Unplaced
    <2> QED BY <1>3, <1>6, <1>7, <2>1, <2>2, <2>3 DEF PlacedIsKnown, Unplaced
  <1>9. NewIsUnplaced'
    <2>1. orders[msg.id] # NoOrder
      BY <1>4, <1>7 DEF PlacedInv, PlacedIsKnown
    <2>2. NewIsUnplaced
      BY DEF PlacedInv
    <2>3. \A id \in Orders : id >= m_order_id => id # msg.id /\ orders'[id] = NoOrder
      BY <1>5, <2>1, <2>2 DEF NewIsUnplaced
    <2> QED BY <1>5, <1>6, <1>7, <2>2, <2>3 DEF NewIsUnplaced, Unplaced
  <1>10. ASSUME NEW x \in Orders
         PROVE  /\ \A i \in StatusesOf(x)' : (\A j \in StatusesOf(x)' : j <= i) =>
                     wire'[i].filled = book[x].filled /\ wire'[i].px = AvgPrice(book[x].filled)
                /\ ~Unplaced(x) /\ StatusesOf(x)' = {} =>
                     /\ orders'[x].traded_quantity = book[x].filled
                     /\ orders'[x].avg_trade_price = AvgPrice(book[x].filled)
    <2>1. FillsAreTold
      BY DEF PlacedInv
    <2>2. \A i \in StatusesOf(x) : i = 1 \/ i - 1 \in StatusesOf(x)'
      <3> TAKE i \in StatusesOf(x)
      <3>1. i \in 1 .. n /\ wire[i].type = "orderStatus" /\ wire[i].id = x
        BY <1>2 DEF StatusesOf
      <3>2. CASE i # 1
        <4>1. i - 1 \in 1 .. n - 1 /\ i - 1 + 1 = i
          BY <1>3, <3>1, <3>2
        <4>2. wire'[i - 1] = wire[i]
          BY <1>3, <4>1
        <4> QED BY <1>3, <3>1, <4>1, <4>2 DEF StatusesOf
      <3> QED BY <3>2
    <2>3. \A i \in StatusesOf(x)' : i + 1 \in StatusesOf(x) /\ wire'[i] = wire[i + 1] /\ i \in Nat
                                    /\ i >= 1
      BY <1>2, <1>3 DEF StatusesOf
    <2>4. ASSUME NEW i \in StatusesOf(x)', \A j \in StatusesOf(x)' : j <= i
          PROVE  wire'[i].filled = book[x].filled /\ wire'[i].px = AvgPrice(book[x].filled)
      <3>1. ASSUME NEW j \in StatusesOf(x) PROVE j <= i + 1
        <4>1. j \in Nat
          BY <1>2, <1>3 DEF StatusesOf
        <4> QED BY <2>2, <2>3, <2>4, <4>1
      <3> QED BY <2>1, <2>3, <3>1 DEF FillsAreTold
    <2>5. ASSUME ~Unplaced(x), StatusesOf(x)' = {}
          PROVE  /\ orders'[x].traded_quantity = book[x].filled
                 /\ orders'[x].avg_trade_price = AvgPrice(book[x].filled)
      <3>1. \A i \in StatusesOf(x) : i = 1
        BY <2>2, <2>5
      <3>2. CASE x = msg.id /\ msg.type = "orderStatus"
        <4>1. 1 \in StatusesOf(x)
          BY <1>2, <1>3, <3>2 DEF StatusesOf
        <4>2. wire[1].filled = book[x].filled /\ wire[1].px = AvgPrice(book[x].filled)
          BY <2>1, <3>1, <4>1 DEF FillsAreTold
        <4> QED BY <1>3, <1>5, <3>2, <4>2 DEF Reads
      <3>3. CASE ~(x = msg.id /\ msg.type = "orderStatus")
        <4>1. StatusesOf(x) = {}
          BY <1>3, <3>1, <3>3 DEF StatusesOf
        <4>2. /\ orders[x].traded_quantity = book[x].filled
              /\ orders[x].avg_trade_price = AvgPrice(book[x].filled)
          BY <2>1, <2>5, <4>1 DEF FillsAreTold
        <4> QED BY <1>5, <3>3, <4>2 DEF Reads
      <3> QED BY <3>2, <3>3
    <2> QED BY <2>4, <2>5
  <1>11. FillsAreTold'
    BY <1>6, <1>7, <1>10 DEF FillsAreTold
  <1> QED BY <1>8, <1>9, <1>11 DEF PlacedInv

(* The action thread files a new order.                                    *)
LEMMA InsertsPlaced ==
    ASSUME TypeInv, PlacedInv, Inserts
    PROVE  PlacedInv'
  <1>1. ApiTypeOK /\ AlgoTypeOK
    BY DEF TypeInv, TypeOK
  <1>2. PICK data : data = NewOrder(m_order_id, req.action, req.quantity)
    OBVIOUS
  <1>3. /\ data \in OrderData /\ data.order_id = m_order_id /\ m_order_id \in Orders
        /\ data.traded_quantity = 0 /\ data.avg_trade_price = 0 /\ data.commission = 0
    BY <1>1, <1>2 DEF Inserts, NewOrder, OrderData, Statuses, AlgoTypeOK, Requests
  <1>4. /\ orders'[m_order_id] = data
        /\ \A id \in Orders : id # m_order_id => orders'[id] = orders[id]
        /\ held'["sender"] = data /\ held'["callback"] = held["callback"]
    BY <1>1, <1>2, <1>3, SnapshotTaken DEF Inserts, ApiThreads
  <1>5. /\ req'.order_id = m_order_id /\ m_order_id' = m_order_id + 1 /\ pcA' = "forward"
        /\ UNCHANGED <<book, wire, connected>>
    BY <1>1 DEF Inserts, AlgoTypeOK, Requests
  <1>6. orders[m_order_id] = NoOrder /\ Unplaced(m_order_id) /\ m_order_id \in Nat
    BY <1>3 DEF PlacedInv, NewIsUnplaced, PlacedIsKnown, Orders
  <1>7. PlacedIsKnown'
    BY <1>4, <1>5, <1>6 DEF PlacedInv, PlacedIsKnown, Unplaced
  <1>8. NewIsUnplaced'
    <2>1. \A id \in Orders : id >= m_order_id' => orders'[id] = NoOrder
      BY <1>4, <1>5, <1>6 DEF PlacedInv, NewIsUnplaced, Orders
    <2>2. \A id \in Orders : Unplaced(id) /\ orders'[id] # NoOrder =>
              /\ orders'[id].traded_quantity = 0 /\ orders'[id].avg_trade_price = 0
              /\ orders'[id].commission = 0
      BY <1>3, <1>4 DEF PlacedInv, NewIsUnplaced
    <2> QED BY <1>3, <1>4, <1>5, <1>6, <2>1, <2>2 DEF NewIsUnplaced, Unplaced
  <1>9. FillsAreTold'
    <2>1. \A id \in Orders : StatusesOf(id)' = StatusesOf(id)
      BY <1>5 DEF StatusesOf
    <2> QED BY <1>4, <1>5, <1>6, <2>1 DEF PlacedInv, FillsAreTold, Unplaced
  <1> QED BY <1>7, <1>8, <1>9 DEF PlacedInv

(* The action thread uses the socket.                                      *)
LEMMA SocketPlaced ==
    ASSUME TypeInv, PlacedInv, Places \/ \E id \in Orders : Cancels(id) \/ Fails(id)
    PROVE  PlacedInv'
  <1>1. book \in [Orders -> BookEntries] /\ wire \in Seq(Messages)
    BY DEF TypeInv, TypeOK, TwsTypeOK
  <1>2. \A i \in 1 .. Len(wire) : wire[i].id \in Orders
    <2>1. \A i \in 1 .. Len(wire) : wire[i] \in Messages
      BY <1>1, ElementOfSeq
    <2> QED BY <2>1 DEF Messages
  <1>3. held["callback"] # NoOrder => held["callback"].order_id \in Orders
    BY DEF TypeInv, TypeOK, ApiTypeOK, ApiThreads, OrderData
  <1>4. pcA \in Unsent => req.order_id \in Orders /\ orders[req.order_id] # NoOrder
    BY DEF TypeInv, Links, SentIsKnown, Unsent
  <1>5. UNCHANGED wire => \A id \in Orders : StatusesOf(id)' = StatusesOf(id)
    BY DEF StatusesOf
  <1>6. PlacedIsKnown /\ NewIsUnplaced /\ FillsAreTold
    BY DEF PlacedInv
  <1>7. CASE Places
    <2>1. PICK id : id = req.order_id
      OBVIOUS
    <2>2. id \in Orders /\ orders[id] # NoOrder /\ Unplaced(id)
      BY <1>4, <1>6, <1>7, <2>1 DEF Places, NewIsUnplaced, Unsent
    <2>3. /\ book'[id].state = "working" /\ book'[id].action = orders[id].action
          /\ book'[id].filled = 0
          /\ \A i \in Orders : i # id => book'[i] = book[i]
      BY <1>1, <1>7, <2>1, <2>2 DEF Places, Accept, Absent
    <2>4. UNCHANGED <<wire, connected, orders, held, m_order_id, eq, req>> /\ pcA' = "track"
             /\ pcA = "place"
      BY <1>7 DEF Places
    <2>5. \A i \in Orders : ~Unplaced(i) => book'[i] = book[i] /\ i # id
      BY <2>2, <2>3
    <2>6. \A i \in Orders : Unplaced(i)' <=> Unplaced(i) /\ i # id
      BY <2>3 DEF Unplaced
    <2>7. StatusesOf(id) = {}
      BY <1>6, <2>2 DEF StatusesOf, PlacedIsKnown
    <2>8. PlacedIsKnown'
      <3>1. \A i \in 1 .. Len(wire) : book'[wire[i].id].state # "absent"
        BY <1>2, <1>6, <2>5 DEF PlacedIsKnown, Unplaced
      <3>2. held["callback"] # NoOrder => book'[held["callback"].order_id].state # "absent"
        BY <1>3, <1>6, <2>5 DEF PlacedIsKnown, Unplaced
      <3>3. \A i \in Orders : book'[i].state # "absent" =>
                orders[i] # NoOrder /\ orders[i].action = book'[i].action
        BY <1>6, <2>2, <2>3 DEF PlacedIsKnown, Unplaced
      <3> QED BY <2>4, <3>1, <3>2, <3>3 DEF PlacedIsKnown, Unplaced
    <2>9. NewIsUnplaced'
      <3>1. connected => held["sender"] = NoOrder
        BY <1>6, <2>4 DEF NewIsUnplaced
      <3> QED BY <1>6, <2>4, <2>6, <3>1 DEF NewIsUnplaced, Unsent
    <2>10. FillsAreTold'
      <3>1. orders[id].traded_quantity = 0 /\ orders[id].avg_trade_price = 0
        BY <1>6, <2>2 DEF NewIsUnplaced
      <3>2. AvgPrice(0) = 0
        BY DEF AvgPrice
      <3>3. ASSUME NEW x \in Orders
            PROVE  /\ \A i \in StatusesOf(x) : (\A j \in StatusesOf(x) : j <= i) =>
                        wire[i].filled = book'[x].filled /\ wire[i].px = AvgPrice(book'[x].filled)
                   /\ ~Unplaced(x)' /\ StatusesOf(x) = {} =>
                        /\ orders[x].traded_quantity = book'[x].filled
                        /\ orders[x].avg_trade_price = AvgPrice(book'[x].filled)
        <4>1. CASE x = id
          BY <2>3, <2>7, <3>1, <3>2, <4>1
        <4>2. CASE x # id
          BY <1>6, <2>3, <2>6, <4>2 DEF FillsAreTold
        <4> QED BY <4>1, <4>2
      <3> QED BY <1>5, <2>4, <3>3 DEF FillsAreTold
    <2> QED BY <2>8, <2>9, <2>10 DEF PlacedInv
  <1>8. ASSUME NEW id \in Orders, Cancels(id) PROVE PlacedInv'
    <2>1. \A i \in Orders : /\ book'[i].state = book[i].state
                            /\ book'[i].action = book[i].action
                            /\ book'[i].filled = book[i].filled
      BY <1>1, <1>8 DEF Cancels, RequestCancel, BookEntries
    <2>2. UNCHANGED <<wire, connected, orders, held, m_order_id, eq, req>> /\ pcA' = "requeue"
             /\ pcA = "idle"
      BY <1>8 DEF Cancels
    <2>3. \A i \in Orders : Unplaced(i)' <=> Unplaced(i)
      BY <2>1 DEF Unplaced
    <2>4. PlacedIsKnown'
      BY <1>2, <1>3, <1>6, <2>1, <2>2 DEF PlacedIsKnown, Unplaced
    <2>5. NewIsUnplaced'
      BY <1>6, <2>2, <2>3 DEF NewIsUnplaced, Unsent
    <2>6. FillsAreTold'
      BY <1>5, <1>6, <2>1, <2>2, <2>3 DEF FillsAreTold
    <2> QED BY <2>4, <2>5, <2>6 DEF PlacedInv
  <1>9. ASSUME NEW id \in Orders, Fails(id) PROVE PlacedInv'
    <2>1. /\ \A i \in Orders : orders'[i] # NoOrder <=> orders[i] # NoOrder
          /\ \A i \in Orders : orders[i] # NoOrder =>
                /\ orders'[i].action = orders[i].action
                /\ orders'[i].traded_quantity = orders[i].traded_quantity
                /\ orders'[i].avg_trade_price = orders[i].avg_trade_price
                /\ orders'[i].commission = orders[i].commission
          /\ held'["callback"] = held["callback"]
      BY <1>9, FailsTaken
    <2>2. /\ UNCHANGED <<book, wire, connected, m_order_id, eq, req>> /\ ~connected
          /\ pcA' \in Unsent => pcA \in Unsent
      BY <1>9 DEF Fails
    <2>3. \A i \in Orders : Unplaced(i)' <=> Unplaced(i)
      BY <2>2 DEF Unplaced
    <2>4. PlacedIsKnown'
      BY <1>6, <2>1, <2>2 DEF PlacedIsKnown, Unplaced
    <2>5. NewIsUnplaced'
      <3>1. pcA' \in Unsent => Unplaced(req.order_id)
        BY <1>6, <2>2 DEF NewIsUnplaced
      <3>2. \A i \in Orders : Unplaced(i) /\ orders'[i] # NoOrder =>
              /\ orders'[i].traded_quantity = 0 /\ orders'[i].avg_trade_price = 0
              /\ orders'[i].commission = 0
        BY <1>6, <2>1 DEF NewIsUnplaced
      <3> QED BY <1>6, <2>1, <2>2, <3>1, <3>2 DEF NewIsUnplaced, Unplaced
    <2>6. FillsAreTold'
      <3>1. \A i \in Orders : ~Unplaced(i) => orders[i] # NoOrder
        BY <1>6 DEF PlacedIsKnown
      <3> QED BY <1>5, <1>6, <2>1, <2>2, <2>3, <3>1 DEF FillsAreTold
    <2> QED BY <2>4, <2>5, <2>6 DEF PlacedInv
  <1> QED BY <1>7, <1>8, <1>9

(* Every step keeps it.                                                    *)
LEMMA PlacedStep == TypeInv /\ PlacedInv /\ [Next]_vars => PlacedInv'
  <1> SUFFICES ASSUME TypeInv, PlacedInv, [Next]_vars PROVE PlacedInv'
    OBVIOUS
  <1>1. PlacedIsKnown /\ NewIsUnplaced /\ FillsAreTold
    BY DEF PlacedInv
  <1>2. UNCHANGED wire => \A id \in Orders : StatusesOf(id)' = StatusesOf(id)
    BY DEF StatusesOf
  <1>3. UNCHANGED book => \A id : Unplaced(id)' <=> Unplaced(id)
    BY DEF Unplaced
  <1>4. UNCHANGED <<book, wire, orders>> => FillsAreTold'
    BY <1>1, <1>2, <1>3 DEF FillsAreTold
  <1>5. CASE Breaks
    <2>1. PlacedIsKnown' /\ NewIsUnplaced'
      BY <1>1, <1>5 DEF Breaks, PlacedIsKnown, NewIsUnplaced, Unplaced
    <2> QED BY <1>4, <1>5, <2>1 DEF Breaks, PlacedInv
  <1>6. ASSUME NEW th \in ApiThreads, Hands(th) PROVE PlacedInv'
    <2>1. /\ held[th] # NoOrder /\ held'[th] = NoOrder
          /\ \A t \in ApiThreads : t # th => held'[t] = held[t]
          /\ UNCHANGED <<m_order_id, orders, book, wire, connected, req>>
      BY <1>6 DEF Hands, on_order, TypeInv, TypeOK, ApiTypeOK
    <2>2. PlacedIsKnown'
      BY <1>1, <2>1 DEF PlacedIsKnown, Unplaced, ApiThreads
    <2>3. pcA' \in Unsent => pcA \in Unsent
      BY <1>6 DEF Hands, ApiThreads
    <2>4. held'["sender"] # NoOrder => held'["sender"] = held["sender"] /\ pcA' = pcA
      BY <1>6, <2>1 DEF ApiThreads, Hands
    <2>5. NewIsUnplaced'
      BY <1>1, <2>1, <2>3, <2>4 DEF NewIsUnplaced, Unplaced
    <2> QED BY <1>4, <2>1, <2>2, <2>5 DEF PlacedInv
  <1>7. CASE Aside \/ Dispatch \/ Books
    <2>1. /\ UNCHANGED <<book, wire, connected, orders, held, m_order_id>>
          /\ UNCHANGED <<pcA, req>> \/ (pcA \notin Unsent /\ pcA' \notin Unsent)
      BY <1>7, DownstreamOnly DEF Aside
    <2>2. PlacedIsKnown'
      BY <1>1, <2>1 DEF PlacedIsKnown, Unplaced
    <2>3. NewIsUnplaced'
      BY <1>1, <2>1 DEF NewIsUnplaced, Unplaced, Unsent
    <2> QED BY <1>4, <2>1, <2>2, <2>3 DEF PlacedInv
  <1>8. ~Drops
    <2> SUFFICES ASSUME Drops PROVE FALSE
      OBVIOUS
    <2>1. wire \in Seq(Messages) /\ wire # << >> /\ orders[Head(wire).id] = NoOrder
      BY DEF Drops, TypeInv, TypeOK, TwsTypeOK
    <2>2. Head(wire) = wire[1] /\ 1 \in 1 .. Len(wire) /\ Head(wire) \in Messages
      BY <2>1, Taken
    <2>3. Head(wire).id \in Orders
      BY <2>2 DEF Messages
    <2> QED BY <1>1, <2>1, <2>2, <2>3 DEF PlacedIsKnown
  <1> QED BY <1>5, <1>6, <1>7, <1>8, StepKinds, TellsPlaced, ReadsPlaced, InsertsPlaced, SocketPlaced

(* What TWS has and what IBApi knows agree in every state.                 *)
LEMMA PlacedInvariant == Spec => []PlacedInv
  BY PlacedInit, PlacedStep, TypeInvariant, PTL DEF Spec
-----------------------------------------------------------------------------
(* The copies of snapshots on their way to the books.                      *)
HeldOf(id) == {th \in ApiThreads : held[th] # NoOrder /\ held[th].order_id = id}

EqOf(id) == {i \in 1 .. Len(eq) : eq[i].data.order_id = id}

InHand(cb, id) ==
    (\E i \in 1 .. Len(disp.todo) : disp.todo[i] = cb) /\ disp.data.order_id = id

PqOf(id) == {i \in 1 .. Len(pq) : pq[i].order_id = id}

(* Nothing about the order is above the event engine's thread.             *)
AllTaken(id) == HeldOf(id) = {} /\ EqOf(id) = {}

(* A newer copy never overtakes an older one: the copy in a thread's hand  *)
(* is the latest snapshot, and so is the last one in the queue if no       *)
(* thread has one.                                                         *)
QueuedIsLatest ==
    /\ \A th \in ApiThreads : held[th] # NoOrder => held[th] = orders[held[th].order_id]
    /\ \A id \in Orders : HeldOf(id) = {} =>
          \A i \in EqOf(id) : (\A j \in EqOf(id) : j <= i) => eq[i].data = orders[id]

(* The event engine takes the head of its queue.                           *)
LEMMA EventTaken ==
    ASSUME TypeInv, PopEvent
    PROVE  /\ Head(eq).data \in OrderData
           /\ \A id \in Orders :
                 /\ EqOf(id)' = {} /\ Head(eq).data.order_id # id => EqOf(id) = {}
                 /\ \A i \in EqOf(id)' : (\A j \in EqOf(id)' : j <= i) =>
                       /\ i + 1 \in EqOf(id) /\ eq'[i] = eq[i + 1]
                       /\ \A j \in EqOf(id) : j <= i + 1
                 /\ EqOf(id)' = {} /\ Head(eq).data.order_id = id =>
                       /\ 1 \in EqOf(id) /\ eq[1] = Head(eq)
                       /\ \A j \in EqOf(id) : j <= 1
  <1>1. eq \in Seq(OrderEvents) /\ eq # << >> /\ eq' = Tail(eq)
    BY DEF TypeInv, TypeOK, ApiTypeOK, PopEvent
  <1>2. PICK n : n = Len(eq)
    OBVIOUS
  <1>3. /\ n \in Nat /\ n >= 1 /\ Len(eq') = n - 1 /\ Head(eq) = eq[1]
        /\ \A i \in 1 .. n - 1 : eq'[i] = eq[i + 1]
        /\ Head(eq) \in OrderEvents
    BY <1>1, <1>2, Taken
  <1>4. Head(eq).data \in OrderData
    BY <1>3 DEF OrderEvents
  <1>5. ASSUME NEW id \in Orders, NEW i \in EqOf(id)'
        PROVE  i + 1 \in EqOf(id) /\ eq'[i] = eq[i + 1] /\ i \in Nat /\ i >= 1
    BY <1>2, <1>3 DEF EqOf
  <1>6. ASSUME NEW id \in Orders, NEW i \in EqOf(id)
        PROVE  i \in Nat /\ (i = 1 \/ i - 1 \in EqOf(id)')
    <2>1. i \in 1 .. n /\ eq[i].data.order_id = id
      BY <1>2, <1>6 DEF EqOf
    <2>2. CASE i # 1
      <3>1. i - 1 \in 1 .. n - 1 /\ i - 1 + 1 = i
        BY <1>3, <2>1, <2>2
      <3>2. eq'[i - 1] = eq[i]
        BY <1>3, <3>1
      <3> QED BY <1>3, <2>1, <3>1, <3>2 DEF EqOf
    <2> QED BY <2>1, <2>2
  <1>7. ASSUME NEW id \in Orders, 1 \in EqOf(id) PROVE Head(eq).data.order_id = id
    BY <1>3, <1>7 DEF EqOf
  <1>8. ASSUME NEW id \in Orders, Head(eq).data.order_id = id PROVE 1 \in EqOf(id)
    BY <1>2, <1>3, <1>8 DEF EqOf
  <1>9. ASSUME NEW id \in Orders
        PROVE  /\ EqOf(id)' = {} /\ Head(eq).data.order_id # id => EqOf(id) = {}
               /\ \A i \in EqOf(id)' : (\A j \in EqOf(id)' : j <= i) =>
                       /\ i + 1 \in EqOf(id) /\ eq'[i] = eq[i + 1]
                       /\ \A j \in EqOf(id) : j <= i + 1
               /\ EqOf(id)' = {} /\ Head(eq).data.order_id = id =>
                       /\ 1 \in EqOf(id) /\ eq[1] = Head(eq)
                       /\ \A j \in EqOf(id) : j <= 1
    <2>1. EqOf(id)' = {} /\ Head(eq).data.order_id # id => EqOf(id) = {}
      BY <1>6, <1>7
    <2>2. ASSUME NEW i \in EqOf(id)', \A j \in EqOf(id)' : j <= i
          PROVE  \A j \in EqOf(id) : j <= i + 1
      <3> TAKE j \in EqOf(id)
      <3>1. j \in Nat /\ (j = 1 \/ j - 1 <= i) /\ i \in Nat
        BY <1>5, <1>6, <2>2
      <3> QED BY <3>1
    <2>3. EqOf(id)' = {} /\ Head(eq).data.order_id = id =>
             1 \in EqOf(id) /\ eq[1] = Head(eq) /\ \A j \in EqOf(id) : j <= 1
      <3>1. EqOf(id)' = {} => \A j \in EqOf(id) : j = 1
        BY <1>6
      <3> QED BY <1>3, <1>8, <3>1
    <2> QED BY <1>5, <2>1, <2>2, <2>3
  <1> QED BY <1>4, <1>9

(* A thread's copy goes to the end of the queue.                           *)
LEMMA CopyQueued ==
    ASSUME TypeInv, NEW th \in ApiThreads, on_order(th)
    PROVE  \E data \in OrderData, n \in Nat :
             /\ data = held[th] /\ held'[th] = NoOrder
             /\ \A t \in ApiThreads : t # th => held'[t] = held[t]
             /\ UNCHANGED <<m_order_id, orders>>
             /\ n \in EqOf(data.order_id)' /\ eq'[n].data = data
             /\ \A i \in EqOf(data.order_id)' : i <= n
             /\ \A id \in Orders : id # data.order_id =>
                   /\ EqOf(id)' = EqOf(id) /\ \A i \in EqOf(id) : eq'[i] = eq[i]
                   /\ HeldOf(id)' = HeldOf(id)
  <1>1. eq \in Seq(OrderEvents) /\ held \in [ApiThreads -> OrderData \cup {NoOrder}]
    BY DEF TypeInv, TypeOK, ApiTypeOK
  <1>2. PICK data : data = held[th]
    OBVIOUS
  <1>3. data \in OrderData /\ data # NoOrder
    BY <1>1, <1>2 DEF on_order
  <1>4. OrderEvent(data) \in OrderEvents /\ OrderEvent(data).data = data
    BY <1>3 DEF OrderEvent, OrderEvents
  <1>5. PICK n : n = Len(eq)
    OBVIOUS
  <1>6. /\ n \in Nat /\ Len(eq') = n + 1
        /\ \A i \in 1 .. n : eq'[i] = eq[i]
        /\ eq'[n + 1].data = data
    BY <1>1, <1>2, <1>4, <1>5, Appended DEF on_order
  <1>7. /\ held'[th] = NoOrder /\ \A t \in ApiThreads : t # th => held'[t] = held[t]
        /\ UNCHANGED <<m_order_id, orders>>
    BY <1>1 DEF on_order
  <1>8. n + 1 \in EqOf(data.order_id)' /\ \A i \in EqOf(data.order_id)' : i <= n + 1
    BY <1>6 DEF EqOf
  <1>9. ASSUME NEW id \in Orders, id # data.order_id
        PROVE  /\ EqOf(id)' = EqOf(id) /\ \A i \in EqOf(id) : eq'[i] = eq[i]
               /\ HeldOf(id)' = HeldOf(id)
    <2>1. n + 1 \notin EqOf(id)'
      BY <1>6, <1>9 DEF EqOf
    <2>2. \A i : i \in EqOf(id)' <=> i \in EqOf(id)
      BY <1>5, <1>6, <2>1 DEF EqOf
    <2>3. \A i \in EqOf(id) : eq'[i] = eq[i]
      BY <1>5, <1>6 DEF EqOf
    <2>4. \A t : t \in HeldOf(id)' <=> t \in HeldOf(id)
      BY <1>2, <1>3, <1>7, <1>9 DEF HeldOf
    <2> QED BY <2>2, <2>3, <2>4
  <1>10. n + 1 \in Nat
    BY <1>6
  <1> QED BY <1>2, <1>3, <1>6, <1>7, <1>8, <1>9, <1>10

(* While the connection holds, a step of TWS, IBApi or the action thread   *)
(* keeps the copies in order, and a snapshot that changes leaves a copy of *)
(* it behind.                                                              *)
LEMMA QueuedStep ==
    ASSUME TypeInv, PlacedInv, connected => QueuedIsLatest, [Next]_vars,
           ~(Dispatch \/ Books), connected'
    PROVE  /\ QueuedIsLatest' /\ connected
           /\ \A id \in Orders : AllTaken(id)' => AllTaken(id) /\ orders'[id] = orders[id]
  <1>1. ApiTypeOK /\ AlgoTypeOK
    BY DEF TypeInv, TypeOK
  <1>2. PlacedIsKnown /\ NewIsUnplaced
    BY DEF PlacedInv
  <1>3. \A th \in ApiThreads : held[th] # NoOrder => held[th].order_id \in Orders
    BY <1>1 DEF ApiTypeOK, OrderData
  <1>4. CASE connected /\ UNCHANGED <<orders, held, eq>>
    <2>1. \A id : HeldOf(id)' = HeldOf(id) /\ EqOf(id)' = EqOf(id)
      BY <1>4 DEF HeldOf, EqOf
    <2>2. QueuedIsLatest'
      BY <1>4, <2>1 DEF QueuedIsLatest
    <2> QED BY <1>4, <2>1, <2>2 DEF AllTaken
  <1>5. ASSUME NEW msg \in Messages, NEW data \in OrderData, Reads(msg, data)
        PROVE  /\ QueuedIsLatest' /\ connected
               /\ \A id \in Orders : AllTaken(id)' => AllTaken(id) /\ orders'[id] = orders[id]
    <2>1. connected /\ QueuedIsLatest /\ UNCHANGED eq /\ msg.id \in Orders
      BY <1>5 DEF Reads, Messages
    <2>2. /\ orders'[msg.id] = data /\ data # NoOrder
          /\ \A id \in Orders : id # msg.id => orders'[id] = orders[id]
          /\ held'["callback"] = data /\ held'["sender"] = held["sender"]
          /\ data.order_id = msg.id /\ held["callback"] = NoOrder
      BY <1>1, <1>5, SnapshotTaken DEF Reads, ApiThreads
    <2>3. ~Unplaced(msg.id)
      <3>1. wire \in Seq(Messages) /\ wire # << >> /\ msg = Head(wire)
        BY <1>5 DEF Reads, TypeInv, TypeOK, TwsTypeOK
      <3>2. msg = wire[1] /\ 1 \in 1 .. Len(wire)
        BY <3>1, Taken
      <3> QED BY <1>2, <3>2 DEF PlacedIsKnown
    <2>4. held["sender"] # NoOrder => held["sender"].order_id # msg.id
      BY <1>2, <2>1, <2>3 DEF NewIsUnplaced, Unsent
    <2>5. "callback" \in HeldOf(msg.id)'
      BY <2>2 DEF HeldOf, ApiThreads
    <2>6. \A id \in Orders : EqOf(id)' = EqOf(id)
      BY <2>1 DEF EqOf
    <2>7. \A id \in Orders : HeldOf(id)' = {} => id # msg.id /\ HeldOf(id) = {}
      BY <2>2, <2>5 DEF HeldOf, ApiThreads
    <2>8. \A th \in ApiThreads : held'[th] # NoOrder => held'[th] = orders'[held'[th].order_id]
      BY <1>3, <2>1, <2>2, <2>4 DEF QueuedIsLatest, ApiThreads
    <2>9. QueuedIsLatest'
      BY <2>1, <2>2, <2>6, <2>7, <2>8 DEF QueuedIsLatest
    <2> QED BY <2>1, <2>2, <2>6, <2>7, <2>9 DEF AllTaken
  <1>6. ASSUME NEW th \in ApiThreads, Hands(th)
        PROVE  /\ QueuedIsLatest' /\ connected
               /\ \A id \in Orders : AllTaken(id)' => AllTaken(id) /\ orders'[id] = orders[id]
    <2>1. connected /\ QueuedIsLatest /\ on_order(th)
      BY <1>6 DEF Hands
    <2>2. PICK data \in OrderData, n \in Nat :
             /\ data = held[th] /\ held'[th] = NoOrder
             /\ \A t \in ApiThreads : t # th => held'[t] = held[t]
             /\ UNCHANGED <<m_order_id, orders>>
             /\ n \in EqOf(data.order_id)' /\ eq'[n].data = data
             /\ \A i \in EqOf(data.order_id)' : i <= n
             /\ \A id \in Orders : id # data.order_id =>
                   /\ EqOf(id)' = EqOf(id) /\ \A i \in EqOf(id) : eq'[i] = eq[i]
                   /\ HeldOf(id)' = HeldOf(id)
      BY <2>1, CopyQueued
    <2>3. data # NoOrder /\ data = orders[data.order_id] /\ data.order_id \in Orders
      BY <2>1, <2>2, NoOrderIsNoData DEF QueuedIsLatest, OrderData
    <2>4. \A t \in ApiThreads : held'[t] # NoOrder => held'[t] = orders'[held'[t].order_id]
      BY <2>1, <2>2 DEF QueuedIsLatest
    <2>5. ASSUME NEW id \in Orders, HeldOf(id)' = {}, NEW i \in EqOf(id)',
                 \A j \in EqOf(id)' : j <= i
          PROVE  eq'[i].data = orders'[id]
      <3>1. CASE id = data.order_id
        <4>1. i <= n /\ n <= i /\ i \in Int
          BY <2>2, <2>5, <3>1 DEF EqOf
        <4>2. i = n
          BY <4>1
        <4> QED BY <2>2, <2>3, <3>1, <4>2
      <3>2. CASE id # data.order_id
        <4>1. EqOf(id)' = EqOf(id) /\ eq'[i] = eq[i] /\ HeldOf(id) = {} /\ orders'[id] = orders[id]
          BY <2>2, <2>5, <3>2
        <4>2. i \in EqOf(id) /\ \A j \in EqOf(id) : j <= i
          BY <2>5, <4>1
        <4>3. eq[i].data = orders[id]
          BY <2>1, <4>1, <4>2 DEF QueuedIsLatest
        <4> QED BY <4>1, <4>3
      <3> QED BY <3>1, <3>2
    <2>6. QueuedIsLatest'
      BY <2>4, <2>5 DEF QueuedIsLatest
    <2>7. \A id \in Orders : AllTaken(id)' => id # data.order_id
      BY <2>2 DEF AllTaken
    <2> QED BY <2>1, <2>2, <2>6, <2>7 DEF AllTaken
  <1>7. CASE Inserts
    <2>1. connected /\ QueuedIsLatest /\ UNCHANGED eq /\ pcA = "insert" /\ m_order_id \in Orders
      BY <1>7 DEF Inserts
    <2>2. PICK data : data = NewOrder(m_order_id, req.action, req.quantity)
      OBVIOUS
    <2>3. data \in OrderData /\ data.order_id = m_order_id
      BY <1>1, <2>1, <2>2 DEF NewOrder, OrderData, Statuses, AlgoTypeOK, Requests
    <2>4. /\ orders'[m_order_id] = data /\ data # NoOrder
          /\ \A id \in Orders : id # m_order_id => orders'[id] = orders[id]
          /\ held'["sender"] = data /\ held'["callback"] = held["callback"]
      BY <1>1, <1>7, <2>2, <2>3, SnapshotTaken DEF Inserts, ApiThreads
    <2>5. held["sender"] = NoOrder /\ orders[m_order_id] = NoOrder
      BY <1>2, <2>1 DEF NewIsUnplaced, Orders
    <2>6. "sender" \in HeldOf(data.order_id)'
      BY <2>3, <2>4 DEF HeldOf, ApiThreads
    <2>7. \A id \in Orders : EqOf(id)' = EqOf(id)
      BY <2>1 DEF EqOf
    <2>8. \A id \in Orders : HeldOf(id)' = {} => id # m_order_id /\ HeldOf(id) = {}
      BY <2>3, <2>4, <2>5, <2>6 DEF HeldOf, ApiThreads
    <2>9. held["callback"] # NoOrder => held["callback"].order_id # m_order_id
      BY <1>2, <1>3, <2>5 DEF PlacedIsKnown, ApiThreads
    <2>10. \A th \in ApiThreads : held'[th] # NoOrder => held'[th] = orders'[held'[th].order_id]
      BY <1>3, <2>1, <2>3, <2>4, <2>9 DEF QueuedIsLatest, ApiThreads
    <2>11. QueuedIsLatest'
      BY <2>1, <2>4, <2>7, <2>8, <2>10 DEF QueuedIsLatest
    <2> QED BY <2>1, <2>4, <2>7, <2>8, <2>11 DEF AllTaken
  <1>8. ~Breaks /\ \A id \in Orders : ~Fails(id)
    BY DEF Breaks, Fails
  <1>9. ASSUME \/ \E id \in Orders, msg \in Messages, entry \in BookEntries : Tells(id, msg, entry)
               \/ Places \/ \E id \in Orders : Cancels(id)
               \/ Drops \/ Aside
        PROVE  connected /\ UNCHANGED <<orders, held, eq>>
    BY <1>9 DEF Tells, Places, Cancels, Drops, Aside
  <1> QED BY <1>4, <1>5, <1>6, <1>7, <1>8, <1>9, StepKinds

(* Orders that are known stay known, and none changes its action.          *)
LEMMA KnownStays ==
    ASSUME TypeInv, PlacedInv, [Next]_vars
    PROVE  /\ \A id \in Orders : orders[id] # NoOrder =>
                 orders'[id] # NoOrder /\ orders'[id].action = orders[id].action
           /\ \A th \in ApiThreads :
                 \/ held'[th] \in {held[th], NoOrder}
                 \/ held'[th] # NoOrder /\ held'[th] = orders'[held'[th].order_id]
  <1>1. ApiTypeOK /\ AlgoTypeOK
    BY DEF TypeInv, TypeOK
  <1>2. CASE UNCHANGED <<orders, held>>
    BY <1>2
  <1>3. ASSUME NEW msg \in Messages, NEW data \in OrderData, Reads(msg, data)
        PROVE  /\ \A id \in Orders : orders[id] # NoOrder =>
                     orders'[id] # NoOrder /\ orders'[id].action = orders[id].action
               /\ \A th \in ApiThreads :
                     \/ held'[th] \in {held[th], NoOrder}
                     \/ held'[th] # NoOrder /\ held'[th] = orders'[held'[th].order_id]
    <2>1. Snapshot("callback", data) /\ data.order_id = msg.id /\ data.action = orders[msg.id].action
      BY <1>3 DEF Reads
    <2> QED BY <1>1, <2>1, SnapshotTaken DEF ApiThreads
  <1>4. ASSUME NEW th \in ApiThreads, Hands(th)
        PROVE  UNCHANGED orders /\ \A t \in ApiThreads : held'[t] \in {held[t], NoOrder}
    BY <1>1, <1>4 DEF Hands, on_order, ApiTypeOK
  <1>5. CASE Inserts
    <2>1. PICK data : data = NewOrder(m_order_id, req.action, req.quantity)
      OBVIOUS
    <2>2. data \in OrderData /\ data.order_id = m_order_id /\ m_order_id \in Orders
      BY <1>1, <1>5, <2>1 DEF NewOrder, OrderData, Statuses, AlgoTypeOK, Requests, Inserts
    <2>3. Snapshot("sender", data) /\ orders[m_order_id] = NoOrder
      BY <1>5, <2>1, <2>2 DEF Inserts, PlacedInv, NewIsUnplaced, Orders
    <2> QED BY <1>1, <2>2, <2>3, SnapshotTaken DEF ApiThreads
  <1>6. ASSUME NEW id \in Orders, Fails(id)
        PROVE  /\ \A i \in Orders : orders[i] # NoOrder =>
                     orders'[i] # NoOrder /\ orders'[i].action = orders[i].action
               /\ \A th \in ApiThreads :
                     \/ held'[th] \in {held[th], NoOrder}
                     \/ held'[th] # NoOrder /\ held'[th] = orders'[held'[th].order_id]
    <2>1. PICK data : data = [orders[id] EXCEPT !.error_code = TRUE]
      OBVIOUS
    <2>2. data \in OrderData /\ data.order_id = id /\ data.action = orders[id].action
      BY <2>1, <1>6 DEF OrderData, Fails, TypeInv, TypeOK, ApiTypeOK, Links, FiledUnderId
    <2>3. Snapshot("sender", data)
      BY <1>6, <2>1 DEF Fails, error
    <2> QED BY <1>1, <2>2, <2>3, SnapshotTaken DEF ApiThreads
  <1>7. ASSUME \/ \E id \in Orders, msg \in Messages, entry \in BookEntries : Tells(id, msg, entry)
               \/ Places \/ \E id \in Orders : Cancels(id)
               \/ Drops \/ Aside \/ Breaks \/ Dispatch \/ Books
        PROVE  UNCHANGED <<orders, held>>
    BY <1>7, DownstreamOnly DEF Tells, Places, Cancels, Drops, Aside, Breaks
  <1> QED BY <1>2, <1>3, <1>4, <1>5, <1>6, <1>7, StepKinds
-----------------------------------------------------------------------------
(* A copy is one of an order IBApi knows, with the order's action.         *)
Alike(data) == orders[data.order_id] # NoOrder /\ data.action = orders[data.order_id].action

CopiesAlike ==
    /\ \A th \in ApiThreads : held[th] # NoOrder => Alike(held[th])
    /\ \A i \in 1 .. Len(eq) : Alike(eq[i].data)
    /\ disp.data # NoOrder => Alike(disp.data)
    /\ \A i \in 1 .. Len(pq) : Alike(pq[i])
    /\ \A id \in Orders : port_orders[id] # NoOrder =>
          port_orders[id].order_id = id /\ Alike(port_orders[id])

PortfolioCb == "portfolio_order_data_cb"

(* The portfolio's callback is registered with the event engine.           *)
PortfolioListens == \E i \in 1 .. Len(CallbackOrder) : CallbackOrder[i] = PortfolioCb

(* Once the event engine has taken all there is about an order, the event  *)
(* in its hand is the latest snapshot; or the last one in the portfolio's  *)
(* queue is; or the portfolio has it on record.                            *)
BooksAreLatest ==
    \A id \in Orders : AllTaken(id) =>
        /\ InHand(PortfolioCb, id) => disp.data = orders[id]
        /\ ~InHand(PortfolioCb, id) =>
              /\ \A i \in PqOf(id) : (\A j \in PqOf(id) : j <= i) => pq[i] = orders[id]
              /\ PqOf(id) = {} => port_orders[id] = orders[id]

(* The event the portfolio handles again is on record as it is.            *)
LastIsOnRecord == plast # NoOrder => port_orders[plast.order_id] = plast

(* What an order on record adds to the position, and to the cost.          *)
PosOf(data) == IF data = NoOrder THEN 0 ELSE Signed(data.action, Traded(data))

CostOf(data) == IF data = NoOrder THEN 0 ELSE Signed(data.action, Notional(data)) + Fees(data)

BooksAdd ==
    /\ pos = SumFunctionOnSet([id \in Orders |-> PosOf(port_orders[id])], Orders)
    /\ cost = SumFunctionOnSet([id \in Orders |-> CostOf(port_orders[id])], Orders)

BooksInv ==
    /\ CopiesAlike /\ LastIsOnRecord /\ BooksAdd
    /\ connected => QueuedIsLatest /\ BooksAreLatest

(* The event engine runs one callback, and lets go of the event after the  *)
(* last.                                                                   *)
LEMMA CallbackRuns ==
    ASSUME TypeInv, NEW cb_name, RunCallback(cb_name)
    PROVE  /\ disp.data \in OrderData
           /\ InHand(cb_name, disp.data.order_id)
           /\ disp'.data \in {disp.data, NoOrder}
           /\ \A cb, id : InHand(cb, id)' => InHand(cb, id) /\ disp'.data = disp.data
           /\ \A cb, id : cb # cb_name /\ InHand(cb, id) => InHand(cb, id)'
  <1>1. disp \in Dispatching /\ disp.todo # << >> /\ Head(disp.todo) = cb_name
    BY DEF RunCallback, TypeInv, TypeOK
  <1>2. disp.data \in OrderData /\ disp.todo \in Seq(Callbacks)
    BY <1>1 DEF TypeInv, Links, EventInHand, Dispatching, Callbacks
  <1>3. PICK n, todo : n = Len(disp.todo) /\ todo = Tail(disp.todo)
    OBVIOUS
  <1>4. /\ n \in Nat /\ n >= 1 /\ Len(todo) = n - 1 /\ disp.todo[1] = cb_name
        /\ \A i \in 1 .. n - 1 : todo[i] = disp.todo[i + 1]
    BY <1>1, <1>2, <1>3, Taken
  <1>5. disp'.todo = todo /\ disp'.data = IF n = 1 THEN NoOrder ELSE disp.data
    BY <1>3 DEF RunCallback
  <1>6. InHand(cb_name, disp.data.order_id)
    BY <1>3, <1>4 DEF InHand
  <1>7. ASSUME NEW cb, NEW id, InHand(cb, id)'
        PROVE  InHand(cb, id) /\ disp'.data = disp.data
    <2>1. PICK i \in 1 .. n - 1 : todo[i] = cb
      BY <1>4, <1>5, <1>7 DEF InHand
    <2>2. n # 1 /\ i + 1 \in 1 .. n /\ disp.todo[i + 1] = cb
      BY <1>4, <2>1
    <2>3. disp'.data = disp.data /\ disp.data.order_id = id
      BY <1>5, <1>7, <2>2 DEF InHand
    <2> QED BY <1>3, <2>2, <2>3 DEF InHand
  <1>8. ASSUME NEW cb, NEW id, cb # cb_name, InHand(cb, id)
        PROVE  InHand(cb, id)'
    <2>1. PICK i \in 1 .. n : disp.todo[i] = cb
      BY <1>3, <1>8 DEF InHand
    <2>2. i # 1
      BY <1>4, <1>8, <2>1
    <2>3. i - 1 \in 1 .. n - 1 /\ i - 1 + 1 = i /\ n # 1
      BY <1>4, <2>1, <2>2
    <2>4. todo[i - 1] = cb
      BY <1>4, <2>1, <2>3
    <2>5. disp'.data.order_id = id
      BY <1>5, <1>8, <2>3 DEF InHand
    <2> QED BY <1>4, <1>5, <2>3, <2>4, <2>5 DEF InHand
  <1> QED BY <1>2, <1>5, <1>6, <1>7, <1>8

(* The portfolio's callback puts the event at the end of its queue.        *)
LEMMA PortfolioQueued ==
    ASSUME PortTypeOK, NEW data \in OrderData, pq' = Append(pq, data)
    PROVE  /\ \E n \in PqOf(data.order_id)' : pq'[n] = data /\ \A i \in PqOf(data.order_id)' : i <= n
           /\ \A id : id # data.order_id =>
                 PqOf(id)' = PqOf(id) /\ \A i \in PqOf(id) : pq'[i] = pq[i]
           /\ \A i \in 1 .. Len(pq') : pq'[i] = data \/ (i \in 1 .. Len(pq) /\ pq'[i] = pq[i])
  <1>1. PICK n : n = Len(pq)
    OBVIOUS
  <1>2. /\ n \in Nat /\ Len(pq') = n + 1 /\ pq'[n + 1] = data
        /\ \A i \in 1 .. n : pq'[i] = pq[i]
    BY <1>1, Appended DEF PortTypeOK
  <1>3. n + 1 \in PqOf(data.order_id)' /\ \A i \in PqOf(data.order_id)' : i <= n + 1
    BY <1>2 DEF PqOf
  <1>4. ASSUME NEW id, id # data.order_id
        PROVE  PqOf(id)' = PqOf(id) /\ \A i \in PqOf(id) : pq'[i] = pq[i]
    <2>1. n + 1 \notin PqOf(id)'
      BY <1>2, <1>4 DEF PqOf
    <2>2. \A i : i \in PqOf(id)' <=> i \in PqOf(id)
      BY <1>1, <1>2, <2>1 DEF PqOf
    <2> QED BY <1>1, <1>2, <2>2 DEF PqOf
  <1>5. \A i \in 1 .. n + 1 : i = n + 1 \/ i \in 1 .. n
    BY <1>2
  <1> QED BY <1>1, <1>2, <1>3, <1>4, <1>5

(* The portfolio takes the head of its queue.                              *)
LEMMA PortfolioTakes ==
    ASSUME PortTypeOK, pq # << >>, pq' = Tail(pq), NEW data, data = Head(pq)
    PROVE  /\ data \in OrderData /\ 1 \in 1 .. Len(pq) /\ pq[1] = data
           /\ \A i \in 1 .. Len(pq') : i + 1 \in 1 .. Len(pq) /\ pq'[i] = pq[i + 1]
           /\ \A id \in Orders :
                 /\ PqOf(id)' = {} /\ data.order_id # id => PqOf(id) = {}
                 /\ \A i \in PqOf(id)' : (\A j \in PqOf(id)' : j <= i) =>
                       /\ i + 1 \in PqOf(id) /\ pq'[i] = pq[i + 1]
                       /\ \A j \in PqOf(id) : j <= i + 1
                 /\ PqOf(id)' = {} /\ data.order_id = id =>
                       1 \in PqOf(id) /\ \A j \in PqOf(id) : j <= 1
  <1>1. PICK n : n = Len(pq)
    OBVIOUS
  <1>2. /\ n \in Nat /\ n >= 1 /\ Len(pq') = n - 1 /\ data = pq[1] /\ data \in OrderData
        /\ \A i \in 1 .. n - 1 : pq'[i] = pq[i + 1]
    BY <1>1, Taken DEF PortTypeOK
  <1>3. \A i \in 1 .. n - 1 : i + 1 \in 1 .. n
    BY <1>2
  <1>4. ASSUME NEW id \in Orders, NEW i \in PqOf(id)'
        PROVE  i + 1 \in PqOf(id) /\ pq'[i] = pq[i + 1] /\ i \in Nat /\ i >= 1
    BY <1>1, <1>2 DEF PqOf
  <1>5. ASSUME NEW id \in Orders, NEW i \in PqOf(id)
        PROVE  i \in Nat /\ (i = 1 \/ i - 1 \in PqOf(id)')
    <2>1. i \in 1 .. n /\ pq[i].order_id = id
      BY <1>1, <1>5 DEF PqOf
    <2>2. CASE i # 1
      <3>1. i - 1 \in 1 .. n - 1 /\ i - 1 + 1 = i
        BY <1>2, <2>1, <2>2
      <3>2. pq'[i - 1] = pq[i]
        BY <1>2, <3>1
      <3> QED BY <1>2, <2>1, <3>1, <3>2 DEF PqOf
    <2> QED BY <2>1, <2>2
  <1>6. ASSUME NEW id \in Orders PROVE 1 \in PqOf(id) <=> data.order_id = id
    BY <1>1, <1>2 DEF PqOf
  <1>7. ASSUME NEW id \in Orders, NEW i \in PqOf(id)', \A j \in PqOf(id)' : j <= i
        PROVE  \A j \in PqOf(id) : j <= i + 1
    <2> TAKE j \in PqOf(id)
    <2>1. j \in Nat /\ (j = 1 \/ j - 1 <= i) /\ i \in Nat
      BY <1>4, <1>5, <1>7
    <2> QED BY <2>1
  <1>8. ASSUME NEW id \in Orders, PqOf(id)' = {} PROVE \A j \in PqOf(id) : j = 1
    BY <1>5, <1>8
  <1>9. data \in OrderData /\ 1 \in 1 .. Len(pq) /\ pq[1] = data
    BY <1>1, <1>2
  <1>10. \A i \in 1 .. Len(pq') : i + 1 \in 1 .. Len(pq) /\ pq'[i] = pq[i + 1]
    BY <1>1, <1>2, <1>3
  <1>11. ASSUME NEW id \in Orders
         PROVE  /\ PqOf(id)' = {} /\ data.order_id # id => PqOf(id) = {}
                /\ PqOf(id)' = {} /\ data.order_id = id =>
                      1 \in PqOf(id) /\ \A j \in PqOf(id) : j <= 1
    BY <1>6, <1>8
  <1> QED BY <1>4, <1>7, <1>9, <1>10, <1>11

(* The fields of a snapshot that the books add up are numbers.             *)
LEMMA BookTypes ==
    ASSUME NEW data \in OrderData \cup {NoOrder}
    PROVE  /\ Traded(data) \in Int /\ Notional(data) \in Int /\ Fees(data) \in Int
           /\ PosOf(data) \in Int /\ CostOf(data) \in Int
  <1>1. Traded(data) \in Int /\ Notional(data) \in Int /\ Fees(data) \in Int
    BY DEF Traded, Notional, Fees, OrderData
  <1>2. \A a, n : n \in Int => Signed(a, n) \in Int
    BY DEF Signed
  <1>3. PosOf(data) \in Int
    BY <1>1, <1>2 DEF PosOf
  <1>4. CostOf(data) \in Int
    <2>1. PICK s : s = Signed(data.action, Notional(data))
      OBVIOUS
    <2>2. s \in Int
      BY <1>1, <1>2, <2>1
    <2> QED BY <1>1, <2>1, <2>2 DEF CostOf
  <1> QED BY <1>1, <1>3, <1>4

(* A sum over the orders of which one adds something else.                 *)
LEMMA SumOverOrders ==
    ASSUME NEW f, NEW g, NEW id \in Orders,
           \A i \in Orders : f[i] \in Int /\ g[i] \in Int,
           \A i \in Orders \ {id} : g[i] = f[i]
    PROVE  SumFunctionOnSet(g, Orders) = SumFunctionOnSet(f, Orders) + (g[id] - f[id])
  <1>1. IsFiniteSet(Orders)
    BY MaxOrdersIsNat, FS_Interval DEF Orders
  <1> QED BY <1>1, SumUpdate

(* The portfolio puts an order on record: position and cost change by what *)
(* the order now adds more than before, as it keeps its action.            *)
LEMMA RecordAdds ==
    ASSUME PortTypeOK, BooksAdd, NEW data \in OrderData, order_data_cb(data),
           port_orders[data.order_id] # NoOrder =>
              port_orders[data.order_id].action = data.action
    PROVE  BooksAdd'
  <1>1. PICK id, old : id = data.order_id /\ old = port_orders[id]
    OBVIOUS
  <1>2. /\ id \in Orders /\ old \in OrderData \cup {NoOrder} /\ data # NoOrder
        /\ port_orders \in [Orders -> OrderData \cup {NoOrder}]
    BY <1>1, NoOrderIsNoData DEF OrderData, PortTypeOK
  <1>3. /\ port_orders' = [port_orders EXCEPT ![id] = data]
        /\ pos' = pos + Signed(data.action, Traded(data) - Traded(old))
        /\ cost' = cost + Signed(data.action, Notional(data) - Notional(old))
                        + Fees(data) - Fees(old)
    BY <1>1 DEF order_data_cb
  <1>4. old # NoOrder => old.action = data.action
    BY <1>1
  <1>5. IsFiniteSet(Orders)
    BY MaxOrdersIsNat, FS_Interval DEF Orders
  <1>6. \A d \in OrderData \cup {NoOrder} : PosOf(d) \in Int /\ CostOf(d) \in Int
    BY BookTypes
  <1>7. /\ Traded(data) \in Int /\ Traded(old) \in Int
        /\ Notional(data) \in Int /\ Notional(old) \in Int
        /\ Fees(data) \in Int /\ Fees(old) \in Int
    BY <1>2, BookTypes
  <1>8. Traded(NoOrder) = 0 /\ Notional(NoOrder) = 0 /\ Fees(NoOrder) = 0
    BY DEF Traded, Notional, Fees
  <1>9. Signed(data.action, Traded(data) - Traded(old)) = PosOf(data) - PosOf(old)
    <2>1. PosOf(data) = Signed(data.action, Traded(data))
      BY <1>2 DEF PosOf
    <2>2. CASE old = NoOrder
      <3>1. Traded(old) = 0 /\ PosOf(old) = 0
        BY <1>8, <2>2 DEF PosOf
      <3>2. Traded(data) - Traded(old) = Traded(data)
        BY <1>7, <3>1
      <3>3. PosOf(data) \in Int
        BY <1>6
      <3> QED BY <2>1, <3>1, <3>2, <3>3
    <2>3. CASE old # NoOrder
      <3>1. PosOf(old) = Signed(data.action, Traded(old))
        BY <1>4, <2>3 DEF PosOf
      <3> QED BY <1>7, <2>1, <3>1 DEF Signed
    <2> QED BY <2>2, <2>3
  <1>10. Signed(data.action, Notional(data) - Notional(old)) + Fees(data) - Fees(old)
           = CostOf(data) - CostOf(old)
    <2>1. CostOf(data) = Signed(data.action, Notional(data)) + Fees(data)
      BY <1>2 DEF CostOf
    <2>2. CostOf(old) = Signed(data.action, Notional(old)) + Fees(old)
      <3>1. CASE old = NoOrder
        BY <1>8, <3>1 DEF CostOf, Signed
      <3>2. CASE old # NoOrder
        BY <1>4, <3>2 DEF CostOf
      <3> QED BY <3>1, <3>2
    <2> QED BY <1>7, <2>1, <2>2 DEF Signed
  <1>11. pos' = SumFunctionOnSet([i \in Orders |-> PosOf(port_orders'[i])], Orders)
    <2>1. PICK f, g : /\ f = [i \in Orders |-> PosOf(port_orders[i])]
                      /\ g = [i \in Orders |-> PosOf(port_orders'[i])]
      OBVIOUS
    <2>2. /\ \A i \in Orders : f[i] \in Int /\ g[i] \in Int
          /\ \A i \in Orders \ {id} : g[i] = f[i]
          /\ f[id] = PosOf(old) /\ g[id] = PosOf(data)
      BY <1>1, <1>2, <1>3, <1>6, <2>1
    <2>3. SumFunctionOnSet(g, Orders) = SumFunctionOnSet(f, Orders) + (g[id] - f[id])
      <3>1. id \in Orders
        BY <1>2
      <3>2. \A i \in Orders : f[i] \in Int /\ g[i] \in Int
        BY <2>2
      <3>3. \A i \in Orders \ {id} : g[i] = f[i]
        BY <2>2
      <3> QED BY <3>1, <3>2, <3>3, SumOverOrders
    <2>4. pos = SumFunctionOnSet(f, Orders)
      BY <2>1 DEF BooksAdd
    <2>5. pos' = SumFunctionOnSet(g, Orders)
      BY <1>3, <1>9, <2>2, <2>3, <2>4
    <2> QED BY <2>1, <2>5
  <1>12. cost' = SumFunctionOnSet([i \in Orders |-> CostOf(port_orders'[i])], Orders)
    <2>1. PICK f, g : /\ f = [i \in Orders |-> CostOf(port_orders[i])]
                      /\ g = [i \in Orders |-> CostOf(port_orders'[i])]
      OBVIOUS
    <2>2. /\ \A i \in Orders : f[i] \in Int /\ g[i] \in Int
          /\ \A i \in Orders \ {id} : g[i] = f[i]
          /\ f[id] = CostOf(old) /\ g[id] = CostOf(data)
      BY <1>1, <1>2, <1>3, <1>6, <2>1
    <2>3. SumFunctionOnSet(g, Orders) = SumFunctionOnSet(f, Orders) + (g[id] - f[id])
      <3>1. id \in Orders
        BY <1>2
      <3>2. \A i \in Orders : f[i] \in Int /\ g[i] \in Int
        BY <2>2
      <3>3. \A i \in Orders \ {id} : g[i] = f[i]
        BY <2>2
      <3> QED BY <3>1, <3>2, <3>3, SumOverOrders
    <2>4. cost = SumFunctionOnSet(f, Orders) /\ cost \in Int
      BY <2>1 DEF BooksAdd, PortTypeOK
    <2>5. PICK s : s = Signed(data.action, Notional(data) - Notional(old))
      OBVIOUS
    <2>6. s \in Int
      BY <1>7, <2>5 DEF Signed
    <2>7. cost' = cost + (s + Fees(data) - Fees(old))
      BY <1>3, <1>7, <2>4, <2>5, <2>6
    <2>8. cost' = SumFunctionOnSet(g, Orders)
      BY <1>10, <2>2, <2>3, <2>4, <2>5, <2>7
    <2> QED BY <2>1, <2>8
  <1> QED BY <1>11, <1>12 DEF BooksAdd

(* At the start the books are empty.                                       *)
LEMMA BooksInit == Init => BooksInv
  <1> SUFFICES ASSUME Init PROVE BooksInv
    OBVIOUS
  <1>1. /\ orders = [id \in Orders |-> NoOrder] /\ held = [th \in ApiThreads |-> NoOrder]
        /\ eq = << >> /\ pq = << >> /\ plast = NoOrder /\ pos = 0 /\ cost = 0
        /\ port_orders = [id \in Orders |-> NoOrder]
        /\ disp = [data |-> NoOrder, todo |-> << >>]
    BY DEF Init, ApiInit, PortInit
  <1>2. \A id : EqOf(id) = {} /\ HeldOf(id) = {} /\ PqOf(id) = {} /\ ~InHand(PortfolioCb, id)
    BY <1>1 DEF EqOf, HeldOf, PqOf, InHand
  <1>3. CopiesAlike /\ LastIsOnRecord
    BY <1>1 DEF CopiesAlike, LastIsOnRecord
  <1>4. QueuedIsLatest /\ BooksAreLatest
    BY <1>1, <1>2 DEF QueuedIsLatest, BooksAreLatest
  <1>5. IsFiniteSet(Orders)
    BY MaxOrdersIsNat, FS_Interval DEF Orders
  <1>6. BooksAdd
    <2>1. PICK f, g : /\ f = [id \in Orders |-> PosOf(port_orders[id])]
                      /\ g = [id \in Orders |-> CostOf(port_orders[id])]
      OBVIOUS
    <2>2. \A id \in Orders : f[id] = 0 /\ g[id] = 0
      BY <1>1, <2>1 DEF PosOf, CostOf
    <2>3. SumFunctionOnSet(f, Orders) = 0 /\ SumFunctionOnSet(g, Orders) = 0
      BY <1>5, <2>2, SumZero
    <2> QED BY <1>1, <2>1, <2>3 DEF BooksAdd
  <1> QED BY <1>3, <1>4, <1>6 DEF BooksInv

(* A copy stays one of its order on every way it takes.                    *)
LEMMA CopiesStep ==
    ASSUME TypeInv, PlacedInv, CopiesAlike, LastIsOnRecord, [Next]_vars
    PROVE  CopiesAlike'
  <1>1. ApiTypeOK /\ PortTypeOK /\ disp \in Dispatching
    BY DEF TypeInv, TypeOK
  <1>2. \A d \in OrderData : Alike(d) =>
           orders'[d.order_id] # NoOrder /\ d.action = orders'[d.order_id].action
    BY KnownStays DEF Alike, OrderData
  <1>3. ASSUME NEW th \in ApiThreads, held'[th] # NoOrder
        PROVE  orders'[held'[th].order_id] # NoOrder
                  /\ held'[th].action = orders'[held'[th].order_id].action
    <2>1. CASE held'[th] = held[th]
      <3>1. held[th] \in OrderData /\ Alike(held[th])
        BY <1>1, <1>3, <2>1 DEF ApiTypeOK, CopiesAlike
      <3> QED BY <1>2, <2>1, <3>1
    <2>2. CASE held'[th] # held[th]
      <3>1. held'[th] = orders'[held'[th].order_id]
        BY <1>3, <2>2, KnownStays
      <3> QED BY <1>3, <3>1
    <2> QED BY <2>1, <2>2
  <1>4. \A i \in 1 .. Len(eq) : eq[i].data \in OrderData /\ Alike(eq[i].data)
    <2>1. \A i \in 1 .. Len(eq) : eq[i] \in OrderEvents
      BY <1>1, ElementOfSeq DEF ApiTypeOK
    <2> QED BY <2>1 DEF OrderEvents, CopiesAlike
  <1>5. \A i \in 1 .. Len(pq) : pq[i] \in OrderData /\ Alike(pq[i])
    BY <1>1, ElementOfSeq DEF PortTypeOK, CopiesAlike
  <1>6. disp.data # NoOrder => disp.data \in OrderData /\ Alike(disp.data)
    BY <1>1 DEF Dispatching, CopiesAlike
  <1>7. ASSUME NEW id \in Orders, port_orders[id] # NoOrder
        PROVE  port_orders[id] \in OrderData /\ port_orders[id].order_id = id
                  /\ Alike(port_orders[id])
    BY <1>1, <1>7 DEF PortTypeOK, CopiesAlike
  <1>8. ASSUME \A i \in 1 .. Len(eq') : eq'[i].data \in OrderData
                  /\ orders'[eq'[i].data.order_id] # NoOrder
                  /\ eq'[i].data.action = orders'[eq'[i].data.order_id].action,
               disp'.data # NoOrder =>
                  /\ orders'[disp'.data.order_id] # NoOrder
                  /\ disp'.data.action = orders'[disp'.data.order_id].action,
               \A i \in 1 .. Len(pq') :
                  /\ orders'[pq'[i].order_id] # NoOrder
                  /\ pq'[i].action = orders'[pq'[i].order_id].action,
               \A id \in Orders : port_orders'[id] # NoOrder =>
                  /\ port_orders'[id].order_id = id
                  /\ orders'[port_orders'[id].order_id] # NoOrder
                  /\ port_orders'[id].action = orders'[port_orders'[id].order_id].action
        PROVE  CopiesAlike'
    BY <1>3, <1>8 DEF CopiesAlike, Alike
  <1>9. UNCHANGED disp /\ disp'.data # NoOrder =>
            /\ orders'[disp'.data.order_id] # NoOrder
            /\ disp'.data.action = orders'[disp'.data.order_id].action
    BY <1>2, <1>6
  <1>10. UNCHANGED pq => \A i \in 1 .. Len(pq') :
            /\ orders'[pq'[i].order_id] # NoOrder
            /\ pq'[i].action = orders'[pq'[i].order_id].action
    BY <1>2, <1>5
  <1>11. UNCHANGED port_orders => \A id \in Orders : port_orders'[id] # NoOrder =>
            /\ port_orders'[id].order_id = id
            /\ orders'[port_orders'[id].order_id] # NoOrder
            /\ port_orders'[id].action = orders'[port_orders'[id].order_id].action
    BY <1>2, <1>7
  <1>12. UNCHANGED eq => \A i \in 1 .. Len(eq') :
            /\ eq'[i].data \in OrderData
            /\ orders'[eq'[i].data.order_id] # NoOrder
            /\ eq'[i].data.action = orders'[eq'[i].data.order_id].action
    BY <1>2, <1>4
  <1>13. CASE ~(Dispatch \/ Books)
    <2>1. UNCHANGED <<disp, pq, port_orders>>
      BY <1>13, StepKinds DEF portVars
    <2>2. CASE UNCHANGED eq
      BY <1>8, <1>9, <1>10, <1>11, <1>12, <2>1, <2>2
    <2>3. ASSUME NEW th \in ApiThreads, Hands(th) PROVE CopiesAlike'
      <3>1. PICK data, n : data = held[th] /\ n = Len(eq)
        OBVIOUS
      <3>2. data \in OrderData /\ Alike(data)
        BY <1>1, <2>3, <3>1 DEF Hands, on_order, ApiTypeOK, CopiesAlike
      <3>3. OrderEvent(data) \in OrderEvents /\ OrderEvent(data).data = data
        BY <3>2 DEF OrderEvent, OrderEvents
      <3>4. /\ n \in Nat /\ Len(eq') = n + 1 /\ eq'[n + 1].data = data
            /\ \A i \in 1 .. n : eq'[i] = eq[i]
        BY <1>1, <2>3, <3>1, <3>3, Appended DEF Hands, on_order, ApiTypeOK
      <3>5. \A i \in 1 .. Len(eq') : eq'[i].data \in OrderData /\ Alike(eq'[i].data)
        <4>1. \A i \in 1 .. n + 1 : i = n + 1 \/ i \in 1 .. n
          BY <3>4
        <4> QED BY <1>4, <3>1, <3>2, <3>4, <4>1
      <3> QED BY <1>2, <1>8, <1>9, <1>10, <1>11, <2>1, <3>5
    <2>4. UNCHANGED eq \/ \E th \in ApiThreads : Hands(th)
      BY <1>13, StepKinds DEF Tells, Breaks, Reads, Drops, Inserts, Places, Cancels, Fails, Aside
    <2> QED BY <2>2, <2>3, <2>4
  <1>14. CASE PopEvent
    <2>1. eq # << >> /\ eq' = Tail(eq) /\ disp'.data = Head(eq).data /\ UNCHANGED <<pq, port_orders>>
      BY <1>14 DEF PopEvent, portVars
    <2>2. PICK n : n = Len(eq)
      OBVIOUS
    <2>3. /\ n \in Nat /\ n >= 1 /\ Len(eq') = n - 1 /\ Head(eq) = eq[1]
          /\ \A i \in 1 .. n - 1 : eq'[i] = eq[i + 1]
      BY <1>1, <2>1, <2>2, Taken DEF ApiTypeOK
    <2>4. \A i \in 1 .. Len(eq') : eq'[i].data \in OrderData /\ Alike(eq'[i].data)
      <3>1. \A i \in 1 .. n - 1 : i + 1 \in 1 .. n
        BY <2>3
      <3> QED BY <1>4, <2>2, <2>3, <3>1
    <2>5. disp'.data \in OrderData /\ Alike(disp'.data)
      <3>1. 1 \in 1 .. n
        BY <2>3
      <3> QED BY <1>4, <2>1, <2>2, <2>3, <3>1
    <2> QED BY <1>2, <1>8, <1>10, <1>11, <2>1, <2>4, <2>5
  <1>15. ASSUME NEW cb_name, RunCallback(cb_name), UNCHANGED <<port_orders>>,
                UNCHANGED pq \/ pq' = Append(pq, disp.data)
         PROVE  CopiesAlike'
    <2>1. disp.data \in OrderData /\ disp'.data \in {disp.data, NoOrder} /\ UNCHANGED eq
      BY <1>15, CallbackRuns DEF RunCallback, apiVars
    <2>2. disp.data # NoOrder
      BY <2>1, NoOrderIsNoData
    <2>3. disp'.data # NoOrder => disp'.data \in OrderData /\ Alike(disp'.data)
      BY <1>6, <2>1
    <2>4. \A i \in 1 .. Len(pq') : pq'[i] \in OrderData /\ Alike(pq'[i])
      <3>1. CASE UNCHANGED pq
        BY <1>5, <3>1
      <3>2. CASE pq' = Append(pq, disp.data)
        <4>1. PICK data : data = disp.data
          OBVIOUS
        <4>2. \A i \in 1 .. Len(pq') : pq'[i] = data \/ (i \in 1 .. Len(pq) /\ pq'[i] = pq[i])
          BY <1>1, <2>1, <3>2, <4>1, PortfolioQueued
        <4>3. data \in OrderData /\ Alike(data)
          BY <1>6, <2>1, <2>2, <4>1
        <4> QED BY <1>5, <4>2, <4>3
      <3> QED BY <1>15, <3>1, <3>2
    <2> QED BY <1>2, <1>8, <1>11, <1>12, <1>15, <2>1, <2>3, <2>4
  <1>16. CASE ToPortfolio \/ ToRiskManager \/ ToAlgoEngine
    BY <1>15, <1>16 DEF ToPortfolio, ToRiskManager, ToAlgoEngine, event_engine_order_data_cb,
       portVars
  <1>17. CASE Books
    <2>1. UNCHANGED <<eq, disp>>
      BY <1>17 DEF Books, apiVars
    <2>2. ASSUME NEW data \in OrderData, Alike(data), order_data_cb(data)
          PROVE  \A id \in Orders : port_orders'[id] # NoOrder =>
                    /\ port_orders'[id].order_id = id
                    /\ port_orders'[id] \in OrderData /\ Alike(port_orders'[id])
      <3>1. data.order_id \in Orders
        BY DEF OrderData
      <3>2. port_orders' = [port_orders EXCEPT ![data.order_id] = data]
        BY <2>2 DEF order_data_cb
      <3>3. /\ port_orders'[data.order_id] = data
            /\ \A id \in Orders : id # data.order_id => port_orders'[id] = port_orders[id]
        BY <1>1, <3>1, <3>2 DEF PortTypeOK
      <3> QED BY <1>7, <2>2, <3>3
    <2>3. CASE HandleOrder
      <3>1. PICK data : data = Head(pq)
        OBVIOUS
      <3>2. pq # << >> /\ pq' = Tail(pq) /\ order_data_cb(data)
        BY <2>3, <3>1 DEF HandleOrder
      <3>3. /\ data \in OrderData /\ 1 \in 1 .. Len(pq) /\ pq[1] = data
            /\ \A i \in 1 .. Len(pq') : i + 1 \in 1 .. Len(pq) /\ pq'[i] = pq[i + 1]
        BY <1>1, <3>1, <3>2, PortfolioTakes
      <3>4. \A i \in 1 .. Len(pq') : pq'[i] \in OrderData /\ Alike(pq'[i])
        BY <1>5, <3>3
      <3>5. Alike(data)
        BY <1>5, <3>3
      <3> QED BY <1>2, <1>8, <1>9, <1>12, <2>1, <2>2, <3>2, <3>3, <3>4, <3>5
    <2>4. CASE HandleAgain
      <3>1. PICK data : data = plast
        OBVIOUS
      <3>2. data \in OrderData /\ order_data_cb(data) /\ UNCHANGED pq
        BY <1>1, <2>4, <3>1 DEF HandleAgain, PortTypeOK
      <3>3. Alike(data)
        <4>1. data.order_id \in Orders /\ port_orders[data.order_id] = data /\ data # NoOrder
          BY <2>4, <3>1, <3>2 DEF HandleAgain, LastIsOnRecord, OrderData
        <4> QED BY <1>7, <4>1
      <3> QED BY <1>2, <1>8, <1>9, <1>10, <1>12, <2>1, <2>2, <3>2, <3>3
    <2> QED BY <1>17, <2>3, <2>4 DEF Books, PortStep
  <1> QED BY <1>13, <1>14, <1>16, <1>17 DEF Dispatch

(* The record the portfolio keeps of what it handled, and its sums.        *)
LEMMA RecordStep ==
    ASSUME TypeInv, CopiesAlike, LastIsOnRecord, BooksAdd, [Next]_vars
    PROVE  /\ LastIsOnRecord' /\ BooksAdd'
           /\ HandleAgain => UNCHANGED port_orders
  <1>1. PortTypeOK
    BY DEF TypeInv, TypeOK
  <1>2. ASSUME NEW data \in OrderData, order_data_cb(data)
        PROVE  /\ port_orders' = [port_orders EXCEPT ![data.order_id] = data]
               /\ data.order_id \in Orders /\ port_orders'[data.order_id] = data
    BY <1>1, <1>2 DEF order_data_cb, PortTypeOK, OrderData
  <1>3. CASE HandleOrder
    <2>1. PICK data : data = Head(pq)
      OBVIOUS
    <2>2. pq # << >> /\ pq' = Tail(pq) /\ order_data_cb(data) /\ plast' = data
      BY <1>3, <2>1 DEF HandleOrder
    <2>3. data \in OrderData /\ 1 \in 1 .. Len(pq) /\ pq[1] = data
      BY <1>1, <2>1, <2>2, PortfolioTakes
    <2>4. Alike(data)
      BY <2>3 DEF CopiesAlike
    <2>5. data.order_id \in Orders
      BY <1>2, <2>2, <2>3
    <2>6. port_orders[data.order_id] # NoOrder => port_orders[data.order_id].action = data.action
      BY <2>4, <2>5 DEF CopiesAlike, Alike
    <2>7. BooksAdd'
      BY <1>1, <2>2, <2>3, <2>6, RecordAdds
    <2>8. LastIsOnRecord'
      BY <1>2, <2>2, <2>3 DEF LastIsOnRecord
    <2>9. ~HandleAgain
      BY <1>3 DEF HandleOrder, HandleAgain
    <2> QED BY <2>7, <2>8, <2>9
  <1>4. CASE HandleAgain
    <2>1. PICK data : data = plast
      OBVIOUS
    <2>2. data \in OrderData /\ order_data_cb(data) /\ plast' = plast /\ data # NoOrder
      BY <1>1, <1>4, <2>1 DEF HandleAgain, PortTypeOK
    <2>3. port_orders[data.order_id] = data
      BY <2>1, <2>2 DEF LastIsOnRecord
    <2>4. BooksAdd'
      BY <1>1, <2>2, <2>3, RecordAdds
    <2>5. LastIsOnRecord'
      BY <1>2, <2>1, <2>2 DEF LastIsOnRecord
    <2>6. UNCHANGED port_orders
      BY <1>1, <1>2, <2>2, <2>3 DEF PortTypeOK
    <2> QED BY <2>4, <2>5, <2>6
  <1>5. CASE UNCHANGED <<plast, port_orders, pos, cost>>
    <2>1. BooksAdd'
      BY <1>5 DEF BooksAdd
    <2> QED BY <1>5, <2>1 DEF LastIsOnRecord
  <1>6. HandleOrder \/ HandleAgain \/ UNCHANGED <<plast, port_orders, pos, cost>>
    <2>1. CASE Books
      BY <2>1 DEF Books, PortStep
    <2>2. CASE Dispatch
      BY <2>2 DEF Dispatch, PopEvent, ToPortfolio, ToRiskManager, ToAlgoEngine,
         event_engine_order_data_cb, portVars
    <2>3. CASE ~(Dispatch \/ Books)
      BY <2>3, StepKinds DEF portVars
    <2> QED BY <2>1, <2>2, <2>3
  <1> QED BY <1>3, <1>4, <1>5, <1>6

(* The last snapshot of an order stays the last one through the callbacks  *)
(* and the portfolio's queue.                                              *)
LEMMA LatestStep ==
    ASSUME PortfolioListens, TypeInv, PlacedInv, BooksInv, [Next]_vars, connected'
    PROVE  QueuedIsLatest' /\ BooksAreLatest'
  <1>1. ApiTypeOK /\ PortTypeOK
    BY DEF TypeInv, TypeOK
  <1>2. CASE ~(Dispatch \/ Books)
    <2>1. /\ QueuedIsLatest' /\ connected
          /\ \A id \in Orders : AllTaken(id)' => AllTaken(id) /\ orders'[id] = orders[id]
      BY <1>2, QueuedStep DEF BooksInv
    <2>2. UNCHANGED <<disp, pq, port_orders>>
      BY <1>2, StepKinds DEF portVars
    <2>3. \A id \in Orders : PqOf(id)' = PqOf(id)
      BY <2>2 DEF PqOf
    <2>4. \A id \in Orders : InHand(PortfolioCb, id)' <=> InHand(PortfolioCb, id)
      BY <2>2 DEF InHand, PortfolioCb
    <2>5. BooksAreLatest
      BY <2>1 DEF BooksInv
    <2>6. BooksAreLatest'
      BY <2>1, <2>2, <2>3, <2>4, <2>5 DEF BooksAreLatest
    <2> QED BY <2>1, <2>6
  <1>3. CASE Dispatch \/ Books
    <2>1. UNCHANGED <<orders, held, connected>>
      BY <1>3, DownstreamOnly
    <2>2. QueuedIsLatest /\ BooksAreLatest
      BY <2>1 DEF BooksInv
    <2>3. \A id \in Orders : HeldOf(id)' = HeldOf(id)
      BY <2>1 DEF HeldOf
    <2>4. UNCHANGED eq => /\ \A id \in Orders : AllTaken(id)' <=> AllTaken(id)
                          /\ QueuedIsLatest'
      <3>1. UNCHANGED eq => \A id \in Orders : EqOf(id)' = EqOf(id)
        BY DEF EqOf
      <3> QED BY <2>1, <2>2, <2>3, <3>1 DEF AllTaken, QueuedIsLatest
    <2>5. CASE PopEvent
      <3>1. PICK data : data = Head(eq).data
        OBVIOUS
      <3>2. /\ disp.todo = << >> /\ disp'.data = data /\ disp'.todo = CallbackOrder
            /\ UNCHANGED <<pq, port_orders>>
        BY <2>5, <3>1 DEF PopEvent, portVars
      <3>3. \A id \in Orders :
                 /\ EqOf(id)' = {} /\ data.order_id # id => EqOf(id) = {}
                 /\ \A i \in EqOf(id)' : (\A j \in EqOf(id)' : j <= i) =>
                       /\ i + 1 \in EqOf(id) /\ eq'[i] = eq[i + 1]
                       /\ \A j \in EqOf(id) : j <= i + 1
                 /\ EqOf(id)' = {} /\ data.order_id = id =>
                       /\ 1 \in EqOf(id) /\ eq[1].data = data
                       /\ \A j \in EqOf(id) : j <= 1
        BY <2>5, <3>1, EventTaken
      <3>4. QueuedIsLatest'
        <4>1. ASSUME NEW id \in Orders, HeldOf(id)' = {}, NEW i \in EqOf(id)',
                     \A j \in EqOf(id)' : j <= i
              PROVE  eq'[i].data = orders[id]
          <5>1. i + 1 \in EqOf(id) /\ eq'[i] = eq[i + 1] /\ \A j \in EqOf(id) : j <= i + 1
            BY <3>3, <4>1
          <5> QED BY <2>2, <2>3, <4>1, <5>1 DEF QueuedIsLatest
        <4> QED BY <2>1, <2>2, <4>1 DEF QueuedIsLatest
      <3>5. \A id \in Orders : ~InHand(PortfolioCb, id)
        BY <3>2 DEF InHand
      <3>6. \A id \in Orders : InHand(PortfolioCb, id)' <=> data.order_id = id
        BY <3>2 DEF InHand, PortfolioListens
      <3>7. \A id \in Orders : PqOf(id)' = PqOf(id)
        BY <3>2 DEF PqOf
      <3>8. ASSUME NEW id \in Orders, AllTaken(id)', data.order_id = id
            PROVE  data = orders[id]
        <4>1. 1 \in EqOf(id) /\ eq[1].data = data /\ \A j \in EqOf(id) : j <= 1
          BY <3>3, <3>8 DEF AllTaken
        <4>2. HeldOf(id) = {}
          BY <2>3, <3>8 DEF AllTaken
        <4> QED BY <2>2, <4>1, <4>2 DEF QueuedIsLatest
      <3>9. ASSUME NEW id \in Orders, AllTaken(id)', data.order_id # id
            PROVE  AllTaken(id)
        BY <2>3, <3>3, <3>9 DEF AllTaken
      <3>10. BooksAreLatest'
        BY <2>1, <2>2, <3>2, <3>5, <3>6, <3>7, <3>8, <3>9 DEF BooksAreLatest
      <3> QED BY <3>4, <3>10
    <2>6. CASE ToRiskManager \/ ToAlgoEngine
      <3>1. PICK cb_name : RunCallback(cb_name) /\ cb_name # PortfolioCb
        BY <2>6 DEF ToRiskManager, ToAlgoEngine, PortfolioCb
      <3>2. UNCHANGED <<eq, pq, port_orders>>
        BY <2>6 DEF ToRiskManager, ToAlgoEngine, RunCallback, apiVars, portVars
      <3>3. \A id \in Orders : InHand(PortfolioCb, id)' <=> InHand(PortfolioCb, id)
        BY <3>1, CallbackRuns
      <3>4. \A id \in Orders : InHand(PortfolioCb, id)' => disp'.data = disp.data
        BY <3>1, CallbackRuns
      <3>5. \A id \in Orders : PqOf(id)' = PqOf(id)
        BY <3>2 DEF PqOf
      <3> QED BY <2>1, <2>2, <2>4, <3>2, <3>3, <3>4, <3>5 DEF BooksAreLatest
    <2>7. CASE ToPortfolio
      <3>1. PICK data : data = disp.data
        OBVIOUS
      <3>2. RunCallback(PortfolioCb) /\ pq' = Append(pq, data) /\ UNCHANGED <<eq, port_orders>>
        BY <2>7, <3>1 DEF ToPortfolio, event_engine_order_data_cb, PortfolioCb, RunCallback, apiVars
      <3>3. /\ data \in OrderData /\ InHand(PortfolioCb, data.order_id)
            /\ \A id : InHand(PortfolioCb, id)' => InHand(PortfolioCb, id) /\ disp'.data = data
        BY <3>1, <3>2, CallbackRuns
      <3>4. \A id : InHand(PortfolioCb, id) => id = data.order_id
        BY <3>1 DEF InHand
      <3>5. PICK n \in PqOf(data.order_id)' :
               pq'[n] = data /\ \A i \in PqOf(data.order_id)' : i <= n
        BY <1>1, <3>2, <3>3, PortfolioQueued
      <3>6. \A id : id # data.order_id =>
               PqOf(id)' = PqOf(id) /\ \A i \in PqOf(id) : pq'[i] = pq[i]
        BY <1>1, <3>2, <3>3, PortfolioQueued
      <3>7. ASSUME NEW id \in Orders, AllTaken(id)
            PROVE  /\ InHand(PortfolioCb, id)' => disp'.data = orders[id]
                   /\ ~InHand(PortfolioCb, id)' =>
                        /\ \A i \in PqOf(id)' : (\A j \in PqOf(id)' : j <= i) => pq'[i] = orders[id]
                        /\ PqOf(id)' = {} => port_orders[id] = orders[id]
        <4>1. CASE id = data.order_id
          <5>1. data = orders[id]
            BY <2>2, <3>1, <3>3, <3>7, <4>1 DEF BooksAreLatest
          <5>2. ASSUME NEW i \in PqOf(id)', \A j \in PqOf(id)' : j <= i PROVE i = n
            <6>1. i \in Int /\ n \in Int
              BY <3>5, <5>2 DEF PqOf
            <6>2. i <= n /\ n <= i
              BY <3>5, <4>1, <5>2
            <6> QED BY <6>1, <6>2
          <5>3. PqOf(id)' # {}
            BY <3>5, <4>1
          <5> QED BY <3>3, <3>5, <5>1, <5>2, <5>3
        <4>2. CASE id # data.order_id
          <5>1. ~InHand(PortfolioCb, id) /\ ~InHand(PortfolioCb, id)'
            BY <3>3, <3>4, <4>2
          <5> QED BY <2>2, <3>6, <3>7, <4>2, <5>1 DEF BooksAreLatest
        <4> QED BY <4>1, <4>2
      <3>8. BooksAreLatest'
        BY <2>1, <2>4, <3>2, <3>7 DEF BooksAreLatest
      <3> QED BY <2>4, <3>2, <3>8
    <2>8. CASE HandleOrder /\ Books
      <3>1. PICK data : data = Head(pq)
        OBVIOUS
      <3>2. pq # << >> /\ pq' = Tail(pq) /\ order_data_cb(data) /\ UNCHANGED <<eq, disp>>
        BY <2>8, <3>1 DEF HandleOrder, Books, apiVars
      <3>3. data \in OrderData /\ pq[1] = data
        BY <1>1, <3>1, <3>2, PortfolioTakes
      <3>4. \A id \in Orders :
                 /\ PqOf(id)' = {} /\ data.order_id # id => PqOf(id) = {}
                 /\ \A i \in PqOf(id)' : (\A j \in PqOf(id)' : j <= i) =>
                       /\ i + 1 \in PqOf(id) /\ pq'[i] = pq[i + 1]
                       /\ \A j \in PqOf(id) : j <= i + 1
                 /\ PqOf(id)' = {} /\ data.order_id = id =>
                       1 \in PqOf(id) /\ \A j \in PqOf(id) : j <= 1
        BY <1>1, <3>1, <3>2, PortfolioTakes
      <3>5. /\ data.order_id \in Orders /\ port_orders'[data.order_id] = data
            /\ \A id \in Orders : id # data.order_id => port_orders'[id] = port_orders[id]
        BY <1>1, <3>2, <3>3 DEF order_data_cb, PortTypeOK, OrderData
      <3>6. \A id \in Orders : InHand(PortfolioCb, id)' <=> InHand(PortfolioCb, id)
        BY <3>2 DEF InHand, PortfolioCb
      <3>7. ASSUME NEW id \in Orders, AllTaken(id), ~InHand(PortfolioCb, id)
            PROVE  /\ \A i \in PqOf(id)' : (\A j \in PqOf(id)' : j <= i) => pq'[i] = orders[id]
                   /\ PqOf(id)' = {} => port_orders'[id] = orders[id]
        <4>1. /\ \A i \in PqOf(id) : (\A j \in PqOf(id) : j <= i) => pq[i] = orders[id]
              /\ PqOf(id) = {} => port_orders[id] = orders[id]
          BY <2>2, <3>7 DEF BooksAreLatest
        <4>2. ASSUME NEW i \in PqOf(id)', \A j \in PqOf(id)' : j <= i PROVE pq'[i] = orders[id]
          <5>1. i + 1 \in PqOf(id) /\ pq'[i] = pq[i + 1] /\ \A j \in PqOf(id) : j <= i + 1
            BY <3>4, <4>2
          <5> QED BY <4>1, <5>1
        <4>3. ASSUME PqOf(id)' = {} PROVE port_orders'[id] = orders[id]
          <5>1. CASE id = data.order_id
            <6>1. 1 \in PqOf(id) /\ \A j \in PqOf(id) : j <= 1
              BY <3>4, <4>3, <5>1
            <6> QED BY <3>3, <3>5, <4>1, <5>1, <6>1
          <5>2. CASE id # data.order_id
            BY <3>4, <3>5, <4>1, <4>3, <5>2
          <5> QED BY <5>1, <5>2
        <4> QED BY <4>2, <4>3
      <3>8. BooksAreLatest'
        BY <2>1, <2>2, <2>4, <3>2, <3>6, <3>7 DEF BooksAreLatest
      <3> QED BY <2>4, <3>2, <3>8
    <2>9. CASE HandleAgain /\ Books
      <3>1. UNCHANGED <<eq, disp, pq, port_orders>>
        BY <2>9, RecordStep DEF BooksInv, HandleAgain, Books, apiVars
      <3>2. \A id \in Orders : PqOf(id)' = PqOf(id)
        BY <3>1 DEF PqOf
      <3>3. \A id \in Orders : InHand(PortfolioCb, id)' <=> InHand(PortfolioCb, id)
        BY <3>1 DEF InHand, PortfolioCb
      <3> QED BY <2>1, <2>2, <2>4, <3>1, <3>2, <3>3 DEF BooksAreLatest
    <2> QED BY <1>3, <2>5, <2>6, <2>7, <2>8, <2>9 DEF Dispatch, Books, PortStep
  <1> QED BY <1>2, <1>3

(* Every step keeps the books.                                             *)
LEMMA BooksStep ==
    PortfolioListens /\ TypeInv /\ PlacedInv /\ BooksInv /\ [Next]_vars => BooksInv'
  <1> SUFFICES ASSUME PortfolioListens, TypeInv, PlacedInv, BooksInv, [Next]_vars
               PROVE  BooksInv'
    OBVIOUS
  <1>1. CopiesAlike /\ LastIsOnRecord /\ BooksAdd
    BY DEF BooksInv
  <1>2. CopiesAlike'
    BY <1>1, CopiesStep
  <1>3. LastIsOnRecord' /\ BooksAdd'
    BY <1>1, RecordStep
  <1>4. ASSUME connected' PROVE QueuedIsLatest' /\ BooksAreLatest'
    BY <1>4, LatestStep
  <1> QED BY <1>2, <1>3, <1>4 DEF BooksInv

(* The books hold of the order flow, if the portfolio listens.             *)
LEMMA BooksInvariant ==
    ASSUME PortfolioListens
    PROVE  Spec => []BooksInv
  <1>1. TypeInv /\ PlacedInv /\ BooksInv /\ [Next]_vars => BooksInv'
    BY BooksStep
  <1> QED BY <1>1, BooksInit, TypeInvariant, PlacedInvariant, PTL DEF Spec

(* An order of which nothing was bought or sold adds nothing.              *)
LEMMA NothingTraded ==
    ASSUME NEW data \in OrderData \cup {NoOrder},
           data # NoOrder =>
              /\ data.traded_quantity = 0 /\ data.avg_trade_price = 0 /\ data.commission = 0
    PROVE  PosOf(data) = 0 /\ CostOf(data) = 0
  <1>1. \A a, n : n \in Int /\ n + n = n => Signed(a, n) = n
    BY DEF Signed
  <1>2. CASE data = NoOrder
    BY <1>2 DEF PosOf, CostOf
  <1>3. CASE data # NoOrder
    <2>1. Traded(data) = 0 /\ Notional(data) = 0 /\ Fees(data) = 0
      BY <1>3 DEF Traded, Notional, Fees
    <2>2. Signed(data.action, Traded(data)) = 0 /\ Signed(data.action, Notional(data)) = 0
      BY <1>1, <2>1
    <2> QED BY <1>3, <2>1, <2>2 DEF PosOf, CostOf
  <1> QED BY <1>2, <1>3

(* Two sums over the orders are equal if they agree where TWS has the      *)
(* order and the other orders add nothing.                                 *)
LEMMA SumOverPlaced ==
    ASSUME NEW f, NEW g, NEW R \in SUBSET Orders,
           \A id \in Orders : f[id] \in Int,
           \A id \in Orders \ R : f[id] = 0,
           \A id \in R : f[id] = g[id]
    PROVE  SumFunctionOnSet(f, Orders) = SumFunctionOnSet(g, R)
  <1>1. IsFiniteSet(Orders)
    BY MaxOrdersIsNat, FS_Interval DEF Orders
  <1>2. IsFiniteSet(R)
    BY <1>1, FS_Subset
  <1>3. SumFunctionOnSet(f, Orders) = SumFunctionOnSet(f, R)
    BY <1>1, SumSupport
  <1>4. SumFunctionOnSet(f, R) = SumFunctionOnSet(g, R)
    BY <1>2, SumSame
  <1> QED BY <1>3, <1>4

(* When all is delivered the portfolio has the latest snapshot of every    *)
(* order on record, and a snapshot says what TWS filled.                   *)
LEMMA RecordIsTheBook ==
    ASSUME TypeInv, PlacedInv, BooksInv, Delivered, pq = << >>, connected
    PROVE  \A id \in Orders :
              /\ port_orders[id] = orders[id]
              /\ ~Unplaced(id) =>
                    /\ orders[id] # NoOrder /\ orders[id] \in OrderData
                    /\ orders[id].action = book[id].action
                    /\ orders[id].traded_quantity = book[id].filled
                    /\ orders[id].avg_trade_price = AvgPrice(book[id].filled)
              /\ Unplaced(id) /\ orders[id] # NoOrder =>
                    /\ orders[id].traded_quantity = 0 /\ orders[id].avg_trade_price = 0
                    /\ orders[id].commission = 0
  <1> TAKE id \in Orders
  <1>1. /\ wire = << >> /\ eq = << >> /\ disp.todo = << >>
        /\ \A th \in ApiThreads : held[th] = NoOrder
    BY DEF Delivered
  <1>2. HeldOf(id) = {} /\ EqOf(id) = {} /\ PqOf(id) = {} /\ ~InHand(PortfolioCb, id)
    BY <1>1 DEF HeldOf, EqOf, PqOf, InHand
  <1>3. port_orders[id] = orders[id]
    BY <1>2 DEF BooksInv, BooksAreLatest, AllTaken
  <1>4. StatusesOf(id) = {}
    BY <1>1 DEF StatusesOf
  <1>5. orders[id] \in OrderData \cup {NoOrder}
    BY DEF TypeInv, TypeOK, ApiTypeOK
  <1> QED BY <1>3, <1>4, <1>5 DEF PlacedInv, PlacedIsKnown, NewIsUnplaced, FillsAreTold

(* The books are those of TWS.  When all that TWS said is delivered and    *)
(* handled, the position and the cost that Portfolio::order_data_cb keeps  *)
(* are those of the fills TWS made and the commissions it told: for any    *)
(* number of orders, updates, repeated, late or interleaved messages and   *)
(* expired waits, and any order of the callbacks among which the           *)
(* portfolio's is.                                                         *)
THEOREM BooksAreExact ==
    ASSUME PortfolioListens
    PROVE  Spec => []PortfolioExact
  <1>1. TypeInv /\ PlacedInv /\ BooksInv => PortfolioExact
    <2> SUFFICES ASSUME TypeInv, PlacedInv, BooksInv, Delivered, pq = << >>, connected
                 PROVE  pos = PosAtTws /\ cost = CostAtTws
      BY DEF PortfolioExact
    <2>1. PICK f, h : /\ f = [id \in Orders |-> PosOf(port_orders[id])]
                      /\ h = [id \in Orders |-> CostOf(port_orders[id])]
      OBVIOUS
    <2>2. pos = SumFunctionOnSet(f, Orders) /\ cost = SumFunctionOnSet(h, Orders)
      BY <2>1 DEF BooksInv, BooksAdd
    <2>3. PICK g, k : /\ g = [id \in Placed |-> TradedAtTws(id)]
                      /\ k = [id \in Placed |-> SpentAtTws(id)]
      OBVIOUS
    <2>4. PosAtTws = SumFunctionOnSet(g, Placed) /\ CostAtTws = SumFunctionOnSet(k, Placed)
      BY <2>3 DEF PosAtTws, CostAtTws
    <2>5. Placed \in SUBSET Orders /\ \A id \in Orders : id \in Placed <=> ~Unplaced(id)
      <3>1. \A id \in Orders : book[id].state \in {"absent", "working", "done"}
        BY DEF TypeInv, TypeOK, TwsTypeOK, BookEntries
      <3> QED BY <3>1 DEF Placed, Working, Done, Unplaced
    <2>6. \A id \in Orders : port_orders[id] \in OrderData \cup {NoOrder}
      BY DEF TypeInv, TypeOK, PortTypeOK
    <2>7. \A id \in Orders : f[id] \in Int /\ h[id] \in Int
      BY <2>1, <2>6, BookTypes
    <2>8. ASSUME NEW id \in Orders \ Placed PROVE f[id] = 0 /\ h[id] = 0
      <3>1. Unplaced(id) /\ port_orders[id] = orders[id]
        BY <2>5, RecordIsTheBook
      <3>2. port_orders[id] # NoOrder =>
               /\ port_orders[id].traded_quantity = 0 /\ port_orders[id].avg_trade_price = 0
               /\ port_orders[id].commission = 0
        BY <3>1, RecordIsTheBook
      <3> QED BY <2>1, <2>6, <3>2, NothingTraded
    <2>9. ASSUME NEW id \in Placed PROVE f[id] = g[id] /\ h[id] = k[id]
      <3>1. id \in Orders /\ ~Unplaced(id)
        BY <2>5
      <3>2. /\ port_orders[id] = orders[id]
            /\ orders[id] # NoOrder /\ orders[id] \in OrderData
            /\ orders[id].action = book[id].action
            /\ orders[id].traded_quantity = book[id].filled
            /\ orders[id].avg_trade_price = AvgPrice(book[id].filled)
        BY <3>1, RecordIsTheBook
      <3>3. f[id] = PosOf(orders[id]) /\ h[id] = CostOf(orders[id])
        BY <2>1, <3>1, <3>2
      <3>4. PosOf(orders[id]) = TradedAtTws(id)
        BY <3>2 DEF PosOf, Traded, TradedAtTws
      <3>5. CostOf(orders[id]) = SpentAtTws(id)
        BY <3>2 DEF CostOf, Notional, SpentAtTws
      <3> QED BY <2>3, <3>3, <3>4, <3>5
    <2>10. SumFunctionOnSet(f, Orders) = SumFunctionOnSet(g, Placed)
      BY <2>5, <2>7, <2>8, <2>9, SumOverPlaced
    <2>11. SumFunctionOnSet(h, Orders) = SumFunctionOnSet(k, Placed)
      BY <2>5, <2>7, <2>8, <2>9, SumOverPlaced
    <2> QED BY <2>2, <2>4, <2>10, <2>11
  <1> QED BY <1>1, TypeInvariant, PlacedInvariant, BooksInvariant, PTL
-----------------------------------------------------------------------------
(* The answers on their way to the algo: the event engine's callback puts  *)
(* them into the queue the updates of the strategy go through as well.     *)
AlgoCb == "algo_engine_order_data"

(* The algo engine's callback is registered with the event engine.         *)
AlgoListens == \E i \in 1 .. Len(CallbackOrder) : CallbackOrder[i] = AlgoCb

AqOf(id) == {i \in 1 .. Len(aq) : aq[i].e_type = "order_data" /\ aq[i].data.order_id = id}

(* IBApi knows the order, and AlgoEngine::send_order has not its id yet.   *)
Untold == {"forward", "place", "place_error", "track"}

(* The algo tracks the orders IBApi knows, but for the one being sent.     *)
KnownIsTracked ==
    \A id \in Orders :
        order_status[id] = "untracked" <=> orders[id] = NoOrder \/ (pcA \in Untold /\ req.order_id = id)

(* An answer that precedes the return of send_order is still under way     *)
(* when the id is back.                                                    *)
SentIsUnderWay ==
    \A id \in Orders : pcA \in {"place", "track"} /\ req.order_id = id =>
        EqOf(id) # {} \/ InHand(AlgoCb, id) \/ AqOf(id) # {}

(* Once the event engine has taken all there is about an order, the event  *)
(* in its hand is the latest snapshot; or the last one in the algo's queue *)
(* is; or the algo has its status.                                         *)
AnswersAreLatest ==
    \A id \in Orders : AllTaken(id) =>
        /\ InHand(AlgoCb, id) => disp.data = orders[id]
        /\ ~InHand(AlgoCb, id) =>
              /\ \A i \in AqOf(id) : (\A j \in AqOf(id) : j <= i) => aq[i].data = orders[id]
              /\ AqOf(id) = {} /\ orders[id] # NoOrder => order_status[id] = orders[id].status

AnswersInv ==
    /\ KnownIsTracked
    /\ connected => QueuedIsLatest /\ SentIsUnderWay /\ AnswersAreLatest

(* An event is put at the end of the algo's queue.                         *)
LEMMA AnswerQueued ==
    ASSUME AlgoTypeOK, NEW e \in OrderEvents \cup PosUpdates, aq' = Append(aq, e)
    PROVE  \A id :
              /\ ~(e.e_type = "order_data" /\ e.data.order_id = id) =>
                    AqOf(id)' = AqOf(id) /\ \A i \in AqOf(id) : aq'[i] = aq[i]
              /\ e.e_type = "order_data" /\ e.data.order_id = id =>
                    \E n \in AqOf(id)' : aq'[n] = e /\ \A i \in AqOf(id)' : i <= n
  <1> TAKE id
  <1>1. PICK n : n = Len(aq)
    OBVIOUS
  <1>2. /\ n \in Nat /\ Len(aq') = n + 1 /\ aq'[n + 1] = e
        /\ \A i \in 1 .. n : aq'[i] = aq[i]
    BY <1>1, Appended DEF AlgoTypeOK
  <1>3. ASSUME e.e_type = "order_data", e.data.order_id = id
        PROVE  n + 1 \in AqOf(id)' /\ \A i \in AqOf(id)' : i <= n + 1
    BY <1>2, <1>3 DEF AqOf
  <1>4. ASSUME ~(e.e_type = "order_data" /\ e.data.order_id = id)
        PROVE  AqOf(id)' = AqOf(id) /\ \A i \in AqOf(id) : aq'[i] = aq[i]
    <2>1. n + 1 \notin AqOf(id)'
      BY <1>2, <1>4 DEF AqOf
    <2>2. \A i : i \in AqOf(id)' <=> i \in AqOf(id)
      BY <1>1, <1>2, <2>1 DEF AqOf
    <2> QED BY <1>1, <1>2, <2>2 DEF AqOf
  <1> QED BY <1>2, <1>3, <1>4

(* An event put at the end of the queue leaves the other orders' answers.  *)
LEMMA OtherAnswersStay ==
    ASSUME AlgoTypeOK, NEW e, e \in OrderEvents \cup PosUpdates, aq' = Append(aq, e), NEW id,
           ~(e.e_type = "order_data" /\ e.data.order_id = id)
    PROVE  AqOf(id)' = AqOf(id) /\ \A i \in AqOf(id) : aq'[i] = aq[i]
  BY AnswerQueued

(* The action thread takes the head of its queue.                          *)
LEMMA AnswerTaken ==
    ASSUME AlgoTypeOK, aq # << >>, aq' = Tail(aq), NEW id
    PROVE  /\ \A i \in AqOf(id)' : (\A j \in AqOf(id)' : j <= i) =>
                 i + 1 \in AqOf(id) /\ aq'[i] = aq[i + 1] /\ \A j \in AqOf(id) : j <= i + 1
           /\ AqOf(id)' = {} => \A j \in AqOf(id) : j = 1
           /\ aq[1] = Head(aq) /\ Head(aq) \in OrderEvents \cup PosUpdates
           /\ 1 \in AqOf(id) <=> Head(aq).e_type = "order_data" /\ Head(aq).data.order_id = id
  <1>1. PICK n : n = Len(aq)
    OBVIOUS
  <1>2. /\ n \in Nat /\ n >= 1 /\ Len(aq') = n - 1 /\ Head(aq) = aq[1]
        /\ \A i \in 1 .. n - 1 : aq'[i] = aq[i + 1]
        /\ Head(aq) \in OrderEvents \cup PosUpdates
    BY <1>1, Taken DEF AlgoTypeOK
  <1>3. ASSUME NEW i \in AqOf(id)'
        PROVE  i + 1 \in AqOf(id) /\ aq'[i] = aq[i + 1] /\ i \in Nat /\ i >= 1
    BY <1>1, <1>2 DEF AqOf
  <1>4. ASSUME NEW i \in AqOf(id)
        PROVE  i \in Nat /\ (i = 1 \/ i - 1 \in AqOf(id)')
    <2>1. i \in 1 .. n /\ aq[i].e_type = "order_data" /\ aq[i].data.order_id = id
      BY <1>1 DEF AqOf
    <2>2. CASE i # 1
      <3>1. i - 1 \in 1 .. n - 1 /\ i - 1 + 1 = i
        BY <1>2, <2>1, <2>2
      <3>2. aq'[i - 1] = aq[i]
        BY <1>2, <3>1
      <3> QED BY <1>2, <2>1, <3>1, <3>2 DEF AqOf
    <2> QED BY <2>1, <2>2
  <1>5. ASSUME NEW i \in AqOf(id)', \A j \in AqOf(id)' : j <= i
        PROVE  \A j \in AqOf(id) : j <= i + 1
    <2> TAKE j \in AqOf(id)
    <2>1. j \in Nat /\ (j = 1 \/ j - 1 <= i) /\ i \in Nat
      BY <1>3, <1>4, <1>5
    <2> QED BY <2>1
  <1>6. AqOf(id)' = {} => \A j \in AqOf(id) : j = 1
    BY <1>4
  <1>7. 1 \in AqOf(id) <=> Head(aq).e_type = "order_data" /\ Head(aq).data.order_id = id
    BY <1>1, <1>2 DEF AqOf
  <1> QED BY <1>2, <1>3, <1>5, <1>6, <1>7

(* The action thread neither begins nor ends to send an order.             *)
StaysAside == UNCHANGED <<pcA, req>> \/ (pcA \notin Untold /\ pcA' \notin Untold)

Apart == UNCHANGED <<aq, order_status>> /\ StaysAside

UpdateQueued ==
    (\E u \in PosUpdates : aq' = Append(aq, u)) /\ UNCHANGED order_status /\ StaysAside

UpdateTaken ==
    /\ aq # << >> /\ Head(aq).e_type = "algo_pos_update" /\ aq' = Tail(aq)
    /\ UNCHANGED order_status /\ StaysAside

(* What the steps above the event engine do to the algo's queue.           *)
LEMMA QueueKinds ==
    ASSUME TypeInv, [Next]_vars, ~(Dispatch \/ Books)
    PROVE  \/ Apart \/ UpdateQueued \/ UpdateTaken
           \/ InsertNewOrder \/ ForwardNewOrder \/ PlaceNewOrder \/ Track \/ order_cb
  <1>1. AlgoTypeOK
    BY DEF TypeInv, TypeOK
  <1>2. CASE Peer \/ Callback \/ UNCHANGED vars
    BY <1>2 DEF Peer, Callback, vars, algoVars, Apart, StaysAside
  <1>3. CASE Strategy
    <2>1. PICK target \in Targets : mq_message_cb(target)
      BY <1>3 DEF Strategy
    <2>2. PosUpdate(target, FALSE) \in PosUpdates
      BY TargetsAreInts DEF PosUpdate, PosUpdates
    <2> QED BY <2>1, <2>2 DEF mq_message_cb, UpdateQueued, StaysAside
  <1>4. CASE Requeue
    BY <1>1, <1>4 DEF Requeue, UpdateQueued, StaysAside, Untold, AlgoTypeOK
  <1>5. CASE ForwardCancelError
    BY <1>5 DEF ForwardCancelError, Apart, StaysAside, Untold
  <1>6. CASE CancelInflight \/ WaitForCancel \/ LatencyTooHigh
    BY <1>6 DEF CancelInflight, WaitForCancel, LatencyTooHigh, Pops, UpdateTaken, StaysAside, Untold
  <1>7. ASSUME NEW pnl_ok \in BOOLEAN, Retarget(pnl_ok) PROVE UpdateTaken
    <2>1. pcA = "idle" /\ pcA' \in {"idle", "insert"} /\ Pops("algo_pos_update")
      BY <1>7 DEF Retarget, Pops
    <2> QED BY <2>1 DEF Pops, UpdateTaken, StaysAside, Untold
  <1> QED BY <1>2, <1>3, <1>4, <1>5, <1>6, <1>7 DEF Next, Algo, ActionThread

(* Only InsertNewOrder makes an order known.                               *)
LEMMA KnownGrows ==
    ASSUME TypeInv, PlacedInv, [Next]_vars, NEW id \in Orders
    PROVE  (orders'[id] = NoOrder <=> orders[id] = NoOrder) \/ (Inserts /\ id = m_order_id)
  <1>1. ApiTypeOK /\ AlgoTypeOK /\ TwsTypeOK
    BY DEF TypeInv, TypeOK
  <1>2. CASE UNCHANGED orders
    BY <1>2
  <1>3. ASSUME NEW msg \in Messages, NEW data \in OrderData, Reads(msg, data)
        PROVE  orders'[id] = NoOrder <=> orders[id] = NoOrder
    <2>1. Snapshot("callback", data) /\ data.order_id = msg.id /\ wire # << >> /\ msg = Head(wire)
      BY <1>3 DEF Reads
    <2>2. 1 \in 1 .. Len(wire) /\ msg = wire[1] /\ msg.id \in Orders
      BY <1>1, <2>1, Taken DEF TwsTypeOK, Messages
    <2>3. orders[msg.id] # NoOrder
      BY <2>2 DEF PlacedInv, PlacedIsKnown
    <2> QED BY <1>1, <2>1, <2>3, SnapshotTaken DEF ApiThreads
  <1>4. CASE Inserts
    <2>1. PICK data : data = NewOrder(m_order_id, req.action, req.quantity)
      OBVIOUS
    <2>2. data \in OrderData /\ data.order_id = m_order_id /\ m_order_id \in Orders
      BY <1>1, <1>4, <2>1 DEF NewOrder, OrderData, Statuses, AlgoTypeOK, Requests, Inserts
    <2>3. Snapshot("sender", data)
      BY <1>4, <2>1 DEF Inserts
    <2> QED BY <1>1, <1>4, <2>2, <2>3, SnapshotTaken DEF ApiThreads
  <1>5. ASSUME NEW x \in Orders, Fails(x) PROVE orders'[id] = NoOrder <=> orders[id] = NoOrder
    BY <1>5, FailsTaken
  <1>6. ASSUME \/ \E x \in Orders, msg \in Messages, entry \in BookEntries : Tells(x, msg, entry)
               \/ Places \/ \E x \in Orders : Cancels(x)
               \/ Drops \/ Aside \/ Breaks \/ Dispatch \/ Books
               \/ \E th \in ApiThreads : Hands(th)
        PROVE  UNCHANGED orders
    BY <1>6, DownstreamOnly DEF Tells, Places, Cancels, Drops, Aside, Breaks, Hands, on_order
  <1> QED BY <1>2, <1>3, <1>4, <1>5, <1>6, StepKinds

(* The algo knows which orders are its own.                                *)
LEMMA TrackedStep ==
    ASSUME TypeInv, PlacedInv, KnownIsTracked, [Next]_vars
    PROVE  KnownIsTracked'
  <1>1. AlgoTypeOK
    BY DEF TypeInv, TypeOK
  <1>2. \A id \in Orders :
           (orders'[id] = NoOrder <=> orders[id] = NoOrder) \/ (Inserts /\ id = m_order_id)
    BY KnownGrows
  <1>3. ASSUME UNCHANGED order_status, StaysAside PROVE KnownIsTracked'
    <2>1. ~Inserts
      BY <1>3 DEF Inserts, StaysAside, Untold
    <2>2. \A id \in Orders : orders'[id] = NoOrder <=> orders[id] = NoOrder
      BY <1>2, <2>1
    <2> QED BY <1>3, <2>2 DEF KnownIsTracked, StaysAside
  <1>4. CASE Dispatch \/ Books
    <2>1. UNCHANGED <<pcA, req>>
      BY <1>4, DownstreamOnly
    <2>2. UNCHANGED order_status
      BY <1>4 DEF Dispatch, Books, PopEvent, ToPortfolio, ToRiskManager, ToAlgoEngine,
         event_engine_order_cb, algoVars
    <2> QED BY <1>3, <2>1, <2>2 DEF StaysAside
  <1>5. CASE InsertNewOrder
    <2>1. /\ pcA = "insert" /\ pcA' = "forward" /\ m_order_id \in Orders
          /\ req'.order_id = m_order_id /\ UNCHANGED order_status
      BY <1>1, <1>5 DEF InsertNewOrder, AlgoTypeOK, Requests
    <2>2. orders[m_order_id] = NoOrder
      BY <2>1 DEF PlacedInv, NewIsUnplaced, Orders
    <2> QED BY <1>2, <2>1, <2>2 DEF KnownIsTracked, Untold
  <1>6. CASE ForwardNewOrder \/ PlaceNewOrder
    <2>1. pcA \in Untold /\ pcA' \in Untold /\ UNCHANGED <<req, order_status>>
      BY <1>6 DEF ForwardNewOrder, PlaceNewOrder, Untold
    <2>2. ~Inserts
      BY <2>1 DEF Inserts, Untold
    <2> QED BY <1>2, <2>1, <2>2 DEF KnownIsTracked
  <1>7. CASE Track
    <2>1. PICK sent : sent = req.order_id
      OBVIOUS
    <2>2. /\ pcA = "track" /\ pcA' = "idle"
          /\ order_status' = [order_status EXCEPT ![sent] = "pending_submit"]
      BY <1>7, <2>1 DEF Track
    <2>3. sent \in Orders /\ orders[sent] # NoOrder /\ ~Inserts
      BY <2>1, <2>2 DEF TypeInv, Links, SentIsKnown, Inserts
    <2>4. order_status'[sent] # "untracked"
            /\ \A id \in Orders : id # sent => order_status'[id] = order_status[id]
      BY <1>1, <2>2, <2>3 DEF AlgoTypeOK
    <2> QED BY <1>2, <2>1, <2>2, <2>3, <2>4 DEF KnownIsTracked, Untold
  <1>8. CASE order_cb
    <2>1. PICK data : data = Head(aq).data
      OBVIOUS
    <2>2. /\ pcA = "idle" /\ pcA' = "idle" /\ ~Inserts /\ aq # << >> /\ aq' = Tail(aq)
          /\ Head(aq).e_type = "order_data"
          /\ \/ UNCHANGED order_status
             \/ /\ order_status[data.order_id] # "untracked"
                /\ order_status' = [order_status EXCEPT ![data.order_id] = data.status]
      BY <1>8, <2>1 DEF order_cb, Inserts
    <2>3. data \in OrderData
      <3>1. Head(aq) \in OrderEvents \cup PosUpdates
        BY <1>1, <2>2, AnswerTaken
      <3> QED BY <2>1, <2>2, <3>1 DEF OrderEvents, PosUpdates
    <2>4. \A id \in Orders : order_status'[id] = "untracked" <=> order_status[id] = "untracked"
      BY <1>1, <2>2, <2>3 DEF AlgoTypeOK, OrderData, Statuses
    <2> QED BY <1>2, <2>2, <2>4 DEF KnownIsTracked, Untold
  <1> QED BY <1>3, <1>4, <1>5, <1>6, <1>7, <1>8, QueueKinds DEF Apart, UpdateQueued, UpdateTaken

(* A step that queues or takes updates only, or leaves the queue alone,    *)
(* keeps the answers in it.                                                *)
LEMMA AnswersStay ==
    ASSUME AlgoTypeOK, UNCHANGED aq \/ UpdateQueued \/ UpdateTaken, NEW id
    PROVE  /\ AqOf(id)' = {} <=> AqOf(id) = {}
           /\ \A i \in AqOf(id)' : (\A j \in AqOf(id)' : j <= i) =>
                 \E k \in AqOf(id) : aq'[i] = aq[k] /\ \A j \in AqOf(id) : j <= k
  <1>1. CASE UNCHANGED aq
    BY <1>1 DEF AqOf
  <1>2. CASE UpdateQueued
    <2>1. PICK u \in PosUpdates : aq' = Append(aq, u)
      BY <1>2 DEF UpdateQueued
    <2>2. u \in OrderEvents \cup PosUpdates /\ ~(u.e_type = "order_data" /\ u.data.order_id = id)
      BY DEF PosUpdates
    <2>3. AqOf(id)' = AqOf(id) /\ \A i \in AqOf(id) : aq'[i] = aq[i]
      BY <2>1, <2>2, OtherAnswersStay
    <2> QED BY <2>3
  <1>3. CASE UpdateTaken
    <2>1. aq # << >> /\ Head(aq).e_type # "order_data" /\ aq' = Tail(aq)
      BY <1>3 DEF UpdateTaken
    <2>2. /\ \A i \in AqOf(id)' : (\A j \in AqOf(id)' : j <= i) =>
                i + 1 \in AqOf(id) /\ aq'[i] = aq[i + 1] /\ \A j \in AqOf(id) : j <= i + 1
          /\ AqOf(id)' = {} => \A j \in AqOf(id) : j = 1
          /\ 1 \notin AqOf(id)
      BY <2>1, AnswerTaken
    <2>3. AqOf(id)' = {} => AqOf(id) = {}
      BY <2>2
    <2>4. AqOf(id) = {} => AqOf(id)' = {}
      <3>1. PICK n : n = Len(aq)
        OBVIOUS
      <3>2. /\ n \in Nat /\ Len(aq') = n - 1
            /\ \A i \in 1 .. n - 1 : aq'[i] = aq[i + 1]
        BY <2>1, <3>1, Taken DEF AlgoTypeOK
      <3>3. \A i \in AqOf(id)' : i + 1 \in AqOf(id)
        BY <3>1, <3>2 DEF AqOf
      <3> QED BY <3>3
    <2> QED BY <2>2, <2>3, <2>4
  <1> QED BY <1>1, <1>2, <1>3

(* What is above the event engine when an order is being sent.             *)
LEMMA UnderWayAbove ==
    ASSUME TypeInv, PlacedInv, AnswersInv, [Next]_vars, ~(Dispatch \/ Books), connected'
    PROVE  SentIsUnderWay'
  <1>1. AlgoTypeOK /\ ApiTypeOK
    BY DEF TypeInv, TypeOK
  <1>2. connected /\ UNCHANGED disp
    BY QueuedStep, StepKinds DEF AnswersInv
  <1>3. SentIsUnderWay
    BY <1>2 DEF AnswersInv
  <1>4. \A id \in Orders : InHand(AlgoCb, id)' <=> InHand(AlgoCb, id)
    BY <1>2 DEF InHand, AlgoCb
  <1>5. ASSUME NEW id \in Orders, EqOf(id)' = {} PROVE EqOf(id) = {}
    <2>1. CASE UNCHANGED eq
      BY <1>5, <2>1 DEF EqOf
    <2>2. ASSUME NEW th \in ApiThreads, on_order(th) PROVE EqOf(id) = {}
      <3>1. OrderEvent(held[th]) \in OrderEvents
        BY <1>1, <2>2 DEF on_order, ApiTypeOK, OrderEvent, OrderEvents
      <3>2. PICK n : n = Len(eq)
        OBVIOUS
      <3>3. n \in Nat /\ Len(eq') = n + 1 /\ \A i \in 1 .. n : eq'[i] = eq[i]
        BY <1>1, <2>2, <3>1, <3>2, Appended DEF on_order, ApiTypeOK
      <3>4. \A i \in EqOf(id) : i \in EqOf(id)'
        BY <3>2, <3>3 DEF EqOf
      <3> QED BY <1>5, <3>4
    <2>3. UNCHANGED eq \/ \E th \in ApiThreads : on_order(th)
      BY StepKinds DEF Tells, Breaks, Reads, Drops, Inserts, Places, Cancels, Fails, Aside, Hands
    <2> QED BY <2>1, <2>2, <2>3
  <1>6. ASSUME UNCHANGED aq \/ UpdateQueued \/ UpdateTaken, StaysAside
        PROVE  SentIsUnderWay'
    <2>1. \A id \in Orders : AqOf(id)' = {} <=> AqOf(id) = {}
      BY <1>1, <1>6, AnswersStay
    <2> QED BY <1>3, <1>4, <1>5, <1>6, <2>1 DEF SentIsUnderWay, StaysAside, Untold
  <1>7. CASE InsertNewOrder \/ Track \/ order_cb
    BY <1>7 DEF InsertNewOrder, Track, order_cb, SentIsUnderWay
  <1>8. CASE ForwardNewOrder
    <2>1. PICK sent : sent = req.order_id
      OBVIOUS
    <2>2. on_order("sender") /\ pcA \in {"forward", "place_error"} /\ req' = req
      BY <1>8 DEF ForwardNewOrder
    <2>3. held["sender"] # NoOrder /\ held["sender"].order_id = sent
      BY <1>2, <2>1, <2>2 DEF PlacedInv, NewIsUnplaced, on_order
    <2>4. OrderEvent(held["sender"]) \in OrderEvents /\ OrderEvent(held["sender"]).data.order_id = sent
      BY <1>1, <2>3 DEF ApiTypeOK, OrderEvent, OrderEvents, ApiThreads
    <2>5. PICK n : n = Len(eq)
      OBVIOUS
    <2>6. n \in Nat /\ Len(eq') = n + 1 /\ eq'[n + 1] = OrderEvent(held["sender"])
      BY <1>1, <2>2, <2>4, <2>5, Appended DEF on_order, ApiTypeOK
    <2>7. n + 1 \in EqOf(sent)'
      BY <2>4, <2>6 DEF EqOf
    <2> QED BY <2>1, <2>2, <2>7 DEF SentIsUnderWay
  <1>9. CASE PlaceNewOrder
    <2>1. pcA = "place" /\ UNCHANGED <<req, aq>>
      BY <1>9 DEF PlaceNewOrder
    <2>2. \A id \in Orders : AqOf(id)' = AqOf(id)
      BY <2>1 DEF AqOf
    <2> QED BY <1>3, <1>4, <1>5, <2>1, <2>2 DEF SentIsUnderWay
  <1> QED BY <1>6, <1>7, <1>8, <1>9, QueueKinds DEF Apart, UpdateQueued, UpdateTaken

(* The latest answer stays the latest above the event engine.              *)
LEMMA AnswersAbove ==
    ASSUME TypeInv, PlacedInv, AnswersInv, [Next]_vars, ~(Dispatch \/ Books), connected'
    PROVE  QueuedIsLatest' /\ AnswersAreLatest'
  <1>1. AlgoTypeOK
    BY DEF TypeInv, TypeOK
  <1>2. /\ QueuedIsLatest' /\ connected
        /\ \A id \in Orders : AllTaken(id)' => AllTaken(id) /\ orders'[id] = orders[id]
    BY QueuedStep DEF AnswersInv
  <1>3. UNCHANGED disp
    BY StepKinds
  <1>4. \A id \in Orders : InHand(AlgoCb, id)' <=> InHand(AlgoCb, id)
    BY <1>3 DEF InHand, AlgoCb
  <1>5. AnswersAreLatest /\ SentIsUnderWay /\ KnownIsTracked
    BY <1>2 DEF AnswersInv
  <1>6. ASSUME \A id \in Orders : AllTaken(id) /\ ~InHand(AlgoCb, id) =>
                  /\ \A i \in AqOf(id)' : (\A j \in AqOf(id)' : j <= i) => aq'[i].data = orders[id]
                  /\ AqOf(id)' = {} /\ orders[id] # NoOrder => order_status'[id] = orders[id].status
        PROVE  AnswersAreLatest'
    BY <1>2, <1>3, <1>4, <1>5, <1>6 DEF AnswersAreLatest
  <1>7. ASSUME UNCHANGED aq \/ UpdateQueued \/ UpdateTaken, UNCHANGED order_status
        PROVE  AnswersAreLatest'
    <2>1. ASSUME NEW id \in Orders, AllTaken(id), ~InHand(AlgoCb, id)
          PROVE  /\ \A i \in AqOf(id)' : (\A j \in AqOf(id)' : j <= i) => aq'[i].data = orders[id]
                 /\ AqOf(id)' = {} /\ orders[id] # NoOrder => order_status'[id] = orders[id].status
      <3>1. /\ AqOf(id)' = {} <=> AqOf(id) = {}
            /\ \A i \in AqOf(id)' : (\A j \in AqOf(id)' : j <= i) =>
                  \E k \in AqOf(id) : aq'[i] = aq[k] /\ \A j \in AqOf(id) : j <= k
        BY <1>1, <1>7, AnswersStay
      <3>2. /\ \A i \in AqOf(id) : (\A j \in AqOf(id) : j <= i) => aq[i].data = orders[id]
            /\ AqOf(id) = {} /\ orders[id] # NoOrder => order_status[id] = orders[id].status
        BY <1>5, <2>1 DEF AnswersAreLatest
      <3> QED BY <1>7, <3>1, <3>2
    <2> QED BY <1>6, <2>1
  <1>8. CASE Track
    <2>1. PICK sent : sent = req.order_id
      OBVIOUS
    <2>2. /\ pcA = "track" /\ UNCHANGED aq
          /\ order_status' = [order_status EXCEPT ![sent] = "pending_submit"]
      BY <1>8, <2>1 DEF Track
    <2>3. sent \in Orders
      BY <2>1, <2>2 DEF TypeInv, Links, SentIsKnown
    <2>4. AllTaken(sent) /\ ~InHand(AlgoCb, sent) => AqOf(sent) # {}
      BY <1>5, <2>1, <2>2, <2>3 DEF SentIsUnderWay, AllTaken
    <2>5. \A id \in Orders : id # sent => order_status'[id] = order_status[id]
      BY <1>1, <2>2, <2>3 DEF AlgoTypeOK
    <2>6. \A id \in Orders : AqOf(id)' = AqOf(id)
      BY <2>2 DEF AqOf
    <2> QED BY <1>2, <1>5, <1>6, <2>2, <2>4, <2>5, <2>6 DEF AnswersAreLatest
  <1>9. CASE order_cb
    <2>1. PICK data : data = Head(aq).data
      OBVIOUS
    <2>2. /\ pcA = "idle" /\ aq # << >> /\ aq' = Tail(aq) /\ Head(aq).e_type = "order_data"
          /\ order_status[data.order_id] = "untracked" => UNCHANGED order_status
          /\ order_status[data.order_id] # "untracked" =>
                order_status' = [order_status EXCEPT ![data.order_id] = data.status]
      BY <1>9, <2>1 DEF order_cb
    <2>3. data \in OrderData
      <3>1. Head(aq) \in OrderEvents \cup PosUpdates
        BY <1>1, <2>2, AnswerTaken
      <3> QED BY <2>1, <2>2, <3>1 DEF OrderEvents, PosUpdates
    <2>4. data.order_id \in Orders /\ data # NoOrder
      BY <2>3, NoOrderIsNoData DEF OrderData
    <2>5. ASSUME NEW id \in Orders, AllTaken(id), ~InHand(AlgoCb, id)
          PROVE  /\ \A i \in AqOf(id)' : (\A j \in AqOf(id)' : j <= i) => aq'[i].data = orders[id]
                 /\ AqOf(id)' = {} /\ orders[id] # NoOrder => order_status'[id] = orders[id].status
      <3>1. /\ \A i \in AqOf(id)' : (\A j \in AqOf(id)' : j <= i) =>
                  i + 1 \in AqOf(id) /\ aq'[i] = aq[i + 1] /\ \A j \in AqOf(id) : j <= i + 1
            /\ AqOf(id)' = {} => \A j \in AqOf(id) : j = 1
            /\ aq[1] = Head(aq)
            /\ 1 \in AqOf(id) <=> data.order_id = id
        BY <1>1, <2>1, <2>2, AnswerTaken
      <3>2. /\ \A i \in AqOf(id) : (\A j \in AqOf(id) : j <= i) => aq[i].data = orders[id]
            /\ AqOf(id) = {} /\ orders[id] # NoOrder => order_status[id] = orders[id].status
        BY <1>5, <2>5 DEF AnswersAreLatest
      <3>3. ASSUME AqOf(id)' = {}, orders[id] # NoOrder
            PROVE  order_status'[id] = orders[id].status
        <4>1. CASE data.order_id = id
          <5>1. 1 \in AqOf(id) /\ \A j \in AqOf(id) : j <= 1
            BY <3>1, <3>3, <4>1
          <5>2. data = orders[id]
            BY <2>1, <3>1, <3>2, <5>1
          <5>3. order_status[id] # "untracked"
            BY <1>5, <2>2, <3>3 DEF KnownIsTracked, Untold
          <5> QED BY <1>1, <2>2, <4>1, <5>2, <5>3 DEF AlgoTypeOK
        <4>2. CASE data.order_id # id
          <5>1. AqOf(id) = {}
            BY <3>1, <3>3, <4>2
          <5>2. order_status'[id] = order_status[id]
            BY <1>1, <2>2, <2>4, <4>2 DEF AlgoTypeOK
          <5> QED BY <3>2, <3>3, <5>1, <5>2
        <4> QED BY <4>1, <4>2
      <3> QED BY <3>1, <3>2, <3>3
    <2> QED BY <1>2, <1>6, <2>5
  <1>10. CASE InsertNewOrder \/ ForwardNewOrder \/ PlaceNewOrder
    BY <1>2, <1>7, <1>10 DEF InsertNewOrder, ForwardNewOrder, PlaceNewOrder
  <1> QED BY <1>2, <1>7, <1>8, <1>9, <1>10, QueueKinds DEF Apart, UpdateQueued, UpdateTaken

(* The event engine's thread, and the portfolio's, keep the answers.       *)
LEMMA AnswersBelow ==
    ASSUME AlgoListens, TypeInv, AnswersInv, Dispatch \/ Books, connected'
    PROVE  QueuedIsLatest' /\ AnswersAreLatest' /\ SentIsUnderWay'
  <1>1. ApiTypeOK /\ AlgoTypeOK
    BY DEF TypeInv, TypeOK
  <1>2. UNCHANGED <<orders, held, connected, pcA, req>>
    BY DownstreamOnly
  <1>3. UNCHANGED order_status
    BY DEF Dispatch, Books, PopEvent, ToPortfolio, ToRiskManager, ToAlgoEngine,
       event_engine_order_cb, algoVars
  <1>4. QueuedIsLatest /\ AnswersAreLatest /\ SentIsUnderWay
    BY <1>2 DEF AnswersInv
  <1>5. \A id \in Orders : HeldOf(id)' = HeldOf(id)
    BY <1>2 DEF HeldOf
  <1>6. UNCHANGED eq => /\ \A id \in Orders : (AllTaken(id)' <=> AllTaken(id)) /\ EqOf(id)' = EqOf(id)
                        /\ QueuedIsLatest'
    <2>1. UNCHANGED eq => \A id \in Orders : EqOf(id)' = EqOf(id)
      BY DEF EqOf
    <2> QED BY <1>2, <1>4, <1>5, <2>1 DEF AllTaken, QueuedIsLatest
  <1>7. UNCHANGED aq => \A id \in Orders : AqOf(id)' = AqOf(id)
    BY DEF AqOf
  <1>8. CASE PopEvent
    <2>1. PICK data : data = Head(eq).data
      OBVIOUS
    <2>2. /\ disp.todo = << >> /\ disp'.data = data /\ disp'.todo = CallbackOrder /\ UNCHANGED aq
      BY <1>8, <2>1 DEF PopEvent, algoVars
    <2>3. \A id \in Orders :
               /\ EqOf(id)' = {} /\ data.order_id # id => EqOf(id) = {}
               /\ \A i \in EqOf(id)' : (\A j \in EqOf(id)' : j <= i) =>
                     /\ i + 1 \in EqOf(id) /\ eq'[i] = eq[i + 1]
                     /\ \A j \in EqOf(id) : j <= i + 1
               /\ EqOf(id)' = {} /\ data.order_id = id =>
                     /\ 1 \in EqOf(id) /\ eq[1].data = data
                     /\ \A j \in EqOf(id) : j <= 1
      BY <1>8, <2>1, EventTaken
    <2>4. QueuedIsLatest'
      <3>1. ASSUME NEW id \in Orders, HeldOf(id)' = {}, NEW i \in EqOf(id)',
                   \A j \in EqOf(id)' : j <= i
            PROVE  eq'[i].data = orders[id]
        <4>1. i + 1 \in EqOf(id) /\ eq'[i] = eq[i + 1] /\ \A j \in EqOf(id) : j <= i + 1
          BY <2>3, <3>1
        <4> QED BY <1>4, <1>5, <3>1, <4>1 DEF QueuedIsLatest
      <3> QED BY <1>2, <1>4, <3>1 DEF QueuedIsLatest
    <2>5. \A id \in Orders : ~InHand(AlgoCb, id)
      BY <2>2 DEF InHand
    <2>6. \A id \in Orders : InHand(AlgoCb, id)' <=> data.order_id = id
      BY <2>2 DEF InHand, AlgoListens
    <2>7. ASSUME NEW id \in Orders, AllTaken(id)', data.order_id = id
          PROVE  data = orders[id]
      <3>1. 1 \in EqOf(id) /\ eq[1].data = data /\ \A j \in EqOf(id) : j <= 1
        BY <2>3, <2>7 DEF AllTaken
      <3>2. HeldOf(id) = {}
        BY <1>5, <2>7 DEF AllTaken
      <3> QED BY <1>4, <3>1, <3>2 DEF QueuedIsLatest
    <2>8. ASSUME NEW id \in Orders, AllTaken(id)', data.order_id # id
          PROVE  AllTaken(id)
      BY <1>5, <2>3, <2>8 DEF AllTaken
    <2>9. AnswersAreLatest'
      BY <1>2, <1>3, <1>4, <1>7, <2>2, <2>5, <2>6, <2>7, <2>8 DEF AnswersAreLatest
    <2>10. SentIsUnderWay'
      BY <1>2, <1>4, <1>7, <2>2, <2>3, <2>5, <2>6 DEF SentIsUnderWay
    <2> QED BY <2>4, <2>9, <2>10
  <1>9. CASE ToRiskManager \/ ToPortfolio
    <2>1. PICK cb_name : RunCallback(cb_name) /\ cb_name # AlgoCb
      BY <1>9 DEF ToRiskManager, ToPortfolio, AlgoCb
    <2>2. UNCHANGED <<eq, aq>>
      BY <1>9 DEF ToRiskManager, ToPortfolio, RunCallback, apiVars, algoVars
    <2>3. \A id \in Orders : InHand(AlgoCb, id)' <=> InHand(AlgoCb, id)
      BY <2>1, CallbackRuns
    <2>4. \A id \in Orders : InHand(AlgoCb, id)' => disp'.data = disp.data
      BY <2>1, CallbackRuns
    <2>5. AnswersAreLatest'
      BY <1>2, <1>3, <1>4, <1>6, <1>7, <2>2, <2>3, <2>4 DEF AnswersAreLatest
    <2>6. SentIsUnderWay'
      BY <1>2, <1>4, <1>6, <1>7, <2>2, <2>3 DEF SentIsUnderWay
    <2> QED BY <1>6, <2>2, <2>5, <2>6
  <1>10. CASE Books
    <2>1. UNCHANGED <<eq, aq, disp>>
      BY <1>10 DEF Books, apiVars, algoVars
    <2>2. \A id \in Orders : InHand(AlgoCb, id)' <=> InHand(AlgoCb, id)
      BY <2>1 DEF InHand, AlgoCb
    <2>3. AnswersAreLatest'
      BY <1>2, <1>3, <1>4, <1>6, <1>7, <2>1, <2>2 DEF AnswersAreLatest
    <2>4. SentIsUnderWay'
      BY <1>2, <1>4, <1>6, <1>7, <2>1, <2>2 DEF SentIsUnderWay
    <2> QED BY <1>6, <2>1, <2>3, <2>4
  <1>11. CASE ToAlgoEngine
    <2>1. PICK data, e : data = disp.data /\ e = OrderEvent(data)
      OBVIOUS
    <2>2. RunCallback(AlgoCb) /\ aq' = Append(aq, e) /\ UNCHANGED eq
      BY <1>11, <2>1 DEF ToAlgoEngine, event_engine_order_cb, AlgoCb, RunCallback, apiVars
    <2>3. /\ data \in OrderData /\ InHand(AlgoCb, data.order_id)
          /\ \A id : InHand(AlgoCb, id)' => InHand(AlgoCb, id) /\ disp'.data = data
      BY <2>1, <2>2, CallbackRuns
    <2>4. e \in OrderEvents /\ e.e_type = "order_data" /\ e.data = data
      BY <2>1, <2>3 DEF OrderEvent, OrderEvents
    <2>5. \A id : InHand(AlgoCb, id) => id = data.order_id
      BY <2>1 DEF InHand
    <2>6. PICK n \in AqOf(data.order_id)' :
             aq'[n] = e /\ \A i \in AqOf(data.order_id)' : i <= n
      BY <1>1, <2>2, <2>4, AnswerQueued
    <2>7. \A id : id # data.order_id =>
             AqOf(id)' = AqOf(id) /\ \A i \in AqOf(id) : aq'[i] = aq[i]
      <3> SUFFICES ASSUME NEW id, id # data.order_id
                   PROVE  AqOf(id)' = AqOf(id) /\ \A i \in AqOf(id) : aq'[i] = aq[i]
        OBVIOUS
      <3>1. e \in OrderEvents \cup PosUpdates /\ ~(e.e_type = "order_data" /\ e.data.order_id = id)
        BY <2>4
      <3> QED BY <1>1, <2>2, <3>1, OtherAnswersStay
    <2>8. ASSUME NEW id \in Orders, AllTaken(id)
          PROVE  /\ InHand(AlgoCb, id)' => disp'.data = orders[id]
                 /\ ~InHand(AlgoCb, id)' =>
                      /\ \A i \in AqOf(id)' : (\A j \in AqOf(id)' : j <= i) => aq'[i].data = orders[id]
                      /\ AqOf(id)' = {} /\ orders[id] # NoOrder => order_status[id] = orders[id].status
      <3>1. CASE id = data.order_id
        <4>1. data = orders[id]
          BY <1>4, <2>1, <2>3, <2>8, <3>1 DEF AnswersAreLatest
        <4>2. ASSUME NEW i \in AqOf(id)', \A j \in AqOf(id)' : j <= i PROVE i = n
          <5>1. i \in Int /\ n \in Int
            BY <2>6, <4>2 DEF AqOf
          <5>2. i <= n /\ n <= i
            BY <2>6, <3>1, <4>2
          <5> QED BY <5>1, <5>2
        <4>3. AqOf(id)' # {}
          BY <2>6, <3>1
        <4> QED BY <2>3, <2>4, <2>6, <4>1, <4>2, <4>3
      <3>2. CASE id # data.order_id
        <4>1. ~InHand(AlgoCb, id) /\ ~InHand(AlgoCb, id)'
          BY <2>3, <2>5, <3>2
        <4> QED BY <1>4, <2>7, <2>8, <3>2, <4>1 DEF AnswersAreLatest
      <3> QED BY <3>1, <3>2
    <2>9. AnswersAreLatest'
      BY <1>2, <1>3, <1>6, <2>2, <2>8 DEF AnswersAreLatest
    <2>10. \A id \in Orders : InHand(AlgoCb, id) \/ AqOf(id) # {} => AqOf(id)' # {}
      BY <2>5, <2>6, <2>7
    <2>11. SentIsUnderWay'
      BY <1>2, <1>4, <1>6, <2>2, <2>10 DEF SentIsUnderWay
    <2> QED BY <1>6, <2>2, <2>9, <2>11
  <1> QED BY <1>8, <1>9, <1>10, <1>11 DEF Dispatch

(* Every step keeps what is known of the answers.                          *)
LEMMA AnswersStep ==
    AlgoListens /\ TypeInv /\ PlacedInv /\ AnswersInv /\ [Next]_vars => AnswersInv'
  <1> SUFFICES ASSUME AlgoListens, TypeInv, PlacedInv, AnswersInv, [Next]_vars
               PROVE  AnswersInv'
    OBVIOUS
  <1>1. KnownIsTracked'
    BY TrackedStep DEF AnswersInv
  <1>2. ASSUME connected' PROVE QueuedIsLatest' /\ SentIsUnderWay' /\ AnswersAreLatest'
    BY <1>2, AnswersAbove, AnswersBelow, UnderWayAbove
  <1> QED BY <1>1, <1>2 DEF AnswersInv

(* At the start there is neither an order nor an answer.                   *)
LEMMA AnswersInit == Init => AnswersInv
  <1> SUFFICES ASSUME Init PROVE AnswersInv
    OBVIOUS
  <1>1. /\ orders = [id \in Orders |-> NoOrder] /\ held = [th \in ApiThreads |-> NoOrder]
        /\ eq = << >> /\ aq = << >> /\ pcA = "idle"
        /\ order_status = [id \in Orders |-> "untracked"]
        /\ disp = [data |-> NoOrder, todo |-> << >>]
    BY DEF Init, ApiInit, AlgoInit
  <1>2. \A id : EqOf(id) = {} /\ HeldOf(id) = {} /\ AqOf(id) = {} /\ ~InHand(AlgoCb, id)
    BY <1>1 DEF EqOf, HeldOf, AqOf, InHand
  <1>3. KnownIsTracked /\ SentIsUnderWay
    BY <1>1 DEF KnownIsTracked, SentIsUnderWay
  <1>4. QueuedIsLatest /\ AnswersAreLatest
    BY <1>1, <1>2 DEF QueuedIsLatest, AnswersAreLatest
  <1> QED BY <1>3, <1>4 DEF AnswersInv

(* The answers hold of the order flow, if the algo engine listens.         *)
LEMMA AnswersInvariant ==
    ASSUME AlgoListens
    PROVE  Spec => []AnswersInv
  <1>1. TypeInv /\ PlacedInv /\ AnswersInv /\ [Next]_vars => AnswersInv'
    BY AnswersStep
  <1> QED BY <1>1, AnswersInit, TypeInvariant, PlacedInvariant, PTL DEF Spec

(* The filter of AlgoEngine::order_cb drops no answer to an order of the   *)
(* algo's own, although TWS may answer before send_order has come back     *)
(* with the id: once all is handled, the algo has the status of every      *)
(* order that IBApi has.  For any number of orders, updates and notes, and *)
(* any order of the callbacks among which the algo engine's is.            *)
THEOREM EveryAnswerArrives ==
    ASSUME AlgoListens
    PROVE  Spec => []NoAnswerLost
  <1>1. AnswersInv => NoAnswerLost
    <2> SUFFICES ASSUME AnswersInv, Delivered, aq = << >>, connected, NEW id \in Orders,
                        orders[id] # NoOrder
                 PROVE  order_status[id] = orders[id].status
      BY DEF NoAnswerLost
    <2>1. /\ eq = << >> /\ disp.todo = << >> /\ \A th \in ApiThreads : held[th] = NoOrder
      BY DEF Delivered
    <2>2. HeldOf(id) = {} /\ EqOf(id) = {} /\ AqOf(id) = {} /\ ~InHand(AlgoCb, id)
      BY <2>1 DEF HeldOf, EqOf, AqOf, InHand
    <2> QED BY <2>2 DEF AnswersInv, AnswersAreLatest, AllTaken
  <1> QED BY <1>1, AnswersInvariant, PTL
-----------------------------------------------------------------------------
(* The action thread, and the queues its answers come through.             *)

(* A step above the event engine moves the answers in the algo's queue by  *)
(* at most one place, and adds none.                                       *)
LEMMA AnswersShift ==
    ASSUME AlgoTypeOK, UNCHANGED aq \/ UpdateQueued \/ UpdateTaken \/ order_cb, NEW id
    PROVE  \E d \in {0, 1} : \A i \in AqOf(id)' :
              i \in Int /\ i + d \in AqOf(id) /\ aq'[i] = aq[i + d]
  <1>1. CASE UNCHANGED aq
    BY <1>1 DEF AqOf
  <1>2. CASE UpdateQueued
    <2>1. PICK u \in PosUpdates : aq' = Append(aq, u)
      BY <1>2 DEF UpdateQueued
    <2>2. u \in OrderEvents \cup PosUpdates /\ ~(u.e_type = "order_data" /\ u.data.order_id = id)
      BY DEF PosUpdates
    <2>3. AqOf(id)' = AqOf(id) /\ \A i \in AqOf(id) : aq'[i] = aq[i]
      BY <2>1, <2>2, OtherAnswersStay
    <2>4. \A i \in AqOf(id) : i \in Int /\ i + 0 = i
      BY DEF AqOf
    <2> QED BY <2>3, <2>4
  <1>3. CASE UpdateTaken \/ order_cb
    <2>1. aq # << >> /\ aq' = Tail(aq)
      BY <1>3 DEF UpdateTaken, order_cb
    <2>2. PICK n : n = Len(aq)
      OBVIOUS
    <2>3. /\ n \in Nat /\ Len(aq') = n - 1
          /\ \A i \in 1 .. n - 1 : aq'[i] = aq[i + 1]
      BY <2>1, <2>2, Taken DEF AlgoTypeOK
    <2>4. \A i \in AqOf(id)' : i \in Int /\ i + 1 \in AqOf(id) /\ aq'[i] = aq[i + 1]
      BY <2>2, <2>3 DEF AqOf
    <2> QED BY <2>4
  <1> QED BY <1>1, <1>2, <1>3

(* The event engine takes the head of its queue: the others move up.       *)
LEMMA EventsShift ==
    ASSUME TypeInv, PopEvent, NEW id
    PROVE  /\ \A i \in EqOf(id)' : i \in Nat \ {0} /\ i + 1 \in EqOf(id) /\ eq'[i] = eq[i + 1]
           /\ 1 \in EqOf(id) <=> Head(eq).data.order_id = id
           /\ eq[1] = Head(eq)
  <1>1. eq \in Seq(OrderEvents) /\ eq # << >> /\ eq' = Tail(eq)
    BY DEF TypeInv, TypeOK, ApiTypeOK, PopEvent
  <1>2. PICK n : n = Len(eq)
    OBVIOUS
  <1>3. /\ n \in Nat /\ n >= 1 /\ Len(eq') = n - 1 /\ Head(eq) = eq[1]
        /\ \A i \in 1 .. n - 1 : eq'[i] = eq[i + 1]
    BY <1>1, <1>2, Taken
  <1>4. ASSUME NEW i \in EqOf(id)'
        PROVE  i \in Nat \ {0} /\ i + 1 \in EqOf(id) /\ eq'[i] = eq[i + 1]
    BY <1>2, <1>3 DEF EqOf
  <1>5. 1 \in EqOf(id) <=> Head(eq).data.order_id = id
    BY <1>2, <1>3 DEF EqOf
  <1> QED BY <1>3, <1>4, <1>5


(* Only Track and order_cb change which order is in flight, and what is    *)
(* counted of it; only InsertNewOrder begins to send an order.             *)
LEMMA InflightKinds ==
    ASSUME TypeInv, [Next]_vars
    PROVE  \/ Track
           \/ order_cb
           \/ /\ UNCHANGED <<inflight_order_id, order_filled, curr_pos, order_status>>
              /\ pcA' \in Sending => pcA \in Sending \/ inflight_order_id = -1
              /\ \/ UNCHANGED <<pcA, req, m_order_id>>
                 \/ pcA \notin Untold /\ pcA' \notin Untold /\ UNCHANGED m_order_id
                 \/ InsertNewOrder
                 \/ /\ pcA \in Untold \ {"track"} /\ pcA' \in Untold
                    /\ UNCHANGED <<req, m_order_id>>
  <1>1. AlgoTypeOK
    BY DEF TypeInv, TypeOK
  <1>2. CASE Peer \/ Callback \/ UNCHANGED vars \/ Books \/ Strategy
    <2>1. UNCHANGED m_order_id
      BY <1>2 DEF Peer, Callback, ProcessMessage, ForwardMessage, on_order, vars, Books, Strategy,
         mq_message_cb, apiVars
    <2> QED BY <1>2, <2>1 DEF Peer, Callback, vars, Books, Strategy, mq_message_cb, algoVars
  <1>3. CASE Dispatch
    <2>1. UNCHANGED m_order_id
      BY <1>3, DownstreamOnly
    <2> QED BY <1>3, <2>1 DEF Dispatch, PopEvent, ToPortfolio, ToRiskManager, ToAlgoEngine,
       event_engine_order_cb, algoVars
  <1>4. CASE CancelInflight \/ WaitForCancel \/ LatencyTooHigh
    BY <1>4 DEF CancelInflight, WaitForCancel, LatencyTooHigh, Pops, Sending, Untold, apiVars
  <1>5. CASE ForwardCancelError \/ Requeue
    BY <1>5 DEF ForwardCancelError, Requeue, on_order, Sending, Untold, apiVars
  <1>6. ASSUME NEW pnl_ok \in BOOLEAN, Retarget(pnl_ok)
        PROVE  /\ UNCHANGED <<inflight_order_id, order_filled, curr_pos, order_status, m_order_id>>
               /\ inflight_order_id = -1 /\ pcA \notin Untold /\ pcA' \notin Untold
    <2>1. /\ Pops("algo_pos_update") /\ ~(inflight_order_id > 0)
          /\ pcA' \in {pcA, "insert"}
          /\ UNCHANGED <<inflight_order_id, order_filled, curr_pos, apiVars>>
      BY <1>6 DEF Retarget
    <2>2. inflight_order_id = -1
      BY <1>1, <2>1 DEF AlgoTypeOK, Orders
    <2> QED BY <2>1, <2>2 DEF Pops, Untold, apiVars
  <1>7. CASE InsertNewOrder
    BY <1>7 DEF InsertNewOrder, Sending
  <1>8. CASE ForwardNewOrder \/ PlaceNewOrder
    BY <1>8 DEF ForwardNewOrder, PlaceNewOrder, on_order, Sending, Untold
  <1> QED BY <1>2, <1>3, <1>4, <1>5, <1>6, <1>7, <1>8 DEF Next, Algo, ActionThread

(* A step that takes an answer is none of the event engine's or of the     *)
(* portfolio's, and changes something.                                     *)
LEMMA AnswerStepAlone ==
    ASSUME TypeInv, order_cb
    PROVE  ~(Dispatch \/ Books) /\ ~UNCHANGED vars
  <1>1. PICK n, m : n = Len(aq) /\ m = Len(aq')
    OBVIOUS
  <1>2. AlgoTypeOK /\ aq # << >> /\ aq' = Tail(aq)
    BY DEF TypeInv, TypeOK, order_cb
  <1>3. n \in Nat /\ m = n - 1
    BY <1>1, <1>2, Taken DEF AlgoTypeOK
  <1>4. PopEvent \/ ToPortfolio \/ ToRiskManager \/ Books \/ UNCHANGED vars => m = n
    BY <1>1 DEF PopEvent, ToPortfolio, ToRiskManager, Books, vars, algoVars
  <1>5. ToAlgoEngine => m = n + 1
    <2>1. ToAlgoEngine => disp.data \in OrderData
      BY CallbackRuns DEF ToAlgoEngine
    <2>2. ToAlgoEngine => OrderEvent(disp.data) \in OrderEvents \cup PosUpdates
      BY <2>1 DEF OrderEvent, OrderEvents
    <2> QED BY <1>1, <1>2, <2>2, Appended DEF ToAlgoEngine, event_engine_order_cb, AlgoTypeOK
  <1> QED BY <1>3, <1>4, <1>5 DEF Dispatch

(* The order sent last: its id is the one before the next one.             *)
SentIsLast == pcA \in Untold => req.order_id + 1 = m_order_id

LEMMA SentIsLastInvariant == Spec => []SentIsLast
  <1>1. Init => SentIsLast
    BY DEF Init, AlgoInit, SentIsLast, Untold
  <1>2. TypeInv /\ SentIsLast /\ [Next]_vars => SentIsLast'
    <2> SUFFICES ASSUME TypeInv, SentIsLast, [Next]_vars PROVE SentIsLast'
      OBVIOUS
    <2>1. req \in Requests /\ m_order_id \in Nat
      BY DEF TypeInv, TypeOK, AlgoTypeOK, ApiTypeOK
    <2>2. CASE Track \/ order_cb
      BY <2>2 DEF Track, order_cb, SentIsLast, Untold
    <2>3. CASE InsertNewOrder
      BY <2>1, <2>3 DEF InsertNewOrder, InsertOrder, SentIsLast, Requests
    <2> QED BY <2>2, <2>3, InflightKinds DEF SentIsLast
  <1> QED BY <1>1, <1>2, TypeInvariant, PTL DEF Spec

(* An answer in the algo's queue tells of an order IBApi knows, and how it *)
(* trades.                                                                 *)
AnswersAlike ==
    \A id \in Orders : \A i \in AqOf(id) :
        orders[id] # NoOrder /\ aq[i].data.action = orders[id].action

(* The copies, and what the portfolio has on record, whether or not the    *)
(* portfolio's callback is registered.                                     *)
LEMMA RecordInvariant == Spec => [](CopiesAlike /\ LastIsOnRecord /\ BooksAdd)
  <1>1. Init => CopiesAlike /\ LastIsOnRecord /\ BooksAdd
    BY BooksInit DEF BooksInv
  <1>2. TypeInv /\ PlacedInv /\ (CopiesAlike /\ LastIsOnRecord /\ BooksAdd) /\ [Next]_vars
           => (CopiesAlike /\ LastIsOnRecord /\ BooksAdd)'
    BY CopiesStep, RecordStep
  <1> QED BY <1>1, <1>2, TypeInvariant, PlacedInvariant, PTL DEF Spec

(* An answer keeps the action of its order.                                *)
LEMMA AlikeStep ==
    ASSUME TypeInv, PlacedInv, CopiesAlike, AnswersAlike, [Next]_vars
    PROVE  AnswersAlike'
  <1>1. AlgoTypeOK
    BY DEF TypeInv, TypeOK
  <1>2. \A id \in Orders : orders[id] # NoOrder =>
           orders'[id] # NoOrder /\ orders'[id].action = orders[id].action
    BY KnownStays
  <1>3. ASSUME UNCHANGED aq \/ UpdateQueued \/ UpdateTaken \/ order_cb
        PROVE  AnswersAlike'
    <2>1. ASSUME NEW id \in Orders, NEW i \in AqOf(id)'
          PROVE  orders'[id] # NoOrder /\ aq'[i].data.action = orders'[id].action
      <3>1. \E d \in {0, 1} : \A k \in AqOf(id)' :
               k \in Int /\ k + d \in AqOf(id) /\ aq'[k] = aq[k + d]
        BY <1>1, <1>3, AnswersShift
      <3>2. PICK d \in {0, 1} : i + d \in AqOf(id) /\ aq'[i] = aq[i + d]
        BY <2>1, <3>1
      <3>3. orders[id] # NoOrder /\ aq[i + d].data.action = orders[id].action
        BY <3>2 DEF AnswersAlike
      <3> QED BY <1>2, <3>2, <3>3
    <2> QED BY <2>1 DEF AnswersAlike
  <1>4. CASE ToAlgoEngine
    <2>1. PICK data, e : data = disp.data /\ e = OrderEvent(data)
      OBVIOUS
    <2>2. RunCallback(AlgoCb) /\ aq' = Append(aq, e)
      BY <1>4, <2>1 DEF ToAlgoEngine, event_engine_order_cb, AlgoCb
    <2>3. data \in OrderData
      BY <2>1, <2>2, CallbackRuns
    <2>4. e \in OrderEvents /\ e.data = data
      BY <2>1, <2>3 DEF OrderEvent, OrderEvents
    <2>5. PICK n : n = Len(aq)
      OBVIOUS
    <2>6. /\ n \in Nat /\ Len(aq') = n + 1 /\ aq'[n + 1] = e
          /\ \A i \in 1 .. n : aq'[i] = aq[i]
      BY <1>1, <2>2, <2>4, <2>5, Appended DEF AlgoTypeOK
    <2>7. Alike(data)
      BY <2>1, <2>3, NoOrderIsNoData DEF CopiesAlike
    <2>8. ASSUME NEW id \in Orders, NEW i \in AqOf(id)'
          PROVE  orders'[id] # NoOrder /\ aq'[i].data.action = orders'[id].action
      <3>1. CASE i = n + 1
        BY <1>2, <2>4, <2>6, <2>7, <2>8, <3>1 DEF AqOf, Alike
      <3>2. CASE i # n + 1
        <4>1. i \in AqOf(id) /\ aq'[i] = aq[i]
          BY <2>5, <2>6, <2>8, <3>2 DEF AqOf
        <4> QED BY <1>2, <4>1 DEF AnswersAlike
      <3> QED BY <3>1, <3>2
    <2> QED BY <2>8 DEF AnswersAlike
  <1>5. CASE (Dispatch \/ Books) /\ ~ToAlgoEngine
    <2>1. UNCHANGED aq
      BY <1>5 DEF Dispatch, Books, PopEvent, ToPortfolio, ToRiskManager, algoVars
    <2> QED BY <1>3, <2>1
  <1> QED BY <1>3, <1>4, <1>5, QueueKinds
      DEF Apart, InsertNewOrder, ForwardNewOrder, PlaceNewOrder, Track

-----------------------------------------------------------------------------
(* News of an order: what TWS has on record is no older than what it told, *)
(* that no older than what was told before, and that no older than what    *)
(* IBApi knows.                                                            *)
BookIsSane ==
    \A id \in Orders :
        /\ book[id].status = "pending_submit" => book[id].filled = 0
        /\ book[id].status \in Over => book[id].state = "done"

(* A message that was told after another about the same order.             *)
ToldAfter(msg, earlier) ==
    /\ msg.type = "orderStatus" /\ earlier.type = "orderStatus" =>
          /\ msg.filled >= earlier.filled
          /\ earlier.status \in Over => msg.status = earlier.status
    /\ msg.type = "openOrder" /\ earlier.type = "openOrder" =>
          msg.commission >= earlier.commission

WireGoesForward ==
    \A i, j \in 1 .. Len(wire) :
        i <= j /\ wire[i].id = wire[j].id => ToldAfter(wire[j], wire[i])

BookIsAhead ==
    \A i \in 1 .. Len(wire) :
        /\ wire[i].type = "orderStatus" =>
              /\ book[wire[i].id].filled >= wire[i].filled
              /\ wire[i].status \in Over => book[wire[i].id].status = wire[i].status
        /\ wire[i].type = "openOrder" => book[wire[i].id].filled >= wire[i].commission

(* The message says no less than the snapshot.                             *)
IsNews(msg, data) ==
    /\ msg.type = "orderStatus" =>
          /\ msg.filled >= data.traded_quantity
          /\ data.status \in Over => msg.status = data.status
    /\ msg.type = "openOrder" => msg.commission >= data.commission

WireIsNews == \A i \in 1 .. Len(wire) : IsNews(wire[i], orders[wire[i].id])

KnownIsOnRecord ==
    \A id \in Orders :
        /\ ~Unplaced(id) =>
              /\ book[id].filled >= orders[id].traded_quantity
              /\ book[id].filled >= orders[id].commission
              /\ orders[id].status \in Over => book[id].status = orders[id].status
        /\ Unplaced(id) /\ orders[id] # NoOrder => orders[id].status \notin Over

NewsInv ==
    BookIsSane /\ WireGoesForward /\ BookIsAhead /\ WireIsNews /\ KnownIsOnRecord

(* TWS tells of an order it has, and takes nothing back.                   *)
Reports(id, msg) ==
    /\ msg.id = id /\ wire' = Append(wire, msg)
    /\ ~Unplaced(id) /\ ~Unplaced(id)'
    /\ \A k \in Orders : k # id => book'[k] = book[k]
    /\ book[id].filled \in Int /\ book'[id].filled \in Int
    /\ book'[id].filled >= book[id].filled
    /\ book[id].status \in Over => book'[id].status = book[id].status
    /\ msg.type = "orderStatus" => msg.filled = book'[id].filled /\ msg.status = book'[id].status
    /\ msg.type = "openOrder" => msg.commission = book'[id].filled
    /\ BookIsSane'

(* The fields TWS reports a change of.                                     *)
LEMMA ReportEffect ==
    ASSUME TypeInv, BookIsSane, NEW id \in Orders, book[id].state = "working",
           NEW state \in {"working", "done"}, NEW status \in Statuses, NEW filled \in Nat,
           filled >= book[id].filled,
           status = "pending_submit" => filled = 0, status \in Over => state = "done",
           Report(id, state, status, filled)
    PROVE  Reports(id, StatusMsg(id, status, filled))
  <1>1. book \in [Orders -> BookEntries] /\ book[id] \in BookEntries
    BY DEF TypeInv, TypeOK, TwsTypeOK
  <1>2. /\ book'[id].filled = filled /\ book'[id].status = status /\ book'[id].state = state
        /\ \A k \in Orders : k # id => book'[k] = book[k]
    BY <1>1 DEF Report, BookEntries
  <1>3. book[id].filled \in Int /\ book[id].status \notin Over
    BY <1>1 DEF BookEntries, BookIsSane
  <1>4. BookIsSane'
    <2>1. ASSUME NEW k \in Orders
          PROVE  /\ book'[k].status = "pending_submit" => book'[k].filled = 0
                 /\ book'[k].status \in Over => book'[k].state = "done"
      <3>1. CASE k = id
        BY <1>2, <3>1
      <3>2. CASE k # id
        BY <1>2, <3>2 DEF BookIsSane
      <3> QED BY <3>1, <3>2
    <2> QED BY <2>1 DEF BookIsSane, Over
  <1>5. StatusMsg(id, status, filled).type = "orderStatus"
        /\ StatusMsg(id, status, filled).id = id
        /\ StatusMsg(id, status, filled).filled = filled
        /\ StatusMsg(id, status, filled).status = status
    BY DEF StatusMsg
  <1>6. wire' = Append(wire, StatusMsg(id, status, filled))
    BY DEF Report
  <1>7. filled \in Int /\ book'[id].filled >= book[id].filled
    BY <1>2
  <1> QED BY <1>2, <1>3, <1>4, <1>5, <1>6, <1>7 DEF Reports, Unplaced

(* Whatever TWS does, it takes nothing back.                               *)
LEMMA PeerReports ==
    ASSUME TypeInv, BookIsSane, Peer
    PROVE  /\ UNCHANGED orders
           /\ UNCHANGED <<book, wire>> \/ \E id \in Orders, msg \in Messages : Reports(id, msg)
  <1>1. UNCHANGED orders
    BY DEF Peer, apiVars
  <1>2. ASSUME NEW id \in Orders, book[id].state = "working", Acknowledge(id)
        PROVE  \E msg \in Messages : Reports(id, msg)
    <2>1. book[id].filled = 0 /\ Report(id, "working", "submitted", 0)
      BY <1>2 DEF Acknowledge, BookIsSane
    <2>2. "submitted" \in Statuses /\ "submitted" \notin Over /\ 0 \in Nat
      BY DEF Statuses, Over, is_active_order
    <2>3. Reports(id, StatusMsg(id, "submitted", 0))
      BY <1>2, <2>1, <2>2, ReportEffect
    <2>4. StatusMsg(id, "submitted", 0) \in Messages
      BY <2>2 DEF StatusMsg, Messages, AvgPrice
    <2> QED BY <2>3, <2>4
  <1>3. ASSUME NEW id \in Orders, book[id].state = "working", Fill(id)
        PROVE  \E msg \in Messages : Reports(id, msg)
    <2>1. PICK filled, full : filled = book[id].filled + 1 /\ full = (filled = book[id].quantity)
      OBVIOUS
    <2>2. filled \in Nat /\ filled >= book[id].filled /\ full \in BOOLEAN
      BY <2>1 DEF TypeInv, TypeOK, TwsTypeOK, BookEntries
    <2>3. Report(id, IF full THEN "done" ELSE "working", IF full THEN "filled" ELSE "submitted", filled)
      BY <1>3, <2>1 DEF Fill
    <2>4. "submitted" \in Statuses /\ "submitted" \notin Over /\ "filled" \in Statuses
      BY DEF Statuses, Over, is_active_order
    <2>5. CASE full
      <3>1. Report(id, "done", "filled", filled)
        BY <2>3, <2>5
      <3>2. Reports(id, StatusMsg(id, "filled", filled))
        BY <1>3, <2>2, <2>4, <3>1, ReportEffect
      <3>3. StatusMsg(id, "filled", filled) \in Messages
        BY <2>2, <2>4 DEF StatusMsg, Messages, AvgPrice
      <3> QED BY <3>2, <3>3
    <2>6. CASE ~full
      <3>1. Report(id, "working", "submitted", filled)
        BY <2>3, <2>6
      <3>2. Reports(id, StatusMsg(id, "submitted", filled))
        BY <1>3, <2>2, <2>4, <3>1, ReportEffect
      <3>3. StatusMsg(id, "submitted", filled) \in Messages
        BY <2>2, <2>4 DEF StatusMsg, Messages, AvgPrice
      <3> QED BY <3>2, <3>3
    <2> QED BY <2>2, <2>5, <2>6
  <1>4. ASSUME NEW id \in Orders, book[id].state = "working", Cancel(id)
        PROVE  \E msg \in Messages : Reports(id, msg)
    <2>1. PICK filled : filled = book[id].filled
      OBVIOUS
    <2>2. filled \in Nat /\ filled >= book[id].filled
      BY <2>1 DEF TypeInv, TypeOK, TwsTypeOK, BookEntries
    <2>3. Report(id, "done", "cancelled", filled) /\ "cancelled" \in Statuses
      BY <1>4, <2>1 DEF Cancel, Statuses
    <2>4. Reports(id, StatusMsg(id, "cancelled", filled))
      BY <1>4, <2>2, <2>3, ReportEffect
    <2>5. StatusMsg(id, "cancelled", filled) \in Messages
      BY <2>2, <2>3 DEF StatusMsg, Messages, AvgPrice
    <2> QED BY <2>4, <2>5
  <1>5. ASSUME NEW id \in Orders, book[id].state = "working", Reject(id)
        PROVE  \E msg \in Messages : Reports(id, msg)
    <2>1. book \in [Orders -> BookEntries] /\ book[id] \in BookEntries
      BY DEF TypeInv, TypeOK, TwsTypeOK
    <2>2. /\ book'[id].filled = book[id].filled /\ book'[id].status = "inactive"
          /\ book'[id].state = "done" /\ \A k \in Orders : k # id => book'[k] = book[k]
      BY <1>5, <2>1 DEF Reject, BookEntries
    <2>3. book[id].filled \in Int /\ book[id].status \notin Over
      BY <1>5, <2>1 DEF BookEntries, BookIsSane
    <2>4. BookIsSane'
      <3>1. ASSUME NEW k \in Orders
            PROVE  /\ book'[k].status = "pending_submit" => book'[k].filled = 0
                   /\ book'[k].status \in Over => book'[k].state = "done"
        <4>1. CASE k = id
          BY <2>2, <4>1
        <4>2. CASE k # id
          BY <2>2, <4>2 DEF BookIsSane
        <4> QED BY <4>1, <4>2
      <3> QED BY <3>1 DEF BookIsSane, Over
    <2>5. /\ ErrorMsg(id).id = id /\ ErrorMsg(id).type = "error" /\ ErrorMsg(id) \in Messages
          /\ wire' = Append(wire, ErrorMsg(id))
      BY <1>5 DEF ErrorMsg, Messages, Reject
    <2>6. book'[id].filled >= book[id].filled
      BY <2>2, <2>3
    <2>7. Reports(id, ErrorMsg(id))
      BY <1>5, <2>2, <2>3, <2>4, <2>5, <2>6 DEF Reports, Unplaced
    <2> QED BY <2>5, <2>7
  <1>6. ASSUME NEW id \in Orders, ~Unplaced(id), NEW kind \in NoteKinds, Note(id, kind)
        PROVE  \E msg \in Messages : Reports(id, msg)
    <2>1. book' = book /\ book[id] \in BookEntries
      BY <1>6 DEF Note, TypeInv, TypeOK, TwsTypeOK
    <2>2. book[id].filled \in Nat /\ book[id].filled >= book[id].filled /\ book[id].status \in Statuses
      BY <2>1 DEF BookEntries
    <2>3. BookIsSane'
      BY <2>1 DEF BookIsSane
    <2>4. PICK repeat, late, err : /\ repeat = StatusMsg(id, book[id].status, book[id].filled)
                                   /\ late = CommissionMsg(id) /\ err = ErrorMsg(id)
      OBVIOUS
    <2>5. wire' = Append(wire, repeat) \/ wire' = Append(wire, late) \/ wire' = Append(wire, err)
      BY <1>6, <2>4, NoteKindsAreKinds DEF Note
    <2>6. /\ repeat \in Messages /\ repeat.id = id /\ repeat.type = "orderStatus"
          /\ repeat.filled = book[id].filled /\ repeat.status = book[id].status
      BY <2>2, <2>4 DEF StatusMsg, Messages, AvgPrice
    <2>7. /\ late \in Messages /\ late.id = id /\ late.type = "openOrder"
          /\ late.commission = book[id].filled
      BY <2>2, <2>4 DEF CommissionMsg, Commission, Messages
    <2>8. err \in Messages /\ err.id = id /\ err.type = "error"
      BY <2>4 DEF ErrorMsg, Messages
    <2>9. ASSUME NEW msg, msg \in {repeat, late, err}, wire' = Append(wire, msg)
          PROVE  Reports(id, msg)
      <3>1. /\ msg.id = id
            /\ msg.type = "orderStatus" => msg.filled = book'[id].filled /\ msg.status = book'[id].status
            /\ msg.type = "openOrder" => msg.commission = book'[id].filled
        BY <2>1, <2>6, <2>7, <2>8, <2>9
      <3>2. ~Unplaced(id)'
        BY <1>6, <2>1 DEF Unplaced
      <3> QED BY <1>6, <2>1, <2>2, <2>3, <2>9, <3>1, <3>2 DEF Reports
    <2> QED BY <2>5, <2>6, <2>7, <2>8, <2>9
  <1>7. CASE Disconnect
    BY <1>1, <1>7 DEF Disconnect
  <1>8. CASE TwsStep
    <2>1. CASE \E id \in Working : Acknowledge(id) \/ Fill(id) \/ Cancel(id) \/ Reject(id)
      BY <1>1, <1>2, <1>3, <1>4, <1>5, <2>1 DEF Working
    <2>2. CASE \E id \in Working \cup Done, kind \in NoteKinds : Note(id, kind)
      BY <1>1, <1>6, <2>2 DEF Working, Done, Unplaced
    <2> QED BY <1>8, <2>1, <2>2 DEF TwsStep
  <1> QED BY <1>7, <1>8 DEF Peer

(* The news of TWS stays in order.                                         *)
LEMMA PeerNews ==
    ASSUME TypeInv, PlacedInv, NewsInv, Peer
    PROVE  NewsInv'
  <1>1. /\ BookIsSane /\ WireGoesForward /\ BookIsAhead /\ WireIsNews /\ KnownIsOnRecord
        /\ UNCHANGED orders
    BY PeerReports DEF NewsInv
  <1>2. CASE UNCHANGED <<book, wire>>
    BY <1>1, <1>2 DEF NewsInv, BookIsSane, WireGoesForward, BookIsAhead, WireIsNews,
       KnownIsOnRecord, Unplaced
  <1>3. ASSUME NEW id \in Orders, NEW msg \in Messages, Reports(id, msg)
        PROVE  NewsInv'
    <2>1. /\ msg.id = id /\ wire' = Append(wire, msg) /\ BookIsSane'
          /\ ~Unplaced(id) /\ ~Unplaced(id)'
          /\ \A k \in Orders : k # id => book'[k] = book[k]
          /\ book[id].filled \in Int /\ book'[id].filled \in Int
          /\ book'[id].filled >= book[id].filled
          /\ book[id].status \in Over => book'[id].status = book[id].status
          /\ msg.type = "orderStatus" =>
                msg.filled = book'[id].filled /\ msg.status = book'[id].status
          /\ msg.type = "openOrder" => msg.commission = book'[id].filled
      BY <1>3 DEF Reports
    <2>2. PICK n : n = Len(wire)
      OBVIOUS
    <2>3. /\ n \in Nat /\ Len(wire') = n + 1 /\ wire'[n + 1] = msg
          /\ \A i \in 1 .. n : wire'[i] = wire[i]
          /\ \A i \in 1 .. Len(wire') : i \in 1 .. n \/ i = n + 1
      BY <2>1, <2>2, Appended DEF TypeInv, TypeOK, TwsTypeOK
    <2>4. \A i \in 1 .. n : wire[i] \in Messages
      BY <2>2 DEF TypeInv, TypeOK, TwsTypeOK
    <2>5. ASSUME NEW i \in 1 .. n, wire[i].id = id
          PROVE  /\ ToldAfter(msg, wire[i])
                 /\ wire[i].type = "orderStatus" =>
                       /\ book'[id].filled >= wire[i].filled
                       /\ wire[i].status \in Over => book'[id].status = wire[i].status
                 /\ wire[i].type = "openOrder" => book'[id].filled >= wire[i].commission
      <3>1. /\ wire[i].type = "orderStatus" =>
                  /\ wire[i].filled \in Int /\ book[id].filled >= wire[i].filled
                  /\ wire[i].status \in Over => book[id].status = wire[i].status
            /\ wire[i].type = "openOrder" =>
                  wire[i].commission \in Int /\ book[id].filled >= wire[i].commission
        <4>1. wire[i] \in Messages
          BY <2>4
        <4>2. /\ wire[i].type = "orderStatus" => wire[i].filled \in Int
              /\ wire[i].type = "openOrder" => wire[i].commission \in Int
          BY <4>1 DEF Messages
        <4> QED BY <1>1, <2>2, <2>5, <4>2 DEF BookIsAhead
      <3>2. /\ wire[i].type = "orderStatus" =>
                  /\ book'[id].filled >= wire[i].filled
                  /\ wire[i].status \in Over => book'[id].status = wire[i].status
            /\ wire[i].type = "openOrder" => book'[id].filled >= wire[i].commission
        BY <2>1, <3>1
      <3> QED BY <2>1, <3>2 DEF ToldAfter
    <2>6. WireGoesForward'
      <3>1. ASSUME NEW i \in 1 .. Len(wire'), NEW j \in 1 .. Len(wire'), i <= j,
                   wire'[i].id = wire'[j].id
            PROVE  ToldAfter(wire'[j], wire'[i])
        <4>1. CASE i \in 1 .. n /\ j \in 1 .. n
          BY <1>1, <2>2, <2>3, <3>1, <4>1 DEF WireGoesForward
        <4>2. CASE i \in 1 .. n /\ j = n + 1
          BY <2>1, <2>3, <2>5, <3>1, <4>2
        <4>3. CASE i = n + 1
          <5>1. j = n + 1
            BY <2>3, <3>1, <4>3
          <5>2. ToldAfter(msg, msg)
            BY <2>1 DEF ToldAfter
          <5> QED BY <2>3, <4>3, <5>1, <5>2
        <4> QED BY <2>3, <4>1, <4>2, <4>3
      <3> QED BY <3>1 DEF WireGoesForward, ToldAfter, Over
    <2>7. BookIsAhead'
      <3>1. ASSUME NEW i \in 1 .. Len(wire')
            PROVE  LET m == wire'[i] entry == book'[wire'[i].id]
                   IN  /\ m.type = "orderStatus" =>
                             /\ entry.filled >= m.filled
                             /\ m.status \in Over => entry.status = m.status
                       /\ m.type = "openOrder" => entry.filled >= m.commission
        <4>1. CASE i \in 1 .. n /\ wire[i].id = id
          BY <2>3, <2>5, <4>1
        <4>2. CASE i \in 1 .. n /\ wire[i].id # id
          <5>1. wire[i].id \in Orders
            BY <2>4, <4>2 DEF Messages
          <5>2. book'[wire[i].id] = book[wire[i].id] /\ wire'[i] = wire[i]
            BY <2>1, <2>3, <4>2, <5>1
          <5> QED BY <1>1, <2>2, <4>2, <5>2 DEF BookIsAhead
        <4>3. CASE i = n + 1
          BY <2>1, <2>3, <4>3
        <4> QED BY <2>3, <4>1, <4>2, <4>3
      <3> QED BY <3>1 DEF BookIsAhead, Over
    <2>8. orders[id] # NoOrder /\ orders[id] \in OrderData
      BY <2>1 DEF PlacedInv, PlacedIsKnown, TypeInv, TypeOK, ApiTypeOK
    <2>9. /\ book[id].filled >= orders[id].traded_quantity
          /\ book[id].filled >= orders[id].commission
          /\ orders[id].status \in Over => book[id].status = orders[id].status
          /\ orders[id].traded_quantity \in Int /\ orders[id].commission \in Int
      BY <1>1, <2>1, <2>8 DEF KnownIsOnRecord, OrderData
    <2>10. WireIsNews'
      <3>1. ASSUME NEW i \in 1 .. Len(wire')
            PROVE  IsNews(wire'[i], orders[wire'[i].id])
        <4>1. CASE i \in 1 .. n
          BY <1>1, <2>2, <2>3, <4>1 DEF WireIsNews
        <4>2. CASE i = n + 1
          <5>1. IsNews(msg, orders[id])
            BY <2>1, <2>9 DEF IsNews
          <5> QED BY <2>1, <2>3, <4>2, <5>1
        <4> QED BY <2>3, <4>1, <4>2
      <3> QED BY <1>1, <3>1 DEF WireIsNews, IsNews, Over
    <2>11. KnownIsOnRecord'
      <3>1. ASSUME NEW k \in Orders
            PROVE  /\ ~Unplaced(k)' =>
                         /\ book'[k].filled >= orders[k].traded_quantity
                         /\ book'[k].filled >= orders[k].commission
                         /\ orders[k].status \in Over => book'[k].status = orders[k].status
                   /\ Unplaced(k)' /\ orders[k] # NoOrder => orders[k].status \notin Over
        <4>1. CASE k = id
          BY <2>1, <2>9, <4>1
        <4>2. CASE k # id
          BY <1>1, <2>1, <4>2 DEF KnownIsOnRecord, Unplaced
        <4> QED BY <4>1, <4>2
      <3> QED BY <1>1, <3>1 DEF KnownIsOnRecord, Over
    <2> QED BY <2>1, <2>6, <2>7, <2>10, <2>11 DEF NewsInv
  <1> QED BY <1>1, <1>2, <1>3, PeerReports

(* A snapshot is no older than itself, and than all that those it is no    *)
(* older than are no older than.                                           *)
LEMMA NoOlderIsAnOrder ==
    ASSUME NEW x \in OrderData, NEW y \in OrderData, NEW z \in OrderData
    PROVE  NoOlder(x, x) /\ (NoOlder(x, y) /\ NoOlder(y, z) => NoOlder(x, z))
  BY DEF NoOlder, OrderData

(* IBApi replaces a snapshot by one that is no older.                      *)
OrdersGoForward ==
    \A id \in Orders : orders[id] # NoOrder =>
        orders'[id] # NoOrder /\ NoOlder(orders'[id], orders[id])

(* Snapshots that stay are no older than they were.                        *)
LEMMA SameOrdersForward == ASSUME TypeInv, UNCHANGED orders PROVE OrdersGoForward
  <1>1. ASSUME NEW id \in Orders, orders[id] # NoOrder PROVE NoOlder(orders'[id], orders[id])
    <2>1. orders[id] \in OrderData
      BY <1>1 DEF TypeInv, TypeOK, ApiTypeOK
    <2> QED BY <2>1, NoOlderIsAnOrder
  <1> QED BY <1>1 DEF OrdersGoForward

(* What IBApi makes of a message: a newer snapshot.                        *)
Updates(msg, old, data) ==
    \/ msg.type = "orderStatus" /\ data = [old EXCEPT !.status = msg.status,
                                                      !.traded_quantity = msg.filled,
                                                      !.avg_trade_price = msg.px]
    \/ msg.type = "openOrder" /\ data = [old EXCEPT !.commission = msg.commission]
    \/ msg.type = "error" /\ data = [old EXCEPT !.error_code = TRUE]

(* It is no older than the one before.                                     *)
LEMMA MessageEffect ==
    ASSUME TypeInv, NEW msg \in Messages, NEW old \in OrderData, IsNews(msg, old),
           NEW data, Updates(msg, old, data)
    PROVE  /\ data \in OrderData /\ NoOlder(data, old) /\ data.order_id = old.order_id
           /\ data.traded_quantity = IF msg.type = "orderStatus" THEN msg.filled
                                     ELSE old.traded_quantity
           /\ data.status = IF msg.type = "orderStatus" THEN msg.status ELSE old.status
           /\ data.commission = IF msg.type = "openOrder" THEN msg.commission
                                ELSE old.commission
  <1>1. CASE msg.type = "orderStatus" /\ data = [old EXCEPT !.status = msg.status,
                                                            !.traded_quantity = msg.filled,
                                                            !.avg_trade_price = msg.px]
    <2>1. msg.status \in Statuses /\ msg.filled \in Nat /\ msg.px \in Nat
      BY <1>1 DEF Messages
    <2>2. data \in OrderData
      BY <1>1, <2>1 DEF OrderData
    <2>3. /\ data.traded_quantity = msg.filled /\ data.status = msg.status
          /\ data.commission = old.commission /\ data.error_code = old.error_code
          /\ data.order_id = old.order_id /\ old.commission \in Int
      BY <1>1 DEF OrderData
    <2> QED BY <1>1, <2>2, <2>3 DEF IsNews, NoOlder
  <1>2. CASE msg.type = "openOrder" /\ data = [old EXCEPT !.commission = msg.commission]
    <2>1. msg.commission \in Nat
      BY <1>2 DEF Messages
    <2>2. data \in OrderData
      BY <1>2, <2>1 DEF OrderData
    <2>3. /\ data.traded_quantity = old.traded_quantity /\ data.status = old.status
          /\ data.commission = msg.commission /\ data.error_code = old.error_code
          /\ data.order_id = old.order_id /\ old.traded_quantity \in Int
      BY <1>2 DEF OrderData
    <2> QED BY <1>2, <2>2, <2>3 DEF IsNews, NoOlder
  <1>3. CASE msg.type = "error" /\ data = [old EXCEPT !.error_code = TRUE]
    <2>1. data \in OrderData
      BY <1>3 DEF OrderData
    <2>2. /\ data.traded_quantity = old.traded_quantity /\ data.status = old.status
          /\ data.commission = old.commission /\ data.error_code = TRUE
          /\ data.order_id = old.order_id
          /\ old.traded_quantity \in Int /\ old.commission \in Int
      BY <1>3 DEF OrderData
    <2> QED BY <1>3, <2>1, <2>2 DEF NoOlder
  <1> QED BY <1>1, <1>2, <1>3 DEF Updates

(* The callback thread takes the news in the order it was told.            *)
LEMMA CallbackNews ==
    ASSUME TypeInv, PlacedInv, NewsInv, Callback
    PROVE  NewsInv' /\ OrdersGoForward
  <1>1. BookIsSane /\ WireGoesForward /\ BookIsAhead /\ WireIsNews /\ KnownIsOnRecord
    BY DEF NewsInv
  <1>2. CASE ForwardMessage
    <2>1. UNCHANGED <<orders, book, wire>>
      BY <1>2 DEF ForwardMessage, on_order, twsVars
    <2>2. NewsInv'
      BY <1>1, <2>1 DEF NewsInv, BookIsSane, WireGoesForward, BookIsAhead, WireIsNews,
         KnownIsOnRecord, Unplaced
    <2> QED BY <2>1, <2>2, SameOrdersForward
  <1>3. CASE ProcessMessage
    <2>1. PICK msg : msg = Head(wire)
      OBVIOUS
    <2>2. wire # << >> /\ wire' = Tail(wire) /\ UNCHANGED book
      BY <1>3 DEF ProcessMessage
    <2>3. PICK n : n = Len(wire)
      OBVIOUS
    <2>4. /\ n \in Nat /\ n >= 1 /\ Len(wire') = n - 1 /\ wire[1] = msg /\ msg \in Messages
          /\ \A i \in 1 .. n - 1 : wire'[i] = wire[i + 1]
      BY <2>1, <2>2, <2>3, Taken DEF TypeInv, TypeOK, TwsTypeOK
    <2>5. \A i \in 1 .. Len(wire') : i + 1 \in 1 .. n /\ 1 <= i + 1 /\ wire'[i] = wire[i + 1]
      BY <2>4
    <2>6. \A i \in 1 .. n : wire[i] \in Messages
      BY <2>3 DEF TypeInv, TypeOK, TwsTypeOK
    <2>7. BookIsSane'
      BY <1>1, <2>2 DEF BookIsSane
    <2>8. WireGoesForward'
      <3>1. ASSUME NEW i \in 1 .. Len(wire'), NEW j \in 1 .. Len(wire'), i <= j,
                   wire'[i].id = wire'[j].id
            PROVE  ToldAfter(wire'[j], wire'[i])
        <4>1. i + 1 \in 1 .. n /\ j + 1 \in 1 .. n /\ i + 1 <= j + 1
          BY <2>4, <2>5, <3>1
        <4>2. ToldAfter(wire[j + 1], wire[i + 1])
          BY <1>1, <2>3, <2>5, <3>1, <4>1 DEF WireGoesForward
        <4> QED BY <2>5, <4>2
      <3> QED BY <3>1 DEF WireGoesForward, ToldAfter
    <2>9. BookIsAhead'
      BY <1>1, <2>2, <2>3, <2>5 DEF BookIsAhead
    <2>10. CASE orders[msg.id] = NoOrder
      <3>1. UNCHANGED orders
        BY <1>3, <2>1, <2>10 DEF ProcessMessage
      <3>2. WireIsNews'
        BY <1>1, <2>3, <2>5, <3>1 DEF WireIsNews, IsNews
      <3>3. KnownIsOnRecord'
        BY <1>1, <2>2, <3>1 DEF KnownIsOnRecord, Unplaced
      <3> QED BY <2>7, <2>8, <2>9, <3>1, <3>2, <3>3, SameOrdersForward DEF NewsInv
    <2>11. CASE orders[msg.id] # NoOrder
      <3>1. PICK id, old : id = msg.id /\ old = orders[msg.id]
        OBVIOUS
      <3>2. id \in Orders /\ old \in OrderData /\ old # NoOrder /\ old.order_id = id
        BY <2>4, <2>11, <3>1 DEF Messages, TypeInv, TypeOK, ApiTypeOK, Links, FiledUnderId
      <3>3. IsNews(msg, old) /\ ~Unplaced(id)
        BY <1>1, <2>3, <2>4, <3>1 DEF WireIsNews, PlacedInv, PlacedIsKnown
      <3>4. PICK data : Snapshot("callback", data) /\ Updates(msg, old, data)
        BY <1>3, <2>1, <2>11, <3>1 DEF ProcessMessage, orderStatus, openOrder, error, Updates
      <3>5. /\ data \in OrderData /\ NoOlder(data, old) /\ data.order_id = id
            /\ data.traded_quantity = IF msg.type = "orderStatus" THEN msg.filled
                                      ELSE old.traded_quantity
            /\ data.status = IF msg.type = "orderStatus" THEN msg.status ELSE old.status
            /\ data.commission = IF msg.type = "openOrder" THEN msg.commission
                                 ELSE old.commission
        BY <2>4, <3>2, <3>3, <3>4, MessageEffect
      <3>6. /\ orders'[id] = data /\ data # NoOrder
            /\ \A k \in Orders : k # id => orders'[k] = orders[k]
        BY <3>4, <3>5, SnapshotTaken DEF TypeInv, TypeOK, ApiThreads
      <3>7. OrdersGoForward
        <4>1. ASSUME NEW k \in Orders, orders[k] # NoOrder
              PROVE  orders'[k] # NoOrder /\ NoOlder(orders'[k], orders[k])
          <5>1. CASE k = id
            BY <3>1, <3>5, <3>6, <5>1
          <5>2. CASE k # id
            <6>1. orders[k] \in OrderData /\ orders'[k] = orders[k]
              BY <3>6, <4>1, <5>2 DEF TypeInv, TypeOK, ApiTypeOK
            <6> QED BY <4>1, <6>1, NoOlderIsAnOrder
          <5> QED BY <5>1, <5>2
        <4> QED BY <4>1 DEF OrdersGoForward
      <3>8. WireIsNews'
        <4>1. ASSUME NEW i \in 1 .. Len(wire') PROVE IsNews(wire'[i], orders'[wire'[i].id])
          <5>1. i + 1 \in 1 .. n /\ wire'[i] = wire[i + 1] /\ wire[i + 1] \in Messages
                /\ IsNews(wire[i + 1], orders[wire[i + 1].id])
            BY <1>1, <2>3, <2>5, <2>6 DEF WireIsNews
          <5>2. CASE wire[i + 1].id = id
            <6>1. 1 \in 1 .. n /\ 1 <= i + 1
              BY <2>4, <2>5
            <6>2. ToldAfter(wire[i + 1], wire[1])
              BY <1>1, <2>3, <2>4, <3>1, <5>1, <5>2, <6>1 DEF WireGoesForward
            <6>3. ToldAfter(wire[i + 1], msg) /\ IsNews(wire[i + 1], old)
              BY <2>4, <3>1, <5>1, <5>2, <6>2
            <6>4. IsNews(wire[i + 1], data)
              BY <3>5, <6>3 DEF IsNews, ToldAfter
            <6> QED BY <3>6, <5>1, <5>2, <6>4
          <5>3. CASE wire[i + 1].id # id
            <6>1. wire[i + 1].id \in Orders
              BY <5>1 DEF Messages
            <6> QED BY <3>6, <5>1, <5>3, <6>1
          <5> QED BY <5>2, <5>3
        <4> QED BY <4>1 DEF WireIsNews, IsNews
      <3>9. KnownIsOnRecord'
        <4>1. /\ msg.type = "orderStatus" =>
                    /\ book[id].filled >= msg.filled
                    /\ msg.status \in Over => book[id].status = msg.status
              /\ msg.type = "openOrder" => book[id].filled >= msg.commission
          BY <1>1, <2>3, <2>4, <3>1 DEF BookIsAhead
        <4>2. /\ book[id].filled >= old.traded_quantity
              /\ book[id].filled >= old.commission
              /\ old.status \in Over => book[id].status = old.status
          BY <1>1, <3>1, <3>2, <3>3 DEF KnownIsOnRecord
        <4>3. /\ book[id].filled >= data.traded_quantity
              /\ book[id].filled >= data.commission
              /\ data.status \in Over => book[id].status = data.status
          BY <3>5, <4>1, <4>2
        <4>4. ASSUME NEW k \in Orders
              PROVE  /\ ~Unplaced(k)' =>
                           /\ book'[k].filled >= orders'[k].traded_quantity
                           /\ book'[k].filled >= orders'[k].commission
                           /\ orders'[k].status \in Over => book'[k].status = orders'[k].status
                     /\ Unplaced(k)' /\ orders'[k] # NoOrder => orders'[k].status \notin Over
          <5>1. CASE k = id
            BY <2>2, <3>3, <3>6, <4>3, <5>1 DEF Unplaced
          <5>2. CASE k # id
            BY <1>1, <2>2, <3>6, <5>2 DEF KnownIsOnRecord, Unplaced
          <5> QED BY <5>1, <5>2
        <4> QED BY <4>4 DEF KnownIsOnRecord
      <3> QED BY <2>7, <2>8, <2>9, <3>7, <3>8, <3>9 DEF NewsInv
    <2> QED BY <2>10, <2>11
  <1> QED BY <1>2, <1>3 DEF Callback

(* The news stays in order when no message comes or goes, the orders TWS   *)
(* has stay as they are, and those it has not stay so or are placed.       *)
LEMMA NewsStays ==
    ASSUME TypeInv, PlacedInv, NewsInv, UNCHANGED wire,
           \A id \in Orders : ~Unplaced(id) =>
              /\ book'[id].state = book[id].state /\ book'[id].filled = book[id].filled
              /\ book'[id].status = book[id].status
              /\ orders'[id].traded_quantity = orders[id].traded_quantity
              /\ orders'[id].commission = orders[id].commission
              /\ orders'[id].status = orders[id].status,
           \A id \in Orders : Unplaced(id) =>
              \/ /\ Unplaced(id)' /\ book'[id].filled = book[id].filled
                 /\ book'[id].status = book[id].status
                 /\ orders'[id] # NoOrder => orders'[id].status \notin Over
              \/ /\ ~Unplaced(id)' /\ book'[id].filled = 0
                 /\ book'[id].status = "pending_submit"
                 /\ orders'[id].traded_quantity = 0 /\ orders'[id].commission = 0
                 /\ orders'[id].status \notin Over
    PROVE  NewsInv'
  <1>1. BookIsSane /\ WireGoesForward /\ BookIsAhead /\ WireIsNews /\ KnownIsOnRecord
    BY DEF NewsInv
  <1>2. "pending_submit" \notin Over /\ 0 >= 0
    BY DEF Over, is_active_order
  <1>3. BookIsSane'
    <2>1. ASSUME NEW id \in Orders
          PROVE  /\ book'[id].status = "pending_submit" => book'[id].filled = 0
                 /\ book'[id].status \in Over => book'[id].state = "done"
      <3>1. CASE ~Unplaced(id)
        BY <1>1, <3>1 DEF BookIsSane
      <3>2. CASE Unplaced(id)
        BY <1>1, <1>2, <3>2 DEF BookIsSane, Unplaced
      <3> QED BY <3>1, <3>2
    <2> QED BY <2>1 DEF BookIsSane
  <1>4. ASSUME NEW i \in 1 .. Len(wire)
        PROVE  LET id == wire[i].id
               IN  /\ book'[id].filled = book[id].filled /\ book'[id].status = book[id].status
                   /\ orders'[id].traded_quantity = orders[id].traded_quantity
                   /\ orders'[id].commission = orders[id].commission
                   /\ orders'[id].status = orders[id].status
    <2>1. wire[i] \in Messages
      BY DEF TypeInv, TypeOK, TwsTypeOK
    <2>2. wire[i].id \in Orders /\ ~Unplaced(wire[i].id)
      BY <2>1 DEF Messages, PlacedInv, PlacedIsKnown
    <2> QED BY <2>2
  <1>5. WireGoesForward'
    BY <1>1 DEF WireGoesForward, ToldAfter
  <1>6. BookIsAhead'
    BY <1>1, <1>4 DEF BookIsAhead
  <1>7. WireIsNews'
    BY <1>1, <1>4 DEF WireIsNews, IsNews
  <1>8. KnownIsOnRecord'
    <2>1. ASSUME NEW id \in Orders
          PROVE  /\ ~Unplaced(id)' =>
                       /\ book'[id].filled >= orders'[id].traded_quantity
                       /\ book'[id].filled >= orders'[id].commission
                       /\ orders'[id].status \in Over => book'[id].status = orders'[id].status
                 /\ Unplaced(id)' /\ orders'[id] # NoOrder => orders'[id].status \notin Over
      <3>1. CASE ~Unplaced(id)
        BY <1>1, <3>1 DEF KnownIsOnRecord, Unplaced
      <3>2. CASE Unplaced(id)
        BY <1>2, <3>2
      <3> QED BY <3>1, <3>2
    <2> QED BY <2>1 DEF KnownIsOnRecord
  <1> QED BY <1>3, <1>5, <1>6, <1>7, <1>8 DEF NewsInv

(* The error the sender meets is no older than the snapshot it replaces.   *)
LEMMA FailsForward ==
    ASSUME TypeInv, NEW id \in Orders, Fails(id)
    PROVE  /\ OrdersGoForward
           /\ \A k \in Orders : (orders'[k] # NoOrder <=> orders[k] # NoOrder)
           /\ \A k \in Orders : orders[k] # NoOrder =>
                 /\ orders'[k].traded_quantity = orders[k].traded_quantity
                 /\ orders'[k].commission = orders[k].commission
                 /\ orders'[k].status = orders[k].status
  <1>1. PICK old, data : old = orders[id] /\ data = [old EXCEPT !.error_code = TRUE]
    OBVIOUS
  <1>2. old \in OrderData /\ old.order_id = id /\ Snapshot("sender", data)
    BY <1>1 DEF Fails, error, TypeInv, TypeOK, ApiTypeOK, Links, FiledUnderId
  <1>3. /\ data \in OrderData /\ data.traded_quantity = old.traded_quantity
        /\ data.commission = old.commission /\ data.status = old.status
        /\ data.order_id = id /\ NoOlder(data, old)
    <2>1. /\ data.traded_quantity = old.traded_quantity /\ data.commission = old.commission
          /\ data.status = old.status /\ data.error_code = TRUE /\ data.order_id = id
          /\ old.traded_quantity \in Int /\ old.commission \in Int
      BY <1>1, <1>2 DEF OrderData
    <2>2. data \in OrderData
      BY <1>1, <1>2 DEF OrderData
    <2> QED BY <2>1, <2>2 DEF NoOlder
  <1>4. /\ orders'[id] = data /\ data # NoOrder
        /\ \A k \in Orders : k # id => orders'[k] = orders[k]
    BY <1>2, <1>3, SnapshotTaken DEF TypeInv, TypeOK, ApiThreads
  <1>5. orders[id] # NoOrder
    BY DEF Fails
  <1>6. ASSUME NEW k \in Orders
        PROVE  /\ orders'[k] # NoOrder <=> orders[k] # NoOrder
               /\ orders[k] # NoOrder =>
                     /\ orders'[k].traded_quantity = orders[k].traded_quantity
                     /\ orders'[k].commission = orders[k].commission
                     /\ orders'[k].status = orders[k].status
                     /\ NoOlder(orders'[k], orders[k])
    <2>1. CASE k = id
      BY <1>1, <1>3, <1>4, <1>5, <2>1
    <2>2. CASE k # id
      <3>1. orders'[k] = orders[k] /\ (orders[k] = NoOrder \/ orders[k] \in OrderData)
        BY <1>4, <2>2 DEF TypeInv, TypeOK, ApiTypeOK
      <3> QED BY <3>1, NoOlderIsAnOrder
    <2> QED BY <2>1, <2>2
  <1> QED BY <1>6 DEF OrdersGoForward

(* The action thread keeps the news in order, and its snapshots forward.   *)
LEMMA AlgoNews ==
    ASSUME TypeInv, PlacedInv, NewsInv, Algo
    PROVE  NewsInv' /\ OrdersGoForward
  <1>1. KnownIsOnRecord /\ PlacedIsKnown /\ NewIsUnplaced
    BY DEF NewsInv, PlacedInv
  <1>2. book \in [Orders -> BookEntries] /\ orders \in [Orders -> OrderData \cup {NoOrder}]
    BY DEF TypeInv, TypeOK, TwsTypeOK, ApiTypeOK
  <1>3. "pending_submit" \notin Over
    BY DEF Over, is_active_order
  <1>4. CASE Hands("sender") \/ Aside
    <2>1. UNCHANGED <<orders, book, wire>>
      BY <1>4 DEF Hands, on_order, Aside
    <2>2. NewsInv'
      BY <1>1, <2>1, NewsStays DEF KnownIsOnRecord, Unplaced
    <2> QED BY <2>1, <2>2, SameOrdersForward
  <1>5. CASE Inserts
    <2>1. PICK id, data : id = m_order_id /\ data = NewOrder(m_order_id, req.action, req.quantity)
      OBVIOUS
    <2>2. /\ id \in Orders /\ orders[id] = NoOrder /\ Snapshot("sender", data)
          /\ UNCHANGED <<book, wire>>
      BY <1>1, <1>5, <2>1 DEF Inserts, NewIsUnplaced, Orders
    <2>3. data \in OrderData /\ data.order_id = id /\ data.status = "pending_submit"
      BY <2>1, <2>2 DEF NewOrder, OrderData, Statuses, TypeInv, TypeOK, AlgoTypeOK, Requests
    <2>4. orders'[id] = data /\ \A k \in Orders : k # id => orders'[k] = orders[k]
      BY <2>2, <2>3, SnapshotTaken DEF TypeInv, TypeOK, ApiThreads
    <2>5. OrdersGoForward
      <3>1. ASSUME NEW k \in Orders, orders[k] # NoOrder
            PROVE  orders'[k] # NoOrder /\ NoOlder(orders'[k], orders[k])
        <4>1. orders[k] \in OrderData /\ orders'[k] = orders[k]
          BY <1>2, <2>2, <2>4, <3>1
        <4> QED BY <3>1, <4>1, NoOlderIsAnOrder
      <3> QED BY <3>1 DEF OrdersGoForward
    <2>6. Unplaced(id)
      BY <1>1, <2>2 DEF PlacedIsKnown
    <2>7. ASSUME NEW k \in Orders, ~Unplaced(k)
          PROVE  book'[k] = book[k] /\ orders'[k] = orders[k]
      BY <2>2, <2>4, <2>6, <2>7
    <2>8. ASSUME NEW k \in Orders, Unplaced(k)
          PROVE  /\ Unplaced(k)' /\ book'[k] = book[k]
                 /\ orders'[k] # NoOrder => orders'[k].status \notin Over
      <3>1. CASE k = id
        BY <1>3, <2>2, <2>3, <2>4, <2>8, <3>1 DEF Unplaced
      <3>2. CASE k # id
        BY <1>1, <2>2, <2>4, <2>8, <3>2 DEF Unplaced, KnownIsOnRecord
      <3> QED BY <3>1, <3>2
    <2>9. NewsInv'
      BY <2>2, <2>7, <2>8, NewsStays
    <2> QED BY <2>5, <2>9
  <1>6. CASE Places
    <2>1. PICK id : id = req.order_id
      OBVIOUS
    <2>2. id \in Orders /\ orders[id] # NoOrder /\ Unplaced(id)
      BY <1>1, <1>6, <2>1 DEF Places, Unsent, NewIsUnplaced, TypeInv, Links, SentIsKnown
    <2>3. UNCHANGED <<orders, wire>> /\ Accept(id, orders[id].action, orders[id].total_quantity)
      BY <1>6, <2>1 DEF Places
    <2>4. /\ book'[id].state = "working" /\ book'[id].filled = 0
          /\ book'[id].status = "pending_submit"
          /\ \A k \in Orders : k # id => book'[k] = book[k]
      BY <1>2, <2>2, <2>3 DEF Accept, Absent
    <2>5. /\ orders[id].traded_quantity = 0 /\ orders[id].commission = 0
          /\ orders[id].status \notin Over
      BY <1>1, <2>2 DEF NewIsUnplaced, KnownIsOnRecord
    <2>6. ASSUME NEW k \in Orders, ~Unplaced(k)
          PROVE  book'[k] = book[k] /\ orders'[k] = orders[k]
      BY <2>2, <2>3, <2>4, <2>6
    <2>7. ASSUME NEW k \in Orders, Unplaced(k)
          PROVE  \/ /\ Unplaced(k)' /\ book'[k] = book[k]
                    /\ orders'[k] # NoOrder => orders'[k].status \notin Over
                 \/ /\ ~Unplaced(k)' /\ book'[k].filled = 0
                    /\ book'[k].status = "pending_submit"
                    /\ orders'[k].traded_quantity = 0 /\ orders'[k].commission = 0
                    /\ orders'[k].status \notin Over
      <3>1. CASE k = id
        BY <2>3, <2>4, <2>5, <3>1 DEF Unplaced
      <3>2. CASE k # id
        BY <1>1, <2>3, <2>4, <2>7, <3>2 DEF Unplaced, KnownIsOnRecord
      <3> QED BY <3>1, <3>2
    <2>8. NewsInv'
      BY <2>3, <2>6, <2>7, NewsStays
    <2> QED BY <2>3, <2>8, SameOrdersForward
  <1>7. ASSUME NEW id \in Orders, Cancels(id)
        PROVE  NewsInv' /\ OrdersGoForward
    <2>1. UNCHANGED <<orders, wire>> /\ RequestCancel(id)
      BY <1>7 DEF Cancels
    <2>2. ASSUME NEW k \in Orders
          PROVE  /\ book'[k].state = book[k].state /\ book'[k].filled = book[k].filled
                 /\ book'[k].status = book[k].status
      BY <1>2, <2>1 DEF RequestCancel, BookEntries
    <2>3. NewsInv'
      BY <1>1, <2>1, <2>2, NewsStays DEF KnownIsOnRecord, Unplaced
    <2> QED BY <2>1, <2>3, SameOrdersForward
  <1>8. ASSUME NEW id \in Orders, Fails(id)
        PROVE  NewsInv' /\ OrdersGoForward
    <2>1. UNCHANGED <<book, wire>>
      BY <1>8 DEF Fails
    <2>2. /\ OrdersGoForward
          /\ \A k \in Orders : (orders'[k] # NoOrder <=> orders[k] # NoOrder)
          /\ \A k \in Orders : orders[k] # NoOrder =>
                /\ orders'[k].traded_quantity = orders[k].traded_quantity
                /\ orders'[k].commission = orders[k].commission
                /\ orders'[k].status = orders[k].status
      BY <1>8, FailsForward
    <2>3. NewsInv'
      BY <1>1, <2>1, <2>2, NewsStays DEF KnownIsOnRecord, PlacedIsKnown, Unplaced
    <2> QED BY <2>2, <2>3
  <1> QED BY <1>4, <1>5, <1>6, <1>7, <1>8, AlgoKinds

(* Every step keeps the news in order, and replaces a snapshot only by one *)
(* that is no older, whether or not the connection holds.                  *)
LEMMA NewsStep ==
    ASSUME TypeInv, PlacedInv, NewsInv, [Next]_vars
    PROVE  NewsInv' /\ OrdersGoForward
  <1>1. CASE Algo
    BY <1>1, AlgoNews
  <1>2. CASE Callback
    BY <1>2, CallbackNews
  <1>3. CASE Peer
    BY <1>3, PeerNews, PeerReports, SameOrdersForward DEF NewsInv
  <1>4. CASE UNCHANGED <<orders, book, wire>>
    <2>1. NewsInv'
      BY <1>4, NewsStays DEF NewsInv, KnownIsOnRecord, Unplaced
    <2> QED BY <1>4, <2>1, SameOrdersForward
  <1>5. CASE Dispatch \/ Books
    BY <1>4, <1>5, DownstreamOnly
  <1>6. CASE Strategy
    BY <1>4, <1>6 DEF Strategy, mq_message_cb, twsVars, apiVars
  <1>7. CASE UNCHANGED vars
    BY <1>4, <1>7 DEF vars, twsVars, apiVars
  <1> QED BY <1>1, <1>2, <1>3, <1>5, <1>6, <1>7 DEF Next

(* At the start there is no news.                                          *)
LEMMA NewsInit == Init => NewsInv
  <1> SUFFICES ASSUME Init PROVE NewsInv
    OBVIOUS
  <1>1. /\ Len(wire) = 0
        /\ \A id \in Orders : orders[id] = NoOrder /\ Unplaced(id) /\ book[id] = Absent
    BY EmptySeq DEF Init, TwsInit, ApiInit, Unplaced, Absent
  <1>2. Absent.status \notin Over /\ Absent.filled = 0
    BY DEF Absent, Over, is_active_order
  <1> QED BY <1>1, <1>2 DEF NewsInv, BookIsSane, WireGoesForward, BookIsAhead, WireIsNews,
                            KnownIsOnRecord

(* News and snapshots are in order in every state.                         *)
LEMMA NewsInvariant == Spec => [](TypeInv /\ PlacedInv /\ NewsInv)
  <1>1. TypeInv /\ PlacedInv /\ NewsInv /\ [Next]_vars => NewsInv'
    BY NewsStep
  <1> QED BY <1>1, NewsInit, TypeInvariant, PlacedInvariant, PTL DEF Spec

-----------------------------------------------------------------------------
(* Snapshots on their way.  What IBApi and the event engine have of an     *)
(* order: its snapshot, the copies in the queue, the event in hand.        *)
Upstream(id) ==
    {data \in {orders[id], disp.data} : data # NoOrder /\ data.order_id = id}
        \cup {eq[i].data : i \in EqOf(id)}

(* Nothing that is still to come is older than the snapshot.               *)
Behind(data) == \A newer \in Upstream(data.order_id) : NoOlder(newer, data)

(* In the event engine's queue and hand.                                   *)
EventsForward ==
    /\ \A id \in Orders :
          /\ \A i, j \in EqOf(id) : i <= j => NoOlder(eq[j].data, eq[i].data)
          /\ \A i \in EqOf(id) : NoOlder(orders[id], eq[i].data)
    /\ disp.data # NoOrder => Behind(disp.data)

(* In the portfolio's queue and on its record.                             *)
PortForward ==
    \A id \in Orders :
        /\ \A i \in PqOf(id) : Behind(pq[i])
        /\ \A i, j \in PqOf(id) : i <= j => NoOlder(pq[j], pq[i])
        /\ port_orders[id] # NoOrder =>
              Behind(port_orders[id]) /\ \A i \in PqOf(id) : NoOlder(pq[i], port_orders[id])

(* In the algo's queue, and in the status it knows: once that is the end   *)
(* of the order, all that is still to come says the same.                  *)
Decided(id, status) ==
    status \in Over =>
        /\ \A data \in Upstream(id) : data.status = status
        /\ \A i \in AqOf(id) : aq[i].data.status = status

AlgoForward ==
    \A id \in Orders :
        /\ \A i \in AqOf(id) : Behind(aq[i].data)
        /\ \A i, j \in AqOf(id) : i <= j => NoOlder(aq[j].data, aq[i].data)
        /\ Decided(id, order_status[id])

(* What is upstream is snapshots of the order, the latest one among them.  *)
LEMMA UpstreamTypes ==
    ASSUME TypeInv, NEW id \in Orders
    PROVE  /\ \A data \in Upstream(id) : data \in OrderData /\ data.order_id = id
           /\ orders[id] # NoOrder => orders[id] \in Upstream(id)
           /\ \A i \in EqOf(id) : eq[i].data \in Upstream(id)
           /\ disp.data # NoOrder /\ disp.data.order_id = id => disp.data \in Upstream(id)
  <1>1. /\ orders[id] # NoOrder => orders[id] \in OrderData /\ orders[id].order_id = id
        /\ disp.data # NoOrder => disp.data \in OrderData
    BY DEF TypeInv, TypeOK, ApiTypeOK, Links, FiledUnderId, Dispatching
  <1>2. \A i \in 1 .. Len(eq) : eq[i] \in OrderEvents
    BY DEF TypeInv, TypeOK, ApiTypeOK
  <1>3. \A i \in EqOf(id) : eq[i].data \in OrderData /\ eq[i].data.order_id = id
    BY <1>2 DEF EqOf, OrderEvents
  <1> QED BY <1>1, <1>3 DEF Upstream

(* What happens to the event engine's queue and to the event in its hand.  *)
LEMMA EventKinds ==
    ASSUME TypeInv, [Next]_vars
    PROVE  \/ UNCHANGED eq /\ disp'.data \in {disp.data, NoOrder}
           \/ (\E th \in ApiThreads : on_order(th)) /\ UNCHANGED <<orders, disp>>
           \/ PopEvent /\ UNCHANGED orders
  <1>1. CASE ~(Dispatch \/ Books)
    <2>1. UNCHANGED disp
      BY <1>1, StepKinds
    <2>2. ASSUME NEW th \in ApiThreads, Hands(th) PROVE on_order(th) /\ UNCHANGED orders
      BY <2>2 DEF Hands, on_order
    <2>3. CASE \E th \in ApiThreads : Hands(th)
      BY <2>1, <2>2, <2>3
    <2>4. CASE ~\E th \in ApiThreads : Hands(th)
      BY <1>1, <2>1, <2>4, StepKinds
         DEF Tells, Breaks, Reads, Drops, Inserts, Places, Cancels, Fails, Aside
    <2> QED BY <2>3, <2>4
  <1>2. CASE PopEvent
    BY <1>2, DownstreamOnly DEF Dispatch
  <1>3. CASE ToPortfolio \/ ToRiskManager \/ ToAlgoEngine
    <2>1. PICK cb_name : RunCallback(cb_name)
      BY <1>3 DEF ToPortfolio, ToRiskManager, ToAlgoEngine
    <2> QED BY <2>1, CallbackRuns DEF RunCallback, apiVars
  <1>4. CASE Books
    BY <1>4 DEF Books, apiVars
  <1> QED BY <1>1, <1>2, <1>3, <1>4 DEF Dispatch

(* The copies of an order move up in the queue by at most one place, and   *)
(* none is added but the latest snapshot, at the end.                      *)
LEMMA EventsMove ==
    ASSUME TypeInv, QueuedIsLatest, [Next]_vars, NEW id \in Orders
    PROVE  \E d \in {0, 1} : \A i \in EqOf(id)' :
              /\ i \in Int
              /\ \/ i + d \in EqOf(id) /\ eq'[i].data = eq[i + d].data
                 \/ /\ eq'[i].data = orders[id] /\ orders'[id] = orders[id]
                    /\ \A j \in EqOf(id)' : j <= i
  <1>1. CASE UNCHANGED eq
    <2>1. \A i \in EqOf(id)' : i \in Int /\ i + 0 = i /\ i \in EqOf(id) /\ eq'[i] = eq[i]
      BY <1>1 DEF EqOf
    <2> QED BY <2>1
  <1>2. ASSUME NEW th \in ApiThreads, on_order(th), UNCHANGED orders
        PROVE  \A i \in EqOf(id)' :
                  /\ i \in Int
                  /\ \/ i + 0 \in EqOf(id) /\ eq'[i].data = eq[i + 0].data
                     \/ /\ eq'[i].data = orders[id] /\ orders'[id] = orders[id]
                        /\ \A j \in EqOf(id)' : j <= i
    <2>1. eq \in Seq(OrderEvents) /\ held \in [ApiThreads -> OrderData \cup {NoOrder}]
      BY DEF TypeInv, TypeOK, ApiTypeOK
    <2>2. PICK data, n : data = held[th] /\ n = Len(eq)
      OBVIOUS
    <2>3. data \in OrderData /\ data = orders[data.order_id]
      BY <1>2, <2>1, <2>2 DEF on_order, QueuedIsLatest
    <2>4. OrderEvent(data) \in OrderEvents /\ OrderEvent(data).data = data
      BY <2>3 DEF OrderEvent, OrderEvents
    <2>5. /\ n \in Nat /\ Len(eq') = n + 1 /\ eq'[n + 1].data = data
          /\ \A i \in 1 .. n : eq'[i] = eq[i]
      BY <1>2, <2>1, <2>2, <2>4, Appended DEF on_order
    <2>6. ASSUME NEW i \in EqOf(id)', i # n + 1
          PROVE  i \in Int /\ i + 0 \in EqOf(id) /\ eq'[i].data = eq[i + 0].data
      <3>1. i \in 1 .. n /\ eq'[i].data.order_id = id
        BY <2>5, <2>6 DEF EqOf
      <3>2. i \in Int /\ i + 0 = i /\ eq'[i] = eq[i]
        BY <2>5, <3>1
      <3> QED BY <2>2, <3>1, <3>2 DEF EqOf
    <2>7. ASSUME NEW i \in EqOf(id)', i = n + 1
          PROVE  /\ i \in Int /\ eq'[i].data = orders[id]
                 /\ \A j \in EqOf(id)' : j <= i
      <3>1. data.order_id = id
        BY <2>5, <2>7 DEF EqOf
      <3>2. \A j \in EqOf(id)' : j <= n + 1
        BY <2>5 DEF EqOf
      <3> QED BY <2>3, <2>5, <2>7, <3>1, <3>2
    <2> QED BY <1>2, <2>6, <2>7
  <1>3. CASE PopEvent
    <2>1. \A i \in EqOf(id)' : i \in Int /\ i + 1 \in EqOf(id) /\ eq'[i] = eq[i + 1]
      BY <1>3, EventsShift
    <2> QED BY <2>1
  <1>4. 0 \in {0, 1}
    OBVIOUS
  <1> QED BY <1>1, <1>2, <1>3, <1>4, EventKinds

(* Upstream there is what was there, and the latest snapshot.              *)
LEMMA UpstreamStep ==
    ASSUME TypeInv, TypeInv', QueuedIsLatest, [Next]_vars, NEW id \in Orders
    PROVE  \A data \in Upstream(id)' : data \in Upstream(id) \/ data = orders'[id]
  <1> SUFFICES ASSUME NEW data \in Upstream(id)', data # orders'[id]
               PROVE  data \in Upstream(id)
    OBVIOUS
  <1>1. /\ \A i \in EqOf(id) : eq[i].data \in Upstream(id)
        /\ disp.data # NoOrder /\ disp.data.order_id = id => disp.data \in Upstream(id)
    BY UpstreamTypes
  <1>2. \/ data = disp'.data /\ data # NoOrder /\ data.order_id = id
        \/ \E i \in EqOf(id)' : data = eq'[i].data
    BY DEF Upstream
  <1>3. CASE \E i \in EqOf(id)' : data = eq'[i].data
    <2>1. PICK i \in EqOf(id)' : data = eq'[i].data
      BY <1>3
    <2>2. PICK d \in {0, 1} : \A k \in EqOf(id)' :
              /\ k \in Int
              /\ \/ k + d \in EqOf(id) /\ eq'[k].data = eq[k + d].data
                 \/ /\ eq'[k].data = orders[id] /\ orders'[id] = orders[id]
                    /\ \A j \in EqOf(id)' : j <= k
      BY EventsMove
    <2>3. i + d \in EqOf(id) /\ data = eq[i + d].data
      BY <2>1, <2>2
    <2> QED BY <1>1, <2>3
  <1>4. CASE data = disp'.data /\ data # NoOrder /\ data.order_id = id
    <2>1. CASE disp'.data \in {disp.data, NoOrder}
      BY <1>1, <1>4, <2>1
    <2>2. CASE PopEvent
      <3>1. disp'.data = Head(eq).data
        BY <2>2 DEF PopEvent
      <3>2. 1 \in EqOf(id) /\ eq[1].data = data
        BY <1>4, <2>2, <3>1, EventsShift
      <3> QED BY <1>1, <3>2
    <2> QED BY <2>1, <2>2, EventKinds
  <1> QED BY <1>2, <1>3, <1>4

(* A snapshot behind what is upstream stays behind it.                     *)
LEMMA StaysBehind ==
    ASSUME TypeInv, TypeInv', QueuedIsLatest, OrdersGoForward, [Next]_vars,
           NEW data \in OrderData, orders[data.order_id] # NoOrder, Behind(data)
    PROVE  Behind(data)'
  <1>1. PICK id \in Orders : id = data.order_id
    BY DEF OrderData
  <1>2. orders[id] \in Upstream(id) /\ \A x \in Upstream(id) : x \in OrderData
    BY <1>1, UpstreamTypes
  <1>3. orders'[id] # NoOrder /\ NoOlder(orders'[id], orders[id]) /\ orders'[id] \in OrderData
    BY <1>1 DEF OrdersGoForward, TypeInv, TypeOK, ApiTypeOK
  <1>4. NoOlder(orders'[id], data)
    BY <1>1, <1>2, <1>3, NoOlderIsAnOrder DEF Behind
  <1>5. \A newer \in Upstream(id)' : NoOlder(newer, data)
    BY <1>1, <1>4, UpstreamStep DEF Behind
  <1> QED BY <1>1, <1>5 DEF Behind, NoOlder, Over

(* Snapshots in order, by their places in a queue; and such that move up   *)
(* by at most one place, one being added at the end that is no older than  *)
(* all before.                                                             *)
InOrder(I, f) == \A i, j \in I : i <= j => NoOlder(f[j], f[i])

MovesUp(I, J, f, g) ==
    \E d \in {0, 1} : \A i \in J :
        /\ i \in Int /\ g[i] \in OrderData
        /\ \/ i + d \in I /\ g[i] = f[i + d]
           \/ (\A j \in J : j <= i) /\ \A k \in I : NoOlder(g[i], f[k])

(* They stay in order.                                                     *)
LEMMA StillInOrder ==
    ASSUME NEW I, NEW J, NEW f, NEW g, InOrder(I, f), MovesUp(I, J, f, g)
    PROVE  InOrder(J, g)
  <1> SUFFICES ASSUME NEW i \in J, NEW j \in J, i <= j
               PROVE  NoOlder(g[j], g[i])
    BY DEF InOrder
  <1> PICK d \in {0, 1} : \A k \in J :
          /\ k \in Int /\ g[k] \in OrderData
          /\ \/ k + d \in I /\ g[k] = f[k + d]
             \/ (\A l \in J : l <= k) /\ \A l \in I : NoOlder(g[k], f[l])
    BY DEF MovesUp
  <1>1. i \in Int /\ j \in Int /\ g[i] \in OrderData
    OBVIOUS
  <1>2. CASE i = j
    BY <1>1, <1>2, NoOlderIsAnOrder
  <1>3. CASE i # j
    <2>1. ~(j <= i)
      BY <1>1, <1>3
    <2>2. i + d \in I /\ g[i] = f[i + d]
      BY <2>1
    <2>3. CASE \A k \in I : NoOlder(g[j], f[k])
      BY <2>2, <2>3
    <2>4. CASE j + d \in I /\ g[j] = f[j + d]
      <3>1. i + d <= j + d
        BY <1>1
      <3> QED BY <2>2, <2>4, <3>1 DEF InOrder
    <2> QED BY <2>3, <2>4
  <1> QED BY <1>2, <1>3

(* The copies in the event engine's queue, and the event in its hand, stay *)
(* in order.                                                               *)
LEMMA EventsStep ==
    ASSUME TypeInv, TypeInv', CopiesAlike, QueuedIsLatest, OrdersGoForward, EventsForward,
           [Next]_vars
    PROVE  EventsForward'
  <1>1. /\ \A i \in 1 .. Len(eq) : eq[i] \in OrderEvents
        /\ \A i \in 1 .. Len(eq') : eq'[i] \in OrderEvents
    BY DEF TypeInv, TypeOK, ApiTypeOK
  <1>2. ASSUME NEW id \in Orders
        PROVE  /\ \A i, j \in EqOf(id)' : i <= j => NoOlder(eq'[j].data, eq'[i].data)
               /\ \A i \in EqOf(id)' : NoOlder(orders'[id], eq'[i].data)
    <2>1. PICK d \in {0, 1} : \A i \in EqOf(id)' :
              /\ i \in Int
              /\ \/ i + d \in EqOf(id) /\ eq'[i].data = eq[i + d].data
                 \/ /\ eq'[i].data = orders[id] /\ orders'[id] = orders[id]
                    /\ \A j \in EqOf(id)' : j <= i
      BY EventsMove
    <2>2. PICK I, J : I = EqOf(id) /\ J = EqOf(id)'
      OBVIOUS
    <2>3. PICK f, g : f = [i \in I |-> eq[i].data] /\ g = [i \in J |-> eq'[i].data]
      OBVIOUS
    <2>4. InOrder(I, f) /\ \A i \in I : NoOlder(orders[id], f[i])
      BY <2>2, <2>3 DEF EventsForward, InOrder
    <2>5. \A i \in J : g[i] \in OrderData
      BY <1>1, <2>2, <2>3 DEF EqOf, OrderEvents
    <2>6. \A i \in J : /\ i \in Int
                       /\ \/ i + d \in I /\ g[i] = f[i + d]
                          \/ /\ g[i] = orders[id] /\ orders'[id] = orders[id]
                             /\ \A j \in J : j <= i
      BY <2>1, <2>2, <2>3
    <2>7. InOrder(J, g)
      <3>1. MovesUp(I, J, f, g)
        BY <2>4, <2>5, <2>6 DEF MovesUp
      <3> QED BY <2>4, <3>1, StillInOrder
    <2>8. ASSUME NEW i \in J
          PROVE  NoOlder(orders'[id], g[i])
      <3>1. CASE g[i] = orders[id] /\ orders'[id] = orders[id]
        BY <2>5, <3>1, NoOlderIsAnOrder
      <3>2. CASE i + d \in I /\ g[i] = f[i + d]
        <4>1. Alike(eq[i + d].data) /\ eq[i + d].data.order_id = id
          BY <2>2, <3>2 DEF CopiesAlike, EqOf
        <4>2. orders[id] # NoOrder
          BY <4>1 DEF Alike
        <4>3. NoOlder(orders'[id], orders[id]) /\ orders'[id] # NoOrder
          BY <4>2 DEF OrdersGoForward
        <4>4. NoOlder(orders[id], g[i])
          BY <2>2, <2>4, <3>2
        <4>5. orders[id] \in OrderData /\ orders'[id] \in OrderData /\ g[i] \in OrderData
          BY <2>5, <4>2, <4>3 DEF TypeInv, TypeOK, ApiTypeOK
        <4> QED BY <4>3, <4>4, <4>5, NoOlderIsAnOrder
      <3> QED BY <2>6, <3>1, <3>2
    <2> QED BY <2>2, <2>3, <2>7, <2>8 DEF InOrder
  <1>3. ASSUME disp'.data # NoOrder
        PROVE  Behind(disp.data)'
    <2>1. PICK data : data = disp'.data
      OBVIOUS
    <2>2. data \in OrderData
      BY <1>3, <2>1 DEF TypeInv, TypeOK, Dispatching
    <2>3. PICK id \in Orders : id = data.order_id
      BY <2>2 DEF OrderData
    <2>4. CASE data = disp.data
      <3>1. Behind(data) /\ Alike(data)
        BY <1>3, <2>1, <2>4 DEF EventsForward, CopiesAlike
      <3>2. orders[data.order_id] # NoOrder
        BY <3>1 DEF Alike
      <3>3. Behind(data)'
        BY <2>2, <3>1, <3>2, StaysBehind
      <3> QED BY <2>1, <3>3 DEF Behind
    <2>5. CASE PopEvent /\ UNCHANGED orders
      <3>1. eq[1].data = data /\ disp'.data = data /\ 1 \in EqOf(id)
        BY <2>1, <2>3, <2>5, EventsShift DEF PopEvent
      <3>2. \A i \in EqOf(id)' : i + 1 \in EqOf(id) /\ eq'[i] = eq[i + 1] /\ 1 <= i + 1
        BY <2>5, EventsShift
      <3>3. \A i \in EqOf(id)' : NoOlder(eq'[i].data, data)
        BY <3>1, <3>2 DEF EventsForward
      <3>4. NoOlder(orders'[id], data) /\ NoOlder(data, data)
        BY <2>2, <2>5, <3>1, NoOlderIsAnOrder DEF EventsForward
      <3>5. \A newer \in Upstream(id)' : NoOlder(newer, data)
        BY <3>1, <3>3, <3>4 DEF Upstream
      <3> QED BY <2>1, <2>3, <3>5 DEF Behind
    <2>6. data = disp.data \/ (PopEvent /\ UNCHANGED orders)
      BY <1>3, <2>1, EventKinds
    <2> QED BY <2>4, <2>5, <2>6
  <1> QED BY <1>2, <1>3 DEF EventsForward

(* The event engine takes the copies in order, and the portfolio none.     *)
LEMMA QueuedBelow ==
    ASSUME TypeInv, QueuedIsLatest, Dispatch \/ Books
    PROVE  QueuedIsLatest'
  <1>1. UNCHANGED <<orders, held>> /\ \A id \in Orders : HeldOf(id)' = HeldOf(id)
    BY DownstreamOnly DEF HeldOf
  <1>2. CASE PopEvent
    <2>1. ASSUME NEW id \in Orders, HeldOf(id) = {}, NEW i \in EqOf(id)',
                 \A j \in EqOf(id)' : j <= i
          PROVE  eq'[i].data = orders[id]
      <3>1. i + 1 \in EqOf(id) /\ eq'[i] = eq[i + 1] /\ \A j \in EqOf(id) : j <= i + 1
        BY <1>2, <2>1, EventTaken
      <3> QED BY <2>1, <3>1 DEF QueuedIsLatest
    <2> QED BY <1>1, <2>1 DEF QueuedIsLatest
  <1>3. CASE ~PopEvent
    <2>1. UNCHANGED eq
      BY <1>3 DEF Dispatch, Books, ToPortfolio, ToRiskManager, ToAlgoEngine, RunCallback, apiVars
    <2>2. \A id \in Orders : EqOf(id)' = EqOf(id)
      BY <2>1 DEF EqOf
    <2> QED BY <1>1, <2>1, <2>2 DEF QueuedIsLatest
  <1> QED BY <1>2, <1>3

(* What happens to the portfolio's queue and record: nothing, a copy of    *)
(* the event in hand is added, or the first of the queue is put on record. *)
LEMMA BooksKinds ==
    ASSUME TypeInv, CopiesAlike, LastIsOnRecord, BooksAdd, [Next]_vars
    PROVE  \/ UNCHANGED <<pq, port_orders>>
           \/ /\ disp.data \in OrderData /\ pq' = Append(pq, disp.data)
              /\ UNCHANGED port_orders
           \/ /\ pq # << >> /\ pq' = Tail(pq)
              /\ port_orders' = [port_orders EXCEPT ![Head(pq).order_id] = Head(pq)]
  <1>1. CASE ~(Dispatch \/ Books)
    BY <1>1, StepKinds DEF portVars
  <1>2. CASE PopEvent \/ ToRiskManager \/ ToAlgoEngine
    BY <1>2 DEF PopEvent, ToRiskManager, ToAlgoEngine, portVars
  <1>3. CASE ToPortfolio
    <2>1. disp.data \in OrderData
      BY <1>3, CallbackRuns DEF ToPortfolio
    <2> QED BY <1>3, <2>1 DEF ToPortfolio, event_engine_order_data_cb
  <1>4. CASE HandleOrder
    BY <1>4 DEF HandleOrder, order_data_cb
  <1>5. CASE HandleAgain
    BY <1>5, RecordStep DEF HandleAgain
  <1> QED BY <1>1, <1>2, <1>3, <1>4, <1>5 DEF Dispatch, Books, PortStep

(* The same of one order.                                                  *)
LEMMA BooksMove ==
    ASSUME TypeInv, CopiesAlike, LastIsOnRecord, BooksAdd, [Next]_vars, NEW id \in Orders
    PROVE  \/ /\ port_orders'[id] = port_orders[id]
              /\ \E d \in {0, 1} : \A i \in PqOf(id)' :
                    /\ i \in Int
                    /\ \/ i + d \in PqOf(id) /\ pq'[i] = pq[i + d]
                       \/ /\ pq'[i] = disp.data /\ disp.data \in OrderData
                          /\ disp.data.order_id = id /\ \A j \in PqOf(id)' : j <= i
           \/ /\ 1 \in PqOf(id) /\ port_orders'[id] = pq[1]
              /\ \A i \in PqOf(id)' :
                    i \in Int /\ 1 <= i + 1 /\ i + 1 \in PqOf(id) /\ pq'[i] = pq[i + 1]
  <1>1. PortTypeOK /\ 0 \in {0, 1} /\ 1 \in {0, 1}
    BY DEF TypeInv, TypeOK
  <1>2. PICK n : n = Len(pq)
    OBVIOUS
  <1>3. CASE UNCHANGED <<pq, port_orders>>
    <2>1. \A i \in PqOf(id)' : i \in Int /\ i + 0 = i /\ i \in PqOf(id) /\ pq'[i] = pq[i]
      BY <1>3 DEF PqOf
    <2> QED BY <1>1, <1>3, <2>1
  <1>4. CASE disp.data \in OrderData /\ pq' = Append(pq, disp.data) /\ UNCHANGED port_orders
    <2>1. PICK data : data = disp.data
      OBVIOUS
    <2>2. /\ n \in Nat /\ Len(pq') = n + 1 /\ pq'[n + 1] = data
          /\ \A i \in 1 .. n : pq'[i] = pq[i]
      BY <1>1, <1>2, <1>4, <2>1, Appended DEF PortTypeOK
    <2>3. ASSUME NEW i \in PqOf(id)', i # n + 1
          PROVE  i \in Int /\ i + 0 \in PqOf(id) /\ pq'[i] = pq[i + 0]
      <3>1. i \in 1 .. n /\ pq'[i].order_id = id
        BY <2>2, <2>3 DEF PqOf
      <3>2. i \in Int /\ i + 0 = i /\ pq'[i] = pq[i]
        BY <2>2, <3>1
      <3> QED BY <1>2, <3>1, <3>2 DEF PqOf
    <2>4. ASSUME NEW i \in PqOf(id)', i = n + 1
          PROVE  i \in Int /\ pq'[i] = data /\ data.order_id = id /\ \A j \in PqOf(id)' : j <= i
      BY <2>2, <2>4 DEF PqOf
    <2> QED BY <1>1, <1>4, <2>1, <2>3, <2>4
  <1>5. CASE /\ pq # << >> /\ pq' = Tail(pq)
             /\ port_orders' = [port_orders EXCEPT ![Head(pq).order_id] = Head(pq)]
    <2>1. PICK data : data = Head(pq)
      OBVIOUS
    <2>2. /\ n \in Nat /\ n >= 1 /\ Len(pq') = n - 1 /\ data = pq[1] /\ data \in OrderData
          /\ \A i \in 1 .. n - 1 : pq'[i] = pq[i + 1]
      BY <1>1, <1>2, <1>5, <2>1, Taken DEF PortTypeOK
    <2>3. /\ \A i \in PqOf(id)' :
                i \in Int /\ 1 <= i + 1 /\ i + 1 \in PqOf(id) /\ pq'[i] = pq[i + 1]
          /\ 1 \in PqOf(id) <=> data.order_id = id
      BY <1>2, <2>2 DEF PqOf
    <2>4. port_orders'[id] = IF data.order_id = id THEN data ELSE port_orders[id]
      BY <1>1, <1>5, <2>1, <2>2 DEF PortTypeOK, OrderData
    <2> QED BY <1>1, <2>2, <2>3, <2>4
  <1> QED BY <1>3, <1>4, <1>5, BooksKinds

(* The portfolio's queue and record go forward.                            *)
LEMMA PortStepsForward ==
    ASSUME TypeInv, TypeInv', CopiesAlike, LastIsOnRecord, BooksAdd, QueuedIsLatest,
           OrdersGoForward, EventsForward, PortForward, [Next]_vars
    PROVE  PortForward'
  <1>1. PortTypeOK /\ PortTypeOK'
    BY DEF TypeInv, TypeOK
  <1>2. ASSUME NEW data \in OrderData, Behind(data), Alike(data)
        PROVE  Behind(data)'
    BY <1>2, StaysBehind DEF Alike
  <1>3. disp.data \in OrderData => Behind(disp.data) /\ Alike(disp.data)
    BY NoOrderIsNoData DEF EventsForward, CopiesAlike
  <1>4. ASSUME NEW id \in Orders
        PROVE  /\ \A i \in PqOf(id)' : Behind(pq[i])'
               /\ \A i, j \in PqOf(id)' : i <= j => NoOlder(pq'[j], pq'[i])
               /\ port_orders'[id] # NoOrder =>
                     /\ Behind(port_orders[id])'
                     /\ \A i \in PqOf(id)' : NoOlder(pq'[i], port_orders'[id])
    <2>1. \A i \in PqOf(id) : /\ pq[i] \in OrderData /\ pq[i].order_id = id
                              /\ Behind(pq[i]) /\ Alike(pq[i])
      BY <1>1 DEF PortTypeOK, PqOf, PortForward, CopiesAlike
    <2>2. /\ \A i \in PqOf(id)' : pq'[i] \in OrderData
          /\ port_orders[id] # NoOrder =>
                /\ port_orders[id] \in OrderData /\ port_orders[id].order_id = id
                /\ Behind(port_orders[id]) /\ Alike(port_orders[id])
      BY <1>1 DEF PortTypeOK, PqOf, PortForward, CopiesAlike
    <2>3. ASSUME NEW i \in PqOf(id)'
          PROVE  Behind(pq[i])'
      <3>1. PICK data : data = pq'[i]
        OBVIOUS
      <3>2. \/ \E k \in PqOf(id) : data = pq[k]
            \/ data = disp.data /\ disp.data \in OrderData
        BY <2>3, <3>1, BooksMove
      <3>3. data \in OrderData /\ Behind(data) /\ Alike(data)
        BY <1>3, <2>1, <3>2
      <3>4. Behind(data)'
        BY <1>2, <3>3
      <3> QED BY <3>1, <3>4 DEF Behind
    <2>4. ASSUME NEW old \in OrderData, old.order_id = id, Behind(old),
                 disp.data \in OrderData, disp.data.order_id = id
          PROVE  NoOlder(disp.data, old)
      BY <2>4, UpstreamTypes, NoOrderIsNoData DEF Behind
    <2>5. PICK I, J : I = PqOf(id) /\ J = PqOf(id)'
      OBVIOUS
    <2>6. PICK f, g : f = [i \in I |-> pq[i]] /\ g = [i \in J |-> pq'[i]]
      OBVIOUS
    <2>7. InOrder(I, f)
      BY <2>5, <2>6 DEF PortForward, InOrder
    <2>8. CASE /\ port_orders'[id] = port_orders[id]
               /\ \E d \in {0, 1} : \A i \in PqOf(id)' :
                     /\ i \in Int
                     /\ \/ i + d \in PqOf(id) /\ pq'[i] = pq[i + d]
                        \/ /\ pq'[i] = disp.data /\ disp.data \in OrderData
                           /\ disp.data.order_id = id /\ \A j \in PqOf(id)' : j <= i
      <3>1. PICK d \in {0, 1} : \A i \in J :
               /\ i \in Int
               /\ \/ i + d \in I /\ pq'[i] = pq[i + d]
                  \/ /\ pq'[i] = disp.data /\ disp.data \in OrderData
                     /\ disp.data.order_id = id /\ \A j \in J : j <= i
        BY <2>5, <2>8
      <3>2. ASSUME NEW i \in J
            PROVE  /\ i \in Int /\ g[i] \in OrderData
                   /\ \/ i + d \in I /\ g[i] = f[i + d]
                      \/ (\A j \in J : j <= i) /\ \A k \in I : NoOlder(g[i], f[k])
        <4>1. i \in Int /\ g[i] \in OrderData /\ g[i] = pq'[i]
          BY <2>2, <2>5, <2>6, <3>1
        <4>2. CASE i + d \in I /\ pq'[i] = pq[i + d]
          BY <2>6, <4>1, <4>2
        <4>3. CASE /\ pq'[i] = disp.data /\ disp.data \in OrderData
                   /\ disp.data.order_id = id /\ \A j \in J : j <= i
          <5>1. \A k \in I : NoOlder(disp.data, f[k])
            BY <2>1, <2>4, <2>5, <2>6, <4>3
          <5> QED BY <4>1, <4>3, <5>1
        <4> QED BY <3>1, <4>1, <4>2, <4>3
      <3>3. MovesUp(I, J, f, g)
        BY <3>2 DEF MovesUp
      <3>4. InOrder(J, g)
        BY <2>7, <3>3, StillInOrder
      <3>5. ASSUME port_orders[id] # NoOrder
            PROVE  Behind(port_orders[id])' /\ \A i \in J : NoOlder(pq'[i], port_orders[id])
        <4>1. PICK old : old = port_orders[id]
          OBVIOUS
        <4>2. old \in OrderData /\ old.order_id = id /\ Behind(old) /\ Alike(old)
          BY <2>2, <3>5, <4>1
        <4>3. Behind(old)'
          BY <1>2, <4>2
        <4>4. Behind(port_orders[id])'
          BY <2>8, <4>1, <4>3 DEF Behind
        <4>5. \A i \in I : NoOlder(pq[i], old)
          BY <2>5, <3>5, <4>1 DEF PortForward
        <4>6. \A i \in J : NoOlder(pq'[i], old)
          BY <2>4, <3>1, <4>2, <4>5
        <4> QED BY <4>1, <4>4, <4>6
      <3> QED BY <2>3, <2>5, <2>6, <2>8, <3>4, <3>5 DEF InOrder
    <2>9. CASE /\ 1 \in PqOf(id) /\ port_orders'[id] = pq[1]
               /\ \A i \in PqOf(id)' :
                     i \in Int /\ 1 <= i + 1 /\ i + 1 \in PqOf(id) /\ pq'[i] = pq[i + 1]
      <3>1. PICK data : data = pq[1]
        OBVIOUS
      <3>2. data \in OrderData /\ Behind(data) /\ Alike(data)
        BY <2>1, <2>9, <3>1
      <3>3. Behind(data)'
        BY <1>2, <3>2
      <3>4. Behind(port_orders[id])'
        BY <2>9, <3>1, <3>3 DEF Behind
      <3>5. \A i \in PqOf(id)' : NoOlder(pq'[i], pq[1])
        BY <2>9 DEF PortForward
      <3>6. \A i \in J : i \in Int /\ g[i] \in OrderData /\ i + 1 \in I /\ g[i] = f[i + 1]
        BY <2>2, <2>5, <2>6, <2>9
      <3>7. MovesUp(I, J, f, g)
        BY <3>6 DEF MovesUp
      <3>8. InOrder(J, g)
        BY <2>7, <3>7, StillInOrder
      <3> QED BY <2>3, <2>5, <2>6, <2>9, <3>4, <3>5, <3>8 DEF InOrder
    <2> QED BY <2>8, <2>9, BooksMove
  <1> QED BY <1>4 DEF PortForward

(* The answers of an order move up in the algo's queue by at most one      *)
(* place, and none is added but the event in hand, at the end.             *)
LEMMA AnswersMove ==
    ASSUME TypeInv, [Next]_vars, NEW id \in Orders
    PROVE  \E d \in {0, 1} : \A i \in AqOf(id)' :
              /\ i \in Int
              /\ \/ i + d \in AqOf(id) /\ aq'[i].data = aq[i + d].data
                 \/ /\ aq'[i].data = disp.data /\ disp.data \in OrderData
                    /\ disp.data.order_id = id /\ \A j \in AqOf(id)' : j <= i
  <1>1. AlgoTypeOK /\ 0 \in {0, 1}
    BY DEF TypeInv, TypeOK
  <1>2. CASE UNCHANGED aq \/ UpdateQueued \/ UpdateTaken \/ order_cb
    <2>1. \E d \in {0, 1} : \A i \in AqOf(id)' :
             i \in Int /\ i + d \in AqOf(id) /\ aq'[i] = aq[i + d]
      BY <1>1, <1>2, AnswersShift
    <2> QED BY <2>1
  <1>3. CASE ToAlgoEngine
    <2>1. PICK data, e, n : data = disp.data /\ e = OrderEvent(data) /\ n = Len(aq)
      OBVIOUS
    <2>2. RunCallback(AlgoCb) /\ aq' = Append(aq, e)
      BY <1>3, <2>1 DEF ToAlgoEngine, event_engine_order_cb, AlgoCb
    <2>3. data \in OrderData
      BY <2>1, <2>2, CallbackRuns
    <2>4. e \in OrderEvents /\ e.data = data
      BY <2>1, <2>3 DEF OrderEvent, OrderEvents
    <2>5. /\ n \in Nat /\ Len(aq') = n + 1 /\ aq'[n + 1] = e
          /\ \A i \in 1 .. n : aq'[i] = aq[i]
      BY <1>1, <2>1, <2>2, <2>4, Appended DEF AlgoTypeOK
    <2>6. ASSUME NEW i \in AqOf(id)', i # n + 1
          PROVE  i \in Int /\ i + 0 \in AqOf(id) /\ aq'[i].data = aq[i + 0].data
      <3>1. i \in 1 .. n /\ aq'[i].e_type = "order_data" /\ aq'[i].data.order_id = id
        BY <2>5, <2>6 DEF AqOf
      <3>2. i \in Int /\ i + 0 = i /\ aq'[i] = aq[i]
        BY <2>5, <3>1
      <3> QED BY <2>1, <3>1, <3>2 DEF AqOf
    <2>7. ASSUME NEW i \in AqOf(id)', i = n + 1
          PROVE  i \in Int /\ aq'[i].data = data /\ data.order_id = id /\ \A j \in AqOf(id)' : j <= i
      BY <2>4, <2>5, <2>7 DEF AqOf
    <2> QED BY <1>1, <2>1, <2>3, <2>6, <2>7
  <1>4. CASE (Dispatch \/ Books) /\ ~ToAlgoEngine
    <2>1. UNCHANGED aq
      BY <1>4 DEF Dispatch, Books, PopEvent, ToPortfolio, ToRiskManager, algoVars
    <2> QED BY <1>2, <2>1
  <1> QED BY <1>2, <1>3, <1>4, QueueKinds
      DEF Apart, InsertNewOrder, ForwardNewOrder, PlaceNewOrder, Track

(* What happens to the status the algo knows of an order.                  *)
LEMMA StatusKinds ==
    ASSUME TypeInv, [Next]_vars, NEW id \in Orders
    PROVE  \/ order_status'[id] = order_status[id]
           \/ Track /\ id = req.order_id /\ order_status'[id] = "pending_submit"
           \/ /\ 1 \in AqOf(id) /\ order_status[id] # "untracked"
              /\ order_status'[id] = aq[1].data.status
  <1>1. AlgoTypeOK
    BY DEF TypeInv, TypeOK
  <1>2. CASE Track
    BY <1>1, <1>2 DEF Track, AlgoTypeOK
  <1>3. CASE order_cb
    <2>1. PICK data : data = Head(aq).data
      OBVIOUS
    <2>2. /\ aq # << >> /\ aq' = Tail(aq) /\ Head(aq).e_type = "order_data"
          /\ \/ UNCHANGED order_status
             \/ /\ order_status[data.order_id] # "untracked"
                /\ order_status' = [order_status EXCEPT ![data.order_id] = data.status]
      BY <1>3, <2>1 DEF order_cb
    <2>3. aq[1] = Head(aq) /\ (1 \in AqOf(id) <=> data.order_id = id)
      BY <1>1, <2>1, <2>2, AnswerTaken
    <2> QED BY <1>1, <2>1, <2>2, <2>3 DEF AlgoTypeOK
  <1> QED BY <1>2, <1>3, InflightKinds

(* What is said of an order that is over is not taken back on the way.     *)
LEMMA DecidedStays ==
    ASSUME TypeInv, TypeInv', QueuedIsLatest, OrdersGoForward, [Next]_vars,
           NEW id \in Orders, orders[id] # NoOrder, NEW status, Decided(id, status)
    PROVE  Decided(id, status)'
  <1>1. CASE status \notin Over
    BY <1>1 DEF Decided, Over
  <1>2. CASE status \in Over
    <2>1. /\ \A data \in Upstream(id) : data.status = status
          /\ \A i \in AqOf(id) : aq[i].data.status = status
      BY <1>2 DEF Decided
    <2>2. orders[id].status = status
      BY <2>1, UpstreamTypes
    <2>3. orders'[id].status = status
      BY <1>2, <2>2 DEF OrdersGoForward, NoOlder
    <2>4. \A data \in Upstream(id)' : data.status = status
      BY <2>1, <2>3, UpstreamStep
    <2>5. disp.data \in OrderData /\ disp.data.order_id = id => disp.data.status = status
      BY <2>1, UpstreamTypes, NoOrderIsNoData
    <2>6. \A i \in AqOf(id)' : aq'[i].data.status = status
      BY <2>1, <2>5, AnswersMove
    <2> QED BY <2>4, <2>6 DEF Decided
  <1> QED BY <1>1, <1>2

(* The algo's queue, and the statuses it knows, go forward.                *)
LEMMA AlgoStepsForward ==
    ASSUME TypeInv, TypeInv', PlacedInv, CopiesAlike, AnswersAlike, KnownIsTracked,
           QueuedIsLatest, OrdersGoForward, EventsForward, AlgoForward, [Next]_vars
    PROVE  AlgoForward'
  <1>1. /\ \A i \in 1 .. Len(aq) : aq[i] \in OrderEvents \cup PosUpdates
        /\ \A i \in 1 .. Len(aq') : aq'[i] \in OrderEvents \cup PosUpdates
    BY DEF TypeInv, TypeOK, AlgoTypeOK
  <1>2. ASSUME NEW id \in Orders
        PROVE  /\ \A i \in AqOf(id) : aq[i].data \in OrderData /\ aq[i].data.order_id = id
               /\ \A i \in AqOf(id)' : aq'[i].data \in OrderData /\ aq'[i].data.order_id = id
    BY <1>1 DEF AqOf, OrderEvents, PosUpdates
  <1>3. disp.data \in OrderData => Behind(disp.data) /\ Alike(disp.data)
    BY NoOrderIsNoData DEF EventsForward, CopiesAlike
  <1>4. ASSUME NEW id \in Orders
        PROVE  /\ \A i \in AqOf(id)' : Behind(aq[i].data)'
               /\ \A i, j \in AqOf(id)' : i <= j => NoOlder(aq'[j].data, aq'[i].data)
               /\ Decided(id, order_status[id])'
    <2>1. \A i \in AqOf(id) : Behind(aq[i].data) /\ orders[id] # NoOrder
      BY DEF AlgoForward, AnswersAlike
    <2>2. PICK d \in {0, 1} : \A i \in AqOf(id)' :
              /\ i \in Int
              /\ \/ i + d \in AqOf(id) /\ aq'[i].data = aq[i + d].data
                 \/ /\ aq'[i].data = disp.data /\ disp.data \in OrderData
                    /\ disp.data.order_id = id /\ \A j \in AqOf(id)' : j <= i
      BY AnswersMove
    <2>3. ASSUME NEW i \in AqOf(id)'
          PROVE  Behind(aq[i].data)'
      <3>1. PICK data : data = aq'[i].data
        OBVIOUS
      <3>2. data \in OrderData /\ data.order_id = id
        BY <1>2, <2>3, <3>1
      <3>3. Behind(data) /\ orders[id] # NoOrder
        BY <1>3, <2>1, <2>2, <2>3, <3>1, <3>2 DEF Alike
      <3>4. Behind(data)'
        BY <3>2, <3>3, StaysBehind
      <3> QED BY <3>1, <3>4 DEF Behind
    <2>4. PICK I, J : I = AqOf(id) /\ J = AqOf(id)'
      OBVIOUS
    <2>5. PICK f, g : f = [i \in I |-> aq[i].data] /\ g = [i \in J |-> aq'[i].data]
      OBVIOUS
    <2>6. InOrder(I, f)
      BY <2>4, <2>5 DEF AlgoForward, InOrder
    <2>7. ASSUME NEW k \in I, disp.data \in OrderData, disp.data.order_id = id
          PROVE  NoOlder(disp.data, f[k])
      <3>1. Behind(aq[k].data) /\ aq[k].data.order_id = id /\ f[k] = aq[k].data
        BY <1>2, <2>1, <2>4, <2>5
      <3>2. disp.data \in Upstream(id)
        BY <2>7, UpstreamTypes, NoOrderIsNoData
      <3> QED BY <3>1, <3>2 DEF Behind
    <2>8. ASSUME NEW i \in J
          PROVE  /\ i \in Int /\ g[i] \in OrderData
                 /\ \/ i + d \in I /\ g[i] = f[i + d]
                    \/ (\A j \in J : j <= i) /\ \A k \in I : NoOlder(g[i], f[k])
      <3>1. i \in Int /\ g[i] \in OrderData /\ g[i] = aq'[i].data
        BY <1>2, <2>2, <2>4, <2>5
      <3>2. CASE i + d \in I /\ aq'[i].data = aq[i + d].data
        BY <2>5, <3>1, <3>2
      <3>3. CASE /\ aq'[i].data = disp.data /\ disp.data \in OrderData
                 /\ disp.data.order_id = id /\ \A j \in J : j <= i
        BY <2>7, <3>1, <3>3
      <3> QED BY <2>2, <2>4, <3>1, <3>2, <3>3
    <2>9. MovesUp(I, J, f, g)
      BY <2>8 DEF MovesUp
    <2>10. InOrder(J, g)
      BY <2>6, <2>9, StillInOrder
    <2>11. PICK status : status = order_status'[id]
      OBVIOUS
    <2>12. status \in Over => Decided(id, status) /\ orders[id] # NoOrder
      <3>1. ASSUME status \in Over PROVE status # "untracked" /\ status # "pending_submit"
        BY <3>1 DEF Over, Statuses, is_active_order
      <3>2. CASE order_status'[id] = order_status[id]
        <4>1. Decided(id, status)
          BY <2>11, <3>2 DEF AlgoForward
        <4>2. status \in Over => orders[id] # NoOrder
          BY <2>11, <3>1, <3>2 DEF KnownIsTracked
        <4> QED BY <4>1, <4>2
      <3>3. CASE /\ 1 \in AqOf(id) /\ order_status[id] # "untracked"
                 /\ order_status'[id] = aq[1].data.status
        <4>1. PICK data : data = aq[1].data
          OBVIOUS
        <4>2. Behind(data) /\ orders[id] # NoOrder /\ data.order_id = id /\ data.status = status
          BY <1>2, <2>1, <2>11, <3>3, <4>1
        <4>3. status \in Over => \A newer \in Upstream(id) : newer.status = status
          BY <4>2 DEF Behind, NoOlder
        <4>4. \A i \in AqOf(id) : 1 <= i
          BY DEF AqOf
        <4>5. status \in Over => \A i \in AqOf(id) : aq[i].data.status = status
          BY <3>3, <4>1, <4>2, <4>4 DEF AlgoForward, NoOlder
        <4> QED BY <4>2, <4>3, <4>5 DEF Decided
      <3> QED BY <2>11, <3>1, <3>2, <3>3, StatusKinds
    <2>13. Decided(id, status)'
      <3>1. CASE status \in Over
        BY <2>12, <3>1, DecidedStays
      <3>2. CASE status \notin Over
        BY <3>2 DEF Decided, Over
      <3> QED BY <3>1, <3>2
    <2>14. Decided(id, order_status[id])'
      BY <2>11, <2>13 DEF Decided
    <2> QED BY <2>3, <2>4, <2>5, <2>10, <2>14 DEF InOrder
  <1> QED BY <1>4 DEF AlgoForward

(* Nothing is overtaken while the connection holds, whichever callbacks    *)
(* are registered.                                                         *)
ForwardInv == EventsForward /\ PortForward /\ AlgoForward

OvertakingInv ==
    /\ TypeInv /\ PlacedInv /\ NewsInv
    /\ CopiesAlike /\ LastIsOnRecord /\ BooksAdd
    /\ KnownIsTracked /\ AnswersAlike
    /\ connected => QueuedIsLatest /\ ForwardInv

(* Every step keeps the copies in order.                                   *)
LEMMA OvertakingStep == OvertakingInv /\ [Next]_vars => OvertakingInv'
  <1> SUFFICES ASSUME OvertakingInv, [Next]_vars PROVE OvertakingInv'
    OBVIOUS
  <1> USE DEF OvertakingInv
  <1>1. TypeInv' /\ PlacedInv' /\ NewsInv' /\ OrdersGoForward
    BY TypeInvStep, PlacedStep, NewsStep
  <1>2. CopiesAlike' /\ LastIsOnRecord' /\ BooksAdd'
    BY CopiesStep, RecordStep
  <1>3. KnownIsTracked' /\ AnswersAlike'
    BY TrackedStep, AlikeStep
  <1>4. ASSUME connected' PROVE QueuedIsLatest' /\ ForwardInv'
    <2>1. QueuedIsLatest' /\ connected
      <3>1. CASE Dispatch \/ Books
        BY <1>4, <3>1, DownstreamOnly, QueuedBelow
      <3>2. CASE ~(Dispatch \/ Books)
        BY <1>4, <3>2, QueuedStep
      <3> QED BY <3>1, <3>2
    <2>2. QueuedIsLatest /\ EventsForward /\ PortForward /\ AlgoForward
      BY <2>1 DEF ForwardInv
    <2>3. EventsForward'
      BY <1>1, <2>2, EventsStep
    <2>4. PortForward'
      BY <1>1, <2>2, PortStepsForward
    <2>5. AlgoForward'
      BY <1>1, <2>2, AlgoStepsForward
    <2> QED BY <2>1, <2>3, <2>4, <2>5 DEF ForwardInv
  <1> QED BY <1>1, <1>2, <1>3, <1>4

(* At the start nothing is on its way.                                     *)
LEMMA OvertakingInit == Init => OvertakingInv
  <1> SUFFICES ASSUME Init PROVE OvertakingInv
    OBVIOUS
  <1>1. TypeInv /\ PlacedInv /\ NewsInv
    BY TypeInvInit, PlacedInit, NewsInit
  <1>2. CopiesAlike /\ LastIsOnRecord /\ BooksAdd
    BY BooksInit DEF BooksInv
  <1>3. KnownIsTracked /\ QueuedIsLatest
    BY AnswersInit DEF AnswersInv, Init, TwsInit
  <1>4. /\ Len(eq) = 0 /\ Len(pq) = 0 /\ Len(aq) = 0 /\ disp.data = NoOrder
        /\ \A id \in Orders : /\ port_orders[id] = NoOrder
                              /\ order_status[id] = "untracked"
    BY EmptySeq DEF Init, ApiInit, PortInit, AlgoInit
  <1>5. \A id : EqOf(id) = {} /\ PqOf(id) = {} /\ AqOf(id) = {}
    BY <1>4 DEF EqOf, PqOf, AqOf
  <1>6. "untracked" \notin Over
    BY DEF Over, Statuses
  <1>7. ForwardInv /\ AnswersAlike
    BY <1>4, <1>5, <1>6 DEF ForwardInv, EventsForward, PortForward, AlgoForward, Decided,
                            AnswersAlike
  <1> QED BY <1>1, <1>2, <1>3, <1>7 DEF OvertakingInv

(* Nothing is overtaken, in any state.                                     *)
LEMMA OvertakingInvariant == Spec => []OvertakingInv
  BY OvertakingInit, OvertakingStep, PTL DEF Spec

(* The snapshot IBApi keeps of an order goes forward, whether or not the   *)
(* connection holds, and whatever TWS repeats or tells late: fills,        *)
(* commissions and errors are not taken back, and the status of an order   *)
(* that is over stays (IBApi::orderStatus, openOrder, error).              *)
THEOREM SnapshotsGoForward == Spec => [][OrdersGoForward]_vars
  <1>1. OvertakingInv /\ [Next]_vars => [OrdersGoForward]_vars
    BY NewsStep DEF OvertakingInv
  <1> QED BY <1>1, OvertakingInvariant, PTL DEF Spec

(* The portfolio's books never go back: while the connection holds, a      *)
(* snapshot put on record is no older than the one it replaces, although   *)
(* two threads of IBApi hand copies over outside orders_m and a wait that  *)
(* expired has the last event handled again (Portfolio::order_data_cb).    *)
(* For any number of orders and messages and any registered callbacks.     *)
THEOREM BooksNeverGoBack == Spec => BooksGoForward
  <1>1. ASSUME OvertakingInv, [Next]_vars, NEW id \in Orders, connected,
               port_orders[id] # NoOrder
        PROVE  NoOlder(port_orders'[id], port_orders[id])
    <2>1. PortForward
      BY <1>1 DEF OvertakingInv, ForwardInv
    <2>2. port_orders[id] \in OrderData
      BY <1>1 DEF OvertakingInv, TypeInv, TypeOK, PortTypeOK
    <2>3. CASE port_orders'[id] = port_orders[id]
      BY <2>2, <2>3, NoOlderIsAnOrder
    <2>4. CASE 1 \in PqOf(id) /\ port_orders'[id] = pq[1]
      BY <1>1, <2>1, <2>4 DEF PortForward
    <2> QED BY <1>1, <2>3, <2>4, BooksMove DEF OvertakingInv
  <1>2. OvertakingInv /\ [Next]_vars =>
           [\A id \in Orders : connected /\ port_orders[id] # NoOrder =>
               NoOlder(port_orders'[id], port_orders[id])]_vars
    BY <1>1
  <1> QED BY <1>2, OvertakingInvariant, PTL DEF Spec, BooksGoForward

(* What the algo takes for ended stays ended, and in the same way: while   *)
(* the connection holds, no answer reaches AlgoEngine::order_cb after one  *)
(* that is newer, on its way through IBApi's threads, the event engine and *)
(* the queue it shares with the strategy's updates.                        *)
THEOREM AnswersNeverGoBack == Spec => AnswersGoForward
  <1>1. ASSUME OvertakingInv, [Next]_vars, NEW id \in Orders, connected,
               order_status[id] \in Over
        PROVE  order_status'[id] = order_status[id]
    <2>1. TypeInv /\ KnownIsTracked /\ AlgoForward
      BY <1>1 DEF OvertakingInv, ForwardInv
    <2>2. \A i \in AqOf(id) : aq[i].data.status = order_status[id]
      BY <1>1, <2>1 DEF AlgoForward, Decided
    <2>3. order_status[id] # "untracked"
      BY <1>1 DEF Over, Statuses
    <2>4. ~(Track /\ id = req.order_id)
      BY <2>1, <2>3 DEF Track, KnownIsTracked, Untold
    <2> QED BY <1>1, <2>1, <2>2, <2>4, StatusKinds
  <1>2. OvertakingInv /\ [Next]_vars =>
           [\A id \in Orders : connected /\ order_status[id] \in Over =>
               order_status'[id] = order_status[id]]_vars
    BY <1>1
  <1> QED BY <1>2, OvertakingInvariant, PTL DEF Spec, AnswersGoForward

-----------------------------------------------------------------------------
(* The record of mistakes takes nothing from the order flow and adds       *)
(* nothing to it.                                                          *)
LEMMA RecordedIsOrderFlow == RecordedSpec => Spec
  <1>1. [RecordedNext]_recordedVars => [Next]_vars
    BY DEF RecordedNext, recordedVars
  <1> QED BY <1>1, PTL DEF RecordedSpec, Spec

(* A mistake that is not on record was not made, now or before.            *)
LEMMA RecordedStep ==
    ASSUME [RecordedNext]_recordedVars
    PROVE  /\ mistaken' = {} =>
                  mistaken = {} /\ [Next /\ ~MistakesOrder /\ ~MistakesEnd]_vars
           /\ "order" \notin mistaken' =>
                  "order" \notin mistaken /\ [Next /\ ~MistakesOrder]_vars
  <1>1. CASE UNCHANGED recordedVars
    BY <1>1 DEF recordedVars
  <1>2. CASE RecordedNext
    <2>1. Next /\ mistaken' = mistaken \cup Mistakes
      BY <1>2 DEF RecordedNext
    <2>2. /\ MistakesOrder => "order" \in Mistakes
          /\ MistakesEnd => "end" \in Mistakes
      BY DEF Mistakes
    <2> QED BY <2>1, <2>2
  <1> QED BY <1>1, <1>2

-----------------------------------------------------------------------------
(* One order in the market.  The snapshots on their way from IBApi to the  *)
(* algo: in the hands of IBApi's threads, in the event engine's queue and  *)
(* hand, and in the algo's queue.                                          *)
Answers == {i \in 1 .. Len(aq) : aq[i].e_type = "order_data"}

Copies ==
    {data \in {held[th] : th \in ApiThreads} \cup {eq[i].data : i \in 1 .. Len(eq)}
                  \cup {disp.data} \cup {aq[i].data : i \in Answers} :
        data # NoOrder}

(* A copy is one that was there before, or the latest snapshot.            *)
LEMMA CopiesMove ==
    ASSUME TypeInv, TypeInv', PlacedInv, [Next]_vars, NEW data \in Copies'
    PROVE  data \in OrderData /\ (data \in Copies \/ data = orders'[data.order_id])
  <1>1. data # NoOrder /\ \A i \in 1 .. Len(eq) : eq[i].data = data => data \in Copies
    BY DEF Copies
  <1>2. CASE data \in {held'[th] : th \in ApiThreads}
    <2>1. PICK th \in ApiThreads : data = held'[th]
      BY <1>2
    <2>2. data \in OrderData
      BY <1>1, <2>1 DEF TypeInv, TypeOK, ApiTypeOK
    <2>3. data = held[th] => data \in Copies
      BY <1>1 DEF Copies
    <2> QED BY <1>1, <2>1, <2>2, <2>3, KnownStays
  <1>3. CASE data \in {eq'[i].data : i \in 1 .. Len(eq')}
    <2>1. PICK i \in 1 .. Len(eq') : data = eq'[i].data
      BY <1>3
    <2>2. eq \in Seq(OrderEvents) /\ eq'[i] \in OrderEvents
      BY DEF TypeInv, TypeOK, ApiTypeOK
    <2>3. data \in OrderData
      BY <2>1, <2>2 DEF OrderEvents
    <2>4. CASE UNCHANGED eq
      BY <1>1, <2>1, <2>3, <2>4
    <2>5. ASSUME NEW th \in ApiThreads, on_order(th)
          PROVE  data \in Copies
      <3>1. PICK e, n : e = OrderEvent(held[th]) /\ n = Len(eq)
        OBVIOUS
      <3>2. e \in OrderEvents /\ e.data = held[th]
        BY <2>5, <3>1 DEF on_order, OrderEvent, OrderEvents, TypeInv, TypeOK, ApiTypeOK
      <3>3. /\ n \in Nat /\ Len(eq') = n + 1 /\ eq'[n + 1] = e
            /\ \A k \in 1 .. n : eq'[k] = eq[k]
        BY <2>2, <2>5, <3>1, <3>2, Appended DEF on_order
      <3>4. i = n + 1 \/ i \in 1 .. n
        BY <3>3
      <3> QED BY <1>1, <2>1, <3>1, <3>2, <3>3, <3>4 DEF Copies
    <2>6. CASE PopEvent
      <3>1. PICK n : n = Len(eq)
        OBVIOUS
      <3>2. /\ n \in Nat /\ Len(eq') = n - 1
            /\ \A k \in 1 .. n - 1 : eq'[k] = eq[k + 1]
        BY <2>2, <2>6, <3>1, Taken DEF PopEvent
      <3>3. i + 1 \in 1 .. Len(eq) /\ data = eq[i + 1].data
        BY <2>1, <3>1, <3>2
      <3> QED BY <1>1, <2>3, <3>3
    <2> QED BY <2>3, <2>4, <2>5, <2>6, EventKinds
  <1>4. CASE data = disp'.data
    <2>1. data \in OrderData
      BY <1>1, <1>4 DEF TypeInv, TypeOK, Dispatching
    <2>2. CASE disp'.data \in {disp.data, NoOrder}
      BY <1>1, <1>4, <2>1, <2>2 DEF Copies
    <2>3. CASE PopEvent
      <3>1. PICK n : n = Len(eq)
        OBVIOUS
      <3>2. n \in Nat /\ n >= 1 /\ Head(eq) = eq[1] /\ data = Head(eq).data
        BY <1>4, <2>3, <3>1, Taken DEF PopEvent, TypeInv, TypeOK, ApiTypeOK
      <3>3. 1 \in 1 .. Len(eq) /\ data = eq[1].data
        BY <3>1, <3>2
      <3> QED BY <1>1, <2>1, <3>3 DEF Copies
    <2> QED BY <2>2, <2>3, EventKinds
  <1>5. CASE data \in {aq'[i].data : i \in Answers'}
    <2>1. PICK i \in Answers' : data = aq'[i].data
      BY <1>5
    <2>2. aq'[i] \in OrderEvents \cup PosUpdates /\ i \in 1 .. Len(aq') /\ aq'[i].e_type = "order_data"
      BY <2>1 DEF Answers, TypeInv, TypeOK, AlgoTypeOK
    <2>3. data \in OrderData
      BY <2>1, <2>2 DEF OrderEvents, PosUpdates
    <2>4. PICK id \in Orders : id = data.order_id
      BY <2>3 DEF OrderData
    <2>5. i \in AqOf(id)'
      BY <2>1, <2>2, <2>4 DEF AqOf
    <2>6. PICK d \in {0, 1} : \A k \in AqOf(id)' :
              /\ k \in Int
              /\ \/ k + d \in AqOf(id) /\ aq'[k].data = aq[k + d].data
                 \/ aq'[k].data = disp.data
      BY AnswersMove
    <2>7. CASE i + d \in AqOf(id) /\ aq'[i].data = aq[i + d].data
      <3>1. i + d \in Answers
        BY <2>7 DEF AqOf, Answers
      <3> QED BY <1>1, <2>1, <2>3, <2>7, <3>1 DEF Copies
    <2>8. CASE aq'[i].data = disp.data
      BY <1>1, <2>1, <2>3, <2>8 DEF Copies
    <2> QED BY <2>5, <2>6, <2>7, <2>8
  <1> QED BY <1>2, <1>3, <1>4, <1>5 DEF Copies

(* A copy that says its order is over says so of an order that is: on      *)
(* IBApi's record.                                                         *)
EndsAreKnown ==
    \A data \in Copies : data.status \in Over =>
        orders[data.order_id] # NoOrder /\ orders[data.order_id].status \in Over

(* Only a placed order comes into the market.                              *)
LEMMA WorkingKinds ==
    ASSUME TypeInv, [Next]_vars, NEW id \in Working'
    PROVE  id \in Working \/ (pcA = "place" /\ pcA' = "track" /\ UNCHANGED req /\ id = req.order_id)
  <1>1. id \in Orders /\ book'[id].state = "working" /\ book \in [Orders -> BookEntries]
    BY DEF Working, TypeInv, TypeOK, TwsTypeOK
  <1>2. CASE UNCHANGED book
    BY <1>1, <1>2 DEF Working
  <1>3. CASE Peer
    <2>1. CASE \E x \in Working : Acknowledge(x) \/ Fill(x) \/ Cancel(x) \/ Reject(x)
      <3>1. PICK x \in Working : Acknowledge(x) \/ Fill(x) \/ Cancel(x) \/ Reject(x)
        BY <2>1
      <3>2. id # x => book'[id] = book[id]
        BY <1>1, <3>1 DEF Acknowledge, Fill, Cancel, Reject, Report
      <3> QED BY <1>1, <3>1, <3>2 DEF Working
    <2> QED BY <1>2, <1>3, <2>1 DEF Peer, TwsStep, Note, Disconnect
  <1>4. CASE Algo
    <2>1. ASSUME NEW x \in Orders, Cancels(x) PROVE book'[id].state = book[id].state
      BY <1>1, <2>1 DEF Cancels, RequestCancel, BookEntries
    <2>2. CASE Places
      <3>1. id # req.order_id => book'[id] = book[id]
        BY <1>1, <2>2 DEF Places, Accept
      <3> QED BY <1>1, <2>2, <3>1 DEF Places, Working
    <2>3. CASE \E x \in Orders : Cancels(x)
      BY <1>1, <2>1, <2>3 DEF Working
    <2>4. Hands("sender") \/ Inserts \/ Aside \/ (\E x \in Orders : Fails(x)) => UNCHANGED book
      BY DEF Hands, Inserts, Aside, Fails
    <2> QED BY <1>2, <1>4, <2>2, <2>3, <2>4, AlgoKinds
  <1>5. Callback \/ Strategy \/ UNCHANGED vars => UNCHANGED book
    BY DEF Callback, ProcessMessage, ForwardMessage, Strategy, mq_message_cb, vars, twsVars
  <1>6. Dispatch \/ Books => UNCHANGED book
    BY DownstreamOnly
  <1> QED BY <1>2, <1>3, <1>4, <1>5, <1>6 DEF Next

(* The algo has one order at a time: while it sends one it has none in     *)
(* flight; the one in flight is the one sent last; and TWS works on no     *)
(* other.                                                                  *)
OneAtATime == pcA \in Sending => inflight_order_id = -1

InflightIsLast == inflight_order_id # -1 => inflight_order_id + 1 = m_order_id

WorkingIsInflight ==
    \A id \in Working : id = inflight_order_id \/ (pcA = "track" /\ req.order_id = id)

SingleInv == EndsAreKnown /\ OneAtATime /\ InflightIsLast /\ WorkingIsInflight

(* What order_cb takes for the end of its order is the end of it, but for  *)
(* a warning; and TWS does not work on it any more.                        *)
LEMMA EndedIsOver ==
    ASSUME TypeInv, NewsInv, EndsAreKnown, NEW data \in Copies, data \in OrderData,
           data.status \in Over
    PROVE  data.order_id \notin Working
  <1>1. PICK id \in Orders : id = data.order_id
    BY DEF OrderData
  <1>2. orders[id] # NoOrder /\ orders[id].status \in Over
    BY <1>1 DEF EndsAreKnown
  <1>3. book[id].state # "absent" => book[id].state = "done"
    BY <1>2 DEF NewsInv, KnownIsOnRecord, BookIsSane, Unplaced
  <1> QED BY <1>1, <1>3 DEF Working

(* An answer that order_cb takes for no other order's, and for an end only *)
(* if it is one, leaves nothing in the market behind.                      *)
LEMMA AnswerKeepsSingle ==
    ASSUME TypeInv, NewsInv, SingleInv, order_cb, ~MistakesOrder, ~MistakesEnd
    PROVE  OneAtATime' /\ InflightIsLast' /\ WorkingIsInflight'
  <1>1. AlgoTypeOK /\ ApiTypeOK
    BY DEF TypeInv, TypeOK
  <1>2. PICK data, id : data = Head(aq).data /\ id = data.order_id
    OBVIOUS
  <1>3. /\ pcA = "idle" /\ pcA' = "idle" /\ aq # << >> /\ Head(aq).e_type = "order_data"
        /\ UNCHANGED <<book, m_order_id>>
    BY DEF order_cb, twsVars, apiVars
  <1>4. UNCHANGED Working
    BY <1>3 DEF Working
  <1>5. CASE UNCHANGED inflight_order_id
    BY <1>3, <1>4, <1>5 DEF SingleInv, OneAtATime, InflightIsLast, WorkingIsInflight, Sending
  <1>6. CASE ~UNCHANGED inflight_order_id
    <2>1. order_status[id] # "untracked"
      BY <1>2, <1>6 DEF order_cb
    <2>2. ~active_order(data) /\ inflight_order_id' = -1
      BY <1>2, <1>6, <2>1 DEF order_cb, Settle
    <2>3. id + 1 = m_order_id
      BY <1>2, <2>1 DEF MistakesOrder, TakesAnswer
    <2>4. 1 \in Answers /\ aq[1].data = data /\ data \in OrderData
      <3>1. PICK n : n = Len(aq)
        OBVIOUS
      <3>2. n \in Nat /\ n >= 1 /\ Head(aq) = aq[1] /\ Head(aq) \in OrderEvents \cup PosUpdates
        BY <1>1, <1>3, <3>1, Taken DEF AlgoTypeOK
      <3> QED BY <1>2, <1>3, <3>1, <3>2 DEF Answers, OrderEvents, PosUpdates
    <2>5. data \in Copies /\ id \in Orders
      BY <1>2, <2>4, NoOrderIsNoData DEF Copies, OrderData
    <2>6. id \notin Working
      <3>1. CASE data.status \in Over
        BY <1>2, <2>4, <2>5, <3>1, EndedIsOver DEF SingleInv
      <3>2. CASE data.status \notin Over
        <4>1. is_active_order(data.status) /\ data.error_code
          BY <2>2, <2>4, <3>2 DEF Over, active_order, OrderData
        <4>2. book[id].state # "working"
          BY <1>2, <2>1, <4>1 DEF MistakesEnd, TakesAnswer
        <4> QED BY <4>2 DEF Working
      <3> QED BY <3>1, <3>2
    <2>7. ASSUME NEW x \in Working PROVE x = id
      <3>1. x = inflight_order_id /\ x # -1 /\ x \in Int /\ id \in Int
        BY <1>3, <2>5 DEF SingleInv, WorkingIsInflight, Working, Orders
      <3>2. x + 1 = m_order_id
        BY <3>1 DEF SingleInv, InflightIsLast
      <3> QED BY <2>3, <3>1, <3>2
    <2>8. Working' = {}
      BY <1>4, <2>6, <2>7
    <2> QED BY <1>3, <2>2, <2>8 DEF OneAtATime, InflightIsLast, WorkingIsInflight, Sending
  <1> QED BY <1>5, <1>6

(* Every step but such mistakes keeps one order at a time.                 *)
LEMMA SingleStep ==
    ASSUME TypeInv, TypeInv', PlacedInv, NewsInv, SentIsLast, SingleInv,
           [Next /\ ~MistakesOrder /\ ~MistakesEnd]_vars
    PROVE  SingleInv'
  <1>1. [Next]_vars /\ AlgoTypeOK /\ ApiTypeOK
    BY DEF TypeInv, TypeOK
  <1>2. EndsAreKnown'
    <2>1. OrdersGoForward
      BY <1>1, NewsStep
    <2>2. ASSUME NEW data \in Copies', data.status \in Over
          PROVE  orders'[data.order_id] # NoOrder /\ orders'[data.order_id].status \in Over
      <3>1. data \in OrderData /\ (data \in Copies \/ data = orders'[data.order_id])
        BY <1>1, CopiesMove
      <3>2. PICK id \in Orders : id = data.order_id
        BY <3>1 DEF OrderData
      <3>3. CASE data = orders'[id]
        BY <2>2, <3>1, <3>2, <3>3, NoOrderIsNoData
      <3>4. CASE data \in Copies
        <4>1. orders[id] # NoOrder /\ orders[id].status \in Over
          BY <2>2, <3>2, <3>4 DEF SingleInv, EndsAreKnown
        <4> QED BY <2>1, <3>2, <4>1 DEF OrdersGoForward, NoOlder
      <3> QED BY <3>1, <3>2, <3>3, <3>4
    <2> QED BY <2>2 DEF EndsAreKnown
  <1>3. OneAtATime /\ InflightIsLast /\ WorkingIsInflight
    BY DEF SingleInv
  <1>4. CASE order_cb
    <2>1. ~MistakesOrder /\ ~MistakesEnd
      BY <1>4, AnswerStepAlone
    <2> QED BY <1>2, <1>4, <2>1, AnswerKeepsSingle DEF SingleInv
  <1>5. CASE Track
    <2>1. /\ pcA = "track" /\ pcA' = "idle" /\ inflight_order_id' = req.order_id
          /\ UNCHANGED <<book, m_order_id>>
      BY <1>5 DEF Track, twsVars, apiVars
    <2>2. inflight_order_id = -1 /\ UNCHANGED Working
      BY <1>3, <2>1 DEF OneAtATime, Sending, Working
    <2>3. \A id \in Working : id = req.order_id
      BY <1>3, <2>2 DEF WorkingIsInflight, Working, Orders
    <2> QED BY <1>2, <2>1, <2>2, <2>3
        DEF SingleInv, OneAtATime, InflightIsLast, WorkingIsInflight, SentIsLast, Sending, Untold
  <1>6. CASE ~order_cb /\ ~Track
    <2>1. /\ UNCHANGED inflight_order_id
          /\ pcA' \in Sending => pcA \in Sending \/ inflight_order_id = -1
          /\ \/ UNCHANGED <<pcA, req, m_order_id>>
             \/ pcA \notin Untold /\ pcA' \notin Untold /\ UNCHANGED m_order_id
             \/ InsertNewOrder
             \/ /\ pcA \in Untold \ {"track"} /\ pcA' \in Untold
                /\ UNCHANGED <<req, m_order_id>>
      BY <1>1, <1>6, InflightKinds
    <2>2. OneAtATime'
      BY <1>3, <2>1 DEF OneAtATime
    <2>3. InflightIsLast'
      <3>1. InsertNewOrder => inflight_order_id = -1
        BY <1>3 DEF InsertNewOrder, OneAtATime, Sending
      <3> QED BY <1>3, <2>1, <3>1 DEF InflightIsLast
    <2>4. ASSUME NEW id \in Working'
          PROVE  id = inflight_order_id' \/ (pcA' = "track" /\ req'.order_id = id)
      <3>1. pcA = "track" => UNCHANGED <<pcA, req>>
        BY <2>1 DEF InsertNewOrder, Untold
      <3> QED BY <1>1, <1>3, <2>1, <3>1, WorkingKinds DEF WorkingIsInflight
    <2> QED BY <1>2, <2>2, <2>3, <2>4 DEF SingleInv, WorkingIsInflight
  <1> QED BY <1>4, <1>5, <1>6

(* At the start there is no order.                                         *)
LEMMA SingleInit == Init => SingleInv
  <1> SUFFICES ASSUME Init PROVE SingleInv
    OBVIOUS
  <1>1. /\ Len(eq) = 0 /\ Len(aq) = 0 /\ disp.data = NoOrder
        /\ \A th \in ApiThreads : held[th] = NoOrder
        /\ pcA = "idle" /\ inflight_order_id = -1
        /\ \A id \in Orders : book[id] = Absent
    BY EmptySeq DEF Init, TwsInit, ApiInit, AlgoInit
  <1>2. Copies = {}
    BY <1>1 DEF Copies, Answers
  <1>3. Working = {}
    BY <1>1 DEF Working, Absent
  <1> QED BY <1>1, <1>2, <1>3
      DEF SingleInv, EndsAreKnown, OneAtATime, InflightIsLast, WorkingIsInflight, Sending

(* "no inflight order at this point" (update_pos_cb): when the algo engine *)
(* goes on to send an order, TWS works on none.  Whatever TWS repeats,     *)
(* warns of or tells late, with a socket that holds or breaks, for any     *)
(* number of orders and updates and any callbacks: there are only two ways *)
(* to a second order in the market, that order_cb takes the answer about   *)
(* an earlier order for one about the order sent last, or an error about   *)
(* an order TWS works on for its end.                                      *)
THEOREM OneOrderInTheMarket == RecordedSpec => []NoSecondOrder
  <1> DEFINE Inv == mistaken = {} => SingleInv
  <1>1. RecordedSpec => Spec
    BY RecordedIsOrderFlow
  <1>2. TypeInv /\ TypeInv' /\ PlacedInv /\ NewsInv /\ SentIsLast /\ Inv
           /\ [RecordedNext]_recordedVars => Inv'
    <2> SUFFICES ASSUME TypeInv, TypeInv', PlacedInv, NewsInv, SentIsLast, Inv,
                        [RecordedNext]_recordedVars, mistaken' = {}
                 PROVE  SingleInv'
      OBVIOUS
    <2>1. mistaken = {} /\ [Next /\ ~MistakesOrder /\ ~MistakesEnd]_vars
      BY RecordedStep
    <2> QED BY <2>1, SingleStep
  <1>3. Inv => NoSecondOrder
    BY DEF NoSecondOrder, SingleInv, OneAtATime, WorkingIsInflight, NoInflightOrder, Working,
           Orders, Sending
  <1>4. Init /\ mistaken = {} => Inv
    BY SingleInit
  <1> QED BY <1>1, <1>2, <1>3, <1>4, NewsInvariant, SentIsLastInvariant, PTL DEF RecordedSpec
-----------------------------------------------------------------------------
(* The algo's position.  order_filled is that of the order whose id came   *)
(* back last; of the orders before, the fills the algo has counted are     *)
(* those IBApi knows, unless an answer about one of them is under way: the *)
(* algo cannot take it without counting it for the wrong order.            *)
LastTracked == IF pcA \in Untold THEN m_order_id - 2 ELSE m_order_id - 1

Tracked == {id \in Orders : order_status[id] # "untracked"}

Counted(id) ==
    IF id \notin Tracked THEN 0
    ELSE IF id = LastTracked THEN Signed(orders[id].action, order_filled)
    ELSE Signed(orders[id].action, orders[id].traded_quantity)

(* Nothing about the order is under way to the algo.                       *)
Answered(id) == AllTaken(id) /\ ~InHand(AlgoCb, id) /\ AqOf(id) = {}

EarlierAnswered == \A id \in Tracked : id # LastTracked => Answered(id)

PosIsCounted == curr_pos = SumFunctionOnSet([id \in Orders |-> Counted(id)], Orders)

(* When nothing about it is under way, all fills of the order tracked last *)
(* are counted.                                                            *)
FilledIsLatest ==
    \A id \in Tracked : id = LastTracked /\ Answered(id) =>
        order_filled = orders[id].traded_quantity

PositionInv == connected => FilledIsLatest /\ (EarlierAnswered => PosIsCounted)

(* What the steps rest on.                                                 *)
FlowInv ==
    TypeInv /\ PlacedInv /\ AnswersInv /\ SentIsLast /\ CopiesAlike /\ AnswersAlike

LEMMA FlowInvariant ==
    ASSUME AlgoListens
    PROVE  Spec => []FlowInv
  <1>1. OvertakingInv => CopiesAlike /\ AnswersAlike
    BY DEF OvertakingInv
  <1> QED BY <1>1, TypeInvariant, PlacedInvariant, AnswersInvariant, SentIsLastInvariant,
             OvertakingInvariant, PTL DEF FlowInv

(* Orders that are tracked stay so; Track adds the one being sent.         *)
LEMMA TrackedKinds ==
    ASSUME FlowInv, [Next]_vars
    PROVE  /\ Tracked \subseteq Tracked'
           /\ ~Track => Tracked' = Tracked /\ LastTracked' = LastTracked
           /\ Track => /\ req.order_id \in Orders /\ req.order_id \notin Tracked
                       /\ Tracked' = Tracked \cup {req.order_id}
                       /\ LastTracked' = req.order_id
           /\ \A id \in Tracked : id <= LastTracked /\ orders[id] # NoOrder
  <1>1. AlgoTypeOK /\ ApiTypeOK /\ Links /\ KnownIsTracked /\ SentIsLast
        /\ m_order_id \in Int /\ req.order_id \in Int
    BY DEF FlowInv, TypeInv, TypeOK, AnswersInv, ApiTypeOK, AlgoTypeOK, Requests, Orders
  <1>2. ASSUME Track
        PROVE  /\ req.order_id \in Orders /\ req.order_id \notin Tracked
               /\ Tracked' = Tracked \cup {req.order_id} /\ LastTracked' = req.order_id
    <2>1. PICK sent : sent = req.order_id
      OBVIOUS
    <2>2. /\ pcA = "track" /\ pcA' = "idle" /\ UNCHANGED m_order_id
          /\ order_status' = [order_status EXCEPT ![sent] = "pending_submit"]
      BY <1>2, <2>1 DEF Track, apiVars
    <2>3. sent \in Orders /\ sent + 1 = m_order_id /\ order_status[sent] = "untracked"
      BY <1>1, <2>1, <2>2 DEF Links, SentIsKnown, SentIsLast, KnownIsTracked, Untold
    <2>4. \A id \in Orders :
             order_status'[id] = IF id = sent THEN "pending_submit" ELSE order_status[id]
      BY <1>1, <2>2, <2>3 DEF AlgoTypeOK
    <2>5. Tracked' = Tracked \cup {sent}
      BY <2>3, <2>4 DEF Tracked
    <2>6. LastTracked' = sent
      BY <1>1, <2>2, <2>3 DEF LastTracked, Untold, Orders
    <2> QED BY <2>1, <2>3, <2>5, <2>6 DEF Tracked
  <1>3. ASSUME ~Track
        PROVE  Tracked' = Tracked /\ LastTracked' = LastTracked
    <2>1. Tracked' = Tracked
      <3>1. ASSUME NEW id \in Orders, 1 \in AqOf(id)
            PROVE  aq[1].data.status # "untracked"
        <4>1. aq[1] \in OrderEvents
          BY <1>1, <3>1 DEF AqOf, AlgoTypeOK, OrderEvents, PosUpdates
        <4> QED BY <4>1 DEF OrderEvents, OrderData, Statuses
      <3>2. \A id \in Orders : order_status'[id] = "untracked" <=> order_status[id] = "untracked"
        BY <1>3, <3>1, StatusKinds DEF FlowInv
      <3> QED BY <3>2 DEF Tracked
    <2>2. LastTracked' = LastTracked
      <3>1. CASE order_cb
        BY <3>1 DEF order_cb, LastTracked, apiVars, Untold
      <3>2. CASE InsertNewOrder
        BY <1>1, <3>2 DEF InsertNewOrder, InsertOrder, LastTracked, Untold
      <3>3. CASE \/ UNCHANGED <<pcA, m_order_id>>
                 \/ pcA \notin Untold /\ pcA' \notin Untold /\ UNCHANGED m_order_id
                 \/ pcA \in Untold /\ pcA' \in Untold /\ UNCHANGED m_order_id
        BY <3>3 DEF LastTracked
      <3> QED BY <1>3, <3>1, <3>2, <3>3, InflightKinds DEF FlowInv
    <2> QED BY <2>1, <2>2
  <1>4. ASSUME NEW id \in Tracked PROVE id <= LastTracked /\ orders[id] # NoOrder
    <2>1. id \in Orders /\ id \in Int /\ orders[id] # NoOrder /\ ~(pcA \in Untold /\ req.order_id = id)
      BY <1>1 DEF Tracked, KnownIsTracked, Orders
    <2>2. ~(id >= m_order_id)
      BY <2>1 DEF FlowInv, PlacedInv, NewIsUnplaced
    <2> QED BY <1>1, <2>1, <2>2 DEF SentIsLast, LastTracked
  <1> QED BY <1>2, <1>3, <1>4

(* Above the event engine, only order_cb takes the last of the answers.    *)
LEMMA AnsweredAbove ==
    ASSUME FlowInv, [Next]_vars, ~(Dispatch \/ Books), connected', NEW id \in Orders, Answered(id)'
    PROVE  /\ orders'[id] = orders[id]
           /\ \/ Answered(id)
              \/ order_cb /\ 1 \in AqOf(id) /\ aq[1].data = orders[id]
  <1>1. AlgoTypeOK /\ TypeInv /\ PlacedInv
    BY DEF FlowInv, TypeInv, TypeOK
  <1>2. connected /\ AllTaken(id) /\ orders'[id] = orders[id]
    BY <1>1, QueuedStep DEF FlowInv, AnswersInv, Answered
  <1>3. ~InHand(AlgoCb, id)
    BY <1>1, StepKinds DEF InHand, AlgoCb, Answered
  <1>4. AnswersAreLatest
    BY <1>2 DEF FlowInv, AnswersInv
  <1>5. CASE order_cb
    <2>1. AqOf(id)' = {} => \A j \in AqOf(id) : j = 1
      BY <1>1, <1>5, AnswerTaken DEF order_cb
    <2>2. \A j \in AqOf(id) : j = 1
      BY <2>1 DEF Answered
    <2>3. 1 \in AqOf(id) => aq[1].data = orders[id]
      <3>1. 1 \in AqOf(id) => \A j \in AqOf(id) : j <= 1
        BY <2>2
      <3> QED BY <1>2, <1>3, <1>4, <3>1 DEF AnswersAreLatest
    <2> QED BY <1>2, <1>3, <1>5, <2>2, <2>3 DEF Answered
  <1>6. CASE UNCHANGED aq \/ UpdateQueued \/ UpdateTaken
    <2>1. AqOf(id)' = {} => AqOf(id) = {}
      BY <1>1, <1>6, AnswersStay
    <2> QED BY <1>2, <1>3, <2>1 DEF Answered
  <1> QED BY <1>1, <1>5, <1>6, QueueKinds
      DEF Apart, InsertNewOrder, ForwardNewOrder, PlaceNewOrder, Track

(* The event engine and the portfolio take none.                           *)
LEMMA AnsweredBelow ==
    ASSUME AlgoListens, TypeInv, Dispatch \/ Books, NEW id \in Orders, Answered(id)'
    PROVE  orders'[id] = orders[id] /\ Answered(id)
  <1>1. ApiTypeOK /\ AlgoTypeOK
    BY DEF TypeInv, TypeOK
  <1>2. UNCHANGED <<orders, held>> /\ HeldOf(id)' = HeldOf(id)
    BY DownstreamOnly DEF HeldOf
  <1>3. AllTaken(id)' /\ ~InHand(AlgoCb, id)' /\ AqOf(id)' = {}
    BY DEF Answered
  <1>4. UNCHANGED eq => AllTaken(id)
    <2>1. UNCHANGED eq => EqOf(id)' = EqOf(id)
      BY DEF EqOf
    <2> QED BY <1>2, <1>3, <2>1 DEF AllTaken
  <1>5. UNCHANGED aq => AqOf(id) = {}
    BY <1>3 DEF AqOf
  <1>6. CASE PopEvent
    <2>1. PICK data : data = Head(eq).data
      OBVIOUS
    <2>2. /\ disp.todo = << >> /\ disp'.data = data /\ disp'.todo = CallbackOrder /\ UNCHANGED aq
      BY <1>6, <2>1 DEF PopEvent, algoVars
    <2>3. EqOf(id)' = {} /\ data.order_id # id => EqOf(id) = {}
      BY <1>6, <2>1, EventTaken
    <2>4. ~InHand(AlgoCb, id)
      BY <2>2 DEF InHand
    <2>5. InHand(AlgoCb, id)' <=> data.order_id = id
      BY <2>2 DEF InHand, AlgoListens
    <2> QED BY <1>2, <1>3, <1>5, <2>2, <2>3, <2>4, <2>5 DEF AllTaken, Answered
  <1>7. CASE ToRiskManager \/ ToPortfolio
    <2>1. PICK cb_name : RunCallback(cb_name) /\ cb_name # AlgoCb
      BY <1>7 DEF ToRiskManager, ToPortfolio, AlgoCb
    <2>2. UNCHANGED <<eq, aq>>
      BY <1>7 DEF ToRiskManager, ToPortfolio, RunCallback, apiVars, algoVars
    <2>3. InHand(AlgoCb, id) => InHand(AlgoCb, id)'
      BY <2>1, CallbackRuns
    <2> QED BY <1>2, <1>3, <1>4, <1>5, <2>2, <2>3 DEF Answered
  <1>8. CASE Books
    <2>1. UNCHANGED <<eq, aq, disp>>
      BY <1>8 DEF Books, apiVars, algoVars
    <2>2. InHand(AlgoCb, id)' <=> InHand(AlgoCb, id)
      BY <2>1 DEF InHand, AlgoCb
    <2> QED BY <1>2, <1>3, <1>4, <1>5, <2>1, <2>2 DEF Answered
  <1>9. CASE ToAlgoEngine
    <2>1. PICK data, e : data = disp.data /\ e = OrderEvent(data)
      OBVIOUS
    <2>2. RunCallback(AlgoCb) /\ aq' = Append(aq, e) /\ UNCHANGED eq
      BY <1>9, <2>1 DEF ToAlgoEngine, event_engine_order_cb, AlgoCb, RunCallback, apiVars
    <2>3. data \in OrderData
      BY <2>1, <2>2, CallbackRuns
    <2>4. e \in OrderEvents /\ e.e_type = "order_data" /\ e.data = data
      BY <2>1, <2>3 DEF OrderEvent, OrderEvents
    <2>5. InHand(AlgoCb, id) => id = data.order_id
      BY <2>1 DEF InHand
    <2>6. AqOf(data.order_id)' # {} /\ (id # data.order_id => AqOf(id)' = AqOf(id))
      BY <1>1, <2>2, <2>4, AnswerQueued
    <2> QED BY <1>2, <1>3, <1>4, <2>2, <2>5, <2>6 DEF Answered
  <1> QED BY <1>6, <1>7, <1>8, <1>9 DEF Dispatch

(* Whatever step it is, an order about which nothing is under way after it *)
(* was such an order before, unless the algo takes the last answer.        *)
LEMMA AnsweredStep ==
    ASSUME AlgoListens, FlowInv, [Next]_vars, connected', NEW id \in Orders, Answered(id)'
    PROVE  /\ connected /\ orders'[id] = orders[id]
           /\ \/ Answered(id)
              \/ order_cb /\ 1 \in AqOf(id) /\ aq[1].data = orders[id]
  <1>1. CASE Dispatch \/ Books
    BY <1>1, AnsweredBelow, DownstreamOnly DEF FlowInv
  <1>2. CASE ~(Dispatch \/ Books)
    BY <1>2, AnsweredAbove, QueuedStep DEF FlowInv, AnswersInv
  <1> QED BY <1>1, <1>2

(* The answer the algo takes: it does not look at it, or it counts it for  *)
(* the order tracked last, which it is about.                              *)
LEMMA AnswerIsOfLast ==
    ASSUME FlowInv, order_cb, ~MistakesOrder
    PROVE  \E data \in OrderData, id \in Orders :
              /\ data = aq[1].data /\ 1 \in AqOf(id) /\ \A x : 1 \in AqOf(x) => x = id
              /\ UNCHANGED <<orders, connected>>
              /\ \/ UNCHANGED <<curr_pos, order_filled>> /\ id \notin Tracked
                 \/ /\ id \in Tracked /\ id = LastTracked
                    /\ data.action = orders[id].action
                    /\ curr_pos' = curr_pos + Signed(data.action, data.traded_quantity - order_filled)
                    /\ order_filled' = data.traded_quantity
  <1>1. AlgoTypeOK /\ m_order_id \in Int
    BY DEF FlowInv, TypeInv, TypeOK, ApiTypeOK
  <1>2. PICK data, id : data = Head(aq).data /\ id = data.order_id
    OBVIOUS
  <1>3. /\ pcA = "idle" /\ aq # << >> /\ aq' = Tail(aq) /\ Head(aq).e_type = "order_data"
        /\ UNCHANGED <<orders, connected>>
    BY DEF order_cb, apiVars, twsVars
  <1>4. /\ Head(aq) \in OrderEvents \cup PosUpdates /\ aq[1] = Head(aq)
        /\ 1 \in AqOf(id) /\ \A x : 1 \in AqOf(x) => x = id
    BY <1>1, <1>2, <1>3, AnswerTaken
  <1>5. data \in OrderData /\ id \in Orders
    BY <1>2, <1>3, <1>4 DEF OrderEvents, PosUpdates, OrderData
  <1>6. CASE id \notin Tracked
    <2>1. UNCHANGED <<curr_pos, order_filled>>
      BY <1>2, <1>5, <1>6 DEF order_cb, Tracked
    <2> QED BY <1>2, <1>3, <1>4, <1>5, <1>6, <2>1
  <1>7. CASE id \in Tracked
    <2>1. /\ curr_pos' = curr_pos + Signed(data.action, data.traded_quantity - order_filled)
          /\ order_filled' = data.traded_quantity
      BY <1>2, <1>7 DEF order_cb, Tracked
    <2>2. id + 1 = m_order_id
      BY <1>2, <1>7 DEF MistakesOrder, TakesAnswer, Tracked
    <2>3. id = LastTracked
      BY <1>1, <1>3, <1>5, <2>2 DEF LastTracked, Untold, Orders
    <2>4. data.action = orders[id].action
      BY <1>2, <1>4, <1>5 DEF FlowInv, AnswersAlike
    <2> QED BY <1>2, <1>3, <1>4, <1>5, <1>7, <2>1, <2>3, <2>4
  <1> QED BY <1>6, <1>7

(* An answer about an earlier order stays under way.                       *)
LEMMA EarlierStay ==
    ASSUME AlgoListens, FlowInv, [Next]_vars, connected', order_cb => ~MistakesOrder,
           EarlierAnswered'
    PROVE  /\ EarlierAnswered
           /\ \A id \in Tracked : id # LastTracked' => orders'[id] = orders[id] /\ Answered(id)'
  <1>1. /\ Tracked \subseteq Tracked' /\ Tracked \subseteq Orders
        /\ \A id \in Tracked : id # LastTracked => id # LastTracked'
    BY TrackedKinds DEF Tracked
  <1>2. \A id \in Tracked : id # LastTracked' => Answered(id)'
    BY <1>1 DEF EarlierAnswered
  <1>3. ASSUME NEW id \in Tracked, id # LastTracked PROVE Answered(id)
    <2>1. id \in Orders /\ Answered(id)'
      BY <1>1, <1>2, <1>3
    <2>2. ~(order_cb /\ 1 \in AqOf(id))
      BY <1>3, AnswerIsOfLast
    <2> QED BY <2>1, <2>2, AnsweredStep
  <1>4. ASSUME NEW id \in Tracked, id # LastTracked' PROVE orders'[id] = orders[id]
    BY <1>1, <1>2, <1>4, AnsweredStep
  <1> QED BY <1>2, <1>3, <1>4 DEF EarlierAnswered

(* The fills of the order tracked last are not lost.                       *)
LEMMA FilledStep ==
    ASSUME AlgoListens, FlowInv, [Next]_vars, connected', order_cb => ~MistakesOrder,
           FilledIsLatest
    PROVE  FilledIsLatest'
  <1> SUFFICES ASSUME NEW id \in Tracked', id = LastTracked', Answered(id)'
               PROVE  order_filled' = orders'[id].traded_quantity
    BY DEF FilledIsLatest
  <1>1. id \in Orders
    BY DEF Tracked
  <1>2. /\ connected /\ orders'[id] = orders[id]
        /\ \/ Answered(id)
           \/ order_cb /\ 1 \in AqOf(id) /\ aq[1].data = orders[id]
    BY <1>1, AnsweredStep
  <1>3. CASE Track
    <2>1. id = req.order_id /\ pcA = "track" /\ SentIsUnderWay
      BY <1>2, <1>3, TrackedKinds DEF Track, FlowInv, AnswersInv
    <2>2. ~Answered(id)
      BY <1>1, <2>1 DEF SentIsUnderWay, Answered, AllTaken
    <2> QED BY <1>2, <1>3, <2>1, <2>2 DEF order_cb
  <1>4. CASE order_cb /\ ~Track
    <2>1. id \in Tracked /\ id = LastTracked
      BY <1>4, TrackedKinds
    <2>2. PICK x \in Orders :
             /\ 1 \in AqOf(x) /\ \A y : 1 \in AqOf(y) => y = x
             /\ \/ UNCHANGED order_filled /\ x \notin Tracked
                \/ x = LastTracked /\ order_filled' = aq[1].data.traded_quantity
      BY <1>4, AnswerIsOfLast
    <2>3. CASE UNCHANGED order_filled /\ x \notin Tracked
      BY <1>2, <2>1, <2>2, <2>3 DEF FilledIsLatest
    <2>4. CASE x = LastTracked /\ order_filled' = aq[1].data.traded_quantity
      BY <1>2, <2>1, <2>2, <2>4 DEF Answered
    <2> QED BY <2>2, <2>3, <2>4
  <1>5. CASE ~order_cb /\ ~Track
    <2>1. id \in Tracked /\ id = LastTracked /\ UNCHANGED order_filled
      BY <1>5, TrackedKinds, InflightKinds DEF FlowInv
    <2> QED BY <1>2, <1>5, <2>1 DEF FilledIsLatest
  <1> QED BY <1>3, <1>4, <1>5

(* What is counted of an order is a number.                                *)
LEMMA CountedTypes ==
    ASSUME TypeInv, KnownIsTracked, NEW id \in Orders
    PROVE  Counted(id) \in Int
  <1>1. orders[id] \in OrderData \cup {NoOrder} /\ order_filled \in Int
    BY DEF TypeInv, TypeOK, ApiTypeOK, AlgoTypeOK
  <1>2. id \in Tracked => orders[id] \in OrderData
    BY <1>1 DEF KnownIsTracked, Tracked
  <1>3. id \in Tracked => orders[id].traded_quantity \in Int
    BY <1>2 DEF OrderData
  <1>4. \A a, n : n \in Int => Signed(a, n) \in Int
    BY DEF Signed
  <1> QED BY <1>1, <1>3, <1>4 DEF Counted

(* Two sums over the orders are equal if they agree on every order.        *)
LEMMA SumsOverOrders ==
    ASSUME NEW f, NEW g, \A id \in Orders : f[id] = g[id]
    PROVE  SumFunctionOnSet(f, Orders) = SumFunctionOnSet(g, Orders)
  <1>1. IsFiniteSet(Orders)
    BY MaxOrdersIsNat, FS_Interval DEF Orders
  <1> QED BY <1>1, SumSame

(* What is counted of the orders stays, unless the algo takes an answer.   *)
LEMMA CountedStays ==
    ASSUME AlgoListens, FlowInv, [Next]_vars, connected', ~order_cb,
           FilledIsLatest, EarlierAnswered', NEW id \in Orders
    PROVE  Counted(id)' = Counted(id)
  <1>1. /\ id \in Tracked => orders'[id].action = orders[id].action
        /\ id \in Tracked /\ id # LastTracked' => orders'[id] = orders[id] /\ Answered(id)'
    BY EarlierStay, TrackedKinds, KnownStays DEF FlowInv
  <1>2. CASE ~Track
    <2>1. Tracked' = Tracked /\ LastTracked' = LastTracked /\ UNCHANGED order_filled
      BY <1>2, TrackedKinds, InflightKinds DEF FlowInv
    <2>2. CASE id \notin Tracked
      BY <2>1, <2>2 DEF Counted
    <2>3. CASE id \in Tracked /\ id = LastTracked
      BY <1>1, <2>1, <2>3 DEF Counted
    <2>4. CASE id \in Tracked /\ id # LastTracked
      BY <1>1, <2>1, <2>4 DEF Counted
    <2> QED BY <2>2, <2>3, <2>4
  <1>3. CASE Track
    <2>1. PICK sent : sent = req.order_id
      OBVIOUS
    <2>2. /\ sent \notin Tracked /\ Tracked' = Tracked \cup {sent} /\ LastTracked' = sent
          /\ order_filled' = 0
      BY <1>3, <2>1, TrackedKinds DEF Track
    <2>3. CASE id = sent
      <3>1. \A a, n : n \in Int /\ n + n = n => Signed(a, n) = n
        BY DEF Signed
      <3>2. Counted(id)' = Signed(orders'[id].action, order_filled')
        BY <2>2, <2>3 DEF Counted
      <3>3. Counted(id)' = 0
        BY <2>2, <3>1, <3>2
      <3> QED BY <2>2, <2>3, <3>3 DEF Counted
    <2>4. CASE id # sent /\ id \notin Tracked
      BY <2>2, <2>4 DEF Counted
    <2>5. CASE id # sent /\ id \in Tracked
      <3>1. orders'[id] = orders[id] /\ Answered(id)'
        BY <1>1, <2>2, <2>5
      <3>2. Answered(id)
        BY <3>1, AnsweredStep
      <3>3. id = LastTracked => order_filled = orders[id].traded_quantity
        BY <2>5, <3>2 DEF FilledIsLatest
      <3>4. Counted(id)' = Signed(orders[id].action, orders[id].traded_quantity)
        BY <2>2, <2>5, <3>1 DEF Counted
      <3> QED BY <2>5, <3>3, <3>4 DEF Counted
    <2> QED BY <2>3, <2>4, <2>5
  <1> QED BY <1>2, <1>3

(* The answer the algo takes is counted: the position changes by what it   *)
(* fills beyond what was counted of the order before.                      *)
LEMMA AnswerCounts ==
    ASSUME FlowInv, PosIsCounted, order_cb, ~MistakesOrder, [Next]_vars
    PROVE  PosIsCounted'
  <1>1. PICK data \in OrderData, id \in Orders :
             /\ UNCHANGED orders
             /\ \/ UNCHANGED <<curr_pos, order_filled>>
                \/ /\ id \in Tracked /\ id = LastTracked
                   /\ data.action = orders[id].action
                   /\ curr_pos' = curr_pos + Signed(data.action, data.traded_quantity - order_filled)
                   /\ order_filled' = data.traded_quantity
    BY AnswerIsOfLast
  <1>2. AlgoTypeOK /\ TypeInv /\ KnownIsTracked
    BY DEF FlowInv, TypeInv, TypeOK, AnswersInv
  <1>3. ~Track
    BY DEF order_cb, Track
  <1>4. UNCHANGED <<Tracked, LastTracked>>
    BY <1>3, TrackedKinds
  <1>5. PICK f, g : /\ f = [x \in Orders |-> Counted(x)]
                    /\ g = [x \in Orders |-> Counted(x)']
    OBVIOUS
  <1>6. curr_pos = SumFunctionOnSet(f, Orders)
    BY <1>5 DEF PosIsCounted
  <1>7. curr_pos' = SumFunctionOnSet(g, Orders) => PosIsCounted'
    BY <1>5 DEF PosIsCounted
  <1>8. CASE UNCHANGED <<curr_pos, order_filled>>
    <2>1. \A x \in Orders : Counted(x)' = Counted(x)
      BY <1>1, <1>4, <1>8 DEF Counted
    <2>2. SumFunctionOnSet(f, Orders) = SumFunctionOnSet(g, Orders)
      BY <1>5, <2>1, SumsOverOrders
    <2> QED BY <1>6, <1>7, <1>8, <2>2
  <1>9. CASE /\ id \in Tracked /\ id = LastTracked
             /\ data.action = orders[id].action
             /\ curr_pos' = curr_pos + Signed(data.action, data.traded_quantity - order_filled)
             /\ order_filled' = data.traded_quantity
    <2>1. PICK a, n, t : a = data.action /\ n = order_filled /\ t = data.traded_quantity
      OBVIOUS
    <2>2. n \in Int /\ t \in Int /\ curr_pos \in Int
      BY <1>2, <2>1 DEF AlgoTypeOK, OrderData
    <2>3. \A x \in Orders : x # id => Counted(x)' = Counted(x)
      BY <1>1, <1>4, <1>9 DEF Counted
    <2>4. Counted(id) = Signed(a, n) /\ Counted(id)' = Signed(a, t)
      BY <1>1, <1>4, <1>9, <2>1 DEF Counted
    <2>5. Signed(a, t - n) = Signed(a, t) - Signed(a, n) /\ Signed(a, t) \in Int
      BY <2>2 DEF Signed
    <2>6. \A x \in Orders : Counted(x) \in Int
      BY <1>2, CountedTypes
    <2>7. \A x \in Orders : f[x] \in Int /\ g[x] \in Int
      BY <1>5, <2>3, <2>4, <2>5, <2>6
    <2>8. \A x \in Orders \ {id} : g[x] = f[x]
      BY <1>5, <2>3
    <2>9. SumFunctionOnSet(g, Orders) = SumFunctionOnSet(f, Orders) + (g[id] - f[id])
      BY <2>7, <2>8, SumOverOrders
    <2>10. g[id] = Signed(a, t) /\ f[id] = Signed(a, n)
      BY <1>5, <2>4
    <2>11. curr_pos' = curr_pos + Signed(a, t - n)
      BY <1>9, <2>1
    <2> QED BY <1>6, <1>7, <2>5, <2>9, <2>10, <2>11
  <1> QED BY <1>1, <1>8, <1>9

(* Every step keeps the count, if order_cb takes no answer for another     *)
(* order's.                                                                *)
LEMMA PositionStep ==
    AlgoListens /\ FlowInv /\ PositionInv /\ [Next /\ ~MistakesOrder]_vars => PositionInv'
  <1> SUFFICES ASSUME AlgoListens, FlowInv, PositionInv, [Next /\ ~MistakesOrder]_vars, connected'
               PROVE  FilledIsLatest' /\ (EarlierAnswered' => PosIsCounted')
    BY DEF PositionInv
  <1>1. [Next]_vars /\ (order_cb => ~MistakesOrder)
    BY AnswerStepAlone DEF FlowInv
  <1>2. connected
    BY <1>1, DownstreamOnly, QueuedStep DEF FlowInv, AnswersInv
  <1>3. FilledIsLatest /\ (EarlierAnswered => PosIsCounted)
    BY <1>2 DEF PositionInv
  <1>4. FilledIsLatest'
    BY <1>1, <1>3, FilledStep
  <1>5. ASSUME EarlierAnswered' PROVE PosIsCounted'
    <2>1. PosIsCounted
      BY <1>1, <1>3, <1>5, EarlierStay
    <2>2. CASE order_cb
      BY <1>1, <2>1, <2>2, AnswerCounts
    <2>3. CASE ~order_cb
      <3>1. UNCHANGED curr_pos
        BY <1>1, <2>3, InflightKinds DEF Track, FlowInv
      <3>2. \A id \in Orders : Counted(id)' = Counted(id)
        BY <1>1, <1>3, <1>5, <2>3, CountedStays
      <3>3. PICK f, g : /\ f = [x \in Orders |-> Counted(x)]
                        /\ g = [x \in Orders |-> Counted(x)']
        OBVIOUS
      <3>4. SumFunctionOnSet(f, Orders) = SumFunctionOnSet(g, Orders)
        BY <3>2, <3>3, SumsOverOrders
      <3> QED BY <2>1, <3>1, <3>3, <3>4 DEF PosIsCounted
    <2> QED BY <2>2, <2>3
  <1> QED BY <1>4, <1>5

(* At the start there is nothing to count.                                 *)
LEMMA PositionInit == Init => PositionInv
  <1> SUFFICES ASSUME Init PROVE PositionInv
    OBVIOUS
  <1>1. Tracked = {} /\ curr_pos = 0
    BY DEF Init, AlgoInit, Tracked
  <1>2. PICK f : f = [id \in Orders |-> Counted(id)]
    OBVIOUS
  <1>3. \A id \in Orders : f[id] = 0
    BY <1>1, <1>2 DEF Counted
  <1>4. IsFiniteSet(Orders)
    BY MaxOrdersIsNat, FS_Interval DEF Orders
  <1>5. SumFunctionOnSet(f, Orders) = 0
    BY <1>3, <1>4, SumZero
  <1> QED BY <1>1, <1>2, <1>5 DEF PositionInv, FilledIsLatest, PosIsCounted

(* When all is delivered and handled, what is counted of an order is what  *)
(* TWS filled of it.                                                       *)
LEMMA CountIsTheBook ==
    ASSUME FlowInv, PositionInv, Delivered, aq = << >>, pcA = "idle", connected
    PROVE  /\ PosIsCounted
           /\ \A id \in Orders : /\ ~Unplaced(id) => Counted(id) = TradedAtTws(id)
                                 /\ Unplaced(id) => Counted(id) = 0
  <1>1. /\ wire = << >> /\ eq = << >> /\ disp.todo = << >>
        /\ \A th \in ApiThreads : held[th] = NoOrder
    BY DEF Delivered
  <1>2. \A id \in Orders : Answered(id)
    BY <1>1 DEF HeldOf, EqOf, AqOf, InHand, AllTaken, Answered
  <1>3. PosIsCounted /\ FilledIsLatest
    BY <1>2 DEF PositionInv, EarlierAnswered, Tracked
  <1>4. ASSUME NEW id \in Orders
        PROVE  /\ ~Unplaced(id) => Counted(id) = TradedAtTws(id)
               /\ Unplaced(id) => Counted(id) = 0
    <2>1. id \notin Tracked <=> orders[id] = NoOrder
      BY DEF FlowInv, AnswersInv, KnownIsTracked, Untold, Tracked
    <2>2. id \in Tracked => Counted(id) = Signed(orders[id].action, orders[id].traded_quantity)
      BY <1>2, <1>3 DEF Counted, FilledIsLatest
    <2>3. CASE ~Unplaced(id)
      <3>1. StatusesOf(id) = {}
        BY <1>1 DEF StatusesOf
      <3>2. /\ orders[id] # NoOrder /\ orders[id].action = book[id].action
            /\ orders[id].traded_quantity = book[id].filled
        BY <2>3, <3>1 DEF FlowInv, PlacedInv, PlacedIsKnown, FillsAreTold
      <3> QED BY <2>1, <2>2, <2>3, <3>2 DEF TradedAtTws
    <2>4. CASE Unplaced(id)
      <3>1. \A a, n : n \in Int /\ n + n = n => Signed(a, n) = n
        BY DEF Signed
      <3>2. id \in Tracked => orders[id].traded_quantity = 0
        BY <2>1, <2>4 DEF FlowInv, PlacedInv, NewIsUnplaced
      <3>3. id \notin Tracked => Counted(id) = 0
        BY DEF Counted
      <3> QED BY <2>2, <2>4, <3>1, <3>2, <3>3
    <2> QED BY <2>3, <2>4
  <1> QED BY <1>3, <1>4

(* The algo's position is what TWS filled.  When all that TWS said is      *)
(* delivered and handled, the position that AlgoEngine::order_cb counts    *)
(* from one order_filled, which starts again with every order, is the sum  *)
(* of the fills of all orders: whatever TWS repeats, warns of or tells     *)
(* late, for any number of orders and updates.  There is only one way to a *)
(* wrong position while the connection holds, that order_cb takes the      *)
(* answer about an earlier order for one about the order sent last.        *)
THEOREM CurrPosIsExact ==
    ASSUME AlgoListens
    PROVE  RecordedSpec => []PositionFollows
  <1> DEFINE Inv == "order" \notin mistaken => PositionInv
  <1>1. FlowInv /\ PositionInv => CurrPosExact
    <2> SUFFICES ASSUME FlowInv, PositionInv, Delivered, aq = << >>, pcA = "idle", connected
                 PROVE  curr_pos = PosAtTws
      BY DEF CurrPosExact
    <2>1. PICK f, g : /\ f = [id \in Orders |-> Counted(id)]
                      /\ g = [id \in Placed |-> TradedAtTws(id)]
      OBVIOUS
    <2>2. curr_pos = SumFunctionOnSet(f, Orders) /\ PosAtTws = SumFunctionOnSet(g, Placed)
      BY <2>1, CountIsTheBook DEF PosIsCounted, PosAtTws
    <2>3. Placed \in SUBSET Orders /\ \A id \in Orders : id \in Placed <=> ~Unplaced(id)
      <3>1. \A id \in Orders : book[id].state \in {"absent", "working", "done"}
        BY DEF FlowInv, TypeInv, TypeOK, TwsTypeOK, BookEntries
      <3> QED BY <3>1 DEF Placed, Working, Done, Unplaced
    <2>4. \A id \in Orders : f[id] \in Int
      BY <2>1, CountedTypes DEF FlowInv, AnswersInv
    <2>5. \A id \in Orders \ Placed : f[id] = 0
      BY <2>1, <2>3, CountIsTheBook
    <2>6. \A id \in Placed : f[id] = g[id]
      BY <2>1, <2>3, CountIsTheBook
    <2>7. SumFunctionOnSet(f, Orders) = SumFunctionOnSet(g, Placed)
      BY <2>3, <2>4, <2>5, <2>6, SumOverPlaced
    <2> QED BY <2>2, <2>7
  <1>2. RecordedSpec => Spec
    BY RecordedIsOrderFlow
  <1>3. FlowInv /\ Inv /\ [RecordedNext]_recordedVars => Inv'
    <2> SUFFICES ASSUME FlowInv, Inv, [RecordedNext]_recordedVars, "order" \notin mistaken'
                 PROVE  PositionInv'
      OBVIOUS
    <2>1. "order" \notin mistaken /\ [Next /\ ~MistakesOrder]_vars
      BY RecordedStep
    <2> QED BY <2>1, PositionStep
  <1>4. Spec => []FlowInv
    BY FlowInvariant
  <1>5. FlowInv /\ Inv => PositionFollows
    BY <1>1 DEF PositionFollows
  <1>6. Init /\ mistaken = {} => Inv
    BY PositionInit
  <1> QED BY <1>2, <1>3, <1>4, <1>5, <1>6, PTL DEF RecordedSpec

=============================================================================
