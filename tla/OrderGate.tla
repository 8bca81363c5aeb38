------------------------------ MODULE OrderGate ------------------------------
(***************************************************************************)
(* Several algo engines send their orders through one TradingEngine: each  *)
(* action thread passes the risk check, enters IBGateway under its mutex   *)
(* m, and in there IBApi numbers the order, files its snapshot and places  *)
(* it.  An algo sends its next order when it heard of the end of the last. *)
(* The event of the end reaches RiskManager and the algo on the event      *)
(* engine's thread.  OrderFlow looks at one algo, and at the answers.      *)
(*                                                                         *)
(* Before that Trader::run starts the parts: IBApi connects, starts its    *)
(* callback thread and waits for the first order id, then the algos start. *)
(* When the connection fails everything else starts all the same.          *)
(***************************************************************************)
EXTENDS RiskManager

CONSTANTS
    Algos,    \* the algo engines, by the name in order_req.source
    NoAlgo,   \* nobody
    FirstId   \* the order id TWS announces, above those of earlier sessions

ASSUME NoAlgoIsNoAlgo == NoAlgo \notin Algos
ASSUME AlgosAreFinite == IsFiniteSet(Algos)
ASSUME FirstIdIsPositive == FirstId \in Nat \ {0}

VARIABLES
    main,          \* what Trader::run does next
    connected,     \* the client has its socket
    running,       \* IBApi's flag
    cb,            \* where process_messages is
    announced,     \* nextValidId is under way
    started,       \* the algos that have started
    listening,     \* those that have subscribed to their strategy's targets
    m,             \* who is inside IBGateway
    m_order_id,    \* the id of the next order
    source,        \* whose order the snapshot of each id is
    placed,        \* for whom TWS was given an order of each id
    failed,        \* orders the client could not send
    ended,         \* orders TWS has ended
    told,          \* ended orders whose last event reached the risk manager
    stage,         \* how far each algo has come with its order
    order_id       \* the id each algo works with

startVars == <<main, connected, running, cb, announced, started, listening>>
gateVars  == <<m, m_order_id, source, placed, failed, ended, told, stage, order_id>>
vars      == <<active_orders, startVars, gateVars>>

Stages == {"idle", "passed", "inside", "numbering", "numbered", "filed", "sent"}
Ids    == -1 .. MaxOrders

TypeOK ==
    /\ RiskTypeOK
    /\ main \in {"connect", "spawn", "await", "algos", "terminated"}
    /\ connected \in BOOLEAN /\ running \in BOOLEAN /\ announced \in BOOLEAN
    /\ cb \in {"none", "test", "messages", "ended"}
    /\ started \in SUBSET Algos /\ listening \in SUBSET started
    /\ m \in Algos \cup {NoAlgo}
    /\ m_order_id \in Nat \cup {-1}
    /\ source \in [Ids -> Algos \cup {NoAlgo}]
    /\ placed \in [Ids -> SUBSET Algos]
    /\ failed \in SUBSET Ids
    /\ ended \in SUBSET Ids
    /\ told \in SUBSET ended
    /\ stage \in [Algos -> Stages]
    /\ order_id \in [Algos -> Ids]

Init ==
    /\ RiskInit
    /\ main = "connect"
    /\ connected = FALSE /\ running = FALSE /\ announced = FALSE
    /\ cb = "none"
    /\ started = {} /\ listening = {}
    /\ m = NoAlgo
    /\ m_order_id = -1
    /\ source = [id \in Ids |-> NoAlgo]
    /\ placed = [id \in Ids |-> {}]
    /\ failed = {}
    /\ ended = {}
    /\ told = {}
    /\ stage = [a \in Algos |-> "idle"]
    /\ order_id = [a \in Algos |-> -1]
-----------------------------------------------------------------------------
\* Mutant: the callback thread is started while running is still false.
ConnectUnset ==
    /\ main = "connect"
    /\ connected' = TRUE /\ announced' = TRUE
    /\ main' = "spawn"
    /\ UNCHANGED <<active_orders, running, cb, started, listening, gateVars>>

\* IBApi::start as far as connect, which may fail: start then does nothing.
Connect ==
    /\ main = "connect"
    /\ \/ /\ connected' = TRUE /\ announced' = TRUE /\ running' = TRUE
          /\ main' = "spawn"
       \/ /\ main' = "algos"
          /\ UNCHANGED <<connected, announced, running>>
    /\ UNCHANGED <<active_orders, cb, started, listening, gateVars>>

SpawnCallbacks ==
    /\ main = "spawn"
    /\ cb' = "test"
    /\ main' = "await"
    /\ UNCHANGED <<active_orders, connected, running, announced, started,
                   listening, gateVars>>

\* Mutant: start does not wait for the first order id.
AwaitNothing ==
    /\ main = "await"
    /\ main' = "algos"
    /\ UNCHANGED <<active_orders, connected, running, cb, announced, started,
                   listening, gateVars>>

AwaitOrderId ==
    /\ main = "await"
    /\ m_order_id >= 0
    /\ main' = "algos"
    /\ UNCHANGED <<active_orders, connected, running, cb, announced, started,
                   listening, gateVars>>

\* AlgoEngine::start connects to Redis, which throws when it cannot, and
\* subscribes through the gateway.
StartAlgo(a) ==
    /\ main = "algos"
    /\ a \notin started
    /\ \/ /\ m = NoAlgo
          /\ started' = started \cup {a}
          /\ UNCHANGED main
       \/ main' = "terminated" /\ UNCHANGED started
    /\ UNCHANGED <<active_orders, connected, running, cb, announced, listening,
                   gateVars>>

\* run_redis_sub, on the algo's listen_thread: it connects and subscribes.
\* What it throws when Redis cannot be reached, or any time later when the
\* connection to it breaks, ends the process.
Listen(a) ==
    /\ a \in started
    /\ \/ a \notin listening /\ listening' = listening \cup {a} /\ UNCHANGED main
       \/ main' = "terminated" /\ UNCHANGED listening
    /\ UNCHANGED <<active_orders, connected, running, cb, announced, started,
                   gateVars>>

\* process_messages looks at running between two batches of messages.
TestRunning ==
    /\ cb = "test"
    /\ cb' = IF running THEN "messages" ELSE "ended"
    /\ UNCHANGED <<active_orders, main, connected, running, announced, started,
                   listening, gateVars>>

nextValidId ==
    /\ cb = "messages"
    /\ announced
    /\ announced' = FALSE
    /\ m_order_id' = FirstId
    /\ cb' = "test"
    /\ UNCHANGED <<active_orders, main, connected, running, started, listening,
                   m, source, placed, failed, ended, told, stage, order_id>>
-----------------------------------------------------------------------------
Moves(a, from, to) ==
    /\ stage[a] = from
    /\ stage' = [stage EXCEPT ![a] = to]

\* An algo acts on a target its strategy has sent.  The request of a new order
\* has no id yet: order_req.order_id is unset.
check_risk(a, pnl_ok) ==
    /\ a \in listening
    /\ stage[a] = "idle"
    /\ \/ PassesRisk(UnsetLong, pnl_ok) /\ Moves(a, "idle", "passed")
       \/ FailsRisk(pnl_ok) /\ UNCHANGED stage
    /\ UNCHANGED <<startVars, m, m_order_id, source, placed, failed, ended, told,
                   order_id>>

\* Mutant: IBGateway does not take its mutex.
EnterUnlocked(a) ==
    /\ m_order_id <= MaxOrders
    /\ Moves(a, "passed", "inside")
    /\ UNCHANGED <<startVars, m, active_orders, m_order_id, source, placed,
                   failed, ended, told, order_id>>

Enter(a) ==
    /\ m_order_id <= MaxOrders
    /\ Moves(a, "passed", "inside")
    /\ m = NoAlgo
    /\ m' = a
    /\ UNCHANGED <<startVars, active_orders, m_order_id, source, placed, failed,
                   ended, told, order_id>>

\* m_order_id++, a read and a write of a plain integer.
ReadId(a) ==
    /\ Moves(a, "inside", "numbering")
    /\ order_id' = [order_id EXCEPT ![a] = m_order_id]
    /\ UNCHANGED <<startVars, active_orders, m, m_order_id, source, placed,
                   failed, ended, told>>

CountId(a) ==
    /\ Moves(a, "numbering", "numbered")
    /\ m_order_id' = order_id[a] + 1
    /\ UNCHANGED <<startVars, active_orders, m, source, placed, failed, ended,
                   told, order_id>>

\* A snapshot that exists under the id is left alone.
FileSnapshot(a) ==
    /\ Moves(a, "numbered", "filed")
    /\ source' = [source EXCEPT ![order_id[a]] = IF @ = NoAlgo THEN a ELSE @]
    /\ UNCHANGED <<startVars, active_orders, m, m_order_id, placed, failed,
                   ended, told, order_id>>

\* Without a connection the client reports an error for the id, on the caller's
\* thread.  AlgoEngine::send_order takes an id that is not positive for a refusal.
Place(a) ==
    LET id == order_id[a]
    IN  /\ Moves(a, "filed", IF id > 0 THEN "sent" ELSE "idle")
        /\ \/ /\ connected
              /\ placed' = [placed EXCEPT ![id] = @ \cup {a}]
              /\ UNCHANGED failed
           \/ /\ ~connected
              /\ failed' = failed \cup {id}
              /\ UNCHANGED placed
        /\ m' = NoAlgo
        /\ UNCHANGED <<startVars, active_orders, m_order_id, source, ended, told,
                       order_id>>
-----------------------------------------------------------------------------
Active == {id \in Ids : placed[id] # {}} \ ended

\* TWS fills, cancels or rejects an order.
EndOrder(id) ==
    /\ id \in Active
    /\ ended' = ended \cup {id}
    /\ UNCHANGED <<startVars, active_orders, m, m_order_id, source, placed,
                   failed, told, stage,
                   order_id>>

\* RiskManager::event_engine_order_cb, for an order that is not active.
LetGo(id) ==
    /\ id \in ended \ told
    /\ told' = told \cup {id}
    /\ active_orders' = active_orders \ {id}
    /\ UNCHANGED <<startVars, m, m_order_id, source, placed, failed, ended, stage,
                   order_id>>

\* The algo's order_cb, for the same event, before the risk manager or after,
\* or for that of an error.
HearOfEnd(a) ==
    /\ order_id[a] \in ended \cup failed
    /\ Moves(a, "sent", "idle")
    /\ order_id' = [order_id EXCEPT ![a] = -1]
    /\ UNCHANGED <<startVars, active_orders, m, m_order_id, source, placed,
                   failed, ended, told>>
-----------------------------------------------------------------------------
MainStep ==
    Connect \/ SpawnCallbacks \/ AwaitOrderId \/ \E a \in Algos : StartAlgo(a)

CbStep == TestRunning \/ nextValidId

GateStep(a) == ReadId(a) \/ CountId(a) \/ FileSnapshot(a) \/ Place(a)

Next ==
    /\ main # "terminated"
    /\ \/ MainStep
       \/ CbStep
       \/ \E a \in Algos :
             \/ \E pnl_ok \in BOOLEAN : check_risk(a, pnl_ok)
             \/ Listen(a) \/ Enter(a) \/ GateStep(a) \/ HearOfEnd(a)
       \/ \E id \in Ids : EndOrder(id) \/ LetGo(id)

Spec == Init /\ [][Next]_vars

(* The main thread and the callback thread keep running, and TWS announces *)
(* an order id to a client that has connected, as its protocol says.  A    *)
(* thread inside the gateway comes out of it.  Nothing is asked of Redis   *)
(* and of the strategies.                                                  *)
FairSpec ==
    /\ Spec
    /\ WF_vars(main # "terminated" /\ MainStep)
    /\ WF_vars(main # "terminated" /\ CbStep)
    /\ \A a \in Algos : WF_vars(main # "terminated" /\ GateStep(a))
-----------------------------------------------------------------------------
(* The id an algo gets back is of its own order: the snapshot under it is  *)
(* its own, and TWS was given no order of somebody else under it, which it *)
(* would take for a change of the first (IBGateway::send_order's mutex     *)
(* around IBApi::send_order).                                              *)
OwnOrder ==
    \A a \in Algos : stage[a] = "sent" =>
        /\ source[order_id[a]] = a
        /\ placed[order_id[a]] = IF connected THEN {a} ELSE {}

(* TWS is given no order under an id below the one it announced, where it  *)
(* would take it for a change of an order of an earlier session, and where *)
(* an algo may take the id for a refusal of an order that is in the market *)
(* (IBApi::start waits; nextValidId comes on another thread; without a     *)
(* connection ids count up from -1, through 0).                            *)
IdsValid == \A id \in Ids : placed[id] # {} => id >= FirstId

(* The start of the gateway comes to an end and the algos start, or the    *)
(* process has ended: the wait for the first order id is not for a thread  *)
(* that has stopped reading (IBApi::start, process_messages).              *)
StartReturns == <>(started = Algos \/ main = "terminated")

(* "order_flow_lmt": no more orders are active than the limit allows.      *)
FlowLimited == Cardinality(Active) <= order_flow_lmt
=============================================================================
