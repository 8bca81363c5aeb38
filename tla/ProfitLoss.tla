----------------------------- MODULE ProfitLoss -----------------------------
(***************************************************************************)
(* From a trade on the exchange to the PnL of an algo.  IBApi's callback   *)
(* thread keeps a tick per symbol and sends it on with every change; the   *)
(* event engine's thread files it with MarketDataManager and queues orders *)
(* and timers for Portfolio, whose thread values the positions at every    *)
(* timer.  The main thread subscribes to the symbols, then sends the       *)
(* timers; AlgoEngine's thread answers those of every full and half minute *)
(* with the last price, which it publishes to the strategy.                *)
(*                                                                         *)
(* The n-th trade has price n, and 0 is the price of a tick that has seen  *)
(* no trade.  Of an order event only the change it makes to a position     *)
(* is kept: module Portfolio has the rest.                                 *)
(***************************************************************************)
EXTENDS Integers, Sequences, FiniteSets, SequencesExt, FiniteSetsExt

CONSTANTS
    Algos,
    Symbols,
    Held,            \* per algo, the symbols added to the portfolio
    mktd_mapping,    \* per algo, the market symbols of some order symbols
    mkt_data_symbol, \* the symbol whose price AlgoEngine publishes
    Subscriptions,   \* sequences of symbols the algos may subscribe to
    NoTick,          \* a symbol nobody subscribed to
    NoEvent,
    UnsetDouble,
    StartTime,
    MaxTime,         \* bound: the clock
    MaxTrades,       \* bound: trades
    MaxQuotes,       \* bound: changes of bid or ask
    MaxFills,        \* bound: fills
    MaxReplays       \* bound: events handled again

ASSUME HeldAreSymbols == Held \in [Algos -> SUBSET Symbols]
ASSUME MappedAreSymbols ==
    \A a \in Algos : \A s \in DOMAIN mktd_mapping[a] : mktd_mapping[a][s] \in Symbols
ASSUME SubscribedAreSymbols ==
    \A s \in Subscriptions : s \in Seq(Symbols) /\ mkt_data_symbol \in Range(s)
ASSUME PartsAreFinite == IsFiniteSet(Symbols) /\ IsFiniteSet(Algos) /\ Algos # {}
ASSUME ClockRuns == StartTime \in Int /\ MaxTime \in Int /\ StartTime <= MaxTime
ASSUME BoundsAreNat ==
    MaxTrades \in Nat /\ MaxQuotes \in Nat /\ MaxFills \in Nat /\ MaxReplays \in Nat
ASSUME NoneIsANumber == NoTick \notin Int /\ UnsetDouble \notin Int

VARIABLES
    now,           \* the clock
    pcM,           \* what the main thread does next
    tosub,         \* the subscriptions it still has to make
    target,        \* when it sends the next timer
    trades,        \* per symbol, the price of the latest trade TWS has reported
    quotes,        \* how many changes of bid or ask
    fills,         \* how many fills TWS has reported
    requested,     \* the symbols TWS sends ticks of
    ticks,         \* IBApi: last_price per symbol
    eq,            \* the event engine's queue
    last_ticks,    \* MarketDataManager: last_price per symbol
    aq,            \* AlgoEngine's queue, of timers
    pq,            \* the portfolio's queue
    hand,          \* the event its thread has in hand
    pcP,           \* what its thread does next
    left,          \* algos it has still to value
    algo,          \* the one it is valuing, and
    symsLeft,      \* the positions of it that remain
    used,          \* history: the price each position was valued at
    pos, cost,     \* algo_portfolio
    booked,        \* history: how many fills are in the books
    algo_pnl,
    total_pnl,
    replays

mainVars == <<now, pcM, tosub, target>>
apiVars  == <<trades, quotes, fills, requested, ticks>>
books    == <<pos, cost, booked>>
valVars  == <<left, algo, symsLeft, used, algo_pnl, total_pnl>>
portVars == <<pq, hand, pcP, books, valVars, replays>>
vars     == <<mainVars, apiVars, eq, last_ticks, aq, portVars>>

Prices    == 0 .. MaxTrades
Pnl       == Int \cup {UnsetDouble}
Positions == {p \in Algos \X Symbols : p[2] \in Held[p[1]]}

\* What TWS had reported when a timer was sent.
Seen == [trades : [Symbols -> Prices], fills : 0 .. MaxFills]

TickEvents  == [type : {"tick_data"}, symbol : Symbols, last_price : Prices]
OrderEvents == [type : {"order_data"}, position : Positions, qty : {-1, 1}, px : Prices]
Timers      == [type : {"timer"}, sec : 0 .. 59, seen : Seen]

TypeOK ==
    /\ now \in StartTime .. MaxTime
    /\ pcM \in {"mark", "file", "request", "time"}
    /\ tosub \in Seq(Symbols)
    /\ target \in StartTime + 1 .. MaxTime + 1
    /\ trades \in [Symbols -> Prices]
    /\ quotes \in 0 .. MaxQuotes
    /\ fills \in 0 .. MaxFills
    /\ requested \subseteq Symbols
    /\ ticks \in [Symbols -> Prices \cup {NoTick}]
    /\ eq \in Seq(TickEvents \cup OrderEvents \cup Timers)
    /\ last_ticks \in [Symbols -> Prices \cup {NoTick}]
    /\ aq \in Seq(Timers)
    /\ pq \in Seq(OrderEvents \cup Timers)
    /\ hand \in OrderEvents \cup Timers \cup {NoEvent}
    /\ pcP \in {"idle", "algos", "positions"}
    /\ left \subseteq Algos
    /\ algo \in Algos
    /\ symsLeft \subseteq Symbols
    /\ used \in [Positions -> Prices \cup {NoTick}]
    /\ pos \in [Positions -> Int] /\ cost \in [Positions -> Int]
    /\ booked \in 0 .. MaxFills
    /\ algo_pnl \in [Algos -> Pnl] /\ total_pnl \in Pnl
    /\ replays \in 0 .. MaxReplays

Init ==
    /\ now = StartTime
    /\ pcM = "mark"
    /\ tosub \in Subscriptions
    /\ target = StartTime + 1
    /\ trades = [s \in Symbols |-> 0]
    /\ quotes = 0
    /\ fills = 0
    /\ requested = {}
    /\ ticks = [s \in Symbols |-> NoTick]
    /\ eq = << >>
    /\ last_ticks = [s \in Symbols |-> NoTick]
    /\ aq = << >>
    /\ pq = << >>
    /\ hand = NoEvent
    /\ pcP = "idle"
    /\ left = {}
    /\ algo = CHOOSE a \in Algos : TRUE
    /\ symsLeft = {}
    /\ used = [p \in Positions |-> NoTick]
    /\ pos = [p \in Positions |-> 0] /\ cost = [p \in Positions |-> 0]
    /\ booked = 0
    /\ algo_pnl = [a \in Algos |-> 0] /\ total_pnl = 0
    /\ replays = 0
-----------------------------------------------------------------------------
\* MarketDataManager::subscribe, on the main thread.
MarkSubscribed ==
    /\ pcM = "mark"
    /\ tosub # << >>
    /\ LET s == Head(tosub)
       IN  \/ /\ last_ticks[s] = NoTick
              /\ last_ticks' = [last_ticks EXCEPT ![s] = 0]
              /\ pcM' = "file"
              /\ UNCHANGED tosub
           \/ /\ last_ticks[s] # NoTick
              /\ tosub' = Tail(tosub)
              /\ UNCHANGED <<last_ticks, pcM>>
    /\ UNCHANGED <<now, target, apiVars, eq, aq, portVars>>

\* IBApi::subscribe files two request ids and an empty tick, then asks TWS.
FileIds ==
    /\ pcM = "file"
    /\ ticks' = [ticks EXCEPT ![Head(tosub)] = 0]
    /\ pcM' = "request"
    /\ UNCHANGED <<now, tosub, target, trades, quotes, fills, requested, eq,
                   last_ticks, aq, portVars>>

reqTickByTickData ==
    /\ pcM = "request"
    /\ requested' = requested \cup {Head(tosub)}
    /\ tosub' = Tail(tosub)
    /\ pcM' = "mark"
    /\ UNCHANGED <<now, target, trades, quotes, fills, ticks, eq, last_ticks, aq, portVars>>

\* The algos have started: Trader::run goes on to its loop.
BeginTimers ==
    /\ pcM = "mark"
    /\ tosub = << >>
    /\ pcM' = "time"
    /\ target' = now + 1
    /\ UNCHANGED <<now, tosub, apiVars, eq, last_ticks, aq, portVars>>

\* Mutant: the second is not reduced to one of a minute.
send_timer_unreduced ==
    /\ pcM = "time"
    /\ now >= target
    /\ target' = target + 1
    /\ eq' = Append(eq, [type |-> "timer", sec |-> now,
                         seen |-> [trades |-> trades, fills |-> fills]])
    /\ UNCHANGED <<now, pcM, tosub, apiVars, last_ticks, aq, portVars>>

\* After a delay the timers are made up for, each with the time it is sent at.
send_timer ==
    /\ pcM = "time"
    /\ now >= target
    /\ target' = target + 1
    /\ eq' = Append(eq, [type |-> "timer", sec |-> now % 60,
                         seen |-> [trades |-> trades, fills |-> fills]])
    /\ UNCHANGED <<now, pcM, tosub, apiVars, last_ticks, aq, portVars>>

Elapse ==
    /\ now < MaxTime
    /\ now' = now + 1
    /\ UNCHANGED <<pcM, tosub, target, apiVars, eq, last_ticks, aq, portVars>>
-----------------------------------------------------------------------------
on_tick(s, price) ==
    eq' = Append(eq, [type |-> "tick_data", symbol |-> s, last_price |-> price])

NextPrice == Max({trades[s] : s \in Symbols}) + 1

tickByTickAllLast(s) ==
    /\ s \in requested
    /\ NextPrice <= MaxTrades
    /\ trades' = [trades EXCEPT ![s] = NextPrice]
    /\ ticks' = [ticks EXCEPT ![s] = trades'[s]]
    /\ on_tick(s, trades'[s])
    /\ UNCHANGED <<mainVars, quotes, fills, requested, last_ticks, aq, portVars>>

\* Mutant: a change of bid or ask is sent on in a tick of its own.
tickByTickBidAsk_alone(s) ==
    /\ s \in requested
    /\ quotes < MaxQuotes
    /\ quotes' = quotes + 1
    /\ on_tick(s, 0)
    /\ UNCHANGED <<mainVars, trades, fills, requested, ticks, last_ticks, aq, portVars>>

\* Bid and ask have changed: the tick goes out with the last price it knows.
tickByTickBidAsk(s) ==
    /\ s \in requested
    /\ quotes < MaxQuotes
    /\ quotes' = quotes + 1
    /\ on_tick(s, ticks[s])
    /\ UNCHANGED <<mainVars, trades, fills, requested, ticks, last_ticks, aq, portVars>>

\* mktd_mapping, or the symbol itself where there is none.
MktSym(a, s) == IF s \in DOMAIN mktd_mapping[a] THEN mktd_mapping[a][s] ELSE s

\* An order of an algo is filled, at the price of the latest trade.
orderStatus(p, qty) ==
    /\ fills < MaxFills
    /\ trades[MktSym(p[1], p[2])] > 0
    /\ fills' = fills + 1
    /\ eq' = Append(eq, [type |-> "order_data", position |-> p, qty |-> qty,
                         px |-> trades[MktSym(p[1], p[2])]])
    /\ UNCHANGED <<mainVars, trades, quotes, requested, ticks, last_ticks, aq, portVars>>
-----------------------------------------------------------------------------
Handles(types) ==
    /\ eq # << >>
    /\ Head(eq).type \in types
    /\ eq' = Tail(eq)
    /\ UNCHANGED <<mainVars, apiVars, hand, pcP, books, valVars, replays>>

\* Mutant: insert in the place of an assignment; a tick that is there stays.
update_ticks_inserting ==
    /\ Handles({"tick_data"})
    /\ last_ticks' = [last_ticks EXCEPT ![Head(eq).symbol] =
                          IF NoTick = @ THEN Head(eq).last_price ELSE @]
    /\ UNCHANGED <<aq, pq>>

update_ticks ==
    /\ Handles({"tick_data"})
    /\ last_ticks' = [last_ticks EXCEPT ![Head(eq).symbol] = Head(eq).last_price]
    /\ UNCHANGED <<aq, pq>>

\* AlgoEngine::event_engine_timer_cb, on the same thread (its callback for
\* orders is in OrderFlow).
ToAlgoEngine(event) ==
    aq' = IF event.type = "timer" /\ event.sec \in {0, 30} THEN Append(aq, event) ELSE aq

\* Mutant: a timer goes before the orders that wait.
ToQueuesTimersFirst ==
    /\ Handles({"order_data", "timer"})
    /\ pq' = IF Head(eq).type = "timer" THEN <<Head(eq)>> \o pq ELSE Append(pq, Head(eq))
    /\ ToAlgoEngine(Head(eq))
    /\ UNCHANGED last_ticks

\* event_engine_order_data_cb and event_engine_timer_cb.
ToQueues ==
    /\ Handles({"order_data", "timer"})
    /\ pq' = Append(pq, Head(eq))
    /\ ToAlgoEngine(Head(eq))
    /\ UNCHANGED last_ticks

\* AlgoEngine::timer_cb publishes the last tick's price, whatever it is by now.
\* A publish that fails throws and ends the process.
PublishTick ==
    /\ aq # << >>
    /\ aq' = Tail(aq)
    /\ UNCHANGED <<mainVars, apiVars, eq, last_ticks, portVars>>
-----------------------------------------------------------------------------
order_data_cb(event) ==
    /\ pos' = [pos EXCEPT ![event.position] = @ + event.qty]
    /\ cost' = [cost EXCEPT ![event.position] = @ + event.qty * event.px]
    /\ booked' = booked + 1
    /\ UNCHANGED <<pcP, valVars>>

\* Mutant: total_pnl goes on from where it was.
BeginValuationKeepingTotal ==
    /\ left' = Algos
    /\ pcP' = "algos"
    /\ UNCHANGED <<algo, symsLeft, used, algo_pnl, total_pnl, books>>

\* timer_cb takes data_m.
BeginValuation ==
    /\ total_pnl' = 0
    /\ left' = Algos
    /\ pcP' = "algos"
    /\ UNCHANGED <<algo, symsLeft, used, algo_pnl, books>>

HandleEvent ==
    /\ pcP = "idle"
    /\ pq # << >>
    /\ hand' = Head(pq)
    /\ pq' = Tail(pq)
    /\ \/ hand'.type = "order_data" /\ order_data_cb(hand')
       \/ hand'.type = "timer" /\ BeginValuation
    /\ UNCHANGED <<mainVars, apiVars, eq, last_ticks, aq, replays>>

\* The wait for an event expired and a timer is in hand still.  (An order in
\* hand is handled again too, and changes nothing: see Portfolio.)
HandleAgain ==
    /\ pcP = "idle"
    /\ pq = << >>
    /\ hand # NoEvent
    /\ hand.type = "timer"
    /\ replays < MaxReplays
    /\ replays' = replays + 1
    /\ BeginValuation
    /\ UNCHANGED <<mainVars, apiVars, eq, last_ticks, aq, pq, hand>>

BeginAlgo(a) ==
    /\ pcP = "algos"
    /\ a \in left
    /\ algo' = a
    /\ left' = left \ {a}
    /\ symsLeft' = Held[a]
    /\ algo_pnl' = [algo_pnl EXCEPT ![a] = 0]
    /\ pcP' = "positions"
    /\ UNCHANGED <<mainVars, apiVars, eq, last_ticks, aq, pq, hand, books, used,
                   total_pnl, replays>>

\* A position is valued at the tick MarketDataManager has at this moment.
ValuePosition(s) ==
    LET p    == <<algo, s>>
        tick == last_ticks[MktSym(algo, s)]
    IN  /\ pcP = "positions"
        /\ s \in symsLeft
        /\ symsLeft' = symsLeft \ {s}
        /\ used' = [used EXCEPT ![p] = tick]
        /\ algo_pnl' = [algo_pnl EXCEPT ![algo] =
                IF NoTick = tick \/ UnsetDouble = @ THEN UnsetDouble
                ELSE @ + pos[p] * tick - cost[p]]
        /\ UNCHANGED <<mainVars, apiVars, eq, last_ticks, aq, pq, hand, pcP, books, left,
                       algo, total_pnl, replays>>

EndAlgo ==
    /\ pcP = "positions"
    /\ symsLeft = {}
    /\ total_pnl' = IF UnsetDouble \in {algo_pnl[algo], total_pnl} THEN UnsetDouble
                    ELSE total_pnl + algo_pnl[algo]
    /\ pcP' = "algos"
    /\ UNCHANGED <<mainVars, apiVars, eq, last_ticks, aq, pq, hand, books, left, algo,
                   symsLeft, used, algo_pnl, replays>>

\* The end of timer_cb.  The PnL events it sends at full and half minutes go
\* to nobody: no part registers for them.
EndValuation ==
    /\ pcP = "algos"
    /\ left = {}
    /\ pcP' = "idle"
    /\ UNCHANGED <<mainVars, apiVars, eq, last_ticks, aq, pq, hand, books, valVars, replays>>
-----------------------------------------------------------------------------
Next ==
    \/ MarkSubscribed \/ FileIds \/ reqTickByTickData
    \/ BeginTimers \/ send_timer \/ Elapse
    \/ \E s \in Symbols : tickByTickAllLast(s) \/ tickByTickBidAsk(s)
    \/ \E p \in Positions : \E qty \in {-1, 1} : orderStatus(p, qty)
    \/ update_ticks \/ ToQueues \/ PublishTick
    \/ HandleEvent \/ HandleAgain
    \/ \E a \in Algos : BeginAlgo(a)
    \/ \E s \in Symbols : ValuePosition(s)
    \/ EndAlgo \/ EndValuation

Spec == Init /\ [][Next]_vars
-----------------------------------------------------------------------------
TicksQueued(s) ==
    {i \in 1 .. Len(eq) : eq[i].type = "tick_data" /\ eq[i].symbol = s}

(* The latest tick under way to MarketDataManager, or the one it has if    *)
(* none is under way, carries the price of the latest trade: trades and    *)
(* changes of bid and ask come in two streams with one record between them *)
(* (tickByTickAllLast, tickByTickBidAsk, update_ticks), and the record is  *)
(* emptied by subscribe.                                                   *)
PriceExact ==
    \A s \in requested :
        trades[s] = IF TicksQueued(s) = {} THEN last_ticks[s]
                    ELSE eq[Max(TicksQueued(s))].last_price

(* At any moment after a timer that AlgoEngine has in its queue was sent,  *)
(* the tick it would publish is there and is no older than the timer, from *)
(* the trade on another thread through the event engine's queue, past the  *)
(* changes of bid and ask (event_engine_timer_cb, timer_cb, update_ticks). *)
PublishedCurrent ==
    aq # << >> =>
        /\ last_ticks[mkt_data_symbol] # NoTick
        /\ last_ticks[mkt_data_symbol] >= Head(aq).seen.trades[mkt_data_symbol]

Adds(total, pnls) ==
    total = IF \E a \in Algos : pnls[a] = UnsetDouble THEN UnsetDouble
            ELSE SumFunctionOnSet(pnls, Algos)

(* Whenever no valuation is under way, and when its PnL events are sent,   *)
(* the total is the sum of the algos' PnLs, or unset if one of them is:    *)
(* also after a timer was handled again (timer_cb, run_actions).           *)
TotalIsSum ==
    pcP = "idle" \/ (pcP = "algos" /\ left = {}) => Adds(total_pnl, algo_pnl)

\* What an algo's positions are worth at the prices used.
Worth(a) ==
    IF \E s \in Held[a] : used[<<a, s>>] = NoTick THEN UnsetDouble
    ELSE SumFunctionOnSet(
            [s \in Held[a] |-> pos[<<a, s>>] * used[<<a, s>>] - cost[<<a, s>>]], Held[a])

(* When timer_cb is done with a timer, every PnL is the worth of the       *)
(* positions, the fills reported before the timer was sent are in them,    *)
(* and no price is older than the timer: through two queues and three      *)
(* threads (update_ticks, event_engine_timer_cb, run_actions, timer_cb).   *)
PnlCurrent ==
    pcP = "algos" /\ left = {} =>
        /\ \A a \in Algos : algo_pnl[a] = Worth(a)
        /\ booked >= hand.seen.fills
        /\ \A p \in Positions :
              used[p] # NoTick => used[p] >= hand.seen.trades[MktSym(p[1], p[2])]
=============================================================================
