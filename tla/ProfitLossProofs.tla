-------------------------- MODULE ProfitLossProofs --------------------------
(***************************************************************************)
(* ProfitLoss for any algos, symbols, positions, subscriptions and bounds: *)
(* the price MarketDataManager has, what AlgoEngine publishes, and the     *)
(* worth that Portfolio's timer_cb computes.                               *)
(*                                                                         *)
(* The inductive invariant comes in three layers, each about the variables *)
(* of its own part and using the layers before it: what TWS has reported   *)
(* and is under way to MarketDataManager (Reported), what the timers have  *)
(* seen and how far they have come (Timed), and a valuation under way      *)
(* (Valuing).                                                              *)
(***************************************************************************)
EXTENDS ProfitLoss, Sums, SequenceTheorems, FunctionTheorems

(* Appending to a queue. *)
LEMMA Appended ==
    ASSUME NEW S, NEW q \in Seq(S), NEW e \in S
    PROVE  /\ Append(q, e) \in Seq(S)
           /\ Len(Append(q, e)) = Len(q) + 1
           /\ \A i \in 1 .. Len(q) : Append(q, e)[i] = q[i]
           /\ Append(q, e)[Len(q) + 1] = e
           /\ Len(q) \in Nat
  BY AppendProperties, LenProperties

(* Taking the head of a queue off. *)
LEMMA Taken ==
    ASSUME NEW S, NEW q \in Seq(S), q # << >>
    PROVE  /\ Tail(q) \in Seq(S)
           /\ Len(q) \in Nat /\ Len(q) >= 1
           /\ Len(Tail(q)) = Len(q) - 1
           /\ \A i \in 1 .. Len(q) - 1 : Tail(q)[i] = q[i + 1]
           /\ Head(q) = q[1] /\ Head(q) \in S
  BY HeadTailProperties, LenProperties, EmptySeq, ElementOfSeq

(* Max, of a set of integers that is bounded above. *)
LEMMA MaxIsLargest ==
    ASSUME NEW S, S \subseteq Int, S # {}, NEW b \in Int, \A x \in S : x <= b
    PROVE  Max(S) \in S /\ \A y \in S : y <= Max(S)
  <1>1. PICK n \in S : \A m \in S : m <= n
    BY LargestNumber
  <1>2. \E x \in S : \A y \in S : x >= y
    BY <1>1
  <1>3. Max(S) \in S /\ \A y \in S : Max(S) >= y
    BY <1>2 DEF Max
  <1> QED
    BY <1>3

(* The market symbol of a position is one of the symbols. *)
LEMMA MktSymType ==
    ASSUME NEW a \in Algos, NEW s \in Symbols
    PROVE  MktSym(a, s) \in Symbols
  BY MappedAreSymbols DEF MktSym
-----------------------------------------------------------------------------
(* The orders among the first n events of a queue. *)
OrdersIn(queue, n) == Cardinality({i \in 1 .. n : queue[i].type = "order_data"})

(* They can be counted, and a longer part of the queue has no fewer. *)
LEMMA OrdersCounted ==
    ASSUME NEW q, NEW n \in Nat, NEW m \in 0 .. n
    PROVE  OrdersIn(q, n) \in Nat /\ OrdersIn(q, m) <= OrdersIn(q, n)
  <1> DEFINE N == {i \in 1 .. n : q[i].type = "order_data"}
             M == {i \in 1 .. m : q[i].type = "order_data"}
  <1>1. IsFiniteSet(1 .. n)
    BY FS_Interval
  <1>2. N \subseteq 1 .. n /\ M \subseteq N
    OBVIOUS
  <1>3. IsFiniteSet(N)
    BY <1>1, <1>2, FS_Subset
  <1>4. Cardinality(N) \in Nat /\ Cardinality(M) <= Cardinality(N)
    BY <1>2, <1>3, FS_CardinalityType, FS_Subset
  <1> QED
    BY <1>4 DEF OrdersIn

(* An event more at the end of the queue. *)
LEMMA OrdersAppended ==
    ASSUME NEW S, NEW q \in Seq(S), NEW e \in S
    PROVE  /\ \A n \in 0 .. Len(q) : OrdersIn(Append(q, e), n) = OrdersIn(q, n)
           /\ OrdersIn(Append(q, e), Len(q) + 1)
                = OrdersIn(q, Len(q)) + (IF e.type = "order_data" THEN 1 ELSE 0)
  <1> DEFINE r == Append(q, e)
             N == {i \in 1 .. Len(q) : q[i].type = "order_data"}
             R == {i \in 1 .. Len(q) + 1 : r[i].type = "order_data"}
  <1>1. /\ \A i \in 1 .. Len(q) : r[i] = q[i]
        /\ r[Len(q) + 1] = e
        /\ Len(q) \in Nat
    BY Appended
  <1> HIDE DEF r
  <1>2. ASSUME NEW n \in 0 .. Len(q) PROVE OrdersIn(r, n) = OrdersIn(q, n)
    <2>1. {i \in 1 .. n : r[i].type = "order_data"} = {i \in 1 .. n : q[i].type = "order_data"}
      BY <1>1
    <2> QED
      BY <2>1 DEF OrdersIn
  <1>3. IsFiniteSet(N) /\ Cardinality(N) \in Nat
    <2>1. IsFiniteSet(1 .. Len(q)) /\ N \subseteq 1 .. Len(q)
      BY <1>1, FS_Interval
    <2> QED
      BY <2>1, FS_Subset, FS_CardinalityType
  <1>4. CASE e.type = "order_data"
    <2>1. R = N \cup {Len(q) + 1} /\ Len(q) + 1 \notin N
      BY <1>1, <1>4
    <2>2. Cardinality(R) = Cardinality(N) + 1
      <3> HIDE DEF R, N
      <3> QED
        BY <1>3, <2>1, FS_AddElement
    <2>3. OrdersIn(r, Len(q) + 1) = OrdersIn(q, Len(q)) + 1
      BY <2>2 DEF OrdersIn
    <2> QED
      BY <1>2, <1>4, <2>3 DEF r
  <1>5. CASE e.type # "order_data"
    <2>1. R = N
      BY <1>1, <1>5
    <2>2. OrdersIn(r, Len(q) + 1) = Cardinality(R) /\ OrdersIn(q, Len(q)) = Cardinality(N)
      BY DEF OrdersIn
    <2>3. OrdersIn(r, Len(q) + 1) = OrdersIn(q, Len(q)) + 0
      <3> HIDE DEF R, N
      <3> QED
        BY <1>3, <2>1, <2>2
    <2> QED
      BY <1>2, <1>5, <2>3 DEF r
  <1> QED
    BY <1>4, <1>5

(* The head of the queue taken off: the others move one place forward. *)
LEMMA OrdersTaken ==
    ASSUME NEW S, NEW q \in Seq(S), q # << >>, NEW n \in 0 .. Len(q) - 1
    PROVE  OrdersIn(q, n + 1)
             = OrdersIn(Tail(q), n) + (IF Head(q).type = "order_data" THEN 1 ELSE 0)
  <1> DEFINE t == Tail(q)
             T == {i \in 1 .. n : t[i].type = "order_data"}
             U == {i \in 2 .. n + 1 : q[i].type = "order_data"}
             Q == {i \in 1 .. n + 1 : q[i].type = "order_data"}
             shift == [i \in T |-> i + 1]
  <1>1. /\ Len(q) \in Nat /\ n \in Nat
        /\ \A i \in 1 .. n : t[i] = q[i + 1]
        /\ Head(q) = q[1]
    BY Taken
  <1> HIDE DEF t
  <1>2. IsFiniteSet(T) /\ Cardinality(T) \in Nat
    <2>1. IsFiniteSet(1 .. n)
      BY <1>1, FS_Interval
    <2>2. T \subseteq 1 .. n
      OBVIOUS
    <2> QED
      BY <2>1, <2>2, FS_Subset, FS_CardinalityType
  <1>3. shift \in Bijection(T, U)
    <2>1. shift \in [T -> U]
      BY <1>1
    <2>2. \A i, j \in T : shift[i] = shift[j] => i = j
      BY <1>1
    <2>3. \A u \in U : \E i \in T : shift[i] = u
      <3> TAKE u \in U
      <3>1. u - 1 \in T /\ (u - 1) + 1 = u
        BY <1>1
      <3> QED
        BY <3>1
    <2> HIDE DEF shift, T, U
    <2> QED
      BY <2>1, <2>2, <2>3, Fun_IsBij
  <1>4. IsFiniteSet(U) /\ Cardinality(U) = Cardinality(T)
    <2> HIDE DEF shift, T, U
    <2> QED
      BY <1>2, <1>3, FS_Bijection DEF ExistsBijection
  <1>5. CASE Head(q).type = "order_data"
    <2>1. Q = U \cup {1} /\ 1 \notin U
      BY <1>1, <1>5
    <2>2. Cardinality(Q) = Cardinality(U) + 1
      <3> HIDE DEF Q, U
      <3> QED
        BY <1>4, <2>1, FS_AddElement
    <2> QED
      BY <1>4, <1>5, <2>2 DEF OrdersIn, t
  <1>6. CASE Head(q).type # "order_data"
    <2>1. Q = U
      BY <1>1, <1>6
    <2>2. OrdersIn(q, n + 1) = Cardinality(Q) /\ OrdersIn(t, n) = Cardinality(T)
      BY DEF OrdersIn
    <2>3. OrdersIn(q, n + 1) = OrdersIn(t, n) + 0
      <3> HIDE DEF Q, T, U
      <3> QED
        BY <1>2, <1>4, <2>1, <2>2
    <2> QED
      BY <1>6, <2>3 DEF t
  <1> QED
    BY <1>5, <1>6
-----------------------------------------------------------------------------
Events == TickEvents \cup OrderEvents \cup Timers

(* What an event of each type is. *)
LEMMA EventKinds ==
    ASSUME NEW e \in Events
    PROVE  /\ e.type = "tick_data" =>
                 e \in TickEvents /\ e.symbol \in Symbols /\ e.last_price \in Prices
           /\ e.type = "order_data" => e \in OrderEvents
           /\ e.type = "timer" =>
                 /\ e \in Timers
                 /\ e.seen.trades \in [Symbols -> Prices]
                 /\ e.seen.fills \in 0 .. MaxFills
           /\ e.type \in {"order_data", "timer"} => e \in OrderEvents \cup Timers
  BY DEF Events, TickEvents, OrderEvents, Timers, Seen

ReportedType ==
    /\ now \in StartTime .. MaxTime
    /\ pcM \in {"mark", "file", "request", "time"}
    /\ tosub \in Seq(Symbols)
    /\ target \in StartTime + 1 .. MaxTime + 1
    /\ trades \in [Symbols -> Prices]
    /\ quotes \in 0 .. MaxQuotes
    /\ fills \in 0 .. MaxFills
    /\ requested \subseteq Symbols
    /\ ticks \in [Symbols -> Prices \cup {NoTick}]
    /\ eq \in Seq(Events)
    /\ last_ticks \in [Symbols -> Prices \cup {NoTick}]

(* Subscribing marks a symbol, files an empty tick and asks TWS, in this   *)
(* order; nothing is known of a symbol before.                             *)
Marked(s) == s \in requested \/ (pcM \in {"file", "request"} /\ s = Head(tosub))

Subscribing ==
    /\ mkt_data_symbol \in Symbols
    /\ pcM \in {"file", "request"} => tosub # << >> /\ Head(tosub) \notin requested
    /\ pcM = "request" => ticks[Head(tosub)] = 0
    /\ pcM = "time" => tosub = << >>
    /\ last_ticks[mkt_data_symbol] = NoTick => mkt_data_symbol \in Range(tosub)
    /\ \A s \in Symbols : last_ticks[s] # NoTick <=> Marked(s)
    /\ \A s \in requested : ticks[s] = trades[s]
    /\ \A s \in Symbols \ requested :
          trades[s] = 0 /\ last_ticks[s] \in {0, NoTick} /\ TicksQueued(s) = {}

(* The ticks of a symbol come in the order of its trades, ... *)
TicksInOrder ==
    \A s \in requested :
        /\ last_ticks[s] <= trades[s]
        /\ \A i \in TicksQueued(s) :
              /\ last_ticks[s] <= eq[i].last_price /\ eq[i].last_price <= trades[s]
              /\ \A j \in TicksQueued(s) : i < j => eq[i].last_price <= eq[j].last_price

(* ... and the latest has the price of the latest trade. *)
LatestTick ==
    \A s \in requested :
        /\ TicksQueued(s) = {} => last_ticks[s] = trades[s]
        /\ \A i \in TicksQueued(s) :
              (\A j \in TicksQueued(s) : j <= i) => eq[i].last_price = trades[s]

(* MarketDataManager has a tick of a price, or of a later one. *)
Has(s, price) == last_ticks[s] # NoTick /\ last_ticks[s] >= price

(* The trades a timer has seen have come to MarketDataManager, or are      *)
(* before the timer in the event engine's queue.                           *)
TicksBefore(i, s) ==
    LET price == eq[i].seen.trades[s]
    IN  \/ price = 0
        \/ Has(s, price)
        \/ \E j \in TicksQueued(s) : j < i /\ eq[j].last_price >= price

TimersBehindTicks ==
    \A i \in 1 .. Len(eq) : eq[i].type = "timer" =>
        pcM = "time" /\ \A s \in Symbols : TicksBefore(i, s)

Reported ==
    ReportedType /\ Subscribing /\ TicksInOrder /\ LatestTick /\ TimersBehindTicks

(* The ticks of a symbol in the queue, after an event more... *)
LEMMA TicksAppended ==
    ASSUME eq \in Seq(Events), NEW e \in Events, eq' = Append(eq, e), NEW s
    PROVE  /\ \A i : i \in TicksQueued(s)' <=>
                        \/ i \in TicksQueued(s)
                        \/ i = Len(eq) + 1 /\ e.type = "tick_data" /\ e.symbol = s
           /\ \A i \in TicksQueued(s) : i \in 1 .. Len(eq) /\ eq'[i] = eq[i]
  <1>1. /\ eq' \in Seq(Events) /\ Len(eq') = Len(eq) + 1
        /\ \A i \in 1 .. Len(eq) : eq'[i] = eq[i]
        /\ eq'[Len(eq) + 1] = e
        /\ Len(eq) \in Nat
    BY Appended
  <1>2. \A i : i \in 1 .. Len(eq') <=> i \in 1 .. Len(eq) \/ i = Len(eq) + 1
    BY <1>1
  <1> QED
    BY <1>1, <1>2 DEF TicksQueued

(* ... and after the head was taken. *)
LEMMA TicksTaken ==
    ASSUME eq \in Seq(Events), eq # << >>, eq' = Tail(eq), NEW s
    PROVE  /\ \A i \in TicksQueued(s)' :
                 i \in 1 .. Len(eq) - 1 /\ i + 1 \in TicksQueued(s) /\ eq'[i] = eq[i + 1]
           /\ \A i \in TicksQueued(s) :
                 i \in 1 .. Len(eq) /\ (i # 1 => i - 1 \in TicksQueued(s)')
           /\ 1 \in TicksQueued(s) <=> Head(eq).type = "tick_data" /\ Head(eq).symbol = s
  <1>1. /\ Len(eq) \in Nat /\ Len(eq) >= 1 /\ Len(eq') = Len(eq) - 1
        /\ \A i \in 1 .. Len(eq) - 1 : eq'[i] = eq[i + 1]
        /\ Head(eq) = eq[1]
    BY Taken
  <1>2. ASSUME NEW i \in TicksQueued(s)'
        PROVE  i \in 1 .. Len(eq) - 1 /\ i + 1 \in TicksQueued(s) /\ eq'[i] = eq[i + 1]
    BY <1>1 DEF TicksQueued
  <1>3. ASSUME NEW i \in TicksQueued(s)
        PROVE  i \in 1 .. Len(eq) /\ (i # 1 => i - 1 \in TicksQueued(s)')
    <2>1. i \in 1 .. Len(eq)
      BY DEF TicksQueued
    <2>2. ASSUME i # 1 PROVE i - 1 \in 1 .. Len(eq') /\ eq'[i - 1] = eq[i]
      <3>1. i - 1 \in 1 .. Len(eq) - 1 /\ (i - 1) + 1 = i
        BY <1>1, <2>1, <2>2
      <3> QED
        BY <1>1, <3>1
    <2> QED
      BY <2>1, <2>2 DEF TicksQueued
  <1>4. 1 \in TicksQueued(s) <=> Head(eq).type = "tick_data" /\ Head(eq).symbol = s
    BY <1>1 DEF TicksQueued
  <1> QED
    BY <1>2, <1>3, <1>4

(* The last tick of a symbol in the queue. *)
LEMMA LastTick ==
    ASSUME eq \in Seq(Events), NEW s, TicksQueued(s) # {}
    PROVE  /\ Max(TicksQueued(s)) \in TicksQueued(s)
           /\ \A j \in TicksQueued(s) : j <= Max(TicksQueued(s))
  <1>1. Len(eq) \in Int
    BY LenProperties
  <1>2. TicksQueued(s) \subseteq Int /\ \A i \in TicksQueued(s) : i <= Len(eq)
    BY <1>1 DEF TicksQueued
  <1> QED
    BY <1>1, <1>2, MaxIsLargest
-----------------------------------------------------------------------------
(* The first layer holds at the start, ... *)
LEMMA ReportedInit == Init => Reported
  <1> SUFFICES ASSUME Init PROVE Reported
    OBVIOUS
  <1> USE DEF Init
  <1>1. tosub \in Seq(Symbols) /\ mkt_data_symbol \in Range(tosub)
    BY SubscribedAreSymbols
  <1>2. mkt_data_symbol \in Symbols
    BY <1>1, RangeEquality DEF Range
  <1>3. Len(eq) = 0 /\ eq \in Seq(Events)
    BY EmptySeq
  <1>4. \A s : TicksQueued(s) = {}
    BY <1>3 DEF TicksQueued
  <1>5. ReportedType
    BY <1>1, <1>3, ClockRuns, BoundsAreNat DEF ReportedType, Prices
  <1>6. Subscribing
    BY <1>1, <1>2, <1>4, NoneIsANumber DEF Subscribing, Marked
  <1>7. TicksInOrder /\ LatestTick
    BY DEF TicksInOrder, LatestTick
  <1>8. TimersBehindTicks
    BY <1>3 DEF TimersBehindTicks
  <1> QED
    BY <1>5, <1>6, <1>7, <1>8 DEF Reported

(* ... and under steps that are not about it. *)
LEMMA ReportedUnchanged ==
    ASSUME Reported, UNCHANGED <<mainVars, apiVars, eq, last_ticks>>
    PROVE  Reported'
  <1> USE DEF mainVars, apiVars
  <1>1. \A s : TicksQueued(s)' = TicksQueued(s)
    BY DEF TicksQueued
  <1>2. ReportedType'
    BY DEF Reported, ReportedType
  <1>3. Subscribing'
    BY <1>1 DEF Reported, Subscribing, Marked
  <1>4. TicksInOrder' /\ LatestTick'
    BY <1>1 DEF Reported, TicksInOrder, LatestTick
  <1>5. TimersBehindTicks'
    BY <1>1 DEF Reported, TimersBehindTicks, TicksBefore, Has
  <1> QED
    BY <1>2, <1>3, <1>4, <1>5 DEF Reported

(* What is at the head of the list of subscriptions, and what remains. *)
LEMMA Listed ==
    ASSUME tosub \in Seq(Symbols), tosub # << >>
    PROVE  /\ Head(tosub) \in Symbols
           /\ Tail(tosub) \in Seq(Symbols)
           /\ \A s \in Range(tosub) : s = Head(tosub) \/ s \in Range(Tail(tosub))
  <1>1. /\ Tail(tosub) \in Seq(Symbols)
        /\ Len(tosub) \in Nat /\ Len(tosub) >= 1
        /\ Len(Tail(tosub)) = Len(tosub) - 1
        /\ \A i \in 1 .. Len(tosub) - 1 : Tail(tosub)[i] = tosub[i + 1]
        /\ Head(tosub) = tosub[1] /\ Head(tosub) \in Symbols
    BY Taken
  <1>2. ASSUME NEW s \in Range(tosub), s # Head(tosub) PROVE s \in Range(Tail(tosub))
    <2>1. PICK i \in 1 .. Len(tosub) : tosub[i] = s
      BY <1>1, LenProperties DEF Range
    <2>2. i - 1 \in 1 .. Len(tosub) - 1 /\ (i - 1) + 1 = i
      BY <1>1, <1>2, <2>1
    <2>3. i - 1 \in DOMAIN Tail(tosub) /\ Tail(tosub)[i - 1] = s
      BY <1>1, <2>1, <2>2, LenProperties
    <2> QED
      BY <2>3 DEF Range
  <1> QED
    BY <1>1, <1>2

(* Where no timer was sent yet, the queue has none. *)
LEMMA NoTimerYet ==
    ASSUME Reported, pcM # "time"
    PROVE  \A i \in 1 .. Len(eq) : eq[i].type # "timer"
  BY DEF Reported, TimersBehindTicks

(* MarketDataManager::subscribe marks a symbol, or passes over one marked. *)
LEMMA ReportedMark ==
    ASSUME Reported, MarkSubscribed
    PROVE  Reported'
  <1> USE DEF MarkSubscribed, apiVars
  <1>1. ReportedType
    BY DEF Reported
  <1>2. /\ Head(tosub) \in Symbols
        /\ Tail(tosub) \in Seq(Symbols)
        /\ \A s \in Range(tosub) : s = Head(tosub) \/ s \in Range(Tail(tosub))
    BY <1>1, Listed DEF ReportedType
  <1>3. \A s : TicksQueued(s)' = TicksQueued(s)
    BY DEF TicksQueued
  <1>4. TimersBehindTicks'
    BY NoTimerYet DEF TimersBehindTicks
  <1>5. CASE last_ticks[Head(tosub)] = NoTick
    <2>1. /\ last_ticks' = [last_ticks EXCEPT ![Head(tosub)] = 0]
          /\ pcM' = "file" /\ tosub' = tosub
      BY <1>5
    <2>2. Head(tosub) \notin requested
      BY <1>2, <1>5 DEF Reported, Subscribing, Marked
    <2>3. ReportedType'
      BY <1>1, <1>2, <2>1, BoundsAreNat DEF ReportedType, Prices
    <2>4. 0 # NoTick
      BY NoneIsANumber
    <2>5. Subscribing'
      <3>1. \A s \in Symbols : (last_ticks[s] # NoTick <=> Marked(s))'
        BY <1>1, <2>1, <2>2, <2>4 DEF Reported, Subscribing, Marked, ReportedType
      <3>2. (\A s \in Symbols \ requested :
               trades[s] = 0 /\ last_ticks[s] \in {0, NoTick} /\ TicksQueued(s) = {})'
        BY <1>1, <1>3, <2>1 DEF Reported, Subscribing, ReportedType
      <3>3. (last_ticks[mkt_data_symbol] = NoTick => mkt_data_symbol \in Range(tosub))'
        BY <1>1, <2>1, <2>4 DEF Reported, Subscribing, ReportedType
      <3> QED
        BY <2>1, <2>2, <3>1, <3>2, <3>3 DEF Reported, Subscribing
    <2>6. TicksInOrder' /\ LatestTick'
      BY <1>1, <1>3, <2>1, <2>2 DEF Reported, TicksInOrder, LatestTick, ReportedType
    <2> QED
      BY <1>4, <2>3, <2>5, <2>6 DEF Reported
  <1>6. CASE last_ticks[Head(tosub)] # NoTick
    <2>1. last_ticks' = last_ticks /\ pcM' = pcM /\ tosub' = Tail(tosub)
      BY <1>6
    <2>2. ReportedType'
      BY <1>1, <1>2, <2>1 DEF ReportedType
    <2>3. Subscribing'
      BY <1>2, <1>3, <1>6, <2>1 DEF Reported, Subscribing, Marked
    <2>4. TicksInOrder' /\ LatestTick'
      BY <1>3, <2>1 DEF Reported, TicksInOrder, LatestTick
    <2> QED
      BY <1>4, <2>2, <2>3, <2>4 DEF Reported
  <1> QED
    BY <1>5, <1>6

(* IBApi files an empty tick, of a symbol TWS sends nothing of yet. *)
LEMMA ReportedFile ==
    ASSUME Reported, FileIds
    PROVE  Reported'
  <1> USE DEF FileIds
  <1>1. ReportedType /\ tosub # << >> /\ Head(tosub) \notin requested
    BY DEF Reported, Subscribing
  <1>2. Head(tosub) \in Symbols
    BY <1>1, Listed DEF ReportedType
  <1>3. \A s : TicksQueued(s)' = TicksQueued(s)
    BY DEF TicksQueued
  <1>4. TimersBehindTicks'
    BY NoTimerYet DEF TimersBehindTicks
  <1>5. ReportedType'
    BY <1>1, <1>2, BoundsAreNat DEF ReportedType, Prices
  <1>6. Subscribing'
    <2>1. ticks'[Head(tosub)] = 0 /\ \A s \in requested : ticks'[s] = ticks[s]
      BY <1>1, <1>2 DEF ReportedType
    <2> QED
      BY <1>1, <1>3, <2>1 DEF Reported, Subscribing, Marked
  <1>7. TicksInOrder' /\ LatestTick'
    BY <1>3 DEF Reported, TicksInOrder, LatestTick
  <1> QED
    BY <1>4, <1>5, <1>6, <1>7 DEF Reported

(* TWS is asked for a symbol's ticks, of which there is none so far. *)
LEMMA ReportedRequest ==
    ASSUME Reported, reqTickByTickData
    PROVE  Reported'
  <1> USE DEF reqTickByTickData
  <1>1. ReportedType /\ tosub # << >> /\ Head(tosub) \notin requested
    BY DEF Reported, Subscribing
  <1>2. /\ Head(tosub) \in Symbols
        /\ Tail(tosub) \in Seq(Symbols)
        /\ \A s \in Range(tosub) : s = Head(tosub) \/ s \in Range(Tail(tosub))
    BY <1>1, Listed DEF ReportedType
  <1>3. \A s : TicksQueued(s)' = TicksQueued(s)
    BY DEF TicksQueued
  <1>4. TimersBehindTicks'
    BY NoTimerYet DEF TimersBehindTicks
  <1>5. ReportedType'
    BY <1>1, <1>2 DEF ReportedType
  <1>6. /\ ticks[Head(tosub)] = 0 /\ trades[Head(tosub)] = 0
        /\ last_ticks[Head(tosub)] = 0 /\ TicksQueued(Head(tosub)) = {}
    BY <1>1, <1>2 DEF Reported, Subscribing, Marked
  <1>7. Subscribing'
    <2>1. last_ticks[mkt_data_symbol] = NoTick => mkt_data_symbol \in Range(Tail(tosub))
      BY <1>2, <1>6, NoneIsANumber DEF Reported, Subscribing
    <2> QED
      BY <1>2, <1>3, <1>6, <2>1 DEF Reported, Subscribing, Marked
  <1>8. TicksInOrder' /\ LatestTick'
    BY <1>2, <1>3, <1>6 DEF Reported, TicksInOrder, LatestTick
  <1> QED
    BY <1>4, <1>5, <1>7, <1>8 DEF Reported

(* The main thread goes on to its timers. *)
LEMMA ReportedBegin ==
    ASSUME Reported, BeginTimers
    PROVE  Reported'
  <1> USE DEF BeginTimers, apiVars
  <1>1. \A s : TicksQueued(s)' = TicksQueued(s)
    BY DEF TicksQueued
  <1>2. ReportedType'
    BY ClockRuns DEF Reported, ReportedType
  <1>3. Subscribing'
    BY <1>1 DEF Reported, Subscribing, Marked
  <1>4. TicksInOrder' /\ LatestTick'
    BY <1>1 DEF Reported, TicksInOrder, LatestTick
  <1>5. TimersBehindTicks'
    BY NoTimerYet DEF TimersBehindTicks
  <1> QED
    BY <1>2, <1>3, <1>4, <1>5 DEF Reported

(* The clock. *)
LEMMA ReportedElapse ==
    ASSUME Reported, Elapse
    PROVE  Reported'
  <1> USE DEF Elapse, apiVars
  <1>1. \A s : TicksQueued(s)' = TicksQueued(s)
    BY DEF TicksQueued
  <1>2. ReportedType'
    BY ClockRuns DEF Reported, ReportedType
  <1>3. Subscribing'
    BY <1>1 DEF Reported, Subscribing, Marked
  <1>4. TicksInOrder' /\ LatestTick'
    BY <1>1 DEF Reported, TicksInOrder, LatestTick
  <1>5. TimersBehindTicks'
    BY <1>1 DEF Reported, TimersBehindTicks, TicksBefore, Has
  <1> QED
    BY <1>2, <1>3, <1>4, <1>5 DEF Reported

(* A timer in the queue stays behind its ticks when an event is appended. *)
LEMMA TimersKept ==
    ASSUME Reported, NEW e \in Events, eq' = Append(eq, e), UNCHANGED <<pcM, last_ticks>>,
           e.type = "timer" =>
              /\ pcM = "time"
              /\ \A n : n = Len(eq) + 1 => \A s \in Symbols : TicksBefore(n, s)'
    PROVE  TimersBehindTicks'
  <1>1. eq \in Seq(Events)
    BY DEF Reported, ReportedType
  <1>2. /\ Len(eq') = Len(eq) + 1
        /\ \A i \in 1 .. Len(eq) : eq'[i] = eq[i]
        /\ eq'[Len(eq) + 1] = e
        /\ Len(eq) \in Nat
    BY <1>1, Appended
  <1> SUFFICES ASSUME NEW i \in 1 .. Len(eq'), eq'[i].type = "timer"
               PROVE  pcM = "time" /\ \A s \in Symbols : TicksBefore(i, s)'
    BY DEF TimersBehindTicks
  <1>3. CASE i = Len(eq) + 1
    BY <1>2, <1>3
  <1>4. CASE i # Len(eq) + 1
    <2>1. i \in 1 .. Len(eq) /\ eq'[i] = eq[i]
      BY <1>2, <1>4
    <2>2. pcM = "time" /\ \A s \in Symbols : TicksBefore(i, s)
      BY <2>1 DEF Reported, TimersBehindTicks
    <2>3. ASSUME NEW s \in Symbols PROVE TicksBefore(i, s)'
      <3>1. \A j \in TicksQueued(s) : j \in TicksQueued(s)' /\ eq'[j] = eq[j]
        BY <1>1, TicksAppended
      <3> QED
        BY <2>1, <2>2, <3>1 DEF TicksBefore, Has
    <2> QED
      BY <2>2, <2>3
  <1> QED
    BY <1>3, <1>4

(* An event that is no tick changes nothing about the ticks. *)
LEMMA TicksUntouched ==
    ASSUME eq \in Seq(Events), NEW e \in Events, eq' = Append(eq, e), e.type # "tick_data"
    PROVE  \A s : /\ TicksQueued(s)' = TicksQueued(s)
                  /\ \A i \in TicksQueued(s) : eq'[i] = eq[i]
  <1> TAKE s
  <1>1. /\ \A i : i \in TicksQueued(s)' <=> i \in TicksQueued(s)
        /\ \A i \in TicksQueued(s) : eq'[i] = eq[i]
    BY TicksAppended
  <1> QED
    BY <1>1

(* Nor about their order and the latest of them. *)
LEMMA TicksStayExact ==
    ASSUME Reported, NEW e \in Events, eq' = Append(eq, e), e.type # "tick_data",
           UNCHANGED <<requested, last_ticks, trades>>
    PROVE  TicksInOrder' /\ LatestTick'
  <1>1. \A s : TicksQueued(s)' = TicksQueued(s) /\ \A i \in TicksQueued(s) : eq'[i] = eq[i]
    BY TicksUntouched DEF Reported, ReportedType
  <1>2. TicksInOrder /\ LatestTick
    BY DEF Reported
  <1>3. TicksInOrder'
    <2> SUFFICES ASSUME NEW s \in requested
                 PROVE  /\ last_ticks[s] <= trades[s]
                        /\ \A i \in TicksQueued(s) :
                              /\ last_ticks[s] <= eq'[i].last_price /\ eq'[i].last_price <= trades[s]
                              /\ \A j \in TicksQueued(s) : i < j =>
                                    eq'[i].last_price <= eq'[j].last_price
      BY <1>1 DEF TicksInOrder
    <2>1. \A i \in TicksQueued(s) : eq'[i] = eq[i]
      BY <1>1
    <2> QED
      BY <1>2, <2>1 DEF TicksInOrder
  <1>4. LatestTick'
    <2> SUFFICES ASSUME NEW s \in requested
                 PROVE  /\ TicksQueued(s)' = {} => last_ticks[s] = trades[s]
                        /\ \A i \in TicksQueued(s)' :
                              (\A j \in TicksQueued(s)' : j <= i)
                                  => eq'[i].last_price = trades[s]
      BY DEF LatestTick
    <2>1. TicksQueued(s)' = TicksQueued(s)
      BY <1>1
    <2>2. \A i \in TicksQueued(s) : eq'[i] = eq[i]
      BY <1>1
    <2>3. TicksQueued(s) = {} => last_ticks[s] = trades[s]
      BY <1>2 DEF LatestTick
    <2>4. \A i \in TicksQueued(s) :
             (\A j \in TicksQueued(s) : j <= i) => eq[i].last_price = trades[s]
      BY <1>2 DEF LatestTick
    <2> QED
      BY <2>1, <2>2, <2>3, <2>4
  <1> QED
    BY <1>3, <1>4

(* A timer is sent: behind the ticks of the trades it has seen. *)
LEMMA ReportedTimer ==
    ASSUME Reported, send_timer
    PROVE  Reported'
  <1> USE DEF send_timer, apiVars
  <1> DEFINE e == [type |-> "timer", sec |-> now % 60,
                   seen |-> [trades |-> trades, fills |-> fills]]
  <1>1. ReportedType
    BY DEF Reported
  <1>2. e \in Events
    <2>1. now % 60 \in 0 .. 59
      BY <1>1, ClockRuns DEF ReportedType
    <2>2. [trades |-> trades, fills |-> fills] \in Seen
      BY <1>1 DEF ReportedType, Seen
    <2> QED
      BY <2>1, <2>2 DEF Events, Timers
  <1>3. eq' = Append(eq, e) /\ e.type = "timer" /\ e.seen.trades = trades
    OBVIOUS
  <1> HIDE DEF e
  <1>4. \A s : TicksQueued(s)' = TicksQueued(s) /\ \A i \in TicksQueued(s) : eq'[i] = eq[i]
    BY <1>1, <1>2, <1>3, TicksUntouched DEF ReportedType
  <1>5. eq' \in Seq(Events) /\ eq'[Len(eq) + 1] = e /\ Len(eq) \in Nat
    BY <1>1, <1>2, <1>3, Appended DEF ReportedType
  <1>6. ReportedType'
    BY <1>1, <1>5, ClockRuns DEF ReportedType
  <1>7. Subscribing'
    BY <1>4 DEF Reported, Subscribing, Marked
  <1>8. TicksInOrder' /\ LatestTick'
    BY <1>2, <1>3, TicksStayExact
  <1>9. ASSUME NEW n, n = Len(eq) + 1, NEW s \in Symbols PROVE TicksBefore(n, s)'
    <2>1. eq'[n].seen.trades[s] = trades[s] /\ trades[s] \in Prices
      BY <1>1, <1>3, <1>5, <1>9 DEF ReportedType
    <2>2. CASE s \notin requested
      <3>1. trades[s] = 0
        BY <2>2 DEF Reported, Subscribing
      <3> QED
        BY <2>1, <3>1 DEF TicksBefore
    <2>3. CASE s \in requested /\ TicksQueued(s) = {}
      <3>1. last_ticks[s] = trades[s] /\ last_ticks[s] # NoTick
        BY <2>3 DEF Reported, LatestTick, Subscribing, Marked
      <3>2. Has(s, trades[s])'
        BY <2>1, <3>1, BoundsAreNat DEF Has, Prices
      <3> QED
        BY <2>1, <3>2 DEF TicksBefore, Has
    <2>4. CASE s \in requested /\ TicksQueued(s) # {}
      <3> DEFINE m == Max(TicksQueued(s))
      <3>1. m \in TicksQueued(s) /\ \A j \in TicksQueued(s) : j <= m
        BY <1>1, <2>4, LastTick DEF ReportedType
      <3> HIDE DEF m
      <3>2. eq[m].last_price = trades[s]
        BY <2>4, <3>1 DEF Reported, LatestTick
      <3>3. m < n
        BY <1>5, <1>9, <3>1 DEF TicksQueued
      <3>4. m \in TicksQueued(s)' /\ eq'[m] = eq[m]
        BY <1>4, <3>1
      <3>5. eq'[m].last_price >= eq'[n].seen.trades[s]
        <4>1. eq'[m].last_price = trades[s] /\ eq'[n].seen.trades[s] = trades[s]
          BY <2>1, <3>2, <3>4
        <4>2. trades[s] >= trades[s]
          BY <2>1, BoundsAreNat DEF Prices
        <4> QED
          BY <4>1, <4>2
      <3> QED
        BY <3>3, <3>4, <3>5 DEF TicksBefore
    <2> QED
      BY <2>2, <2>3, <2>4
  <1>10. TimersBehindTicks'
    BY <1>2, <1>3, <1>9, TimersKept
  <1> QED
    BY <1>6, <1>7, <1>8, <1>10 DEF Reported

(* A fill is reported. *)
LEMMA ReportedOrder ==
    ASSUME Reported, NEW p \in Positions, NEW qty \in {-1, 1}, orderStatus(p, qty)
    PROVE  Reported'
  <1> USE DEF orderStatus, mainVars
  <1> DEFINE e == [type |-> "order_data", position |-> p, qty |-> qty,
                   px |-> trades[MktSym(p[1], p[2])]]
  <1>1. ReportedType
    BY DEF Reported
  <1>2. e \in Events
    <2>1. MktSym(p[1], p[2]) \in Symbols
      BY MktSymType DEF Positions
    <2>2. trades[MktSym(p[1], p[2])] \in Prices
      BY <1>1, <2>1 DEF ReportedType
    <2> QED
      BY <2>2 DEF Events, OrderEvents
  <1>3. eq' = Append(eq, e) /\ e.type = "order_data"
    OBVIOUS
  <1> HIDE DEF e
  <1>4. \A s : TicksQueued(s)' = TicksQueued(s) /\ \A i \in TicksQueued(s) : eq'[i] = eq[i]
    BY <1>1, <1>2, <1>3, TicksUntouched DEF ReportedType
  <1>5. eq' \in Seq(Events)
    BY <1>1, <1>2, <1>3, Appended DEF ReportedType
  <1>6. ReportedType'
    BY <1>1, <1>5, BoundsAreNat DEF ReportedType
  <1>7. Subscribing'
    BY <1>4 DEF Reported, Subscribing, Marked
  <1>8. TicksInOrder' /\ LatestTick'
    BY <1>2, <1>3, TicksStayExact
  <1>9. TimersBehindTicks'
    BY <1>2, <1>3, TimersKept
  <1> QED
    BY <1>6, <1>7, <1>8, <1>9 DEF Reported

(* A trade or a change of bid or ask: a tick of s goes out with a price no *)
(* lower than that of any tick of s before.                                *)
LEMMA ReportedTick ==
    ASSUME Reported, NEW s \in requested, NEW price \in Prices, trades[s] <= price,
           trades' = [trades EXCEPT ![s] = price],
           ticks' = [ticks EXCEPT ![s] = price],
           on_tick(s, price),
           quotes' \in 0 .. MaxQuotes,
           UNCHANGED <<mainVars, fills, requested, last_ticks>>
    PROVE  Reported'
  <1> USE DEF mainVars
  <1> DEFINE e == [type |-> "tick_data", symbol |-> s, last_price |-> price]
  <1>1. ReportedType /\ s \in Symbols
    BY DEF Reported, ReportedType
  <1>2. e \in Events
    BY <1>1 DEF Events, TickEvents
  <1>3. eq' = Append(eq, e) /\ e.type = "tick_data" /\ e.symbol = s /\ e.last_price = price
    BY DEF on_tick
  <1> HIDE DEF e
  <1>4. eq' \in Seq(Events) /\ eq'[Len(eq) + 1] = e /\ Len(eq) \in Nat
    BY <1>1, <1>2, <1>3, Appended DEF ReportedType
  <1>5. ASSUME NEW t
        PROVE  /\ \A i : i \in TicksQueued(t)' <=> i \in TicksQueued(t) \/ (i = Len(eq) + 1 /\ s = t)
               /\ \A i \in TicksQueued(t) : i \in 1 .. Len(eq) /\ eq'[i] = eq[i]
    BY <1>1, <1>2, <1>3, TicksAppended DEF ReportedType
  <1>6. ASSUME NEW t, t # s PROVE TicksQueued(t)' = TicksQueued(t)
    <2>1. \A i : i \in TicksQueued(t)' <=> i \in TicksQueued(t)
      BY <1>5, <1>6
    <2> QED
      BY <2>1
  <1>7. trades'[s] = price /\ ticks'[s] = price
    BY <1>1 DEF ReportedType
  <1>8. \A t \in Symbols : t # s => trades'[t] = trades[t] /\ ticks'[t] = ticks[t]
    BY <1>1 DEF ReportedType
  <1>9. ReportedType'
    BY <1>1, <1>4 DEF ReportedType
  <1>10. Subscribing'
    <2>1. \A t \in requested : ticks'[t] = trades'[t]
      BY <1>1, <1>7, <1>8 DEF Reported, Subscribing, ReportedType
    <2>2. \A t \in Symbols \ requested :
             trades'[t] = 0 /\ last_ticks[t] \in {0, NoTick} /\ TicksQueued(t)' = {}
      BY <1>6, <1>8 DEF Reported, Subscribing
    <2>3. pcM = "request" => ticks'[Head(tosub)] = 0
      <3> SUFFICES ASSUME pcM = "request" PROVE ticks'[Head(tosub)] = 0
        OBVIOUS
      <3>1. Head(tosub) \in Symbols /\ Head(tosub) # s
        BY <1>1, Listed DEF Reported, Subscribing, ReportedType
      <3> QED
        BY <1>8, <3>1 DEF Reported, Subscribing
    <2> QED
      BY <2>1, <2>2, <2>3 DEF Reported, Subscribing, Marked
  <1>11. TicksInOrder' /\ LatestTick'
    <2> SUFFICES ASSUME NEW t \in requested
                 PROVE  /\ last_ticks[t] <= trades'[t]
                        /\ \A i \in TicksQueued(t)' :
                              /\ last_ticks[t] <= eq'[i].last_price /\ eq'[i].last_price <= trades'[t]
                              /\ \A j \in TicksQueued(t)' :
                                    i < j => eq'[i].last_price <= eq'[j].last_price
                        /\ TicksQueued(t)' = {} => last_ticks[t] = trades'[t]
                        /\ \A i \in TicksQueued(t)' :
                              (\A j \in TicksQueued(t)' : j <= i) => eq'[i].last_price = trades'[t]
      BY DEF TicksInOrder, LatestTick
    <2>1. CASE t # s
      <3>1. TicksQueued(t)' = TicksQueued(t) /\ trades'[t] = trades[t]
        BY <1>1, <1>6, <1>8, <2>1 DEF ReportedType
      <3>2. \A i \in TicksQueued(t) : eq'[i] = eq[i]
        BY <1>5
      <3> QED
        BY <3>1, <3>2 DEF Reported, TicksInOrder, LatestTick
    <2>2. CASE t = s
      <3>1. trades[s] \in Int /\ price \in Int /\ last_ticks[s] \in Int
        BY <1>1 DEF Reported, ReportedType, Prices, Subscribing, Marked
      <3>2. \A i \in TicksQueued(s) : eq[i].last_price \in Int
        <4> TAKE i \in TicksQueued(s)
        <4>1. eq[i] \in Events /\ eq[i].type = "tick_data"
          BY <1>1, ElementOfSeq DEF ReportedType, TicksQueued
        <4> QED
          BY <4>1, EventKinds DEF Prices
      <3>3. \A i \in TicksQueued(s)' : \/ i \in TicksQueued(s) /\ eq'[i] = eq[i] /\ i \in 1 .. Len(eq)
                                       \/ i = Len(eq) + 1 /\ eq'[i].last_price = price
        BY <1>3, <1>4, <1>5
      <3>4. Len(eq) + 1 \in TicksQueued(s)'
        BY <1>5
      <3>5. last_ticks[s] <= trades[s] /\
            \A i \in TicksQueued(s) :
              /\ last_ticks[s] <= eq[i].last_price /\ eq[i].last_price <= trades[s]
              /\ \A j \in TicksQueued(s) : i < j => eq[i].last_price <= eq[j].last_price
        BY DEF Reported, TicksInOrder
      <3>6. ASSUME NEW i \in TicksQueued(s)'
            PROVE  last_ticks[s] <= eq'[i].last_price /\ eq'[i].last_price <= price
        BY <3>1, <3>2, <3>3, <3>5
      <3>7. ASSUME NEW i \in TicksQueued(s)', NEW j \in TicksQueued(s)', i < j
            PROVE  eq'[i].last_price <= eq'[j].last_price
        <4>1. i \in TicksQueued(s) /\ eq'[i] = eq[i]
          BY <1>4, <3>3, <3>7
        <4> QED
          BY <3>1, <3>2, <3>3, <3>5, <3>7, <4>1
      <3>8. ASSUME NEW i \in TicksQueued(s)', \A j \in TicksQueued(s)' : j <= i
            PROVE  eq'[i].last_price = price
        BY <1>4, <3>3, <3>4, <3>8
      <3> QED
        BY <1>7, <2>2, <3>1, <3>4, <3>5, <3>6, <3>7, <3>8
    <2> QED
      BY <2>1, <2>2
  <1>12. TimersBehindTicks'
    BY <1>2, <1>3, TimersKept
  <1> QED
    BY <1>9, <1>10, <1>11, <1>12 DEF Reported

(* A trade: its price is higher than any before. *)
LEMMA ReportedLast ==
    ASSUME Reported, NEW s \in Symbols, tickByTickAllLast(s)
    PROVE  Reported'
  <1> USE DEF tickByTickAllLast
  <1>1. ReportedType
    BY DEF Reported
  <1> DEFINE All == {trades[t] : t \in Symbols}
  <1>2. All \subseteq Int /\ All # {} /\ \A x \in All : x <= MaxTrades
    BY <1>1, BoundsAreNat DEF ReportedType, Prices
  <1>3. Max(All) \in All /\ \A y \in All : y <= Max(All)
    <2>1. PICK A : A = All
      OBVIOUS
    <2>2. A \subseteq Int /\ A # {} /\ \A x \in A : x <= MaxTrades
      BY <1>2, <2>1
    <2>3. Max(A) \in A /\ \A y \in A : y <= Max(A)
      <3>1. MaxTrades \in Int
        BY BoundsAreNat
      <3> QED
        BY <2>2, <3>1, MaxIsLargest
    <2> QED
      BY <2>1, <2>3
  <1>4. NextPrice = Max(All) + 1
    BY DEF NextPrice
  <1>5. trades[s] \in All /\ \A x \in All : x \in Nat
    BY <1>1, BoundsAreNat DEF ReportedType, Prices
  <1>6. NextPrice \in Prices /\ trades[s] <= NextPrice
    <2> HIDE DEF All
    <2> QED
      BY <1>3, <1>4, <1>5, BoundsAreNat DEF Prices
  <1>7. trades'[s] = NextPrice
    BY <1>1 DEF ReportedType
  <1>8. PICK price \in Prices : price = NextPrice
    BY <1>6
  <1>9. /\ trades[s] <= price
        /\ trades' = [trades EXCEPT ![s] = price]
        /\ ticks' = [ticks EXCEPT ![s] = price]
        /\ on_tick(s, price)
        /\ quotes' \in 0 .. MaxQuotes
        /\ UNCHANGED <<mainVars, fills, requested, last_ticks>>
    BY <1>1, <1>6, <1>7, <1>8 DEF on_tick, ReportedType
  <1> QED
    BY <1>9, ReportedTick

(* A change of bid or ask: the tick goes out with the price it has. *)
LEMMA ReportedBidAsk ==
    ASSUME Reported, NEW s \in Symbols, tickByTickBidAsk(s)
    PROVE  Reported'
  <1> USE DEF tickByTickBidAsk
  <1>1. ReportedType /\ s \in requested /\ ticks[s] = trades[s] /\ trades[s] \in Prices
    BY DEF Reported, ReportedType, Subscribing
  <1>2. PICK price \in Prices : price = trades[s]
    BY <1>1
  <1>3. /\ trades[s] <= price
        /\ trades' = [trades EXCEPT ![s] = price]
        /\ ticks' = [ticks EXCEPT ![s] = price]
        /\ on_tick(s, price)
        /\ quotes' \in 0 .. MaxQuotes
        /\ UNCHANGED <<mainVars, fills, requested, last_ticks>>
    <2>1. trades[s] <= price
      BY <1>1, <1>2, BoundsAreNat DEF Prices
    <2>2. trades' = [trades EXCEPT ![s] = price] /\ ticks' = [ticks EXCEPT ![s] = price]
      BY <1>1, <1>2 DEF ReportedType
    <2>3. quotes' \in 0 .. MaxQuotes
      BY <1>1, BoundsAreNat DEF ReportedType
    <2> QED
      BY <1>1, <1>2, <2>1, <2>2, <2>3 DEF on_tick
  <1> QED
    BY <1>1, <1>3, ReportedTick

(* The event engine's thread takes an event: the tick of the symbol it is  *)
(* a tick of is filed, and nothing else.                                   *)
LEMMA ReportedTaken ==
    ASSUME Reported, eq # << >>, eq' = Tail(eq), UNCHANGED <<mainVars, apiVars>>,
           last_ticks' \in [Symbols -> Prices \cup {NoTick}],
           \A s \in Symbols : last_ticks'[s] = IF 1 \in TicksQueued(s) THEN eq[1].last_price
                                               ELSE last_ticks[s]
    PROVE  /\ Reported'
           /\ \A s \in Symbols : \A price \in Prices : Has(s, price) => Has(s, price)'
  <1> USE DEF mainVars, apiVars
  <1>1. ReportedType /\ requested \subseteq Symbols
    BY DEF Reported, ReportedType
  <1>2. /\ eq' \in Seq(Events)
        /\ Len(eq) \in Nat /\ Len(eq) >= 1
        /\ Len(eq') = Len(eq) - 1
        /\ \A i \in 1 .. Len(eq) - 1 : eq'[i] = eq[i + 1]
    BY <1>1, Taken DEF ReportedType
  <1>3. ASSUME NEW s
        PROVE  /\ \A i \in TicksQueued(s)' :
                     i \in 1 .. Len(eq) - 1 /\ i + 1 \in TicksQueued(s) /\ eq'[i] = eq[i + 1]
               /\ \A i \in TicksQueued(s) :
                     i \in 1 .. Len(eq) /\ (i # 1 => i - 1 \in TicksQueued(s)')
    BY <1>1, TicksTaken DEF ReportedType
  <1>4. \A s \in Symbols : TicksQueued(s) # {} => s \in requested
    BY DEF Reported, Subscribing
  <1>5. \A s : \A i \in TicksQueued(s) : eq[i].last_price \in Prices
    <2> TAKE s
    <2> TAKE i \in TicksQueued(s)
    <2>1. eq[i] \in Events /\ eq[i].type = "tick_data"
      BY <1>1, ElementOfSeq DEF ReportedType, TicksQueued
    <2> QED
      BY <2>1, EventKinds
  <1>6. \A price \in Prices : price \in Int /\ price # NoTick
    BY BoundsAreNat, NoneIsANumber DEF Prices
  <1>7. ASSUME NEW s \in requested
        PROVE  /\ last_ticks[s] \in Int /\ trades[s] \in Int /\ last_ticks[s] # NoTick
               /\ last_ticks'[s] \in Int /\ last_ticks'[s] # NoTick
               /\ last_ticks[s] <= last_ticks'[s] /\ last_ticks'[s] <= trades[s]
               /\ \A i \in TicksQueued(s) : last_ticks'[s] <= eq[i].last_price
    <2>1. last_ticks[s] \in Prices /\ trades[s] \in Prices
      BY <1>1 DEF Reported, ReportedType, Subscribing, Marked
    <2>2. /\ last_ticks[s] <= trades[s]
          /\ \A i \in TicksQueued(s) :
                /\ last_ticks[s] <= eq[i].last_price /\ eq[i].last_price <= trades[s]
                /\ \A j \in TicksQueued(s) : i < j => eq[i].last_price <= eq[j].last_price
      BY DEF Reported, TicksInOrder
    <2>3. CASE 1 \in TicksQueued(s)
      <3>1. last_ticks'[s] = eq[1].last_price /\ eq[1].last_price \in Prices
        BY <1>1, <1>5, <2>3
      <3>2. \A i \in TicksQueued(s) : i = 1 \/ 1 < i
        BY <1>2, <1>3
      <3>3. \A i \in TicksQueued(s) : eq[1].last_price <= eq[i].last_price
        BY <1>5, <1>6, <2>2, <2>3, <3>2
      <3> QED
        BY <1>6, <2>1, <2>2, <2>3, <3>1, <3>3
    <2>4. CASE 1 \notin TicksQueued(s)
      <3>1. last_ticks'[s] = last_ticks[s]
        BY <1>1, <2>4
      <3> QED
        BY <1>6, <2>1, <2>2, <3>1
    <2> QED
      BY <2>3, <2>4
  <1>8. ASSUME NEW s \in Symbols, s \notin requested
        PROVE  last_ticks'[s] = last_ticks[s] /\ TicksQueued(s)' = {}
    BY <1>3, <1>4, <1>8
  <1>9. ReportedType'
    BY <1>1, <1>2 DEF ReportedType
  <1>10. Subscribing'
    <2>1. \A s \in Symbols : last_ticks'[s] # NoTick <=> last_ticks[s] # NoTick
      BY <1>7, <1>8
    <2>2. mkt_data_symbol \in Symbols
      BY DEF Reported, Subscribing
    <2>3. \A s \in Symbols : Marked(s)' <=> Marked(s)
      BY DEF Marked
    <2> QED
      BY <1>8, <2>1, <2>2, <2>3 DEF Reported, Subscribing
  <1>11. TicksInOrder'
    <2> SUFFICES ASSUME NEW s \in requested
                 PROVE  /\ last_ticks'[s] <= trades[s]
                        /\ \A i \in TicksQueued(s)' :
                              /\ last_ticks'[s] <= eq'[i].last_price /\ eq'[i].last_price <= trades[s]
                              /\ \A j \in TicksQueued(s)' : i < j =>
                                    eq'[i].last_price <= eq'[j].last_price
      BY DEF TicksInOrder
    <2>1. ASSUME NEW i \in TicksQueued(s)'
          PROVE  last_ticks'[s] <= eq'[i].last_price /\ eq'[i].last_price <= trades[s]
      BY <1>3, <1>7, <2>1 DEF Reported, TicksInOrder
    <2>2. ASSUME NEW i \in TicksQueued(s)', NEW j \in TicksQueued(s)', i < j
          PROVE  eq'[i].last_price <= eq'[j].last_price
      <3>1. i + 1 \in TicksQueued(s) /\ j + 1 \in TicksQueued(s) /\ i + 1 < j + 1
        BY <1>3, <2>2
      <3>2. eq[i + 1].last_price <= eq[j + 1].last_price
        BY <3>1 DEF Reported, TicksInOrder
      <3> QED
        BY <1>3, <3>2
    <2> QED
      BY <1>7, <2>1, <2>2
  <1>12. LatestTick'
    <2> SUFFICES ASSUME NEW s \in requested
                 PROVE  /\ TicksQueued(s)' = {} => last_ticks'[s] = trades[s]
                        /\ \A i \in TicksQueued(s)' :
                              (\A j \in TicksQueued(s)' : j <= i) => eq'[i].last_price = trades[s]
      BY DEF LatestTick
    <2>1. ASSUME TicksQueued(s)' = {} PROVE last_ticks'[s] = trades[s]
      <3>1. \A i \in TicksQueued(s) : i = 1
        BY <1>3, <2>1
      <3>2. CASE 1 \in TicksQueued(s)
        <4>1. \A j \in TicksQueued(s) : j <= 1
          BY <3>1
        <4>2. eq[1].last_price = trades[s]
          BY <3>2, <4>1 DEF Reported, LatestTick
        <4> QED
          BY <1>1, <3>2, <4>2
      <3>3. CASE 1 \notin TicksQueued(s)
        <4>1. TicksQueued(s) = {}
          BY <3>1, <3>3
        <4> QED
          BY <1>1, <3>3, <4>1 DEF Reported, LatestTick
      <3> QED
        BY <3>2, <3>3
    <2>2. ASSUME NEW i \in TicksQueued(s)', \A j \in TicksQueued(s)' : j <= i
          PROVE  eq'[i].last_price = trades[s]
      <3>1. i + 1 \in TicksQueued(s) /\ eq'[i] = eq[i + 1] /\ i \in Nat
        BY <1>2, <1>3
      <3>2. ASSUME NEW j \in TicksQueued(s) PROVE j <= i + 1
        <4>1. j \in 1 .. Len(eq) /\ (j # 1 => j - 1 <= i)
          BY <1>3, <2>2
        <4> QED
          BY <1>2, <3>1, <4>1
      <3> QED
        BY <3>1, <3>2 DEF Reported, LatestTick
    <2> QED
      BY <2>1, <2>2
  <1>13. ASSUME NEW s \in Symbols, NEW price \in Prices, Has(s, price)
         PROVE  Has(s, price)'
    <2>1. CASE s \in requested
      BY <1>6, <1>7, <1>13, <2>1 DEF Has
    <2>2. CASE s \notin requested
      BY <1>8, <1>13, <2>2 DEF Has
    <2> QED
      BY <2>1, <2>2
  <1>14. TimersBehindTicks'
    <2> SUFFICES ASSUME NEW i \in 1 .. Len(eq'), eq'[i].type = "timer"
                 PROVE  pcM = "time" /\ \A s \in Symbols : TicksBefore(i, s)'
      BY DEF TimersBehindTicks
    <2>1. i + 1 \in 1 .. Len(eq) /\ eq'[i] = eq[i + 1] /\ i \in Nat
      BY <1>2
    <2>2. PICK k \in 1 .. Len(eq) : k = i + 1
      BY <2>1
    <2>3. pcM = "time" /\ \A s \in Symbols : TicksBefore(k, s)
      BY <2>1, <2>2 DEF Reported, TimersBehindTicks
    <2>4. ASSUME NEW s \in Symbols PROVE TicksBefore(i, s)'
      <3>1. PICK price \in Prices : price = eq[k].seen.trades[s] /\ price = eq'[i].seen.trades[s]
        <4>1. eq[k] \in Events /\ eq[k].type = "timer"
          BY <1>1, <2>1, <2>2, ElementOfSeq DEF ReportedType
        <4>2. eq[k].seen.trades[s] \in Prices
          BY <4>1, EventKinds
        <4> QED
          BY <2>1, <2>2, <4>2
      <3>2. \/ price = 0
            \/ Has(s, price)
            \/ \E j \in TicksQueued(s) : j < k /\ eq[j].last_price >= price
        BY <2>3, <3>1 DEF TicksBefore
      <3>3. CASE price = 0
        BY <3>1, <3>3 DEF TicksBefore
      <3>4. CASE Has(s, price)
        BY <1>13, <3>1, <3>4 DEF TicksBefore
      <3>5. ASSUME NEW j \in TicksQueued(s), j < k, eq[j].last_price >= price
            PROVE  TicksBefore(i, s)'
        <4>1. CASE j = 1
          <5>1. last_ticks'[s] = eq[1].last_price /\ eq[1].last_price \in Prices
            BY <1>5, <4>1
          <5>2. Has(s, price)'
            BY <1>6, <3>5, <4>1, <5>1 DEF Has
          <5> QED
            BY <3>1, <5>2 DEF TicksBefore
        <4>2. CASE j # 1
          <5>1. j - 1 \in TicksQueued(s)' /\ j \in 1 .. Len(eq)
            BY <1>3, <4>2
          <5>2. (j - 1) + 1 = j /\ j - 1 < i
            BY <1>2, <2>1, <2>2, <3>5, <5>1
          <5>3. eq'[j - 1] = eq[j]
            BY <1>3, <5>1, <5>2
          <5> QED
            BY <3>1, <3>5, <5>1, <5>2, <5>3 DEF TicksBefore
        <4> QED
          BY <4>1, <4>2
      <3> QED
        BY <3>2, <3>3, <3>4, <3>5
    <2> QED
      BY <2>3, <2>4
  <1> QED
    BY <1>9, <1>10, <1>11, <1>12, <1>13, <1>14 DEF Reported

(* What MarketDataManager has is never replaced by something older. *)
HasStays == \A s \in Symbols : \A price \in Prices : Has(s, price) => Has(s, price)'

(* The event engine's thread files a tick. *)
LEMMA ReportedFiled ==
    ASSUME Reported, update_ticks
    PROVE  Reported' /\ HasStays
  <1> USE DEF update_ticks, Handles
  <1>1. /\ eq \in Seq(Events) /\ eq # << >> /\ eq' = Tail(eq)
        /\ last_ticks \in [Symbols -> Prices \cup {NoTick}]
        /\ UNCHANGED <<mainVars, apiVars>>
    BY DEF Reported, ReportedType
  <1>2. Head(eq) = eq[1] /\ Head(eq) \in Events
    BY <1>1, Taken
  <1>3. Head(eq).symbol \in Symbols /\ Head(eq).last_price \in Prices
    BY <1>2, EventKinds
  <1>4. \A s : 1 \in TicksQueued(s) <=> Head(eq).symbol = s
    BY <1>1, TicksTaken
  <1>5. last_ticks' \in [Symbols -> Prices \cup {NoTick}]
    BY <1>1, <1>3
  <1>6. \A s \in Symbols : last_ticks'[s] = IF 1 \in TicksQueued(s) THEN eq[1].last_price
                                            ELSE last_ticks[s]
    BY <1>1, <1>2, <1>3, <1>4
  <1> QED
    BY <1>1, <1>5, <1>6, ReportedTaken DEF HasStays

(* The event engine's thread sends an order or a timer on. *)
LEMMA ReportedSent ==
    ASSUME Reported, ToQueues
    PROVE  Reported' /\ HasStays
  <1> USE DEF ToQueues, Handles
  <1>1. /\ eq \in Seq(Events) /\ eq # << >> /\ eq' = Tail(eq)
        /\ last_ticks \in [Symbols -> Prices \cup {NoTick}]
        /\ UNCHANGED <<mainVars, apiVars, last_ticks>>
    BY DEF Reported, ReportedType
  <1>2. \A s : 1 \notin TicksQueued(s)
    BY <1>1, TicksTaken
  <1> QED
    BY <1>1, <1>2, ReportedTaken DEF HasStays

(* Where last_ticks does not change, nothing is replaced. *)
LEMMA HasKept == ASSUME UNCHANGED last_ticks PROVE HasStays
  BY DEF HasStays, Has

(* The first layer is preserved by every step, and so is what               *)
(* MarketDataManager has.                                                  *)
LEMMA ReportedStep ==
    ASSUME Reported, [Next]_vars
    PROVE  Reported' /\ HasStays
  <1>1. CASE MarkSubscribed
    <2>1. HasStays
      <3>1. tosub \in Seq(Symbols) /\ tosub # << >> /\ last_ticks \in [Symbols -> Prices \cup {NoTick}]
        BY <1>1 DEF Reported, ReportedType, MarkSubscribed
      <3>2. \A s \in Symbols : last_ticks[s] # NoTick => last_ticks'[s] = last_ticks[s]
        BY <1>1, <3>1 DEF MarkSubscribed
      <3> QED
        BY <3>2 DEF HasStays, Has
    <2> QED
      BY <1>1, <2>1, ReportedMark
  <1>2. CASE FileIds
    BY <1>2, ReportedFile, HasKept DEF FileIds
  <1>3. CASE reqTickByTickData
    BY <1>3, ReportedRequest, HasKept DEF reqTickByTickData
  <1>4. CASE BeginTimers
    BY <1>4, ReportedBegin, HasKept DEF BeginTimers
  <1>5. CASE send_timer
    BY <1>5, ReportedTimer, HasKept DEF send_timer
  <1>6. CASE Elapse
    BY <1>6, ReportedElapse, HasKept DEF Elapse
  <1>7. ASSUME NEW s \in Symbols, tickByTickAllLast(s) PROVE Reported' /\ HasStays
    BY <1>7, ReportedLast, HasKept DEF tickByTickAllLast
  <1>8. ASSUME NEW s \in Symbols, tickByTickBidAsk(s) PROVE Reported' /\ HasStays
    BY <1>8, ReportedBidAsk, HasKept DEF tickByTickBidAsk
  <1>9. ASSUME NEW p \in Positions, NEW qty \in {-1, 1}, orderStatus(p, qty)
        PROVE  Reported' /\ HasStays
    BY <1>9, ReportedOrder, HasKept DEF orderStatus
  <1>10. CASE update_ticks
    BY <1>10, ReportedFiled
  <1>11. CASE ToQueues
    BY <1>11, ReportedSent
  <1>12. CASE UNCHANGED <<mainVars, apiVars, eq, last_ticks>>
    BY <1>12, ReportedUnchanged, HasKept
  <1>13. CASE PublishTick
    BY <1>12, <1>13 DEF PublishTick
  <1>14. CASE HandleEvent
    BY <1>12, <1>14 DEF HandleEvent
  <1>15. CASE HandleAgain
    BY <1>12, <1>15 DEF HandleAgain
  <1>16. CASE \E a \in Algos : BeginAlgo(a)
    BY <1>12, <1>16 DEF BeginAlgo
  <1>17. CASE \E s \in Symbols : ValuePosition(s)
    BY <1>12, <1>17 DEF ValuePosition
  <1>18. CASE EndAlgo
    BY <1>12, <1>18 DEF EndAlgo
  <1>19. CASE EndValuation
    BY <1>12, <1>19 DEF EndValuation
  <1>20. CASE UNCHANGED vars
    BY <1>12, <1>20 DEF vars
  <1> QED
    BY <1>1, <1>2, <1>3, <1>4, <1>5, <1>6, <1>7, <1>8, <1>9, <1>10, <1>11, <1>13, <1>14,
       <1>15, <1>16, <1>17, <1>18, <1>19, <1>20 DEF Next

(* At any moment, the latest tick under way to MarketDataManager, or the   *)
(* one it has, carries the price of the latest trade (tickByTickAllLast,   *)
(* tickByTickBidAsk, update_ticks, subscribe).                             *)
THEOREM PriceIsExact == Spec => []PriceExact
  <1>1. Init => Reported
    BY ReportedInit
  <1>2. Reported /\ [Next]_vars => Reported'
    BY ReportedStep
  <1>3. Reported => PriceExact
    <2> SUFFICES ASSUME Reported, NEW s \in requested
                 PROVE  trades[s] = IF TicksQueued(s) = {} THEN last_ticks[s]
                                    ELSE eq[Max(TicksQueued(s))].last_price
      BY DEF PriceExact
    <2>1. CASE TicksQueued(s) = {}
      BY <2>1 DEF Reported, LatestTick
    <2>2. CASE TicksQueued(s) # {}
      <3> DEFINE m == Max(TicksQueued(s))
      <3>1. m \in TicksQueued(s) /\ \A j \in TicksQueued(s) : j <= m
        BY <2>2, LastTick DEF Reported, ReportedType
      <3> HIDE DEF m
      <3>2. eq[m].last_price = trades[s]
        BY <3>1 DEF Reported, LatestTick
      <3> QED
        BY <2>2, <3>2 DEF m
    <2> QED
      BY <2>1, <2>2
  <1> QED
    BY <1>1, <1>2, <1>3, PTL DEF Spec
-----------------------------------------------------------------------------
TimedType ==
    /\ aq \in Seq(Timers)
    /\ pq \in Seq(OrderEvents \cup Timers)
    /\ hand \in OrderEvents \cup Timers \cup {NoEvent}
    /\ pcP \in {"idle", "algos", "positions"}
    /\ booked \in Nat
    /\ replays \in 0 .. MaxReplays

(* The trades a timer has seen have reached MarketDataManager, once it has *)
(* left the event engine's queue.                                          *)
Arrived(timer) ==
    \A s \in Symbols : timer.seen.trades[s] = 0 \/ Has(s, timer.seen.trades[s])

TimersArrived ==
    /\ \A i \in 1 .. Len(pq) : pq[i].type = "timer" => Arrived(pq[i])
    /\ \A i \in 1 .. Len(aq) : pcM = "time" /\ Arrived(aq[i])

(* The fills reported are booked or in a queue, and those a timer has seen *)
(* are booked or before it.                                                *)
QueuedFills ==
    /\ fills = booked + OrdersIn(pq, Len(pq)) + OrdersIn(eq, Len(eq))
    /\ \A i \in 1 .. Len(pq) : pq[i].type = "timer" =>
          pq[i].seen.fills <= booked + OrdersIn(pq, i)
    /\ \A i \in 1 .. Len(eq) : eq[i].type = "timer" =>
          eq[i].seen.fills <= booked + OrdersIn(pq, Len(pq)) + OrdersIn(eq, i)

(* Portfolio's thread has a timer in hand: the one it is valuing for, or   *)
(* may value for again.                                                    *)
TimerInHand ==
    pcP # "idle" \/ (hand # NoEvent /\ hand.type = "timer") =>
        hand \in Timers /\ Arrived(hand) /\ booked >= hand.seen.fills

Timed == TimedType /\ TimersArrived /\ QueuedFills /\ TimerInHand

(* The second layer holds at the start. *)
LEMMA TimedInit == Init => Timed
  <1> SUFFICES ASSUME Init PROVE Timed
    OBVIOUS
  <1> USE DEF Init
  <1>1. Len(eq) = 0 /\ Len(pq) = 0 /\ Len(aq) = 0 /\ pq \in Seq(OrderEvents \cup Timers)
        /\ aq \in Seq(Timers)
    BY EmptySeq
  <1>2. OrdersIn(pq, 0) = 0 /\ OrdersIn(eq, 0) = 0
    <2>1. \A q : {i \in 1 .. 0 : q[i].type = "order_data"} = {}
      OBVIOUS
    <2> QED
      BY <2>1, FS_EmptySet DEF OrdersIn
  <1>3. TimedType
    BY <1>1, BoundsAreNat DEF TimedType
  <1>4. TimersArrived
    BY <1>1 DEF TimersArrived
  <1>5. QueuedFills
    BY <1>1, <1>2 DEF QueuedFills
  <1>6. TimerInHand
    BY DEF TimerInHand
  <1> QED
    BY <1>3, <1>4, <1>5, <1>6 DEF Timed

(* A timer that has arrived stays so. *)
LEMMA ArrivedStays ==
    ASSUME HasStays, NEW e \in Timers, Arrived(e)
    PROVE  Arrived(e)'
  <1> SUFFICES ASSUME NEW s \in Symbols
               PROVE  e.seen.trades[s] = 0 \/ Has(s, e.seen.trades[s])'
    BY DEF Arrived
  <1>1. PICK price \in Prices : price = e.seen.trades[s]
    BY DEF Timers, Seen
  <1>2. price = 0 \/ Has(s, price)
    BY <1>1 DEF Arrived
  <1>3. price = 0 \/ Has(s, price)'
    BY <1>2 DEF HasStays
  <1> QED
    BY <1>1, <1>3

(* An order or a timer, told apart by its type. *)
LEMMA PortfolioEvents ==
    ASSUME NEW e \in OrderEvents \cup Timers
    PROVE  /\ e \in Events
           /\ e.type \in {"order_data", "timer"}
           /\ e.type = "timer" => e \in Timers /\ e.seen.fills \in Nat
           /\ e.type = "order_data" => e \in OrderEvents
  BY BoundsAreNat DEF Events, OrderEvents, Timers, Seen

(* Steps that leave the queues of timers alone. *)
LEMMA ArrivalsKept ==
    ASSUME Timed, HasStays, UNCHANGED <<aq, pq>>, pcM = "time" => pcM' = "time"
    PROVE  TimersArrived'
  <1>1. ASSUME NEW i \in 1 .. Len(pq), pq[i].type = "timer" PROVE Arrived(pq[i])'
    <2>1. PICK e : e = pq[i]
      OBVIOUS
    <2>2. e \in OrderEvents \cup Timers
      BY <2>1, ElementOfSeq DEF Timed, TimedType
    <2>3. e \in Timers /\ Arrived(e)
      BY <1>1, <2>1, <2>2, PortfolioEvents DEF Timed, TimersArrived
    <2>4. Arrived(e)'
      BY <2>3, ArrivedStays
    <2>5. pq'[i] = e
      BY <2>1
    <2> QED
      BY <2>4, <2>5 DEF Arrived
  <1>2. ASSUME NEW i \in 1 .. Len(aq) PROVE pcM' = "time" /\ Arrived(aq[i])'
    <2>1. PICK e : e = aq[i]
      OBVIOUS
    <2>2. e \in Timers /\ Arrived(e) /\ pcM = "time"
      BY <2>1, ElementOfSeq DEF Timed, TimedType, TimersArrived
    <2>3. Arrived(e)'
      BY <2>2, ArrivedStays
    <2>4. aq'[i] = e
      BY <2>1
    <2> QED
      BY <2>2, <2>3, <2>4 DEF Arrived
  <1> QED
    BY <1>1, <1>2 DEF TimersArrived

(* Steps that leave the event in hand alone. *)
LEMMA HandKept ==
    ASSUME Timed, HasStays, UNCHANGED <<hand, booked>>, pcP' # "idle" => pcP # "idle"
    PROVE  TimerInHand'
  <1> SUFFICES ASSUME pcP' # "idle" \/ (hand # NoEvent /\ hand.type = "timer")
               PROVE  hand \in Timers /\ Arrived(hand)' /\ booked >= hand.seen.fills
    BY DEF TimerInHand
  <1>1. PICK e : e = hand
    OBVIOUS
  <1>2. e \in Timers /\ Arrived(e) /\ booked >= e.seen.fills
    BY <1>1 DEF Timed, TimerInHand
  <1>3. Arrived(e)'
    BY <1>2, ArrivedStays
  <1>4. hand' = e
    BY <1>1
  <1> QED
    BY <1>1, <1>2, <1>3, <1>4 DEF Arrived

(* An event is appended to the event engine's queue. *)
LEMMA FillsAppended ==
    ASSUME Reported, Timed, NEW e \in Events, eq' = Append(eq, e), UNCHANGED <<pq, booked>>,
           fills' = fills + (IF e.type = "order_data" THEN 1 ELSE 0),
           e.type = "timer" => e.seen.fills = fills
    PROVE  QueuedFills'
  <1>1. /\ eq \in Seq(Events) /\ pq \in Seq(OrderEvents \cup Timers)
        /\ fills \in Nat /\ booked \in Nat
    BY BoundsAreNat DEF Reported, ReportedType, Timed, TimedType
  <1>2. /\ Len(eq') = Len(eq) + 1
        /\ \A i \in 1 .. Len(eq) : eq'[i] = eq[i]
        /\ eq'[Len(eq) + 1] = e
        /\ Len(eq) \in Nat
    BY <1>1, Appended
  <1>3. /\ \A n \in 0 .. Len(eq) : OrdersIn(eq', n) = OrdersIn(eq, n)
        /\ OrdersIn(eq', Len(eq) + 1)
             = OrdersIn(eq, Len(eq)) + (IF e.type = "order_data" THEN 1 ELSE 0)
    BY <1>1, OrdersAppended
  <1>4. Len(pq) \in Nat /\ OrdersIn(pq, Len(pq)) \in Nat /\ OrdersIn(eq, Len(eq)) \in Nat
    <2>1. Len(pq) \in Nat
      BY <1>1, LenProperties
    <2> QED
      BY <1>2, <2>1, OrdersCounted
  <1>5. fills = booked + OrdersIn(pq, Len(pq)) + OrdersIn(eq, Len(eq))
    BY DEF Timed, QueuedFills
  <1>6. fills' = booked + OrdersIn(pq, Len(pq)) + OrdersIn(eq', Len(eq'))
    BY <1>1, <1>2, <1>3, <1>4, <1>5
  <1>7. ASSUME NEW i \in 1 .. Len(eq'), eq'[i].type = "timer"
        PROVE  eq'[i].seen.fills <= booked + OrdersIn(pq, Len(pq)) + OrdersIn(eq', i)
    <2>1. CASE i = Len(eq) + 1
      <3>1. e.type = "timer" /\ eq'[i].seen.fills = fills
        BY <1>2, <1>7, <2>1
      <3>2. OrdersIn(eq', i) = OrdersIn(eq, Len(eq))
        BY <1>3, <1>4, <2>1, <3>1
      <3> QED
        BY <1>1, <1>4, <1>5, <3>1, <3>2
    <2>2. CASE i # Len(eq) + 1
      <3>1. i \in 1 .. Len(eq) /\ eq'[i] = eq[i] /\ OrdersIn(eq', i) = OrdersIn(eq, i)
        BY <1>2, <1>3, <2>2
      <3> QED
        BY <1>7, <3>1 DEF Timed, QueuedFills
    <2> QED
      BY <2>1, <2>2
  <1> QED
    BY <1>6, <1>7 DEF Timed, QueuedFills

(* How many orders a part of each queue has. *)
LEMMA OrdersType ==
    ASSUME Reported, Timed
    PROVE  /\ eq \in Seq(Events) /\ pq \in Seq(OrderEvents \cup Timers)
           /\ Len(eq) \in Nat /\ Len(pq) \in Nat
           /\ \A n \in Nat : OrdersIn(eq, n) \in Nat /\ OrdersIn(pq, n) \in Nat
           /\ \A q : OrdersIn(q, 0) = 0
           /\ fills \in Nat /\ booked \in Nat
  <1>1. eq \in Seq(Events) /\ pq \in Seq(OrderEvents \cup Timers) /\ fills \in Nat /\ booked \in Nat
    BY BoundsAreNat DEF Reported, ReportedType, Timed, TimedType
  <1>2. Len(eq) \in Nat /\ Len(pq) \in Nat
    BY <1>1, LenProperties
  <1>3. ASSUME NEW n \in Nat PROVE OrdersIn(eq, n) \in Nat /\ OrdersIn(pq, n) \in Nat
    BY OrdersCounted
  <1>4. ASSUME NEW q PROVE OrdersIn(q, 0) = 0
    <2>1. {i \in 1 .. 0 : q[i].type = "order_data"} = {}
      OBVIOUS
    <2> QED
      BY <2>1, FS_EmptySet DEF OrdersIn
  <1> QED
    BY <1>1, <1>2, <1>3, <1>4

(* A tick leaves the event engine's queue. *)
LEMMA FillsFiled ==
    ASSUME Reported, Timed, update_ticks
    PROVE  QueuedFills'
  <1>1. /\ eq # << >> /\ eq' = Tail(eq) /\ Head(eq).type = "tick_data"
        /\ UNCHANGED <<pq, booked, fills>>
    BY DEF update_ticks, Handles, apiVars, books
  <1>2. /\ eq \in Seq(Events)
        /\ Len(eq) \in Nat /\ Len(pq) \in Nat
        /\ \A n \in Nat : OrdersIn(eq, n) \in Nat /\ OrdersIn(pq, n) \in Nat
    BY OrdersType
  <1>3. /\ Len(eq) >= 1 /\ Len(eq') = Len(eq) - 1
        /\ \A i \in 1 .. Len(eq) - 1 : eq'[i] = eq[i + 1]
    BY <1>1, <1>2, Taken
  <1>4. \A n \in 0 .. Len(eq) - 1 : OrdersIn(eq, n + 1) = OrdersIn(eq', n)
    <2> TAKE n \in 0 .. Len(eq) - 1
    <2>1. OrdersIn(eq, n + 1) = OrdersIn(eq', n) + 0
      BY <1>1, <1>2, OrdersTaken
    <2>2. n \in Nat /\ n \in 0 .. n
      BY <1>2
    <2>3. OrdersIn(eq', n) \in Nat
      BY <2>2, OrdersCounted
    <2> QED
      BY <2>1, <2>3
  <1>5. OrdersIn(eq', Len(eq')) = OrdersIn(eq, Len(eq))
    <2>1. Len(eq') \in 0 .. Len(eq) - 1 /\ Len(eq') + 1 = Len(eq)
      BY <1>2, <1>3
    <2> QED
      BY <1>4, <2>1
  <1>6. ASSUME NEW i \in 1 .. Len(eq'), eq'[i].type = "timer"
        PROVE  eq'[i].seen.fills <= booked + OrdersIn(pq, Len(pq)) + OrdersIn(eq', i)
    <2>1. i \in 0 .. Len(eq) - 1 /\ i + 1 \in 1 .. Len(eq) /\ eq'[i] = eq[i + 1]
      BY <1>2, <1>3
    <2>2. OrdersIn(eq', i) = OrdersIn(eq, i + 1)
      BY <1>4, <2>1
    <2> QED
      BY <1>6, <2>1, <2>2 DEF Timed, QueuedFills
  <1> QED
    BY <1>1, <1>5, <1>6 DEF Timed, QueuedFills

(* An order or a timer goes from the event engine's queue to Portfolio's. *)
LEMMA FillsSent ==
    ASSUME Reported, Timed, ToQueues
    PROVE  QueuedFills'
  <1>1. /\ eq # << >> /\ eq' = Tail(eq) /\ Head(eq).type \in {"order_data", "timer"}
        /\ pq' = Append(pq, Head(eq))
        /\ UNCHANGED <<booked, fills>>
    BY DEF ToQueues, Handles, apiVars, books
  <1>2. eq \in Seq(Events) /\ pq \in Seq(OrderEvents \cup Timers)
    BY OrdersType
  <1>3. Len(eq) \in Nat /\ Len(pq) \in Nat /\ booked \in Nat
    BY OrdersType
  <1>4. \A n \in Nat : OrdersIn(eq, n) \in Nat /\ OrdersIn(pq, n) \in Nat
    BY OrdersType
  <1>5. /\ Len(eq) >= 1 /\ Len(eq') = Len(eq) - 1
        /\ \A i \in 1 .. Len(eq) - 1 : eq'[i] = eq[i + 1]
    BY <1>1, <1>2, Taken
  <1>6. Head(eq) = eq[1] /\ Head(eq) \in Events
    BY <1>1, <1>2, Taken
  <1>7. PICK h \in OrderEvents \cup Timers : h = Head(eq)
    BY <1>1, <1>6, EventKinds
  <1>8. PICK d \in Nat : d = IF h.type = "order_data" THEN 1 ELSE 0
    OBVIOUS
  <1>9. /\ Len(pq') = Len(pq) + 1
        /\ \A i \in 1 .. Len(pq) : pq'[i] = pq[i]
        /\ pq'[Len(pq) + 1] = h
    BY <1>1, <1>2, <1>7, Appended
  <1>10. /\ \A n \in 0 .. Len(pq) : OrdersIn(pq', n) = OrdersIn(pq, n)
         /\ OrdersIn(pq', Len(pq) + 1) = OrdersIn(pq, Len(pq)) + d
    <2>1. pq' = Append(pq, h)
      BY <1>1, <1>7
    <2> QED
      BY <1>2, <1>8, <2>1, OrdersAppended
  <1>11. ASSUME NEW n \in 0 .. Len(eq) - 1
         PROVE  OrdersIn(eq, n + 1) = OrdersIn(eq', n) + d /\ OrdersIn(eq', n) \in Nat
    <2>1. OrdersIn(eq, n + 1) = OrdersIn(eq', n) + d
      BY <1>1, <1>2, <1>7, <1>8, OrdersTaken
    <2>2. n \in Nat /\ n \in 0 .. n
      BY <1>3
    <2>3. OrdersIn(eq', n) \in Nat
      BY <2>2, OrdersCounted
    <2> QED
      BY <2>1, <2>3
  <1>12. PICK P \in Nat : P = OrdersIn(pq, Len(pq)) /\ OrdersIn(pq', Len(pq')) = P + d
    <2>1. OrdersIn(pq, Len(pq)) \in Nat
      BY <1>3, <1>4
    <2> QED
      BY <1>9, <1>10, <2>1
  <1>13. fills' = booked' + OrdersIn(pq', Len(pq')) + OrdersIn(eq', Len(eq'))
    <2>1. Len(eq') \in 0 .. Len(eq) - 1 /\ Len(eq') + 1 = Len(eq)
      BY <1>3, <1>5
    <2>2. PICK E \in Nat : E = OrdersIn(eq', Len(eq')) /\ OrdersIn(eq, Len(eq)) = E + d
      BY <1>11, <2>1
    <2>3. fills = booked + P + (E + d)
      BY <1>12, <2>2 DEF Timed, QueuedFills
    <2>4. fills = booked + (P + d) + E
      BY <1>3, <2>3
    <2> QED
      BY <1>1, <1>12, <2>2, <2>4
  <1>14. ASSUME NEW i \in 1 .. Len(eq'), eq'[i].type = "timer"
         PROVE  eq'[i].seen.fills <= booked + OrdersIn(pq', Len(pq')) + OrdersIn(eq', i)
    <2>1. i \in 0 .. Len(eq) - 1 /\ i + 1 \in 1 .. Len(eq) /\ eq'[i] = eq[i + 1]
      BY <1>3, <1>5
    <2>2. PICK E \in Nat : E = OrdersIn(eq', i) /\ OrdersIn(eq, i + 1) = E + d
      BY <1>11, <2>1
    <2>3. eq'[i].seen.fills <= booked + P + (E + d)
      BY <1>12, <1>14, <2>1, <2>2 DEF Timed, QueuedFills
    <2>4. booked + P + (E + d) = booked + (P + d) + E
      BY <1>3
    <2> QED
      BY <1>12, <2>2, <2>3, <2>4
  <1>15. ASSUME NEW i \in 1 .. Len(pq'), pq'[i].type = "timer"
         PROVE  pq'[i].seen.fills <= booked + OrdersIn(pq', i)
    <2>1. CASE i = Len(pq) + 1
      <3>1. h.type = "timer" /\ pq'[i] = h /\ d = 0
        BY <1>8, <1>9, <1>15, <2>1
      <3>2. 0 \in 0 .. Len(eq) - 1 /\ 1 \in 1 .. Len(eq)
        BY <1>3, <1>5
      <3>3. OrdersIn(eq, 1) = 0
        <4>1. OrdersIn(eq, 0 + 1) = OrdersIn(eq', 0) + d
          BY <1>11, <3>2
        <4>2. OrdersIn(eq', 0) = 0
          BY OrdersType
        <4> QED
          BY <3>1, <4>1, <4>2
      <3>4. h.seen.fills <= booked + P + 0
        BY <1>6, <1>7, <1>12, <3>1, <3>2, <3>3 DEF Timed, QueuedFills
      <3>5. booked + P + 0 = booked + (P + d)
        BY <1>3, <3>1
      <3> QED
        BY <1>9, <1>12, <2>1, <3>1, <3>4, <3>5
    <2>2. CASE i # Len(pq) + 1
      <3>1. i \in 1 .. Len(pq) /\ i \in 0 .. Len(pq)
        BY <1>3, <1>9, <2>2
      <3>2. pq'[i] = pq[i] /\ OrdersIn(pq', i) = OrdersIn(pq, i)
        BY <1>9, <1>10, <3>1
      <3> QED
        BY <1>15, <3>1, <3>2 DEF Timed, QueuedFills
    <2> QED
      BY <2>1, <2>2
  <1> QED
    BY <1>1, <1>13, <1>14, <1>15 DEF QueuedFills

(* Portfolio's thread takes an event, and books it if it is an order. *)
LEMMA FillsTaken ==
    ASSUME Reported, Timed, pq # << >>, pq' = Tail(pq), UNCHANGED <<eq, fills>>,
           booked' = booked + (IF Head(pq).type = "order_data" THEN 1 ELSE 0)
    PROVE  /\ QueuedFills'
           /\ Head(pq).type = "timer" => booked' >= Head(pq).seen.fills
  <1>1. pq \in Seq(OrderEvents \cup Timers)
    BY OrdersType
  <1>2. Len(eq) \in Nat /\ Len(pq) \in Nat /\ booked \in Nat
    BY OrdersType
  <1>3. /\ Len(pq) >= 1 /\ Len(pq') = Len(pq) - 1
        /\ \A i \in 1 .. Len(pq) - 1 : pq'[i] = pq[i + 1]
    BY <1>1, Taken
  <1>4. Head(pq) = pq[1] /\ Head(pq) \in OrderEvents \cup Timers
    BY <1>1, Taken
  <1>5. PICK d \in Nat : d = IF Head(pq).type = "order_data" THEN 1 ELSE 0
    OBVIOUS
  <1>6. ASSUME NEW n \in 0 .. Len(pq) - 1
        PROVE  OrdersIn(pq, n + 1) = OrdersIn(pq', n) + d /\ OrdersIn(pq', n) \in Nat
    <2>1. OrdersIn(pq, n + 1) = OrdersIn(pq', n) + d
      BY <1>1, <1>5, OrdersTaken
    <2>2. n \in Nat /\ n \in 0 .. n
      BY <1>2
    <2>3. OrdersIn(pq', n) \in Nat
      BY <2>2, OrdersCounted
    <2> QED
      BY <2>1, <2>3
  <1>7. booked' = booked + d
    BY <1>5
  <1>8. booked' + OrdersIn(pq', Len(pq')) = booked + OrdersIn(pq, Len(pq))
    <2>1. Len(pq') \in 0 .. Len(pq) - 1 /\ Len(pq') + 1 = Len(pq)
      BY <1>2, <1>3
    <2>2. PICK P \in Nat : P = OrdersIn(pq', Len(pq')) /\ OrdersIn(pq, Len(pq)) = P + d
      BY <1>6, <2>1
    <2>3. (booked + d) + P = booked + (P + d)
      BY <1>2
    <2> QED
      BY <1>7, <2>2, <2>3
  <1>9. fills' = booked' + OrdersIn(pq', Len(pq')) + OrdersIn(eq', Len(eq'))
    BY <1>8 DEF Timed, QueuedFills
  <1>10. ASSUME NEW i \in 1 .. Len(eq'), eq'[i].type = "timer"
         PROVE  eq'[i].seen.fills <= booked' + OrdersIn(pq', Len(pq')) + OrdersIn(eq', i)
    BY <1>8, <1>10 DEF Timed, QueuedFills
  <1>11. ASSUME NEW i \in 1 .. Len(pq'), pq'[i].type = "timer"
         PROVE  pq'[i].seen.fills <= booked' + OrdersIn(pq', i)
    <2>1. i \in 0 .. Len(pq) - 1 /\ i + 1 \in 1 .. Len(pq) /\ pq'[i] = pq[i + 1]
      BY <1>2, <1>3
    <2>2. PICK P \in Nat : P = OrdersIn(pq', i) /\ OrdersIn(pq, i + 1) = P + d
      BY <1>6, <2>1
    <2>3. pq'[i].seen.fills <= booked + (P + d)
      BY <1>11, <2>1, <2>2 DEF Timed, QueuedFills
    <2>4. (booked + d) + P = booked + (P + d)
      BY <1>2
    <2> QED
      BY <1>7, <2>2, <2>3, <2>4
  <1>12. ASSUME Head(pq).type = "timer" PROVE booked' >= Head(pq).seen.fills
    <2>1. d = 0
      BY <1>5, <1>12
    <2>2. 0 \in 0 .. Len(pq) - 1 /\ 1 \in 1 .. Len(pq)
      BY <1>2, <1>3
    <2>3. OrdersIn(pq, 1) = 0
      <3>1. OrdersIn(pq, 0 + 1) = OrdersIn(pq', 0) + d
        BY <1>6, <2>2
      <3>2. OrdersIn(pq', 0) = 0
        BY OrdersType
      <3> QED
        BY <2>1, <3>1, <3>2
    <2>4. Head(pq).seen.fills <= booked + 0
      BY <1>4, <1>12, <2>2, <2>3 DEF Timed, QueuedFills
    <2>5. Head(pq).seen.fills \in Nat
      BY <1>4, <1>12, PortfolioEvents
    <2> QED
      BY <1>2, <1>7, <2>1, <2>4, <2>5
  <1> QED
    BY <1>9, <1>10, <1>11, <1>12 DEF QueuedFills

(* Steps that touch neither queue, nor the books. *)
LEMMA TimedQuiet ==
    ASSUME Timed, HasStays, UNCHANGED <<aq, pq, eq, fills, hand, booked, replays>>,
           pcM = "time" => pcM' = "time",
           pcP' \in {"idle", "algos", "positions"}, pcP' # "idle" => pcP # "idle"
    PROVE  Timed'
  <1>1. TimedType'
    BY DEF Timed, TimedType
  <1>2. TimersArrived'
    BY ArrivalsKept
  <1>3. QueuedFills'
    BY DEF Timed, QueuedFills
  <1>4. TimerInHand'
    BY HandKept
  <1> QED
    BY <1>1, <1>2, <1>3, <1>4 DEF Timed

(* Steps that append an event to the event engine's queue. *)
LEMMA TimedAppended ==
    ASSUME Reported, Timed, HasStays, NEW e \in Events, eq' = Append(eq, e),
           UNCHANGED <<pcM, portVars, aq>>,
           fills' = fills + (IF e.type = "order_data" THEN 1 ELSE 0),
           e.type = "timer" => e.seen.fills = fills
    PROVE  Timed'
  <1>1. UNCHANGED <<aq, pq, hand, pcP, booked, replays>>
    BY DEF portVars, books
  <1>2. TimedType'
    BY <1>1 DEF Timed, TimedType
  <1>3. TimersArrived'
    BY <1>1, ArrivalsKept
  <1>4. QueuedFills'
    BY <1>1, FillsAppended
  <1>5. TimerInHand'
    BY <1>1, HandKept
  <1> QED
    BY <1>2, <1>3, <1>4, <1>5 DEF Timed

(* A timer is sent: it has seen every fill so far. *)
LEMMA TimedTimer ==
    ASSUME Reported, Timed, HasStays, send_timer
    PROVE  Timed'
  <1> DEFINE e == [type |-> "timer", sec |-> now % 60,
                   seen |-> [trades |-> trades, fills |-> fills]]
  <1>1. eq' = Append(eq, e) /\ UNCHANGED <<pcM, portVars, aq, fills>>
    BY DEF send_timer, apiVars
  <1>2. e \in Events
    <2>1. now % 60 \in 0 .. 59
      BY ClockRuns DEF Reported, ReportedType
    <2>2. [trades |-> trades, fills |-> fills] \in Seen
      BY DEF Reported, ReportedType, Seen
    <2> QED
      BY <2>1, <2>2 DEF Events, Timers
  <1>3. e.type = "timer" /\ e.seen.fills = fills
    OBVIOUS
  <1>4. fills + 0 = fills
    BY BoundsAreNat DEF Reported, ReportedType
  <1> HIDE DEF e
  <1> QED
    BY <1>1, <1>2, <1>3, <1>4, TimedAppended

(* A tick is sent. *)
LEMMA TimedTick ==
    ASSUME Reported, Timed, HasStays, NEW s \in Symbols, NEW price \in Prices,
           on_tick(s, price), UNCHANGED <<pcM, portVars, aq, fills>>
    PROVE  Timed'
  <1> DEFINE e == [type |-> "tick_data", symbol |-> s, last_price |-> price]
  <1>1. eq' = Append(eq, e) /\ e.type = "tick_data"
    BY DEF on_tick
  <1>2. e \in Events
    BY DEF Events, TickEvents
  <1>3. fills + 0 = fills
    BY BoundsAreNat DEF Reported, ReportedType
  <1> HIDE DEF e
  <1> QED
    BY <1>1, <1>2, <1>3, TimedAppended

(* A fill is reported: one more, and in the queue. *)
LEMMA TimedOrder ==
    ASSUME Reported, Timed, HasStays, NEW p \in Positions, NEW qty \in {-1, 1},
           orderStatus(p, qty)
    PROVE  Timed'
  <1> DEFINE e == [type |-> "order_data", position |-> p, qty |-> qty,
                   px |-> trades[MktSym(p[1], p[2])]]
  <1>1. eq' = Append(eq, e) /\ UNCHANGED <<pcM, portVars, aq>> /\ fills' = fills + 1
    BY DEF orderStatus, mainVars
  <1>2. e.type = "order_data"
    OBVIOUS
  <1>3. e \in Events
    <2>1. MktSym(p[1], p[2]) \in Symbols
      BY MktSymType DEF Positions
    <2>2. trades[MktSym(p[1], p[2])] \in Prices
      BY <2>1 DEF Reported, ReportedType
    <2> QED
      BY <2>2 DEF Events, OrderEvents
  <1> HIDE DEF e
  <1> QED
    BY <1>1, <1>2, <1>3, TimedAppended

(* A tick is filed. *)
LEMMA TimedFiled ==
    ASSUME Reported, Timed, HasStays, update_ticks
    PROVE  Timed'
  <1>1. UNCHANGED <<aq, pq, hand, pcP, booked, replays, pcM>>
    BY DEF update_ticks, Handles, books, mainVars
  <1>2. TimedType'
    BY <1>1 DEF Timed, TimedType
  <1>3. TimersArrived'
    BY <1>1, ArrivalsKept
  <1>4. QueuedFills'
    BY FillsFiled
  <1>5. TimerInHand'
    BY <1>1, HandKept
  <1> QED
    BY <1>2, <1>3, <1>4, <1>5 DEF Timed

(* A timer that is sent on was the head of the queue: its ticks are filed. *)
LEMMA TimedSent ==
    ASSUME Reported, Timed, HasStays, ToQueues
    PROVE  Timed'
  <1>1. /\ eq # << >> /\ Head(eq).type \in {"order_data", "timer"}
        /\ pq' = Append(pq, Head(eq))
        /\ aq' = IF Head(eq).type = "timer" /\ Head(eq).sec \in {0, 30} THEN Append(aq, Head(eq)) ELSE aq
        /\ UNCHANGED <<hand, pcP, booked, replays, pcM, last_ticks>>
    BY DEF ToQueues, Handles, books, mainVars, ToAlgoEngine
  <1>2. eq \in Seq(Events) /\ pq \in Seq(OrderEvents \cup Timers) /\ aq \in Seq(Timers)
    BY DEF Reported, ReportedType, Timed, TimedType
  <1>3. Head(eq) = eq[1] /\ Head(eq) \in Events /\ 1 \in 1 .. Len(eq)
    BY <1>1, <1>2, Taken
  <1>4. PICK h \in OrderEvents \cup Timers : h = Head(eq)
    BY <1>1, <1>3, EventKinds
  <1>5. h.type = "timer" => h \in Timers
    BY PortfolioEvents
  <1>6. ASSUME h.type = "timer" PROVE pcM = "time" /\ Arrived(h)
    <2>1. pcM = "time" /\ \A s \in Symbols : TicksBefore(1, s)
      BY <1>3, <1>4, <1>6 DEF Reported, TimersBehindTicks
    <2>2. ASSUME NEW s \in Symbols PROVE h.seen.trades[s] = 0 \/ Has(s, h.seen.trades[s])
      <3>1. \A j \in TicksQueued(s) : ~(j < 1)
        BY <1>2, LenProperties DEF TicksQueued
      <3> QED
        BY <1>3, <1>4, <2>1, <3>1 DEF TicksBefore
    <2> QED
      BY <2>1, <2>2 DEF Arrived
  <1>7. \A e : Arrived(e) => Arrived(e)'
    BY <1>1 DEF Arrived, Has
  <1>8. /\ pq' \in Seq(OrderEvents \cup Timers)
        /\ Len(pq') = Len(pq) + 1
        /\ \A i \in 1 .. Len(pq) : pq'[i] = pq[i]
        /\ pq'[Len(pq) + 1] = h
        /\ Len(pq) \in Nat
    BY <1>1, <1>2, <1>4, Appended
  <1>9. /\ aq' \in Seq(Timers) /\ Len(aq') \in Nat
        /\ \A i \in 1 .. Len(aq') : \/ i \in 1 .. Len(aq) /\ aq'[i] = aq[i]
                                    \/ aq'[i] = h /\ h.type = "timer"
    <2>1. CASE aq' = aq
      BY <1>2, <2>1, LenProperties
    <2>2. CASE aq' = Append(aq, h) /\ h.type = "timer"
      <3>1. /\ aq' \in Seq(Timers)
            /\ Len(aq') = Len(aq) + 1
            /\ \A i \in 1 .. Len(aq) : aq'[i] = aq[i]
            /\ aq'[Len(aq) + 1] = h
            /\ Len(aq) \in Nat
        BY <1>2, <1>5, <2>2, Appended
      <3> QED
        BY <2>2, <3>1
    <2> QED
      BY <1>1, <1>4, <2>1, <2>2
  <1>10. TimedType'
    BY <1>1, <1>8, <1>9 DEF Timed, TimedType
  <1>11. TimersArrived'
    <2>1. ASSUME NEW i \in 1 .. Len(pq'), pq'[i].type = "timer" PROVE Arrived(pq[i])'
      <3>1. PICK e : e = pq'[i]
        OBVIOUS
      <3>2. i \in 1 .. Len(pq) \/ i = Len(pq) + 1
        BY <1>8
      <3>3. Arrived(e)
        BY <1>6, <1>8, <2>1, <3>1, <3>2 DEF Timed, TimersArrived
      <3>4. Arrived(e)'
        BY <1>7, <3>3
      <3> QED
        BY <3>1, <3>4 DEF Arrived
    <2>2. ASSUME NEW i \in 1 .. Len(aq') PROVE pcM' = "time" /\ Arrived(aq[i])'
      <3>1. PICK e : e = aq'[i]
        OBVIOUS
      <3>2. pcM = "time" /\ Arrived(e)
        BY <1>6, <1>9, <3>1 DEF Timed, TimersArrived
      <3>3. Arrived(e)'
        BY <1>7, <3>2
      <3> QED
        BY <1>1, <3>1, <3>2, <3>3 DEF Arrived
    <2> QED
      BY <2>1, <2>2 DEF TimersArrived
  <1>12. QueuedFills'
    BY FillsSent
  <1>13. TimerInHand'
    BY <1>1, HandKept
  <1> QED
    BY <1>10, <1>11, <1>12, <1>13 DEF Timed

(* AlgoEngine's thread answers a timer. *)
LEMMA TimedPublish ==
    ASSUME Reported, Timed, HasStays, PublishTick
    PROVE  Timed'
  <1>1. /\ aq # << >> /\ aq' = Tail(aq)
        /\ UNCHANGED <<pq, eq, fills, hand, pcP, booked, replays, pcM, last_ticks>>
    BY DEF PublishTick, mainVars, apiVars, portVars, books
  <1>2. aq \in Seq(Timers)
    BY DEF Timed, TimedType
  <1>3. /\ aq' \in Seq(Timers)
        /\ Len(aq') = Len(aq) - 1 /\ Len(aq) \in Nat
        /\ \A i \in 1 .. Len(aq) - 1 : aq'[i] = aq[i + 1]
    BY <1>1, <1>2, Taken
  <1>4. TimedType'
    BY <1>1, <1>3 DEF Timed, TimedType
  <1>5. TimersArrived'
    <2>1. ASSUME NEW i \in 1 .. Len(aq') PROVE pcM' = "time" /\ Arrived(aq[i])'
      <3>1. i + 1 \in 1 .. Len(aq) /\ aq'[i] = aq[i + 1]
        BY <1>3
      <3>2. pcM = "time" /\ Arrived(aq[i + 1])
        BY <3>1 DEF Timed, TimersArrived
      <3> QED
        BY <1>1, <3>1, <3>2 DEF Arrived, Has
    <2>2. ASSUME NEW i \in 1 .. Len(pq), pq[i].type = "timer" PROVE Arrived(pq[i])'
      BY <1>1, <2>2 DEF Timed, TimersArrived, Arrived, Has
    <2> QED
      BY <1>1, <2>1, <2>2 DEF TimersArrived
  <1>6. QueuedFills'
    BY <1>1 DEF Timed, QueuedFills
  <1>7. TimerInHand'
    BY <1>1, HandKept
  <1> QED
    BY <1>4, <1>5, <1>6, <1>7 DEF Timed

(* Portfolio's thread takes an order, or a timer whose fills are booked. *)
LEMMA TimedHandle ==
    ASSUME Reported, Timed, HandleEvent
    PROVE  Timed'
  <1>1. /\ pcP = "idle" /\ pq # << >> /\ hand' = Head(pq) /\ pq' = Tail(pq)
        /\ UNCHANGED <<pcM, eq, fills, aq, replays, last_ticks>>
    BY DEF HandleEvent, mainVars, apiVars
  <1>2. \/ Head(pq).type = "order_data" /\ booked' = booked + 1 /\ pcP' = "idle"
        \/ Head(pq).type = "timer" /\ booked' = booked /\ pcP' = "algos"
    BY DEF HandleEvent, order_data_cb, BeginValuation, books
  <1>3. pq \in Seq(OrderEvents \cup Timers) /\ booked \in Nat
    BY DEF Timed, TimedType
  <1>4. /\ pq' \in Seq(OrderEvents \cup Timers)
        /\ Len(pq') = Len(pq) - 1 /\ Len(pq) \in Nat /\ Len(pq) >= 1
        /\ \A i \in 1 .. Len(pq) - 1 : pq'[i] = pq[i + 1]
    BY <1>1, <1>3, Taken
  <1>5. PICK h \in OrderEvents \cup Timers : h = Head(pq) /\ h = pq[1]
    BY <1>1, <1>3, Taken
  <1>6. booked' = booked + (IF Head(pq).type = "order_data" THEN 1 ELSE 0)
    BY <1>2, <1>3
  <1>7. QueuedFills' /\ (Head(pq).type = "timer" => booked' >= Head(pq).seen.fills)
    BY <1>1, <1>6, FillsTaken
  <1>8. TimedType'
    <2>1. booked' \in Nat /\ pcP' \in {"idle", "algos", "positions"}
      BY <1>2, <1>3
    <2> QED
      BY <1>1, <1>4, <1>5, <2>1 DEF Timed, TimedType
  <1>9. TimersArrived'
    <2>1. ASSUME NEW i \in 1 .. Len(pq'), pq'[i].type = "timer" PROVE Arrived(pq[i])'
      <3>1. i + 1 \in 1 .. Len(pq) /\ pq'[i] = pq[i + 1]
        BY <1>4
      <3>2. Arrived(pq[i + 1])
        BY <2>1, <3>1 DEF Timed, TimersArrived
      <3> QED
        BY <1>1, <3>1, <3>2 DEF Arrived, Has
    <2>2. ASSUME NEW i \in 1 .. Len(aq) PROVE pcM' = "time" /\ Arrived(aq[i])'
      BY <1>1, <2>2 DEF Timed, TimersArrived, Arrived, Has
    <2> QED
      BY <1>1, <2>1, <2>2 DEF TimersArrived
  <1>10. TimerInHand'
    <2> SUFFICES ASSUME pcP' # "idle" \/ (h # NoEvent /\ h.type = "timer")
                 PROVE  h \in Timers /\ Arrived(hand)' /\ booked' >= h.seen.fills
      BY <1>1, <1>5 DEF TimerInHand
    <2>1. h.type = "timer"
      BY <1>2, <1>5
    <2>2. h \in Timers
      BY <2>1, PortfolioEvents
    <2>3. Arrived(h)
      <3>1. 1 \in 1 .. Len(pq)
        BY <1>4
      <3> QED
        BY <1>5, <2>1, <3>1 DEF Timed, TimersArrived
    <2>4. Arrived(hand)'
      BY <1>1, <1>5, <2>3 DEF Arrived, Has
    <2> QED
      BY <1>5, <1>7, <2>1, <2>2, <2>4
  <1> QED
    BY <1>7, <1>8, <1>9, <1>10 DEF Timed

(* A timer in hand is handled again. *)
LEMMA TimedAgain ==
    ASSUME Timed, HandleAgain
    PROVE  Timed'
  <1>1. /\ hand # NoEvent /\ hand.type = "timer"
        /\ pcP' = "algos" /\ replays' \in 0 .. MaxReplays
        /\ UNCHANGED <<pcM, eq, fills, aq, pq, hand, last_ticks, booked>>
    BY BoundsAreNat DEF HandleAgain, BeginValuation, mainVars, apiVars, books, Timed, TimedType
  <1>2. TimedType'
    BY <1>1 DEF Timed, TimedType
  <1>3. TimersArrived'
    BY <1>1 DEF Timed, TimersArrived, Arrived, Has
  <1>4. QueuedFills'
    BY <1>1 DEF Timed, QueuedFills
  <1>5. TimerInHand'
    BY <1>1 DEF Timed, TimerInHand, Arrived, Has
  <1> QED
    BY <1>2, <1>3, <1>4, <1>5 DEF Timed

(* The second layer is preserved by every step. *)
LEMMA TimedStep ==
    ASSUME Reported, Timed, [Next]_vars
    PROVE  Timed'
  <1>1. HasStays
    BY ReportedStep
  <1> USE <1>1
  <1> DEFINE Quiet == /\ UNCHANGED <<aq, pq, eq, fills, hand, booked, replays>>
                      /\ pcM = "time" => pcM' = "time"
                      /\ pcP' \in {"idle", "algos", "positions"} /\ (pcP' # "idle" => pcP # "idle")
  <1>2. CASE Quiet
    BY <1>2, TimedQuiet
  <1>3. pcP \in {"idle", "algos", "positions"}
    BY DEF Timed, TimedType
  <1>4. CASE MarkSubscribed
    <2>1. Quiet
      BY <1>3, <1>4 DEF MarkSubscribed, apiVars, portVars, books
    <2> QED
      BY <1>2, <2>1
  <1>5. CASE FileIds
    <2>1. Quiet
      BY <1>3, <1>5 DEF FileIds, portVars, books
    <2> QED
      BY <1>2, <2>1
  <1>6. CASE reqTickByTickData
    <2>1. Quiet
      BY <1>3, <1>6 DEF reqTickByTickData, portVars, books
    <2> QED
      BY <1>2, <2>1
  <1>7. CASE BeginTimers
    <2>1. Quiet
      BY <1>3, <1>7 DEF BeginTimers, apiVars, portVars, books
    <2> QED
      BY <1>2, <2>1
  <1>8. CASE Elapse
    <2>1. Quiet
      BY <1>3, <1>8 DEF Elapse, apiVars, portVars, books
    <2> QED
      BY <1>2, <2>1
  <1>9. CASE send_timer
    BY <1>9, TimedTimer
  <1>10. ASSUME NEW s \in Symbols, tickByTickAllLast(s) PROVE Timed'
    <2>1. trades'[s] \in Prices
      BY <1>10, ReportedLast DEF Reported, ReportedType
    <2>2. PICK price \in Prices : price = trades'[s]
      BY <2>1
    <2>3. on_tick(s, price) /\ UNCHANGED <<pcM, portVars, aq, fills>>
      BY <1>10, <2>2 DEF tickByTickAllLast, mainVars, on_tick
    <2> QED
      BY <2>3, TimedTick
  <1>11. ASSUME NEW s \in Symbols, tickByTickBidAsk(s) PROVE Timed'
    <2>1. ticks[s] = trades[s] /\ trades[s] \in Prices
      BY <1>11 DEF Reported, ReportedType, Subscribing, tickByTickBidAsk
    <2>2. PICK price \in Prices : price = ticks[s]
      BY <2>1
    <2>3. on_tick(s, price) /\ UNCHANGED <<pcM, portVars, aq, fills>>
      BY <1>11, <2>2 DEF tickByTickBidAsk, mainVars, on_tick
    <2> QED
      BY <2>3, TimedTick
  <1>12. ASSUME NEW p \in Positions, NEW qty \in {-1, 1}, orderStatus(p, qty) PROVE Timed'
    BY <1>12, TimedOrder
  <1>13. CASE update_ticks
    BY <1>13, TimedFiled
  <1>14. CASE ToQueues
    BY <1>14, TimedSent
  <1>15. CASE PublishTick
    BY <1>15, TimedPublish
  <1>16. CASE HandleEvent
    BY <1>16, TimedHandle
  <1>17. CASE HandleAgain
    BY <1>17, TimedAgain
  <1>18. ASSUME NEW a \in Algos, BeginAlgo(a) PROVE Timed'
    <2>1. Quiet
      BY <1>18 DEF BeginAlgo, mainVars, apiVars, books
    <2> QED
      BY <1>2, <2>1
  <1>19. ASSUME NEW s \in Symbols, ValuePosition(s) PROVE Timed'
    <2>1. Quiet
      BY <1>3, <1>19 DEF ValuePosition, mainVars, apiVars, books
    <2> QED
      BY <1>2, <2>1
  <1>20. CASE EndAlgo
    <2>1. Quiet
      BY <1>20 DEF EndAlgo, mainVars, apiVars, books
    <2> QED
      BY <1>2, <2>1
  <1>21. CASE EndValuation
    <2>1. Quiet
      BY <1>21 DEF EndValuation, mainVars, apiVars, books
    <2> QED
      BY <1>2, <2>1
  <1>22. CASE UNCHANGED vars
    <2>1. Quiet
      BY <1>3, <1>22 DEF vars, mainVars, apiVars, portVars, books
    <2> QED
      BY <1>2, <2>1
  <1> HIDE DEF Quiet
  <1> QED
    BY <1>4, <1>5, <1>6, <1>7, <1>8, <1>9, <1>10, <1>11, <1>12, <1>13, <1>14, <1>15, <1>16,
       <1>17, <1>18, <1>19, <1>20, <1>21, <1>22 DEF Next

(* At any moment after a timer that AlgoEngine has in its queue was sent,  *)
(* the tick it would publish is there and is no older than the timer       *)
(* (event_engine_timer_cb, timer_cb, update_ticks).                        *)
THEOREM PublishedIsCurrent == Spec => []PublishedCurrent
  <1>1. Init => Reported /\ Timed
    BY ReportedInit, TimedInit
  <1>2. Reported /\ Timed /\ [Next]_vars => Reported' /\ Timed'
    BY ReportedStep, TimedStep
  <1>3. Reported /\ Timed => PublishedCurrent
    <2> SUFFICES ASSUME Reported, Timed, aq # << >>
                 PROVE  /\ last_ticks[mkt_data_symbol] # NoTick
                        /\ last_ticks[mkt_data_symbol] >= Head(aq).seen.trades[mkt_data_symbol]
      BY DEF PublishedCurrent
    <2>1. Head(aq) = aq[1] /\ Head(aq) \in Timers /\ 1 \in 1 .. Len(aq)
      BY Taken DEF Timed, TimedType
    <2>2. pcM = "time" /\ Arrived(Head(aq))
      BY <2>1 DEF Timed, TimersArrived
    <2>3. mkt_data_symbol \in Symbols /\ last_ticks[mkt_data_symbol] # NoTick
      <3>1. tosub = << >> => Range(tosub) = {}
        BY DEF Range
      <3> QED
        BY <2>2, <3>1 DEF Reported, Subscribing
    <2>4. last_ticks[mkt_data_symbol] \in Prices
      BY <2>3 DEF Reported, ReportedType
    <2>5. CASE Head(aq).seen.trades[mkt_data_symbol] = 0
      BY <2>3, <2>4, <2>5, BoundsAreNat DEF Prices
    <2>6. CASE Has(mkt_data_symbol, Head(aq).seen.trades[mkt_data_symbol])
      BY <2>6 DEF Has
    <2> QED
      BY <2>2, <2>3, <2>5, <2>6 DEF Arrived
  <1> QED
    BY <1>1, <1>2, <1>3, PTL DEF Spec
-----------------------------------------------------------------------------
(* What an algo's positions in S are worth, and the sum of the algos' PnLs *)
(* in S.                                                                   *)
PartWorth(ps, cs, us, a, S) ==
    IF \E s \in S : us[<<a, s>>] = NoTick THEN UnsetDouble
    ELSE SumFunctionOnSet([s \in Held[a] |-> ps[<<a, s>>] * us[<<a, s>>] - cs[<<a, s>>]], S)

PartSum(pnls, S) ==
    IF \E a \in S : pnls[a] = UnsetDouble THEN UnsetDouble ELSE SumFunctionOnSet(pnls, S)

(* No positions, no worth; no algos, no sum. *)
LEMMA PartsEmpty ==
    /\ \A ps, cs, us, a : PartWorth(ps, cs, us, a, {}) = 0
    /\ \A pnls : PartSum(pnls, {}) = 0
  BY SumEmpty DEF PartWorth, PartSum

(* The worth depends on the prices used over S only. *)
LEMMA PartWorthSame ==
    ASSUME NEW ps, NEW cs, NEW us, NEW vs, NEW a \in Algos, NEW S, S \subseteq Held[a],
           \A s \in S : us[<<a, s>>] = vs[<<a, s>>]
    PROVE  PartWorth(ps, cs, us, a, S) = PartWorth(ps, cs, vs, a, S)
  <1> DEFINE f == [s \in Held[a] |-> ps[<<a, s>>] * us[<<a, s>>] - cs[<<a, s>>]]
             g == [s \in Held[a] |-> ps[<<a, s>>] * vs[<<a, s>>] - cs[<<a, s>>]]
  <1>1. \A s \in S : f[s] = g[s]
    OBVIOUS
  <1>2. IsFiniteSet(S)
    BY HeldAreSymbols, PartsAreFinite, FS_Subset
  <1>3. SumFunctionOnSet(f, S) = SumFunctionOnSet(g, S)
    <2> HIDE DEF f, g
    <2> QED
      BY <1>1, <1>2, SumSame
  <1> QED
    BY <1>3 DEF PartWorth

(* The sum depends on the PnLs over S only. *)
LEMMA PartSumSame ==
    ASSUME NEW pnls, NEW qnls, NEW S \in SUBSET Algos, \A a \in S : pnls[a] = qnls[a]
    PROVE  PartSum(pnls, S) = PartSum(qnls, S)
  <1>1. IsFiniteSet(S)
    BY PartsAreFinite, FS_Subset
  <1>2. SumFunctionOnSet(pnls, S) = SumFunctionOnSet(qnls, S)
    BY <1>1, SumSame
  <1> QED
    BY <1>2 DEF PartSum

(* The worth with one position more. *)
LEMMA PartWorthAdd ==
    ASSUME NEW ps \in [Positions -> Int], NEW cs \in [Positions -> Int],
           NEW us \in [Positions -> Prices \cup {NoTick}],
           NEW a \in Algos, NEW S, S \subseteq Held[a], NEW s \in Held[a], s \notin S
    PROVE  /\ PartWorth(ps, cs, us, a, S) \in Pnl
           /\ PartWorth(ps, cs, us, a, S \cup {s}) =
                 IF us[<<a, s>>] = NoTick \/ PartWorth(ps, cs, us, a, S) = UnsetDouble
                 THEN UnsetDouble
                 ELSE PartWorth(ps, cs, us, a, S) + ps[<<a, s>>] * us[<<a, s>>] - cs[<<a, s>>]
  <1> DEFINE f == [t \in Held[a] |-> ps[<<a, t>>] * us[<<a, t>>] - cs[<<a, t>>]]
             Unset(T) == \E t \in T : us[<<a, t>>] = NoTick
  <1>1. \A t \in Held[a] : <<a, t>> \in Positions
    BY HeldAreSymbols DEF Positions
  <1>2. IsFiniteSet(S)
    BY HeldAreSymbols, PartsAreFinite, FS_Subset
  <1>3. ASSUME NEW t \in Held[a], us[<<a, t>>] # NoTick
        PROVE  /\ f[t] \in Int
               /\ ps[<<a, t>>] * us[<<a, t>>] \in Int /\ cs[<<a, t>>] \in Int
               /\ f[t] = ps[<<a, t>>] * us[<<a, t>>] - cs[<<a, t>>]
    <2>1. us[<<a, t>>] \in Int /\ ps[<<a, t>>] \in Int /\ cs[<<a, t>>] \in Int
      BY <1>1, <1>3, BoundsAreNat DEF Prices
    <2>2. ps[<<a, t>>] * us[<<a, t>>] \in Int
      BY <2>1
    <2> QED
      BY <2>1, <2>2
  <1>4. PartWorth(ps, cs, us, a, S) = IF Unset(S) THEN UnsetDouble ELSE SumFunctionOnSet(f, S)
    BY DEF PartWorth
  <1>5. PartWorth(ps, cs, us, a, S \cup {s}) = IF Unset(S \cup {s}) THEN UnsetDouble
                                               ELSE SumFunctionOnSet(f, S \cup {s})
    BY DEF PartWorth
  <1>6. ~Unset(S) => SumFunctionOnSet(f, S) \in Int
    <2> SUFFICES ASSUME ~Unset(S) PROVE SumFunctionOnSet(f, S) \in Int
      OBVIOUS
    <2>1. \A x \in S : f[x] \in Int
      BY <1>3
    <2> HIDE DEF f
    <2> QED
      BY <1>2, <2>1, SumType
  <1>7. CASE Unset(S) \/ us[<<a, s>>] = NoTick
    BY <1>4, <1>5, <1>6, <1>7 DEF Pnl
  <1>8. CASE ~Unset(S) /\ us[<<a, s>>] # NoTick
    <2>1. \A x \in S \cup {s} : f[x] \in Int
      BY <1>3, <1>8
    <2>2. SumFunctionOnSet(f, S \cup {s}) = f[s] + SumFunctionOnSet(f, S)
      <3> HIDE DEF f
      <3> QED
        BY <1>2, <2>1, SumAdd
    <2>3. /\ f[s] = ps[<<a, s>>] * us[<<a, s>>] - cs[<<a, s>>]
          /\ ps[<<a, s>>] * us[<<a, s>>] \in Int /\ cs[<<a, s>>] \in Int
      BY <1>3, <1>8
    <2>4. PICK v \in Int : v = SumFunctionOnSet(f, S)
      BY <1>6, <1>8
    <2>5. PICK w \in Int : w = ps[<<a, s>>] * us[<<a, s>>]
      BY <2>3
    <2>6. PartWorth(ps, cs, us, a, S) = v /\ v # UnsetDouble
      BY <1>4, <1>8, <2>4, NoneIsANumber
    <2>7. PartWorth(ps, cs, us, a, S \cup {s}) = f[s] + v
      BY <1>5, <1>8, <2>2, <2>4
    <2>8. f[s] + v = v + w - cs[<<a, s>>]
      <3> HIDE DEF f
      <3> QED
        BY <2>3, <2>5
    <2> QED
      BY <1>8, <2>5, <2>6, <2>7, <2>8 DEF Pnl
  <1> QED
    BY <1>7, <1>8

(* The sum with one algo more. *)
LEMMA PartSumAdd ==
    ASSUME NEW pnls \in [Algos -> Pnl], NEW S \in SUBSET Algos, NEW a \in Algos, a \notin S
    PROVE  PartSum(pnls, S \cup {a}) =
              IF UnsetDouble \in {pnls[a], PartSum(pnls, S)} THEN UnsetDouble
              ELSE PartSum(pnls, S) + pnls[a]
  <1> DEFINE Unset(T) == \E b \in T : pnls[b] = UnsetDouble
  <1>1. IsFiniteSet(S)
    BY PartsAreFinite, FS_Subset
  <1>2. \A b \in Algos : pnls[b] # UnsetDouble => pnls[b] \in Int
    BY DEF Pnl
  <1>3. CASE Unset(S) \/ pnls[a] = UnsetDouble
    BY <1>3 DEF PartSum
  <1>4. CASE ~Unset(S) /\ pnls[a] # UnsetDouble
    <2>1. \A b \in S \cup {a} : pnls[b] \in Int
      BY <1>2, <1>4
    <2>2. SumFunctionOnSet(pnls, S \cup {a}) = pnls[a] + SumFunctionOnSet(pnls, S)
      BY <1>1, <2>1, SumAdd
    <2>3. PICK v \in Int : v = SumFunctionOnSet(pnls, S)
      BY <1>1, <2>1, SumType
    <2>4. PartSum(pnls, S) = v /\ v # UnsetDouble
      BY <1>4, <2>3, NoneIsANumber DEF PartSum
    <2>5. PartSum(pnls, S \cup {a}) = pnls[a] + v
      BY <1>4, <2>2, <2>3 DEF PartSum
    <2>6. pnls[a] + v = v + pnls[a]
      BY <2>1
    <2> QED
      BY <1>4, <2>4, <2>5, <2>6
  <1> QED
    BY <1>3, <1>4

ValuedType ==
    /\ left \subseteq Algos
    /\ algo \in Algos
    /\ symsLeft \subseteq Symbols
    /\ used \in [Positions -> Prices \cup {NoTick}]
    /\ pos \in [Positions -> Int] /\ cost \in [Positions -> Int]
    /\ algo_pnl \in [Algos -> Pnl] /\ total_pnl \in Pnl

(* The positions of an algo that the valuation under way is done with. *)
Valued(a) == IF pcP = "positions" /\ a = algo THEN Held[a] \ symsLeft ELSE Held[a]

(* Of the algos that have had their turn, the PnL is the worth of the      *)
(* positions valued so far, and no price used is older than the timer.     *)
ValuedCurrent ==
    pcP # "idle" =>
        \A a \in Algos \ left :
            /\ algo_pnl[a] = PartWorth(pos, cost, used, a, Valued(a))
            /\ \A s \in Valued(a) : used[<<a, s>>] # NoTick =>
                  used[<<a, s>>] >= hand.seen.trades[MktSym(a, s)]

(* The algos whose PnL is in the total. *)
Totalled == CASE pcP = "idle"      -> Algos
              [] pcP = "algos"     -> Algos \ left
              [] pcP = "positions" -> (Algos \ left) \ {algo}

Valuing ==
    /\ ValuedType
    /\ pcP = "positions" => symsLeft \subseteq Held[algo] /\ algo \notin left
    /\ ValuedCurrent
    /\ total_pnl = PartSum(algo_pnl, Totalled)

(* The third layer holds at the start: a sum of zeros. *)
LEMMA ValuingInit == Init => Valuing
  <1> SUFFICES ASSUME Init PROVE Valuing
    OBVIOUS
  <1> USE DEF Init
  <1>1. ValuedType
    <2>1. algo \in Algos
      BY PartsAreFinite
    <2>2. used \in [Positions -> Prices \cup {NoTick}] /\ pos \in [Positions -> Int]
          /\ cost \in [Positions -> Int]
      OBVIOUS
    <2> QED
      BY <2>1, <2>2 DEF ValuedType, Pnl
  <1>2. total_pnl = PartSum(algo_pnl, Totalled)
    <2>1. \A a \in Algos : algo_pnl[a] = 0
      OBVIOUS
    <2>2. SumFunctionOnSet(algo_pnl, Algos) = 0
      BY <2>1, PartsAreFinite, SumZero
    <2>3. Totalled = Algos
      BY DEF Totalled
    <2> QED
      BY <2>1, <2>2, <2>3, NoneIsANumber DEF PartSum
  <1>3. pcP = "idle"
    OBVIOUS
  <1> QED
    BY <1>1, <1>2, <1>3 DEF Valuing, ValuedCurrent

(* Steps of the other threads. *)
LEMMA ValuingUnchanged ==
    ASSUME Valuing, UNCHANGED <<hand, pcP, books, valVars>>
    PROVE  Valuing'
  BY DEF Valuing, ValuedType, ValuedCurrent, Valued, Totalled, books, valVars

(* Portfolio's thread takes a timer, or values for it again. *)
LEMMA ValuingBegin ==
    ASSUME Valuing, BeginValuation
    PROVE  Valuing'
  <1>1. /\ total_pnl' = 0 /\ left' = Algos /\ pcP' = "algos"
        /\ UNCHANGED <<algo, symsLeft, used, algo_pnl, pos, cost>>
    BY DEF BeginValuation, books
  <1>2. ValuedType'
    BY <1>1 DEF Valuing, ValuedType, Pnl
  <1>3. Totalled' = {}
    BY <1>1 DEF Totalled
  <1>4. total_pnl' = PartSum(algo_pnl', Totalled')
    BY <1>1, <1>3, PartsEmpty
  <1>5. ValuedCurrent'
    BY <1>1 DEF ValuedCurrent
  <1> QED
    BY <1>1, <1>2, <1>4, <1>5 DEF Valuing

(* Portfolio's thread takes an event; a position changes between valuations. *)
LEMMA ValuingHandle ==
    ASSUME Timed, Valuing, HandleEvent
    PROVE  Valuing'
  <1>1. CASE hand'.type = "timer" /\ BeginValuation
    BY <1>1, ValuingBegin
  <1>2. CASE hand'.type = "order_data" /\ order_data_cb(hand')
    <2>1. pcP = "idle" /\ pq # << >> /\ hand' = Head(pq)
      BY DEF HandleEvent
    <2>2. pq \in Seq(OrderEvents \cup Timers)
      BY DEF Timed, TimedType
    <2>3. Head(pq) \in OrderEvents \cup Timers
      BY <2>1, <2>2, Taken
    <2>4. Head(pq) \in OrderEvents
      BY <1>2, <2>1, <2>3, PortfolioEvents
    <2>5. PICK e \in OrderEvents : e = Head(pq) /\ e = hand'
      BY <2>1, <2>4
    <2>6. /\ pos' = [pos EXCEPT ![e.position] = @ + e.qty]
          /\ cost' = [cost EXCEPT ![e.position] = @ + e.qty * e.px]
          /\ UNCHANGED <<pcP, valVars>>
      BY <1>2, <2>5 DEF order_data_cb
    <2>7. e.qty \in Int /\ e.qty * e.px \in Int
      <3>1. e.qty \in Int /\ e.px \in Int
        BY BoundsAreNat DEF OrderEvents, Prices
      <3> QED
        BY <3>1
    <2>8. pos' \in [Positions -> Int] /\ cost' \in [Positions -> Int]
      <3>1. PICK d \in Int : d = e.qty * e.px
        BY <2>7
      <3>2. pos \in [Positions -> Int] /\ cost \in [Positions -> Int]
        BY DEF Valuing, ValuedType
      <3>3. \A p \in Positions : pos[p] + e.qty \in Int /\ cost[p] + d \in Int
        BY <2>7, <3>2
      <3> QED
        BY <2>6, <3>1, <3>2, <3>3
    <2>9. ValuedType'
      BY <2>6, <2>8 DEF Valuing, ValuedType, valVars
    <2>10. Totalled' = Totalled
      BY <2>1, <2>6 DEF Totalled
    <2> QED
      BY <2>1, <2>6, <2>9, <2>10 DEF Valuing, ValuedCurrent, valVars
  <1> QED
    BY <1>1, <1>2 DEF HandleEvent

(* timer_cb goes on to another algo: nothing of it is valued yet. *)
LEMMA ValuingAlgo ==
    ASSUME Timed, Valuing, NEW a \in Algos, BeginAlgo(a)
    PROVE  Valuing'
  <1>1. /\ pcP = "algos" /\ a \in left /\ algo' = a /\ left' = left \ {a}
        /\ symsLeft' = Held[a]
        /\ algo_pnl' = [algo_pnl EXCEPT ![a] = 0]
        /\ pcP' = "positions"
        /\ UNCHANGED <<hand, pos, cost, used, total_pnl>>
    BY DEF BeginAlgo, books
  <1>2. ValuedType
    BY DEF Valuing
  <1>3. Held[a] \subseteq Symbols
    BY HeldAreSymbols
  <1>4. ValuedType'
    BY <1>1, <1>2, <1>3 DEF ValuedType, Pnl
  <1>5. algo_pnl'[a] = 0 /\ \A b \in Algos : b # a => algo_pnl'[b] = algo_pnl[b]
    BY <1>1, <1>2 DEF ValuedType
  <1>6. ValuedCurrent'
    <2> SUFFICES ASSUME NEW b \in Algos \ left'
                 PROVE  /\ algo_pnl'[b] = PartWorth(pos, cost, used, b, Valued(b)')
                        /\ \A s \in Valued(b)' : used[<<b, s>>] # NoTick =>
                              used[<<b, s>>] >= hand.seen.trades[MktSym(b, s)]
      BY <1>1 DEF ValuedCurrent
    <2>1. CASE b = a
      <3>1. Valued(b)' = {}
        BY <1>1, <2>1 DEF Valued
      <3> QED
        BY <1>5, <2>1, <3>1, PartsEmpty
    <2>2. CASE b # a
      <3>1. b \in Algos \ left /\ Valued(b)' = Valued(b)
        BY <1>1, <2>2 DEF Valued
      <3> QED
        BY <1>1, <1>5, <2>2, <3>1 DEF Valuing, ValuedCurrent
    <2> QED
      BY <2>1, <2>2
  <1>7. total_pnl' = PartSum(algo_pnl', Totalled')
    <2>1. PICK S \in SUBSET Algos : S = Algos \ left
      OBVIOUS
    <2>2. Totalled = S /\ Totalled' = S
      BY <1>1, <1>2, <2>1 DEF Totalled, ValuedType
    <2>3. \A b \in S : algo_pnl'[b] = algo_pnl[b]
      BY <1>1, <1>5, <2>1
    <2>4. PartSum(algo_pnl', S) = PartSum(algo_pnl, S)
      BY <2>3, PartSumSame
    <2> QED
      BY <1>1, <2>2, <2>4 DEF Valuing
  <1> QED
    BY <1>1, <1>4, <1>6, <1>7 DEF Valuing

(* timer_cb values a position: one more of this algo, the others untouched. *)
LEMMA ValuingPosition ==
    ASSUME Reported, Timed, Valuing, NEW s \in Symbols, ValuePosition(s)
    PROVE  Valuing'
  <1> DEFINE tick == last_ticks[MktSym(algo, s)]
  <1>1. /\ pcP = "positions" /\ s \in symsLeft /\ symsLeft' = symsLeft \ {s}
        /\ used' = [used EXCEPT ![<<algo, s>>] = tick]
        /\ algo_pnl' = [algo_pnl EXCEPT ![algo] =
                IF NoTick = tick \/ UnsetDouble = @ THEN UnsetDouble
                ELSE @ + pos[<<algo, s>>] * tick - cost[<<algo, s>>]]
        /\ UNCHANGED <<hand, pcP, pos, cost, left, algo, total_pnl>>
    BY DEF ValuePosition, books
  <1>2. PICK a \in Algos : a = algo
    BY DEF Valuing, ValuedType
  <1>3. ValuedType /\ symsLeft \subseteq Held[a] /\ a \notin left
    BY <1>1, <1>2 DEF Valuing
  <1>4. s \in Held[a] /\ <<a, s>> \in Positions /\ \A b \in Algos : Held[b] \subseteq Symbols
    BY <1>1, <1>3, HeldAreSymbols DEF Positions
  <1>5. MktSym(a, s) \in Symbols
    BY MktSymType
  <1>6. tick \in Prices \cup {NoTick}
    BY <1>2, <1>5 DEF Reported, ReportedType
  <1>7. tick # NoTick => tick >= hand.seen.trades[MktSym(a, s)]
    <2> SUFFICES ASSUME tick # NoTick PROVE tick >= hand.seen.trades[MktSym(a, s)]
      OBVIOUS
    <2>1. tick \in Nat
      BY <1>6, BoundsAreNat DEF Prices
    <2>2. hand.seen.trades[MktSym(a, s)] = 0 \/ Has(MktSym(a, s), hand.seen.trades[MktSym(a, s)])
      BY <1>1, <1>5 DEF Timed, TimerInHand, Arrived
    <2> QED
      BY <1>2, <2>1, <2>2 DEF Has
  <1> HIDE DEF tick
  <1>8. /\ used' \in [Positions -> Prices \cup {NoTick}]
        /\ used'[<<a, s>>] = tick
        /\ \A p \in Positions : p # <<a, s>> => used'[p] = used[p]
    BY <1>1, <1>2, <1>3, <1>4, <1>6 DEF ValuedType
  <1> DEFINE S == Held[a] \ symsLeft
  <1>9. /\ Valued(a) = S /\ Valued(a)' = S \cup {s} /\ S \subseteq Held[a] /\ s \notin S
        /\ \A b \in Algos : b # a => Valued(b) = Held[b] /\ Valued(b)' = Held[b]
    BY <1>1, <1>2, <1>4 DEF Valued
  <1>10. \A b \in Algos, t \in Symbols : t \in Held[b] => <<b, t>> \in Positions
    BY DEF Positions
  <1>11. PICK ps, cs, us, vs : ps = pos /\ cs = cost /\ us = used /\ vs = used'
    OBVIOUS
  <1>12. ps \in [Positions -> Int] /\ cs \in [Positions -> Int]
    BY <1>3, <1>11 DEF ValuedType
  <1>13. PICK R : R = S
    OBVIOUS
  <1> HIDE DEF S
  <1>14. \A t \in R : us[<<a, t>>] = vs[<<a, t>>]
    <2> TAKE t \in R
    <2>1. t \in Held[a] /\ t # s /\ <<a, t>> \in Positions /\ <<a, t>> # <<a, s>>
      BY <1>4, <1>9, <1>10, <1>13
    <2> QED
      BY <1>8, <1>11, <2>1
  <1>15. PICK w : w = PartWorth(ps, cs, us, a, R) /\ w = PartWorth(ps, cs, vs, a, R)
    BY <1>9, <1>13, <1>14, PartWorthSame
  <1>16. algo_pnl[a] = w
    BY <1>1, <1>3, <1>9, <1>11, <1>13, <1>15 DEF Valuing, ValuedCurrent
  <1>17. /\ w \in Pnl
         /\ PartWorth(ps, cs, vs, a, R \cup {s}) =
               IF tick = NoTick \/ w = UnsetDouble THEN UnsetDouble
               ELSE w + ps[<<a, s>>] * tick - cs[<<a, s>>]
    <2>1. vs \in [Positions -> Prices \cup {NoTick}] /\ vs[<<a, s>>] = tick
      BY <1>8, <1>11
    <2>2. R \subseteq Held[a] /\ s \notin R
      BY <1>9, <1>13
    <2>3. s \in Held[a]
      BY <1>4
    <2>4. /\ PartWorth(ps, cs, vs, a, R) \in Pnl
          /\ PartWorth(ps, cs, vs, a, R \cup {s}) =
                IF vs[<<a, s>>] = NoTick \/ PartWorth(ps, cs, vs, a, R) = UnsetDouble
                THEN UnsetDouble
                ELSE PartWorth(ps, cs, vs, a, R) + ps[<<a, s>>] * vs[<<a, s>>] - cs[<<a, s>>]
      BY <1>12, <2>1, <2>2, <2>3, PartWorthAdd
    <2>5. PartWorth(ps, cs, vs, a, R) = w
      BY <1>15
    <2> QED
      BY <2>1, <2>4, <2>5, Zenon
  <1>18. /\ algo_pnl'[a] = PartWorth(ps, cs, vs, a, R \cup {s})
         /\ \A b \in Algos : b # a => algo_pnl'[b] = algo_pnl[b]
    <2>1. algo_pnl \in [Algos -> Pnl]
      BY <1>3 DEF ValuedType
    <2>2. algo_pnl'[a] = IF NoTick = tick \/ UnsetDouble = algo_pnl[a] THEN UnsetDouble
                         ELSE algo_pnl[a] + pos[<<a, s>>] * tick - cost[<<a, s>>]
      BY <1>1, <1>2, <2>1
    <2>3. \A b \in Algos : b # a => algo_pnl'[b] = algo_pnl[b]
      BY <1>1, <1>2, <2>1
    <2> QED
      BY <1>11, <1>16, <1>17, <2>2, <2>3
  <1>19. algo_pnl' \in [Algos -> Pnl]
    <2>1. algo_pnl'[a] \in Pnl
      <3>1. CASE tick = NoTick \/ w = UnsetDouble
        BY <1>17, <1>18, <3>1 DEF Pnl
      <3>2. CASE ~(tick = NoTick \/ w = UnsetDouble)
        <4>1. w \in Int /\ tick \in Int /\ ps[<<a, s>>] \in Int /\ cs[<<a, s>>] \in Int
          BY <1>4, <1>6, <1>12, <1>17, <3>2, BoundsAreNat DEF Pnl, Prices
        <4>2. PICK m \in Int : m = ps[<<a, s>>] * tick
          BY <4>1
        <4>3. algo_pnl'[a] = w + m - cs[<<a, s>>]
          BY <1>17, <1>18, <3>2, <4>2
        <4>4. w + m - cs[<<a, s>>] \in Int
          BY <4>1, <4>2
        <4> QED
          BY <4>3, <4>4 DEF Pnl
      <3> QED
        BY <3>1, <3>2
    <2>2. algo_pnl \in [Algos -> Pnl] /\ DOMAIN algo_pnl' = Algos
      BY <1>1, <1>3 DEF ValuedType
    <2>3. algo_pnl' = [b \in Algos |-> algo_pnl'[b]]
      BY <1>1, <2>2
    <2>4. \A b \in Algos : algo_pnl'[b] \in Pnl
      BY <1>18, <2>1, <2>2
    <2> QED
      BY <2>3, <2>4
  <1>20. ValuedType'
    BY <1>1, <1>3, <1>8, <1>19 DEF ValuedType
  <1>21. ValuedCurrent'
    <2> SUFFICES ASSUME NEW b \in Algos \ left
                 PROVE  /\ algo_pnl'[b] = PartWorth(ps, cs, vs, b, Valued(b)')
                        /\ \A t \in Valued(b)' : vs[<<b, t>>] # NoTick =>
                              vs[<<b, t>>] >= hand.seen.trades[MktSym(b, t)]
      BY <1>1, <1>11 DEF ValuedCurrent
    <2>1. /\ algo_pnl[b] = PartWorth(ps, cs, us, b, Valued(b))
          /\ \A t \in Valued(b) : us[<<b, t>>] # NoTick =>
                us[<<b, t>>] >= hand.seen.trades[MktSym(b, t)]
      BY <1>1, <1>11 DEF Valuing, ValuedCurrent
    <2>2. CASE b = a
      <3>1. Valued(b)' = R \cup {s} /\ Valued(b) = R
        BY <1>9, <1>13, <2>2
      <3>2. ASSUME NEW t \in R \cup {s}, vs[<<b, t>>] # NoTick
            PROVE  vs[<<b, t>>] >= hand.seen.trades[MktSym(b, t)]
        <4>1. CASE t = s
          BY <1>7, <1>8, <1>11, <2>2, <3>2, <4>1
        <4>2. CASE t # s
          BY <1>14, <2>1, <2>2, <3>1, <3>2, <4>2
        <4> QED
          BY <4>1, <4>2
      <3> QED
        BY <1>18, <2>2, <3>1, <3>2
    <2>3. CASE b # a
      <3>1. Valued(b)' = Held[b] /\ Valued(b) = Held[b]
        BY <1>9, <2>3
      <3>2. \A t \in Held[b] : us[<<b, t>>] = vs[<<b, t>>]
        <4> TAKE t \in Held[b]
        <4>1. <<b, t>> \in Positions /\ <<b, t>> # <<a, s>>
          BY <1>4, <1>10, <2>3
        <4> QED
          BY <1>8, <1>11, <4>1
      <3>3. PartWorth(ps, cs, us, b, Held[b]) = PartWorth(ps, cs, vs, b, Held[b])
        BY <3>2, PartWorthSame
      <3> QED
        BY <1>18, <2>1, <2>3, <3>1, <3>2, <3>3
    <2> QED
      BY <2>2, <2>3
  <1>22. total_pnl' = PartSum(algo_pnl', Totalled')
    <2>1. PICK T \in SUBSET Algos : T = (Algos \ left) \ {a}
      OBVIOUS
    <2>2. Totalled = T /\ Totalled' = T
      BY <1>1, <1>2, <2>1 DEF Totalled
    <2>3. \A b \in T : algo_pnl'[b] = algo_pnl[b]
      BY <1>18, <2>1
    <2>4. PartSum(algo_pnl', T) = PartSum(algo_pnl, T)
      BY <2>3, PartSumSame
    <2> QED
      BY <1>1, <2>2, <2>4 DEF Valuing
  <1> QED
    BY <1>1, <1>2, <1>3, <1>20, <1>21, <1>22 DEF Valuing

(* timer_cb adds an algo's PnL to the total. *)
LEMMA ValuingEndAlgo ==
    ASSUME Timed, Valuing, EndAlgo
    PROVE  Valuing'
  <1>1. /\ pcP = "positions" /\ symsLeft = {} /\ pcP' = "algos"
        /\ total_pnl' = IF UnsetDouble \in {algo_pnl[algo], total_pnl} THEN UnsetDouble
                        ELSE total_pnl + algo_pnl[algo]
        /\ UNCHANGED <<hand, pos, cost, left, algo, symsLeft, used, algo_pnl>>
    BY DEF EndAlgo, books
  <1>2. ValuedType /\ algo \notin left
    BY <1>1 DEF Valuing
  <1>3. PICK a \in Algos : a = algo
    BY <1>2 DEF ValuedType
  <1>4. PICK S \in SUBSET Algos : S = (Algos \ left) \ {a}
    OBVIOUS
  <1>5. a \notin S /\ Totalled = S /\ Totalled' = S \cup {a}
    BY <1>1, <1>2, <1>3, <1>4 DEF Totalled
  <1>6. total_pnl = PartSum(algo_pnl, S)
    BY <1>5 DEF Valuing
  <1>7. PICK pnls \in [Algos -> Pnl] : pnls = algo_pnl
    BY <1>2 DEF ValuedType
  <1>8. total_pnl' = PartSum(algo_pnl', Totalled')
    <2>1. PartSum(pnls, S \cup {a}) = IF UnsetDouble \in {pnls[a], PartSum(pnls, S)} THEN UnsetDouble
                                      ELSE PartSum(pnls, S) + pnls[a]
      BY <1>5, PartSumAdd
    <2>2. total_pnl' = IF UnsetDouble \in {pnls[a], PartSum(pnls, S)} THEN UnsetDouble
                       ELSE PartSum(pnls, S) + pnls[a]
      BY <1>1, <1>3, <1>6, <1>7
    <2>3. total_pnl' = PartSum(pnls, S \cup {a})
      BY <2>1, <2>2
    <2> QED
      BY <1>1, <1>5, <1>7, <2>3
  <1>9. total_pnl' \in Pnl
    <2>1. CASE UnsetDouble \in {algo_pnl[algo], total_pnl}
      BY <1>1, <2>1 DEF Pnl
    <2>2. CASE ~(UnsetDouble \in {algo_pnl[algo], total_pnl})
      <3>1. algo_pnl[algo] \in Int /\ total_pnl \in Int
        BY <1>2, <2>2 DEF ValuedType, Pnl
      <3>2. total_pnl' = total_pnl + algo_pnl[algo]
        BY <1>1, <2>2
      <3> QED
        BY <3>1, <3>2 DEF Pnl
    <2> QED
      BY <2>1, <2>2
  <1>10. ValuedType'
    BY <1>1, <1>2, <1>9 DEF ValuedType
  <1>11. \A b \in Algos : Valued(b)' = Valued(b)
    BY <1>1 DEF Valued
  <1>12. ValuedCurrent'
    BY <1>1, <1>11 DEF Valuing, ValuedCurrent
  <1> QED
    BY <1>1, <1>8, <1>10, <1>12 DEF Valuing

(* timer_cb is done. *)
LEMMA ValuingEnd ==
    ASSUME Valuing, EndValuation
    PROVE  Valuing'
  <1>1. /\ pcP = "algos" /\ left = {} /\ pcP' = "idle"
        /\ UNCHANGED <<hand, pos, cost, left, algo, symsLeft, used, algo_pnl, total_pnl>>
    BY DEF EndValuation, books, valVars
  <1>2. ValuedType'
    BY <1>1 DEF Valuing, ValuedType
  <1>3. Totalled' = Totalled
    BY <1>1 DEF Totalled
  <1> QED
    BY <1>1, <1>2, <1>3 DEF Valuing, ValuedCurrent

(* The third layer is preserved by every step. *)
LEMMA ValuingStep ==
    ASSUME Reported, Timed, Valuing, [Next]_vars
    PROVE  Valuing'
  <1>1. CASE UNCHANGED <<hand, pcP, books, valVars>>
    BY <1>1, ValuingUnchanged
  <1>2. CASE \/ MarkSubscribed \/ FileIds \/ reqTickByTickData \/ BeginTimers
            \/ send_timer \/ Elapse
    BY <1>1, <1>2 DEF MarkSubscribed, FileIds, reqTickByTickData, BeginTimers, send_timer,
                      Elapse, portVars
  <1>3. CASE \/ \E s \in Symbols : tickByTickAllLast(s) \/ tickByTickBidAsk(s)
            \/ \E p \in Positions : \E qty \in {-1, 1} : orderStatus(p, qty)
    BY <1>1, <1>3 DEF tickByTickAllLast, tickByTickBidAsk, orderStatus, portVars
  <1>4. CASE update_ticks \/ ToQueues \/ PublishTick
    BY <1>1, <1>4 DEF update_ticks, ToQueues, PublishTick, Handles, portVars
  <1>5. CASE HandleEvent
    BY <1>5, ValuingHandle
  <1>6. CASE HandleAgain
    BY <1>6, ValuingBegin DEF HandleAgain
  <1>7. CASE \E a \in Algos : BeginAlgo(a)
    BY <1>7, ValuingAlgo
  <1>8. CASE \E s \in Symbols : ValuePosition(s)
    BY <1>8, ValuingPosition
  <1>9. CASE EndAlgo
    BY <1>9, ValuingEndAlgo
  <1>10. CASE EndValuation
    BY <1>10, ValuingEnd
  <1>11. CASE UNCHANGED vars
    BY <1>1, <1>11 DEF vars, portVars
  <1> QED
    BY <1>2, <1>3, <1>4, <1>5, <1>6, <1>7, <1>8, <1>9, <1>10, <1>11 DEF Next

ValuationInv == Reported /\ Timed /\ Valuing

(* The three layers together are inductive. *)
LEMMA ValuationInvariant == Spec => []ValuationInv
  <1>1. Init => ValuationInv
    BY ReportedInit, TimedInit, ValuingInit DEF ValuationInv
  <1>2. ValuationInv /\ [Next]_vars => ValuationInv'
    BY ReportedStep, TimedStep, ValuingStep DEF ValuationInv
  <1> QED
    BY <1>1, <1>2, PTL DEF Spec

(* The state has the types of the code's: no fill is booked that was not   *)
(* reported, a tick that is sent on has a price, and a PnL is a number or  *)
(* unset.                                                                  *)
THEOREM ValuationTypeCorrect == Spec => []TypeOK
  <1>1. ValuationInv => TypeOK
    <2> SUFFICES ASSUME ValuationInv PROVE TypeOK
      OBVIOUS
    <2> USE DEF ValuationInv
    <2>1. booked \in 0 .. MaxFills
      <3>1. /\ fills \in 0 .. MaxFills /\ booked \in Nat
            /\ fills = booked + OrdersIn(pq, Len(pq)) + OrdersIn(eq, Len(eq))
        BY DEF Reported, ReportedType, Timed, TimedType, QueuedFills
      <3>2. OrdersIn(pq, Len(pq)) \in Nat /\ OrdersIn(eq, Len(eq)) \in Nat
        BY OrdersType
      <3> QED
        BY <3>1, <3>2, BoundsAreNat
    <2>2. eq \in Seq(TickEvents \cup OrderEvents \cup Timers)
      BY DEF Reported, ReportedType, Events
    <2> QED
      BY <2>1, <2>2 DEF TypeOK, Reported, ReportedType, Timed, TimedType, Valuing, ValuedType
  <1> QED
    BY <1>1, ValuationInvariant, PTL

(* When timer_cb is done with a timer, every PnL is the worth of the       *)
(* positions, with the fills reported before the timer was sent, at prices *)
(* no older than the timer (update_ticks, event_engine_timer_cb,           *)
(* run_actions, timer_cb).                                                 *)
THEOREM PnlIsCurrent == Spec => []PnlCurrent
  <1>1. ValuationInv => PnlCurrent
    <2> SUFFICES ASSUME ValuationInv, pcP = "algos", left = {}
                 PROVE  /\ \A a \in Algos : algo_pnl[a] = Worth(a)
                        /\ booked >= hand.seen.fills
                        /\ \A p \in Positions :
                              used[p] # NoTick => used[p] >= hand.seen.trades[MktSym(p[1], p[2])]
      BY DEF PnlCurrent
    <2>1. \A a \in Algos : Valued(a) = Held[a]
      BY DEF Valued
    <2>2. ASSUME NEW a \in Algos
          PROVE  /\ algo_pnl[a] = PartWorth(pos, cost, used, a, Held[a])
                 /\ \A s \in Held[a] : used[<<a, s>>] # NoTick =>
                       used[<<a, s>>] >= hand.seen.trades[MktSym(a, s)]
      BY <2>1 DEF ValuationInv, Valuing, ValuedCurrent
    <2>3. \A a \in Algos : algo_pnl[a] = Worth(a)
      BY <2>2 DEF Worth, PartWorth
    <2>4. booked >= hand.seen.fills
      BY DEF ValuationInv, Timed, TimerInHand
    <2>5. ASSUME NEW p \in Positions, used[p] # NoTick
          PROVE  used[p] >= hand.seen.trades[MktSym(p[1], p[2])]
      <3>1. PICK a \in Algos, s \in Symbols : p = <<a, s>> /\ s \in Held[a]
        BY DEF Positions
      <3> QED
        BY <2>2, <2>5, <3>1
    <2> QED
      BY <2>3, <2>4, <2>5
  <1> QED
    BY <1>1, ValuationInvariant, PTL

(* Whenever no valuation is under way, and at the end of timer_cb, the     *)
(* total is the sum of the algos' PnLs, or unset if one of them is.        *)
THEOREM TotalIsTheSum == Spec => []TotalIsSum
  <1>1. ValuationInv => TotalIsSum
    <2> SUFFICES ASSUME ValuationInv, pcP = "idle" \/ (pcP = "algos" /\ left = {})
                 PROVE  Adds(total_pnl, algo_pnl)
      BY DEF TotalIsSum
    <2>1. Totalled = Algos
      BY DEF Totalled
    <2> QED
      BY <2>1 DEF ValuationInv, Valuing, PartSum, Adds
  <1> QED
    BY <1>1, ValuationInvariant, PTL
=============================================================================
