------------------------ MODULE HistBarGetterProofs ------------------------
(***************************************************************************)
(* Theorems about the download of bars, for every set of symbols, every    *)
(* period, window and order of TWS's answers.                              *)
(*                                                                         *)
(*  - The chunks of a period cover it: the arithmetic of generate_ib_reqs. *)
(*  - The counts are exact and the types are kept.  For that one has to    *)
(*    know that a symbol has one chunk under way at a time (OneChunk), and *)
(*    that this chunk is the next one due (NextChunk).                     *)
(*  - What is reported as saved is complete.  For that one has to follow   *)
(*    the last bar of a request from TWS to its symbol's bars (Collected). *)
(***************************************************************************)
EXTENDS HistBarGetter, SequenceTheorems, FiniteSetTheorems, TLAPS

CutTypeOK ==
    /\ sym_req \in [Symbols -> Int \X Int]
    /\ st \in [Symbols -> Int]
    /\ sym_chunks \in [Symbols -> Seq(Chunks)]

(* What a symbol's chunks are like while they are cut: CutCovers, and that *)
(* the first chunk is to begin where the period does.                      *)
Covered(s) ==
    LET chunks == sym_chunks[s]
    IN  /\ \A i \in 1 .. Len(chunks) :
              WindowStart(chunks[i]) = IF i = 1 THEN sym_req[s][1] ELSE chunks[i - 1].end
        /\ st[s] = IF chunks = << >> THEN sym_req[s][1] ELSE chunks[Len(chunks)].end
        /\ st[s] <= sym_req[s][2] \/ chunks = << >>

CutInv == CutTypeOK /\ \A s \in Symbols : Covered(s)

(* The whole days of what is left of a period are a positive number when   *)
(* a day or more is left, and do not exceed it.                            *)
LEMMA WholeDays ==
    ASSUME NEW left \in Int, left >= Day
    PROVE  left \div Day \in Nat \ {0} /\ (left \div Day) * Day <= left
  BY DEF Day

(* A chunk that begins where the last one ended and stays within the       *)
(* period keeps the period covered.                                        *)
LEMMA CutKeepsCovered ==
    ASSUME CutInv, NEW s \in Symbols, NEW dur \in Nat \ {0}, NEW unit \in {1, Day},
           dur * unit <= sym_req[s][2] - st[s], Cut(s, dur, unit), UNCHANGED sym_req
    PROVE  CutInv'
  <1> DEFINE chunk == [symbol |-> s, end |-> st[s] + dur * unit,
                       dur |-> dur, unit |-> unit]
  <1>1. unit \in Int /\ dur * unit \in Int /\ st[s] \in Int
    BY DEF CutInv, CutTypeOK, Day
  <1>2. chunk \in Chunks
    BY <1>1 DEF Chunks
  <1>3. /\ st' = [st EXCEPT ![s] = @ + dur * unit]
        /\ sym_chunks' = [sym_chunks EXCEPT ![s] = Append(@, chunk)]
    BY DEF Cut
  <1>4. CutTypeOK'
    <2>1. st' \in [Symbols -> Int]
      BY <1>1, <1>3 DEF CutInv, CutTypeOK
    <2>2. Append(sym_chunks[s], chunk) \in Seq(Chunks)
      BY <1>2, AppendProperties DEF CutInv, CutTypeOK
    <2> QED
      BY <1>3, <2>1, <2>2 DEF CutInv, CutTypeOK
  <1>5. ASSUME NEW t \in Symbols, t # s PROVE Covered(t)'
    BY <1>3, <1>5 DEF CutInv, CutTypeOK, Covered, WindowStart
  <1>6. Covered(s)'
    <2> DEFINE old == sym_chunks[s]
    <2> old \in Seq(Chunks)
      BY DEF CutInv, CutTypeOK
    <2>1. /\ sym_chunks'[s] = Append(old, chunk)
          /\ st'[s] = st[s] + dur * unit
          /\ sym_req' = sym_req
      BY <1>3 DEF CutInv, CutTypeOK
    <2>2. /\ Len(Append(old, chunk)) = Len(old) + 1
          /\ \A i \in 1 .. Len(old) : Append(old, chunk)[i] = old[i]
          /\ Append(old, chunk)[Len(old) + 1] = chunk
          /\ Len(old) \in Nat
          /\ old = << >> <=> Len(old) = 0
      BY <1>2, AppendProperties, EmptySeq, LenProperties
    <2>3. WindowStart(chunk) = st[s]
      BY <1>1 DEF WindowStart
    <2>4. Covered(s)
      BY DEF CutInv
    <2>5. Append(old, chunk) # << >>
      BY <1>2, AppendProperties
    <2>6. ASSUME NEW i \in 1 .. Len(old) + 1
          PROVE  WindowStart(Append(old, chunk)[i]) =
                    IF i = 1 THEN sym_req[s][1] ELSE Append(old, chunk)[i - 1].end
      <3>1. CASE i \in 1 .. Len(old)
        <4>1. i # 1 => i - 1 \in 1 .. Len(old)
          BY <2>2, <3>1
        <4> QED
          BY <2>2, <2>4, <3>1, <4>1 DEF Covered
      <3>2. CASE i = Len(old) + 1
        <4>1. CASE old = << >>
          BY <2>2, <2>3, <2>4, <3>2, <4>1 DEF Covered
        <4>2. CASE old # << >>
          <5>1. i # 1 /\ i - 1 = Len(old) /\ i - 1 \in 1 .. Len(old)
            BY <2>2, <3>2, <4>2
          <5> QED
            BY <2>2, <2>3, <2>4, <3>2, <4>2, <5>1 DEF Covered
        <4> QED
          BY <4>1, <4>2
      <3> QED
        BY <2>2, <3>1, <3>2
    <2>7. st[s] + dur * unit <= sym_req[s][2]
      BY <1>1 DEF CutInv, CutTypeOK
    <2>8. chunk.end = st[s] + dur * unit
      OBVIOUS
    <2> HIDE DEF chunk, old
    <2> QED
      BY <2>1, <2>2, <2>5, <2>6, <2>7, <2>8 DEF Covered, WindowStart
  <1> QED
    BY <1>4, <1>5, <1>6 DEF CutInv

(* The cutting of the periods: at the start, ... *)
LEMMA CutInvInit == Init => CutInv
  <1> SUFFICES ASSUME Init PROVE CutInv
    OBVIOUS
  <1>1. sym_req \in [Symbols -> Int \X Int]
    BY PeriodsArePairs DEF Init
  <1>2. CutTypeOK
    BY <1>1, EmptySeq DEF Init, CutTypeOK
  <1>3. \A s \in Symbols : sym_chunks[s] = << >> /\ st[s] = sym_req[s][1]
    BY DEF Init
  <1> QED
    BY <1>2, <1>3, EmptySeq DEF CutInv, Covered

(* ... and under every step. *)
LEMMA CutInvNext == CutInv /\ [Next]_vars => CutInv'
  <1> SUFFICES ASSUME CutInv, [Next]_vars PROVE CutInv'
    OBVIOUS
  <1>1. ASSUME UNCHANGED cutVars PROVE CutInv'
    BY <1>1 DEF CutInv, CutTypeOK, Covered, cutVars, WindowStart
  <1>2. ASSUME NEW s \in Symbols, generate_ib_reqs(s), UNCHANGED sym_req PROVE CutInv'
    <2> DEFINE left == sym_req[s][2] - st[s]
    <2>1. left \in Int
      BY DEF CutInv, CutTypeOK
    <2>2. CASE left > hist_window_sz * Day /\ Cut(s, hist_window_sz, Day)
      BY <1>2, <2>1, <2>2, CutKeepsCovered, WindowIsPositive DEF Day
    <2>3. CASE left >= Day /\ Cut(s, left \div Day, Day)
      <3>1. left \div Day \in Nat \ {0} /\ (left \div Day) * Day <= left
        BY <2>1, <2>3, WholeDays
      <3> HIDE DEF left
      <3>2. (left \div Day) * Day <= sym_req[s][2] - st[s]
        BY <3>1 DEF left
      <3> QED
        BY <1>2, <2>3, <3>1, <3>2, CutKeepsCovered
    <2>4. CASE left > 0 /\ Cut(s, left, 1)
      <3>1. left \in Nat \ {0} /\ left * 1 <= sym_req[s][2] - st[s]
        BY <2>1, <2>4
      <3> QED
        BY <1>2, <2>4, <3>1, CutKeepsCovered
    <2> QED
      BY <1>2, <2>2, <2>3, <2>4 DEF generate_ib_reqs
  <1>3. CASE CutChunk
    BY <1>2, <1>3 DEF CutChunk
  <1>4. CASE BeginRun
    BY <1>1, <1>4 DEF BeginRun
  <1>5. CASE run
    BY <1>1, <1>5 DEF run, TestRemaining, PopTimeout, req_historical_bar, FileRequest,
       Pace, cutVars
  <1>6. ASSUME NEW id \in ReqIds, historicalData(id) \/ historicalDataEnd(id) \/ error(id)
        PROVE  CutInv'
    BY <1>1, <1>6 DEF historicalData, historicalDataEnd, error, Answers
  <1>7. CASE Dispatch
    BY <1>1, <1>7 DEF Dispatch, process_hist_bar, process_hist_bar_end, process_err_msg,
       Handles
  <1>8. CASE UNCHANGED vars
    BY <1>1, <1>8 DEF vars
  <1> QED
    BY <1>3, <1>4, <1>5, <1>6, <1>7, <1>8 DEF Next

(* The chunks of a period follow each other without a gap or an overlap    *)
(* and stay within it, for every period and window (generate_ib_reqs).     *)
THEOREM PeriodsAreCovered == Spec => []CutCovers
  <1>1. CutInv => CutCovers
    BY DEF CutInv, Covered, CutCovers
  <1> QED
    BY <1>1, CutInvInit, CutInvNext, PTL DEF Spec
-----------------------------------------------------------------------------
(* The elements of a sequence are finitely many, and what becomes of them  *)
(* when one is appended or taken away.                                     *)
LEMMA ElementsOfSeq ==
    ASSUME NEW S, NEW s \in Seq(S)
    PROVE  /\ ToSet(s) \subseteq S /\ IsFiniteSet(ToSet(s))
           /\ \A x : x \in ToSet(s) <=> \E i \in 1 .. Len(s) : s[i] = x
  <1>1. DOMAIN s = 1 .. Len(s) /\ Len(s) \in Nat /\ s \in [1 .. Len(s) -> S]
    BY LenProperties
  <1>2. \A x : x \in ToSet(s) <=> \E i \in 1 .. Len(s) : s[i] = x
    BY <1>1 DEF ToSet
  <1>3. ToSet(s) \subseteq S
    BY <1>1, <1>2
  <1>4. s \in Surjection(1 .. Len(s), ToSet(s))
    BY <1>1, <1>2 DEF Surjection
  <1>5. IsFiniteSet(1 .. Len(s))
    BY <1>1, FS_Interval
  <1> QED
    BY <1>2, <1>3, <1>4, <1>5, FS_Surjection

(* std::sort and std::unique keep the times there are, each one once, in   *)
(* ascending order.                                                        *)
LEMMA SortUniqueProperties ==
    ASSUME NEW times \in Seq(Int)
    PROVE  /\ SortUnique(times) \in Seq(Int)
           /\ ToSet(SortUnique(times)) = ToSet(times)
           /\ \A i \in 1 .. Len(SortUnique(times)) - 1 :
                 SortUnique(times)[i] < SortUnique(times)[i + 1]
  <1> DEFINE all == ToSet(times)
             n == Cardinality(all)
             below(t) == {u \in all : u < t}
             rank == [t \in all |-> Cardinality(below(t)) + 1]
             nth(i) == CHOOSE t \in all : Cardinality(below(t)) = i - 1
  <1>1. all \subseteq Int /\ IsFiniteSet(all) /\ n \in Nat
    BY ElementsOfSeq, FS_CardinalityType
  <1> HIDE DEF all
  <1>2. \A t \in all : below(t) \in SUBSET all /\ below(t) # all /\ IsFiniteSet(below(t))
    <2> TAKE t \in all
    <2>1. below(t) \in SUBSET all /\ t \notin below(t)
      BY <1>1
    <2> QED
      BY <1>1, <2>1, FS_Subset
  <1>3. \A t \in all : Cardinality(below(t)) \in 0 .. n - 1
    <2> TAKE t \in all
    <2> HIDE DEF below
    <2>1. Cardinality(below(t)) \in Nat /\ Cardinality(below(t)) <= n
      BY <1>1, <1>2, FS_Subset, FS_CardinalityType
    <2>2. Cardinality(below(t)) # n
      BY <1>1, <1>2, FS_Subset
    <2> QED
      BY <1>1, <2>1, <2>2
  <1>4. ASSUME NEW t \in all, NEW u \in all, t < u
        PROVE  Cardinality(below(t)) < Cardinality(below(u))
    <2>1. \A v \in all : v < t => v < u
      BY <1>1, <1>4
    <2>2. below(t) \in SUBSET below(u) /\ t \in below(u)
      BY <1>4, <2>1
    <2>3. t \notin below(t)
      BY <1>1
    <2> HIDE DEF below
    <2>4. below(t) # below(u)
      BY <2>2, <2>3
    <2>5. Cardinality(below(t)) <= Cardinality(below(u))
          /\ Cardinality(below(t)) # Cardinality(below(u))
      BY <1>2, <2>2, <2>4, FS_Subset
    <2>6. Cardinality(below(t)) \in Int /\ Cardinality(below(u)) \in Int
      BY <1>3
    <2> QED
      BY <2>5, <2>6
  <1> HIDE DEF below
  <1>5. rank \in [all -> 1 .. n]
    BY <1>1, <1>3
  <1>6. \A t, u \in all : rank[t] = rank[u] => t = u
    <2> SUFFICES ASSUME NEW t \in all, NEW u \in all, rank[t] = rank[u] PROVE t = u
      OBVIOUS
    <2>1. Cardinality(below(t)) = Cardinality(below(u))
      BY <1>1, <1>3
    <2>2. ~(t < u) /\ ~(u < t)
      BY <1>3, <1>4, <2>1
    <2> QED
      BY <1>1, <2>2
  <1>7. rank \in Injection(all, 1 .. n)
    <2> HIDE DEF rank
    <2> QED
      BY <1>5, <1>6 DEF Injection, IsInjective
  <1>8. IsFiniteSet(1 .. n) /\ Cardinality(1 .. n) = n
    BY <1>1, FS_Interval
  <1>9. rank \in Surjection(all, 1 .. n)
    <2> HIDE DEF rank
    <2> QED
      BY <1>7, <1>8, FS_Injection
  <1>10. \A i \in 1 .. n : nth(i) \in all /\ Cardinality(below(nth(i))) = i - 1
    <2> TAKE i \in 1 .. n
    <2>1. PICK t \in all : rank[t] = i
      <3> HIDE DEF rank
      <3> QED
        BY <1>9 DEF Surjection
    <2>2. Cardinality(below(t)) + 1 = i /\ Cardinality(below(t)) \in Int
      BY <1>1, <1>3, <2>1
    <2>3. Cardinality(below(t)) = i - 1
      BY <1>1, <2>2
    <2> QED
      BY <2>3, Zenon
  <1>11. SortUnique(times) = [i \in 1 .. n |-> nth(i)]
    BY DEF SortUnique, all, below
  <1> HIDE DEF nth, rank
  <1>12. SortUnique(times) \in Seq(Int) /\ Len(SortUnique(times)) = n
         /\ \A i \in 1 .. n : SortUnique(times)[i] = nth(i)
    <2>1. SortUnique(times) \in [1 .. n -> Int]
      BY <1>1, <1>10, <1>11
    <2>2. \A i \in 1 .. n : SortUnique(times)[i] = nth(i)
      BY <1>11
    <2> HIDE DEF n
    <2> QED
      BY <1>1, <2>1, <2>2
  <1>13. ASSUME NEW i \in 1 .. n - 1 PROVE nth(i) < nth(i + 1)
    <2>1. i \in 1 .. n /\ i + 1 \in 1 .. n /\ n \in Int
      BY <1>1
    <2>2. /\ nth(i) \in all /\ Cardinality(below(nth(i))) = i - 1
          /\ nth(i + 1) \in all /\ Cardinality(below(nth(i + 1))) = i
      BY <1>10, <2>1
    <2>3. ~(nth(i + 1) < nth(i))
      BY <1>4, <2>1, <2>2
    <2>4. nth(i) # nth(i + 1)
      <3>1. i \in Int /\ i - 1 # i
        BY <1>1
      <3> QED
        BY <2>2, <3>1
    <2>5. nth(i) \in Int /\ nth(i + 1) \in Int
      BY <1>1, <2>2
    <2> QED
      BY <2>3, <2>4, <2>5
  <1>14. \A t : t \in ToSet(SortUnique(times)) <=> t \in all
    <2>1. \A t : t \in ToSet(SortUnique(times)) <=> \E i \in 1 .. n : nth(i) = t
      BY <1>12, ElementsOfSeq
    <2>2. ASSUME NEW t \in all PROVE \E i \in 1 .. n : nth(i) = t
      <3>1. rank[t] \in 1 .. n
        BY <1>5
      <3>2. nth(rank[t]) \in all /\ Cardinality(below(nth(rank[t]))) = rank[t] - 1
        BY <1>10, <3>1
      <3>3. rank[nth(rank[t])] = rank[t]
        BY <1>1, <1>3, <3>1, <3>2 DEF rank
      <3>4. nth(rank[t]) = t
        BY <1>6, <3>2, <3>3
      <3> QED
        BY <3>1, <3>4
    <2> QED
      BY <1>10, <2>1, <2>2
  <1>15. ToSet(SortUnique(times)) = all
    BY <1>14
  <1> HIDE DEF n
  <1> QED
    BY <1>12, <1>13, <1>15 DEF all
-----------------------------------------------------------------------------
(* The symbol a request is made for: while run() is about to file the      *)
(* request it has sent, that of the request; after that, the one filed.    *)
Owner(id) == IF pcR = "filing" /\ id = m_req_id - 1 THEN sent ELSE req_id_sym[id]

EndAt(i, id) == eq[i].type = "hist_bar_end" /\ eq[i].id = id

EndQueued(id) == \E i \in 1 .. Len(eq) : EndAt(i, id)

(* A request that is still going to make its symbol's next chunk due.      *)
Live(id) == tws[id].state = "open" \/ EndQueued(id)

(* Nothing has happened while the periods are cut. *)
BeforeRun ==
    pcR = "cutting" =>
        /\ q = << >> /\ eq = << >> /\ m_req_id = 1
        /\ \A id \in ReqIds : tws[id].state = "absent"
        /\ \A s \in Symbols : sym_chunk_id[s] = 0 /\ sym_status[s] = "in_prog"
        /\ unsaved = {}

ChunkSymbols ==
    \A s \in Symbols : \A k \in 1 .. Len(sym_chunks[s]) : sym_chunks[s][k].symbol = s

(* Ids are given out in order; each belongs to a symbol with a chunk. *)
Filing ==
    /\ \A id \in ReqIds : id >= m_req_id =>
          tws[id].state = "absent" /\ req_id_sym[id] = NoSymbol
    /\ \A id \in ReqIds : id < m_req_id => Owner(id) \in Wanted
    /\ pcR = "filing" => m_req_id - 1 \in ReqIds /\ req_id_sym[m_req_id - 1] = NoSymbol

(* The end of a request comes once, and is the last thing TWS sends of it. *)
Ends ==
    \A i \in 1 .. Len(eq) : eq[i].type = "hist_bar_end" =>
        /\ tws[eq[i].id].state = "closed" /\ tws[eq[i].id].bars = << >>
        /\ \A j \in 1 .. Len(eq) : EndAt(j, eq[i].id) => i = j

(* A symbol has one chunk under way: either in the queue or requested. *)
OneChunk ==
    /\ \A i, j \in 1 .. Len(q) : q[i].symbol = q[j].symbol => i = j
    /\ \A i \in 1 .. Len(q), id \in ReqIds : Live(id) => Owner(id) # q[i].symbol
    /\ \A id, jd \in ReqIds : Live(id) /\ Live(jd) /\ Owner(id) = Owner(jd) => id = jd

ChunkDue(s) == sym_chunk_id[s] < Len(sym_chunks[s])

(* That chunk is the one after those that have ended. *)
NextChunk ==
    /\ \A s \in Symbols : sym_chunk_id[s] <= Len(sym_chunks[s])
    /\ \A i \in 1 .. Len(q) :
          /\ ChunkDue(q[i].symbol)
          /\ q[i] = sym_chunks[q[i].symbol][sym_chunk_id[q[i].symbol] + 1]
    /\ \A id \in ReqIds : Live(id) => ChunkDue(Owner(id))

UnsavedSettled == \A s \in unsaved : s \in Wanted /\ sym_status[s] # "in_prog"

(* The bookkeeping of a download; inductive together with CutInv. *)
FlowInv ==
    /\ TypeOK /\ BeforeRun /\ ChunkSymbols /\ Filing /\ Ends /\ OneChunk /\ NextChunk
    /\ UnsavedSettled /\ RemainingExact /\ FinalStatus

DueBar(s) == LastBar(sym_chunks[s][sym_chunk_id[s] + 1])

(* Where the last bar of a request is on its way to its symbol's bars. *)
LastKept(id) ==
    \/ tws[id].bars # << >> /\ tws[id].bars[Len(tws[id].bars)] = DueBar(Owner(id))
    \/ \E i \in 1 .. Len(eq) :
          /\ eq[i] = [type |-> "hist_bar", id |-> id, time |-> DueBar(Owner(id))]
          /\ \A j \in 1 .. Len(eq) : EndAt(j, id) => i < j
    \/ DueBar(Owner(id)) \in ToSet(sym_data[Owner(id)])

(* As long as no event was dropped, the bars of the chunks that have ended *)
(* have been collected, and those of the one requested are on their way.   *)
Collected ==
    dropped = {} =>
        /\ \A s \in Symbols : \A k \in 1 .. sym_chunk_id[s] :
              LastBar(sym_chunks[s][k]) \in ToSet(sym_data[s])
        /\ \A id \in ReqIds : Live(id) => LastKept(id)

(* The bookkeeping, and where the bars are. *)
DataInv == FlowInv /\ Collected /\ SavedComplete
-----------------------------------------------------------------------------
(* The fields of an event. *)
LEMMA EventFields ==
    ASSUME NEW e \in Events
    PROVE  /\ e.id \in ReqIds
           /\ e.type \in {"hist_bar", "hist_bar_end", "ib_err_msg"}
           /\ e.type = "hist_bar" => e.time \in Int
  BY DEF Events

(* The queue of events after one more message of TWS. *)
LEMMA AppendedEvent ==
    ASSUME TypeOK, NEW e \in Events, eq' = Append(eq, e)
    PROVE  /\ eq' \in Seq(Events)
           /\ Len(eq) \in Nat /\ Len(eq') = Len(eq) + 1
           /\ \A i \in 1 .. Len(eq) : eq'[i] = eq[i]
           /\ eq'[Len(eq) + 1] = e
           /\ \A i \in 1 .. Len(eq') : i \in 1 .. Len(eq) \/ i = Len(eq) + 1
  <1>1. eq \in Seq(Events) /\ Len(eq) \in Nat
    BY LenProperties DEF TypeOK
  <1> QED
    BY <1>1, AppendProperties

(* The queue of events after one has been handled. *)
LEMMA HandledEvent ==
    ASSUME TypeOK, NEW type, Handles(type)
    PROVE  /\ eq' \in Seq(Events)
           /\ Head(eq) = eq[1] /\ Head(eq) \in Events /\ Head(eq).type = type
           /\ Len(eq) \in Nat \ {0} /\ Len(eq') = Len(eq) - 1
           /\ \A i \in 1 .. Len(eq') : eq'[i] = eq[i + 1] /\ i + 1 \in 1 .. Len(eq)
           /\ \A i \in 1 .. Len(eq) : i = 1 \/ (i - 1 \in 1 .. Len(eq') /\ eq'[i - 1] = eq[i])
  <1>1. eq \in Seq(Events) /\ eq # << >> /\ eq' = Tail(eq) /\ Head(eq).type = type
    BY DEF TypeOK, Handles
  <1>2. Len(eq) \in Nat \ {0}
    BY <1>1, EmptySeq
  <1>3. Head(eq) = eq[1]
    BY <1>1
  <1> QED
    BY <1>1, <1>2, <1>3, HeadTailProperties

(* Which ends of requests are queued after one more message ... *)
LEMMA AppendEnds ==
    ASSUME TypeOK, NEW e \in Events, eq' = Append(eq, e)
    PROVE  \A id : EndQueued(id)' <=>
              EndQueued(id) \/ (e.type = "hist_bar_end" /\ e.id = id)
  <1> TAKE id
  <1>1. /\ Len(eq) \in Nat /\ Len(eq') = Len(eq) + 1
        /\ \A i \in 1 .. Len(eq) : eq'[i] = eq[i]
        /\ eq'[Len(eq) + 1] = e
        /\ \A i \in 1 .. Len(eq') : i \in 1 .. Len(eq) \/ i = Len(eq) + 1
    BY AppendedEvent
  <1>2. 1 .. Len(eq) \subseteq 1 .. Len(eq') /\ Len(eq) + 1 \in 1 .. Len(eq')
    BY <1>1
  <1> QED
    BY <1>1, <1>2 DEF EndQueued, EndAt

(* ... and after an event has been handled. *)
LEMMA HandledEnds ==
    ASSUME TypeOK, Ends, NEW type, Handles(type)
    PROVE  \A id : EndQueued(id)' <=>
              EndQueued(id) /\ ~(type = "hist_bar_end" /\ Head(eq).id = id)
  <1> TAKE id
  <1>1. /\ Head(eq) = eq[1] /\ Head(eq).type = type
        /\ Len(eq) \in Nat \ {0} /\ Len(eq') = Len(eq) - 1
        /\ \A i \in 1 .. Len(eq') : eq'[i] = eq[i + 1] /\ i + 1 \in 1 .. Len(eq)
        /\ \A i \in 1 .. Len(eq) : i = 1 \/ (i - 1 \in 1 .. Len(eq') /\ eq'[i - 1] = eq[i])
    BY HandledEvent
  <1>2. 1 \in 1 .. Len(eq)
    BY <1>1
  <1>3. ASSUME EndQueued(id)'
        PROVE  EndQueued(id) /\ ~(type = "hist_bar_end" /\ Head(eq).id = id)
    <2>1. PICK i \in 1 .. Len(eq') : eq'[i].type = "hist_bar_end" /\ eq'[i].id = id
      BY <1>3 DEF EndQueued, EndAt
    <2>2. i + 1 \in 1 .. Len(eq) /\ EndAt(i + 1, id) /\ i + 1 # 1
      BY <1>1, <2>1 DEF EndAt
    <2>3. EndQueued(id)
      BY <2>2 DEF EndQueued
    <2>4. ~(type = "hist_bar_end" /\ Head(eq).id = id)
      BY <1>1, <1>2, <2>2 DEF Ends, EndAt
    <2> QED
      BY <2>3, <2>4
  <1>4. ASSUME EndQueued(id), ~(type = "hist_bar_end" /\ Head(eq).id = id)
        PROVE  EndQueued(id)'
    <2>1. PICK i \in 1 .. Len(eq) : EndAt(i, id)
      BY <1>4 DEF EndQueued
    <2>2. i # 1
      BY <1>1, <1>4, <2>1 DEF EndAt
    <2> QED
      BY <1>1, <2>1, <2>2 DEF EndQueued, EndAt
  <1> QED
    BY <1>3, <1>4

(* Ends is kept when a message is queued about a request that has not ended. *)
LEMMA EndsAfterAppend ==
    ASSUME TypeOK, Ends, NEW e \in Events, eq' = Append(eq, e),
           \A id \in ReqIds : EndQueued(id) => tws'[id] = tws[id],
           e.type = "hist_bar_end" =>
              ~EndQueued(e.id) /\ tws'[e.id].state = "closed" /\ tws'[e.id].bars = << >>
    PROVE  Ends'
  <1> SUFFICES ASSUME NEW i \in 1 .. Len(eq'), eq'[i].type = "hist_bar_end"
               PROVE  /\ tws'[eq'[i].id].state = "closed" /\ tws'[eq'[i].id].bars = << >>
                      /\ \A j \in 1 .. Len(eq') : EndAt(j, eq[i].id)' => i = j
    BY DEF Ends
  <1>1. /\ Len(eq) \in Nat /\ Len(eq') = Len(eq) + 1
        /\ \A k \in 1 .. Len(eq) : eq'[k] = eq[k]
        /\ eq'[Len(eq) + 1] = e
        /\ \A k \in 1 .. Len(eq') : k \in 1 .. Len(eq) \/ k = Len(eq) + 1
    BY AppendedEvent
  <1>2. \A k \in 1 .. Len(eq) : eq[k].id \in ReqIds
    BY EventFields, ElementOfSeq DEF TypeOK
  <1>3. CASE i \in 1 .. Len(eq)
    <2>1. /\ EndQueued(eq[i].id) /\ eq'[i] = eq[i]
          /\ tws'[eq[i].id] = tws[eq[i].id]
      BY <1>1, <1>2, <1>3 DEF EndQueued, EndAt
    <2>2. ASSUME NEW j \in 1 .. Len(eq'), EndAt(j, eq[i].id)' PROVE i = j
      <3>1. eq'[j].type = "hist_bar_end" /\ eq'[j].id = eq[i].id
        BY <2>1, <2>2 DEF EndAt
      <3>2. j \in 1 .. Len(eq)
        BY <1>1, <2>1, <3>1
      <3> QED
        BY <1>1, <1>3, <2>1, <3>1, <3>2 DEF Ends, EndAt
    <2> QED
      BY <1>3, <2>1, <2>2 DEF Ends
  <1>4. CASE i = Len(eq) + 1
    <2>1. eq'[i] = e /\ ~EndQueued(e.id)
      BY <1>1, <1>4
    <2>2. ASSUME NEW j \in 1 .. Len(eq'), EndAt(j, eq[i].id)' PROVE i = j
      <3>1. eq'[j].type = "hist_bar_end" /\ eq'[j].id = e.id
        BY <2>1, <2>2 DEF EndAt
      <3> QED
        BY <1>1, <1>4, <2>1, <3>1 DEF EndQueued, EndAt
    <2> QED
      BY <2>1, <2>2
  <1> QED
    BY <1>1, <1>3, <1>4

(* Ends is kept when an event is handled. *)
LEMMA EndsAfterHandling ==
    ASSUME TypeOK, Ends, NEW type, Handles(type)
    PROVE  Ends'
  <1> SUFFICES ASSUME NEW i \in 1 .. Len(eq'), eq'[i].type = "hist_bar_end"
               PROVE  /\ tws'[eq'[i].id].state = "closed" /\ tws'[eq'[i].id].bars = << >>
                      /\ \A j \in 1 .. Len(eq') : EndAt(j, eq[i].id)' => i = j
    BY DEF Ends
  <1>1. /\ Len(eq) \in Nat \ {0} /\ Len(eq') = Len(eq) - 1
        /\ \A k \in 1 .. Len(eq') : eq'[k] = eq[k + 1] /\ k + 1 \in 1 .. Len(eq)
    BY HandledEvent
  <1>2. tws' = tws
    BY DEF Handles, twsVars
  <1>3. ASSUME NEW j \in 1 .. Len(eq'), EndAt(j, eq[i].id)' PROVE i = j
    <2>1. eq'[j].type = "hist_bar_end" /\ eq'[j].id = eq'[i].id
      BY <1>3 DEF EndAt
    <2>2. EndAt(j + 1, eq[i + 1].id) /\ i + 1 \in 1 .. Len(eq) /\ j + 1 \in 1 .. Len(eq)
      BY <1>1, <2>1 DEF EndAt
    <2>3. i + 1 = j + 1
      BY <1>1, <2>2 DEF Ends
    <2> QED
      BY <1>1, <2>3
  <1> QED
    BY <1>1, <1>2, <1>3 DEF Ends
-----------------------------------------------------------------------------
(* A step that starts no request and ends no chunk keeps the bookkeeping   *)
(* of the chunks.                                                          *)
LEMMA ChunksKept ==
    ASSUME OneChunk, NextChunk, UNCHANGED <<q, sym_chunk_id, sym_chunks>>,
           \A id \in ReqIds : Live(id)' => Live(id) /\ Owner(id)' = Owner(id)
    PROVE  OneChunk' /\ NextChunk'
  <1>1. OneChunk'
    BY DEF OneChunk
  <1>2. NextChunk'
    BY DEF NextChunk, ChunkDue
  <1> QED
    BY <1>1, <1>2

(* Without a new request, the ids stay as they are. *)
LEMMA FilingKept ==
    ASSUME Filing, UNCHANGED <<runVars, sym_chunks>>,
           \A id \in ReqIds : tws[id].state = "absent" => tws'[id].state = "absent"
    PROVE  Filing' /\ \A id \in ReqIds : Owner(id)' = Owner(id)
  BY DEF Filing, Owner, Wanted, runVars

(* The sets that are counted are finite. *)
LEMMA FiniteCounts ==
    ASSUME TypeOK
    PROVE  /\ IsFiniteSet(Wanted) /\ IsFiniteSet(InProgress) /\ IsFiniteSet(unsaved)
           /\ Cardinality(Wanted) \in Nat /\ Cardinality(InProgress) \in Nat
           /\ Cardinality(unsaved) \in Nat
  <1>1. Wanted \in SUBSET Symbols /\ InProgress \in SUBSET Symbols /\ unsaved \in SUBSET Symbols
    BY DEF Wanted, InProgress, TypeOK
  <1> QED
    BY <1>1, SymbolsAreFinite, FS_Subset, FS_CardinalityType

(* Without a symbol being settled, the counts stay as they are. *)
LEMMA CountKept ==
    ASSUME UnsavedSettled, RemainingExact, FinalStatus,
           UNCHANGED <<sym_chunks, sym_status, remaining, unsaved>>,
           pcR # "cutting", pcR' = "done" => pcR = "done" \/ InProgress = {}
    PROVE  UnsavedSettled' /\ RemainingExact' /\ FinalStatus'
  BY DEF UnsavedSettled, RemainingExact, FinalStatus, InProgress, Wanted

(* While the periods are cut, TWS has nothing to answer and there is no    *)
(* event to handle.                                                        *)
LEMMA NotWhileCutting ==
    ASSUME BeforeRun,
           (\E id \in ReqIds : Answers(id)) \/ (\E type : Handles(type))
    PROVE  pcR # "cutting"
  BY DEF BeforeRun, Answers, Handles

(* A message of TWS keeps the bookkeeping. *)
LEMMA AnswersFlow ==
    ASSUME FlowInv, NEW id \in ReqIds,
           historicalData(id) \/ historicalDataEnd(id) \/ error(id)
    PROVE  FlowInv'
  <1>1. TypeOK /\ BeforeRun /\ ChunkSymbols /\ Filing /\ Ends /\ OneChunk /\ NextChunk
        /\ UnsavedSettled /\ RemainingExact /\ FinalStatus
    BY DEF FlowInv
  <1>2. /\ Answers(id) /\ tws[id].state = "open" /\ id \in ReqIds /\ tws[id] \in Requests
        /\ UNCHANGED <<cutVars, q, runVars, symVars, dropped>>
    BY <1>1 DEF historicalData, historicalDataEnd, error, Answers, TypeOK
  <1>3. pcR # "cutting"
    BY <1>1, <1>2, NotWhileCutting
  <1>4. PICK e \in Events :
          /\ eq' = Append(eq, e) /\ e.id = id
          /\ e.type = "hist_bar_end" => /\ tws[id].bars = << >>
                                        /\ tws' = [tws EXCEPT ![id].state = "closed"]
    <2>1. CASE historicalData(id)
      <3> DEFINE e == [type |-> "hist_bar", id |-> id, time |-> Head(tws[id].bars)]
      <3>1. tws[id].bars \in Seq(Int) /\ tws[id].bars # << >>
        BY <1>2, <2>1 DEF historicalData, Requests
      <3>2. Head(tws[id].bars) \in Int
        BY <3>1, HeadTailProperties
      <3>3. e \in Events
        BY <3>2 DEF Events
      <3> QED
        BY <2>1, <3>3 DEF historicalData
    <2>2. CASE historicalDataEnd(id)
      <3> DEFINE e == [type |-> "hist_bar_end", id |-> id]
      <3>1. e \in Events
        BY DEF Events
      <3> QED
        BY <2>2, <3>1 DEF historicalDataEnd
    <2>3. CASE error(id)
      <3> DEFINE e == [type |-> "ib_err_msg", id |-> id]
      <3>1. e \in Events
        BY DEF Events
      <3> QED
        BY <2>3, <3>1 DEF error
    <2> QED
      BY <2>1, <2>2, <2>3
  <1>5. /\ tws' \in [ReqIds -> Requests]
        /\ \A k \in ReqIds : k # id => tws'[k] = tws[k]
        /\ tws'[id].state \in {"open", "closed"}
    <2>1. CASE historicalData(id)
      <3>1. tws[id].bars \in Seq(Int) /\ tws[id].bars # << >>
        BY <1>2, <2>1 DEF historicalData, Requests
      <3>2. Tail(tws[id].bars) \in Seq(Int)
        BY <3>1, HeadTailProperties
      <3> QED
        BY <1>1, <1>2, <2>1, <3>2 DEF historicalData, Requests, TypeOK
    <2>2. CASE historicalDataEnd(id)
      BY <1>1, <1>2, <2>2 DEF historicalDataEnd, Requests, TypeOK
    <2>3. CASE error(id)
      <3>1. CASE tws' = [tws EXCEPT ![id].state = "closed"]
        BY <1>1, <1>2, <3>1 DEF Requests, TypeOK
      <3>2. CASE UNCHANGED tws
        BY <1>1, <1>2, <3>2 DEF TypeOK
      <3> QED
        BY <2>3, <3>1, <3>2 DEF error
    <2> QED
      BY <2>1, <2>2, <2>3
  <1>6. errors' \in Nat
    BY <1>1 DEF historicalData, historicalDataEnd, error, TypeOK
  <1>7. eq' \in Seq(Events)
    BY <1>1, <1>4, AppendedEvent
  <1>8. TypeOK'
    BY <1>1, <1>2, <1>5, <1>6, <1>7 DEF TypeOK, cutVars, runVars, symVars
  <1>9. ~EndQueued(id)
    <2> SUFFICES ASSUME NEW i \in 1 .. Len(eq), EndAt(i, id) PROVE FALSE
      BY DEF EndQueued
    <2> QED
      BY <1>1, <1>2 DEF Ends, EndAt
  <1>10. Ends'
    <2>1. \A k \in ReqIds : EndQueued(k) => tws'[k] = tws[k]
      BY <1>5, <1>9
    <2>2. e.type = "hist_bar_end" =>
              tws'[e.id].state = "closed" /\ tws'[e.id].bars = << >>
      BY <1>1, <1>2, <1>4 DEF TypeOK, Requests
    <2> QED
      BY <1>1, <1>4, <1>9, <2>1, <2>2, EndsAfterAppend
  <1>11. \A k \in ReqIds : tws[k].state = "absent" => tws'[k].state = "absent"
    BY <1>2, <1>5
  <1>12. Filing' /\ \A k \in ReqIds : Owner(k)' = Owner(k)
    BY <1>1, <1>2, <1>11, FilingKept DEF cutVars
  <1>13. ASSUME NEW k \in ReqIds, Live(k)' PROVE Live(k)
    BY <1>1, <1>2, <1>4, <1>5, <1>13, AppendEnds DEF Live
  <1>14. OneChunk' /\ NextChunk'
    BY <1>1, <1>2, <1>12, <1>13, ChunksKept DEF symVars, cutVars
  <1>15. UnsavedSettled' /\ RemainingExact' /\ FinalStatus'
    BY <1>1, <1>2, <1>3, CountKept DEF symVars, cutVars, runVars
  <1>16. BeforeRun' /\ ChunkSymbols'
    BY <1>1, <1>2, <1>3 DEF BeforeRun, ChunkSymbols, cutVars, runVars
  <1> QED
    BY <1>8, <1>10, <1>12, <1>14, <1>15, <1>16 DEF FlowInv
-----------------------------------------------------------------------------
(* run() tests, waits or paces: only its place changes. *)
LEMMA PlaceFlow ==
    ASSUME FlowInv, TestRemaining \/ PopTimeout \/ Pace
    PROVE  FlowInv'
  <1>1. TypeOK /\ BeforeRun /\ ChunkSymbols /\ Filing /\ Ends /\ OneChunk /\ NextChunk
        /\ UnsavedSettled /\ RemainingExact /\ FinalStatus
    BY DEF FlowInv
  <1>2. /\ pcR \in {"testing", "popping", "pacing"}
        /\ pcR' \in {"testing", "popping", "done"}
        /\ pcR' = "done" => remaining = 0
        /\ UNCHANGED <<cutVars, q, sent, m_req_id, req_id_sym, twsVars, eq, symVars, dropped>>
    BY DEF TestRemaining, PopTimeout, Pace
  <1>3. TypeOK'
    BY <1>1, <1>2 DEF TypeOK, cutVars, twsVars, symVars
  <1>4. BeforeRun' /\ ChunkSymbols'
    BY <1>1, <1>2 DEF BeforeRun, ChunkSymbols, cutVars
  <1>5. Filing' /\ \A id \in ReqIds : Owner(id)' = Owner(id)
    BY <1>1, <1>2 DEF Filing, Owner, Wanted, cutVars, twsVars
  <1>6. Ends' /\ \A id \in ReqIds : Live(id)' <=> Live(id)
    BY <1>1, <1>2 DEF Ends, EndAt, Live, EndQueued, twsVars
  <1>7. OneChunk' /\ NextChunk'
    BY <1>1, <1>2, <1>5, <1>6, ChunksKept DEF cutVars, symVars
  <1>8. remaining = 0 => InProgress = {}
    <2>1. pcR # "cutting"
      BY <1>2
    <2>2. remaining = 0 => Cardinality(InProgress) = 0
      BY <1>1, <2>1, FiniteCounts DEF RemainingExact
    <2> QED
      BY <1>1, <2>2, FiniteCounts, FS_EmptySet
  <1>9. UnsavedSettled' /\ RemainingExact' /\ FinalStatus'
    BY <1>1, <1>2, <1>8, CountKept DEF cutVars, symVars
  <1> QED
    BY <1>3, <1>4, <1>5, <1>6, <1>7, <1>9 DEF FlowInv

(* Filing a request does not change whom it belongs to. *)
LEMMA FileFlow == FlowInv /\ FileRequest => FlowInv'
  <1> SUFFICES ASSUME FlowInv, FileRequest PROVE FlowInv'
    OBVIOUS
  <1>1. TypeOK /\ BeforeRun /\ ChunkSymbols /\ Filing /\ Ends /\ OneChunk /\ NextChunk
        /\ UnsavedSettled /\ RemainingExact /\ FinalStatus
    BY DEF FlowInv
  <1>2. /\ pcR = "filing" /\ pcR' = "pacing" /\ sent' = NoSymbol
        /\ req_id_sym' = [req_id_sym EXCEPT ![m_req_id - 1] = sent]
        /\ UNCHANGED <<cutVars, q, m_req_id, twsVars, eq, symVars, dropped>>
    BY DEF FileRequest
  <1>3. m_req_id - 1 \in ReqIds /\ sent \in Wanted
    BY <1>1, <1>2 DEF Filing, Owner, TypeOK
  <1>4. TypeOK'
    BY <1>1, <1>2, <1>3 DEF TypeOK, cutVars, twsVars, symVars
  <1>5. BeforeRun' /\ ChunkSymbols'
    BY <1>1, <1>2 DEF BeforeRun, ChunkSymbols, cutVars
  <1>6. \A id \in ReqIds : Owner(id)' = Owner(id)
    BY <1>1, <1>2, <1>3 DEF Owner, TypeOK
  <1>7. Filing'
    <2>1. \A id \in ReqIds : id >= m_req_id => id # m_req_id - 1
      BY <1>1 DEF TypeOK, ReqIds
    <2> QED
      BY <1>1, <1>2, <1>6, <2>1 DEF Filing, Wanted, cutVars, twsVars, TypeOK
  <1>8. Ends' /\ \A id \in ReqIds : Live(id)' <=> Live(id)
    BY <1>1, <1>2 DEF Ends, EndAt, Live, EndQueued, twsVars
  <1>9. OneChunk' /\ NextChunk'
    BY <1>1, <1>2, <1>6, <1>8, ChunksKept DEF cutVars, symVars
  <1>10. UnsavedSettled' /\ RemainingExact' /\ FinalStatus'
    BY <1>1, <1>2, CountKept DEF cutVars, symVars
  <1> QED
    BY <1>4, <1>5, <1>7, <1>8, <1>9, <1>10 DEF FlowInv

(* TWS answers with at least one bar, and ends with the last one. *)
LEMMA BarsOfType ==
    ASSUME NEW chunk \in Chunks
    PROVE  /\ BarsOf(chunk) \in Seq(Int) /\ BarsOf(chunk) # << >>
           /\ BarsOf(chunk)[Len(BarsOf(chunk))] = LastBar(chunk)
           /\ LastBar(chunk) \in Int
  <1>1. LastBar(chunk) \in Int /\ WindowStart(chunk) \in Int
    BY DEF Chunks, LastBar, WindowStart, Day
  <1>2. CASE chunk.unit = Day
    BY <1>1, <1>2 DEF BarsOf
  <1>3. CASE chunk.unit # Day
    BY <1>1, <1>3 DEF BarsOf
  <1> QED
    BY <1>2, <1>3

(* A request takes its chunk out of the queue: the symbol still has one. *)
LEMMA RequestFlow == FlowInv /\ req_historical_bar => FlowInv'
  <1> SUFFICES ASSUME FlowInv, req_historical_bar PROVE FlowInv'
    OBVIOUS
  <1>1. TypeOK /\ BeforeRun /\ ChunkSymbols /\ Filing /\ Ends /\ OneChunk /\ NextChunk
        /\ UnsavedSettled /\ RemainingExact /\ FinalStatus
    BY DEF FlowInv
  <1>0. PICK m \in Nat \ {0} : m = m_req_id
    BY <1>1 DEF TypeOK
  <1>2. /\ pcR = "popping" /\ pcR' = "filing" /\ q # << >> /\ q' = Tail(q)
        /\ m \in ReqIds /\ m_req_id' = m + 1 /\ sent' = Head(q).symbol
        /\ tws' = [tws EXCEPT ![m] = [state |-> "open", bars |-> BarsOf(Head(q))]]
        /\ UNCHANGED <<cutVars, req_id_sym, errors, eq, symVars, dropped>>
    BY <1>0 DEF req_historical_bar
  <1>3. /\ Head(q) = q[1] /\ Head(q) \in Chunks /\ q' \in Seq(Chunks)
        /\ Len(q) \in Nat \ {0} /\ Len(q') = Len(q) - 1
        /\ \A i \in 1 .. Len(q') : q'[i] = q[i + 1]
    BY <1>1, <1>2, HeadTailProperties, EmptySeq DEF TypeOK
  <1>4. 1 \in 1 .. Len(q) /\ \A i \in 1 .. Len(q') : i + 1 \in 1 .. Len(q) /\ i + 1 # 1
    BY <1>3
  <1>5. m + 1 \in Nat \ {0} /\ (m + 1) - 1 = m
    OBVIOUS
  <1>6. Head(q).symbol \in Wanted /\ ChunkDue(Head(q).symbol)
    <2>1. Head(q).symbol \in Symbols /\ ChunkDue(Head(q).symbol)
      BY <1>1, <1>3, <1>4 DEF NextChunk, Chunks
    <2>2. sym_chunks[Head(q).symbol] # << >>
      BY <1>1, <2>1, EmptySeq DEF ChunkDue, TypeOK
    <2> QED
      BY <2>1, <2>2 DEF Wanted
  <1>7. TypeOK'
    <2>1. tws' \in [ReqIds -> Requests]
      BY <1>1, <1>2, <1>3, BarsOfType DEF TypeOK, Requests
    <2>2. sent' \in Symbols
      BY <1>2, <1>3 DEF Chunks
    <2> QED
      BY <1>1, <1>2, <1>3, <1>5, <2>1, <2>2 DEF TypeOK, cutVars, symVars
  <1>8. BeforeRun' /\ ChunkSymbols'
    BY <1>1, <1>2 DEF BeforeRun, ChunkSymbols, cutVars
  <1>9. /\ tws[m].state = "absent" /\ req_id_sym[m] = NoSymbol
        /\ tws'[m].state = "open"
        /\ \A id \in ReqIds : id # m => tws'[id] = tws[id]
    BY <1>0, <1>1, <1>2, <1>5 DEF Filing, TypeOK
  <1>10. ~EndQueued(m)
    BY <1>1, <1>9 DEF Ends, EndQueued, EndAt
  <1>11. \A id \in ReqIds : EndQueued(id)' <=> EndQueued(id)
    BY <1>2 DEF EndQueued, EndAt
  <1>12. /\ Owner(m)' = Head(q).symbol
         /\ \A id \in ReqIds : id # m => Owner(id)' = Owner(id) /\ (Live(id)' <=> Live(id))
    <2>1. /\ pcR' = "filing" /\ m_req_id' - 1 = m /\ req_id_sym' = req_id_sym
          /\ pcR # "filing"
      BY <1>2, <1>5
    <2>2. Owner(m)' = Head(q).symbol
      BY <1>2, <2>1 DEF Owner
    <2>3. ASSUME NEW id \in ReqIds, id # m PROVE Owner(id)' = Owner(id)
      BY <2>1, <2>3 DEF Owner
    <2>4. ASSUME NEW id \in ReqIds, id # m PROVE Live(id)' <=> Live(id)
      BY <1>9, <1>11, <2>4 DEF Live
    <2> QED
      BY <2>2, <2>3, <2>4
  <1>13. Filing'
    <2>1. Wanted' = Wanted
      BY <1>2 DEF Wanted, cutVars
    <2>2. \A id \in ReqIds : id >= m + 1 => id >= m /\ id # m
      BY <1>5 DEF ReqIds
    <2>3. \A id \in ReqIds : id < m + 1 => id < m \/ id = m
      BY <1>5 DEF ReqIds
    <2>4. \A id \in ReqIds : id >= m_req_id' =>
              tws'[id].state = "absent" /\ req_id_sym'[id] = NoSymbol
      BY <1>0, <1>1, <1>2, <1>9, <2>2 DEF Filing
    <2>5. \A id \in ReqIds : id < m_req_id' => Owner(id)' \in Wanted'
      BY <1>0, <1>1, <1>2, <1>6, <1>12, <2>1, <2>3 DEF Filing
    <2>6. m_req_id' - 1 \in ReqIds /\ req_id_sym'[m_req_id' - 1] = NoSymbol
      BY <1>2, <1>5, <1>9
    <2> QED
      BY <2>4, <2>5, <2>6 DEF Filing
  <1>14. Ends'
    <2>1. \A i \in 1 .. Len(eq) : eq[i].type = "hist_bar_end" => eq[i].id \in ReqIds /\ eq[i].id # m
      BY <1>1, <1>9, EventFields, ElementOfSeq DEF Ends, TypeOK
    <2> QED
      BY <1>1, <1>2, <1>9, <2>1 DEF Ends, EndAt
  <1>15. OneChunk'
    <2>1. ASSUME NEW i \in 1 .. Len(q'), NEW j \in 1 .. Len(q'), q'[i].symbol = q'[j].symbol
          PROVE  i = j
      <3>1. i + 1 = j + 1
        BY <1>1, <1>3, <1>4, <2>1 DEF OneChunk
      <3> QED
        BY <1>3, <3>1
    <2>2. ASSUME NEW i \in 1 .. Len(q'), NEW id \in ReqIds, Live(id)'
          PROVE  Owner(id)' # q'[i].symbol
      BY <1>1, <1>3, <1>4, <1>12, <2>2 DEF OneChunk
    <2>3. ASSUME NEW id \in ReqIds, NEW jd \in ReqIds, Live(id)', Live(jd)',
                 Owner(id)' = Owner(jd)'
          PROVE  id = jd
      <3>1. \A k \in ReqIds : Live(k) => Owner(k) # Head(q).symbol
        BY <1>1, <1>3, <1>4 DEF OneChunk
      <3> QED
        BY <1>1, <1>12, <2>3, <3>1 DEF OneChunk
    <2> QED
      BY <2>1, <2>2, <2>3 DEF OneChunk
  <1>16. NextChunk'
    <2>1. sym_chunks' = sym_chunks /\ sym_chunk_id' = sym_chunk_id
      BY <1>2 DEF cutVars, symVars
    <2>2. \A s : ChunkDue(s)' <=> ChunkDue(s)
      BY <2>1 DEF ChunkDue
    <2>3. \A id \in ReqIds : Live(id)' => ChunkDue(Owner(id)')
      BY <1>1, <1>6, <1>12 DEF NextChunk
    <2>4. \A i \in 1 .. Len(q') :
              /\ ChunkDue(q'[i].symbol)
              /\ q'[i] = sym_chunks[q'[i].symbol][sym_chunk_id[q'[i].symbol] + 1]
      BY <1>1, <1>3, <1>4 DEF NextChunk
    <2> QED
      BY <1>1, <2>1, <2>2, <2>3, <2>4 DEF NextChunk, ChunkDue
  <1>17. UnsavedSettled' /\ RemainingExact' /\ FinalStatus'
    BY <1>1, <1>2, CountKept DEF cutVars, symVars
  <1> QED
    BY <1>7, <1>8, <1>13, <1>14, <1>15, <1>16, <1>17 DEF FlowInv
-----------------------------------------------------------------------------
(* Handling an event that ends no chunk. *)
LEMMA HandledFrame ==
    ASSUME FlowInv, NEW type, Handles(type)
    PROVE  /\ pcR # "cutting" /\ pcR' = pcR
           /\ BeforeRun' /\ ChunkSymbols' /\ Filing' /\ Ends'
           /\ \A id \in ReqIds : /\ Owner(id)' = Owner(id)
                                 /\ Live(id)' => Live(id)
                                 /\ type = "hist_bar_end" /\ Live(id)' => id # Head(eq).id
           /\ UNCHANGED <<q, sym_chunk_id>> => OneChunk' /\ NextChunk'
  <1>1. TypeOK /\ BeforeRun /\ ChunkSymbols /\ Filing /\ Ends /\ OneChunk /\ NextChunk
    BY DEF FlowInv
  <1>2. UNCHANGED <<cutVars, runVars, twsVars>>
    BY DEF Handles
  <1>3. pcR # "cutting" /\ pcR' = pcR
    BY <1>1, <1>2, NotWhileCutting DEF runVars
  <1>4. BeforeRun' /\ ChunkSymbols'
    BY <1>1, <1>2, <1>3 DEF BeforeRun, ChunkSymbols, cutVars
  <1>5. Filing' /\ \A id \in ReqIds : Owner(id)' = Owner(id)
    BY <1>1, <1>2, FilingKept DEF cutVars, twsVars
  <1>6. Ends'
    BY <1>1, EndsAfterHandling
  <1>7. ASSUME NEW id \in ReqIds, Live(id)'
        PROVE  Live(id) /\ (type = "hist_bar_end" => id # Head(eq).id)
    <2>1. EndQueued(id)' <=> EndQueued(id) /\ ~(type = "hist_bar_end" /\ Head(eq).id = id)
      BY <1>1, HandledEnds
    <2>2. tws' = tws
      BY <1>2 DEF twsVars
    <2>3. type = "hist_bar_end" => tws[Head(eq).id].state = "closed"
      <3>1. Head(eq) = eq[1] /\ Head(eq).type = type /\ 1 \in 1 .. Len(eq)
        BY <1>1, HandledEvent
      <3> QED
        BY <1>1, <3>1 DEF Ends
    <2> QED
      BY <1>7, <2>1, <2>2, <2>3 DEF Live
  <1>8. UNCHANGED <<q, sym_chunk_id>> => OneChunk' /\ NextChunk'
    BY <1>1, <1>2, <1>5, <1>7, ChunksKept DEF cutVars
  <1> QED
    BY <1>3, <1>4, <1>5, <1>6, <1>7, <1>8

(* The symbol an event is filed under is one that has chunks, and the one  *)
(* its request was made for.                                               *)
LEMMA FiledSymbol ==
    ASSUME FlowInv, NEW type, Handles(type), EventSymbol # NoSymbol
    PROVE  /\ EventId \in ReqIds /\ EventSymbol \in Symbols /\ EventSymbol \in Wanted
           /\ Owner(EventId) = EventSymbol
  <1>1. TypeOK /\ Filing
    BY DEF FlowInv
  <1>2. EventId \in ReqIds
    BY <1>1, HandledEvent, EventFields DEF EventId
  <1>3. Owner(EventId) = EventSymbol
    BY <1>1 DEF Filing, Owner, EventSymbol
  <1>4. EventId < m_req_id
    BY <1>1, <1>2 DEF Filing, EventSymbol, TypeOK, ReqIds
  <1> QED
    BY <1>1, <1>2, <1>3, <1>4 DEF Filing, Wanted

(* Settling a symbol in progress takes one off both sides of the count. *)
LEMMA SettleCounts ==
    ASSUME TypeOK, UnsavedSettled, RemainingExact, pcR # "cutting", pcR' = pcR,
           NEW s \in Wanted, sym_status[s] = "in_prog",
           NEW status \in {"success", "error"}, Settle(s, status),
           UNCHANGED <<sym_chunks, unsaved>>
    PROVE  /\ UnsavedSettled' /\ RemainingExact' /\ InProgress' \subseteq InProgress
           /\ remaining' \in Nat /\ sym_status' \in [Symbols -> {"in_prog", "success", "error"}]
  <1>1. /\ s \in Symbols /\ Wanted' = Wanted
        /\ sym_status' = [sym_status EXCEPT ![s] = status] /\ remaining' = remaining - 1
    BY DEF Wanted, Settle
  <1>2. InProgress' = InProgress \ {s} /\ s \in InProgress
    BY <1>1 DEF InProgress, TypeOK, Wanted
  <1>3. IsFiniteSet(InProgress) /\ Cardinality(InProgress) \in Nat /\ Cardinality(unsaved) \in Nat
    BY FiniteCounts
  <1>4. Cardinality(InProgress') = Cardinality(InProgress) - 1 /\ Cardinality(InProgress') \in Nat
    BY <1>2, <1>3, FS_RemoveElement, FS_CardinalityType
  <1>5. RemainingExact' /\ remaining' \in Nat
    BY <1>1, <1>3, <1>4 DEF RemainingExact
  <1>6. UnsavedSettled'
    BY <1>1 DEF UnsavedSettled, TypeOK
  <1> QED
    BY <1>1, <1>2, <1>5, <1>6 DEF TypeOK

(* A dropped event changes no count. *)
LEMMA DropFlow ==
    ASSUME FlowInv, NEW type, Handles(type), Drop
    PROVE  FlowInv'
  <1>1. TypeOK /\ UnsavedSettled /\ RemainingExact /\ FinalStatus
    BY DEF FlowInv
  <1>2. /\ UNCHANGED <<cutVars, runVars, twsVars, q, symVars>>
        /\ dropped' = dropped \cup {EventId}
    BY DEF Handles, Drop
  <1>3. eq' \in Seq(Events) /\ EventId \in ReqIds
    BY <1>1, HandledEvent, EventFields DEF EventId
  <1>4. TypeOK'
    BY <1>1, <1>2, <1>3 DEF TypeOK, cutVars, runVars, twsVars, symVars
  <1>5. BeforeRun' /\ ChunkSymbols' /\ Filing' /\ Ends' /\ OneChunk' /\ NextChunk'
        /\ pcR # "cutting" /\ pcR' = pcR
    BY <1>2, HandledFrame DEF symVars
  <1>6. UnsavedSettled' /\ RemainingExact' /\ FinalStatus'
    BY <1>1, <1>2, <1>5, CountKept DEF cutVars, symVars
  <1> QED
    BY <1>4, <1>5, <1>6 DEF FlowInv

(* The handlers of the event engine keep the bookkeeping. *)
LEMMA BarFlow == FlowInv /\ process_hist_bar => FlowInv'
  <1> SUFFICES ASSUME FlowInv, Handles("hist_bar"), EventSymbol # NoSymbol,
                      sym_data' = [sym_data EXCEPT ![EventSymbol] = Append(@, Head(eq).time)],
                      UNCHANGED <<q, sym_chunk_id, saved, sym_status, remaining, unsaved, dropped>>
               PROVE  FlowInv'
    BY DropFlow DEF process_hist_bar
  <1>1. TypeOK /\ UnsavedSettled /\ RemainingExact /\ FinalStatus
    BY DEF FlowInv
  <1>2. UNCHANGED <<cutVars, runVars, twsVars>>
    BY DEF Handles
  <1>3. eq' \in Seq(Events) /\ Head(eq).time \in Int /\ EventSymbol \in Symbols
    BY <1>1, HandledEvent, EventFields, FiledSymbol
  <1>4. sym_data' \in [Symbols -> Seq(Int)]
    <2>1. Append(sym_data[EventSymbol], Head(eq).time) \in Seq(Int)
      BY <1>1, <1>3, AppendProperties DEF TypeOK
    <2> QED
      BY <1>1, <1>3, <2>1 DEF TypeOK
  <1>5. TypeOK'
    BY <1>1, <1>2, <1>3, <1>4 DEF TypeOK, cutVars, runVars, twsVars
  <1>6. BeforeRun' /\ ChunkSymbols' /\ Filing' /\ Ends' /\ OneChunk' /\ NextChunk'
        /\ pcR # "cutting" /\ pcR' = pcR
    BY HandledFrame
  <1>7. UnsavedSettled' /\ RemainingExact' /\ FinalStatus'
    BY <1>1, <1>2, <1>6, CountKept DEF cutVars
  <1> QED
    BY <1>5, <1>6, <1>7 DEF FlowInv

(* An error answers the request. *)
LEMMA ErrorFlow == FlowInv /\ process_err_msg => FlowInv'
  <1> SUFFICES ASSUME FlowInv, Handles("ib_err_msg"), EventSymbol # NoSymbol,
                      \/ sym_status[EventSymbol] = "in_prog" /\ Settle(EventSymbol, "error")
                      \/ /\ sym_status[EventSymbol] # "in_prog"
                         /\ sym_status' = [sym_status EXCEPT ![EventSymbol] = "error"]
                         /\ UNCHANGED remaining,
                      UNCHANGED <<q, sym_chunk_id, sym_data, saved, unsaved, dropped>>
               PROVE  FlowInv'
    BY DropFlow DEF process_err_msg
  <1>1. TypeOK /\ UnsavedSettled /\ RemainingExact /\ FinalStatus
    BY DEF FlowInv
  <1>2. UNCHANGED <<cutVars, runVars, twsVars>> /\ sym_chunks' = sym_chunks
    BY DEF Handles, cutVars
  <1>3. eq' \in Seq(Events) /\ EventSymbol \in Symbols /\ EventSymbol \in Wanted
    BY <1>1, HandledEvent, FiledSymbol
  <1>4. BeforeRun' /\ ChunkSymbols' /\ Filing' /\ Ends' /\ OneChunk' /\ NextChunk'
        /\ pcR # "cutting" /\ pcR' = pcR
    BY HandledFrame
  <1>5. /\ UnsavedSettled' /\ RemainingExact' /\ InProgress' \subseteq InProgress
        /\ remaining' \in Nat /\ sym_status' \in [Symbols -> {"in_prog", "success", "error"}]
    <2>1. CASE sym_status[EventSymbol] = "in_prog" /\ Settle(EventSymbol, "error")
      BY <1>1, <1>2, <1>3, <1>4, <2>1, SettleCounts
    <2>2. CASE /\ sym_status[EventSymbol] # "in_prog"
               /\ sym_status' = [sym_status EXCEPT ![EventSymbol] = "error"]
               /\ UNCHANGED remaining
      <3>1. InProgress' = InProgress /\ Wanted' = Wanted
        BY <1>1, <1>2, <1>3, <2>2 DEF InProgress, Wanted, TypeOK
      <3>2. UnsavedSettled' /\ RemainingExact'
        BY <1>1, <1>4, <2>2, <3>1, <1>3 DEF UnsavedSettled, RemainingExact, TypeOK
      <3> QED
        BY <1>1, <1>3, <2>2, <3>1, <3>2 DEF TypeOK
    <2> QED
      BY <2>1, <2>2
  <1>6. TypeOK'
    BY <1>1, <1>2, <1>3, <1>5 DEF TypeOK, cutVars, runVars, twsVars
  <1>7. FinalStatus'
    BY <1>1, <1>4, <1>5 DEF FinalStatus
  <1> QED
    BY <1>4, <1>5, <1>6, <1>7 DEF FlowInv
(* What saving a symbol's bars does to the counts, whether it succeeds or  *)
(* not.                                                                    *)
LEMMA SavingCounts ==
    ASSUME TypeOK, UnsavedSettled, RemainingExact, pcR # "cutting", pcR' = pcR,
           UNCHANGED sym_chunks, NEW s \in Wanted,
           Save(s) \/ SaveFails(s) \/ SaveThrows(s)
    PROVE  /\ UnsavedSettled' /\ RemainingExact' /\ InProgress' \subseteq InProgress
           /\ remaining' \in Nat /\ sym_status' \in [Symbols -> {"in_prog", "success", "error"}]
           /\ sym_data' \in [Symbols -> Seq(Int)] /\ saved' \in [Symbols -> Seq(Int)]
           /\ unsaved' \subseteq Symbols
  <1>1. s \in Symbols /\ Wanted' = Wanted
    BY DEF Wanted
  <1>2. sym_data[s] \in Seq(Int) /\ SortUnique(sym_data[s]) \in Seq(Int)
    BY <1>1, SortUniqueProperties DEF TypeOK
  <1>3. sym_data' \in [Symbols -> Seq(Int)] /\ saved' \in [Symbols -> Seq(Int)]
    <2>1. CASE Save(s)
      BY <1>1, <1>2, <2>1 DEF Save, process_data, TypeOK
    <2>2. CASE SaveFails(s)
      BY <1>1, <1>2, <2>2 DEF SaveFails, TypeOK
    <2>3. CASE SaveThrows(s)
      BY <1>1, <1>2, <2>3 DEF SaveThrows, TypeOK
    <2> QED
      BY <2>1, <2>2, <2>3
  <1>4. CASE Save(s) /\ sym_status[s] = "in_prog" /\ Settle(s, "success")
    BY <1>3, <1>4, SettleCounts DEF Save, TypeOK
  <1>5. CASE Save(s) /\ sym_status[s] # "in_prog" /\ UNCHANGED <<sym_status, remaining>>
    <2>1. unsaved' = unsaved /\ InProgress' = InProgress
      BY <1>1, <1>5 DEF Save, InProgress
    <2> QED
      BY <1>1, <1>3, <1>5, <2>1 DEF UnsavedSettled, RemainingExact, TypeOK
  <1>6. CASE SaveFails(s)
    <2>1. /\ sym_status' = [sym_status EXCEPT ![s] = "error"] /\ remaining' = remaining
          /\ unsaved' = IF sym_status[s] = "in_prog" THEN unsaved \cup {s} ELSE unsaved
      BY <1>6 DEF SaveFails
    <2>2. /\ InProgress' = InProgress \ {s}
          /\ sym_status' \in [Symbols -> {"in_prog", "success", "error"}]
      BY <1>1, <2>1 DEF InProgress, Wanted, TypeOK
    <2>3. UnsavedSettled' /\ unsaved' \subseteq Symbols /\ remaining' \in Nat
      BY <1>1, <2>1 DEF UnsavedSettled, TypeOK
    <2>4. /\ IsFiniteSet(InProgress) /\ Cardinality(InProgress) \in Nat
          /\ IsFiniteSet(unsaved) /\ Cardinality(unsaved) \in Nat
      BY FiniteCounts
    <2>5. Cardinality(InProgress') + Cardinality(unsaved')
              = Cardinality(InProgress) + Cardinality(unsaved)
      <3>1. CASE sym_status[s] = "in_prog"
        <4>1. s \in InProgress /\ s \notin unsaved /\ unsaved' = unsaved \cup {s}
          BY <2>1, <3>1 DEF InProgress, UnsavedSettled
        <4>2. Cardinality(InProgress') = Cardinality(InProgress) - 1
          BY <2>2, <2>4, <4>1, FS_RemoveElement
        <4>3. Cardinality(unsaved') = Cardinality(unsaved) + 1
          BY <2>4, <4>1, FS_AddElement
        <4> QED
          BY <2>4, <4>2, <4>3
      <3>2. CASE sym_status[s] # "in_prog"
        <4>1. InProgress' = InProgress /\ unsaved' = unsaved
          BY <2>1, <2>2, <3>2 DEF InProgress
        <4> QED
          BY <4>1
      <3> QED
        BY <3>1, <3>2
    <2>6. RemainingExact'
      BY <2>1, <2>5 DEF RemainingExact
    <2> QED
      BY <1>3, <2>2, <2>3, <2>6
  <1>7. CASE SaveThrows(s)
    <2>1. UNCHANGED <<sym_status, remaining, unsaved>>
      BY <1>7 DEF SaveThrows
    <2>2. InProgress' = InProgress
      BY <1>1, <2>1 DEF InProgress
    <2> QED
      BY <1>1, <1>3, <2>1, <2>2 DEF UnsavedSettled, RemainingExact, TypeOK
  <1> QED
    BY <1>4, <1>5, <1>6, <1>7 DEF Save

(* The end of a chunk, which was the only one of its symbol under way. *)
LEMMA EndFlow == FlowInv /\ process_hist_bar_end => FlowInv'
  <1> SUFFICES ASSUME FlowInv, Handles("hist_bar_end"), EventSymbol # NoSymbol,
                      sym_chunk_id' = [sym_chunk_id EXCEPT ![EventSymbol] = @ + 1],
                      \/ /\ LastEnded(EventSymbol)
                         /\ \/ Save(EventSymbol) \/ SaveFails(EventSymbol)
                            \/ SaveThrows(EventSymbol)
                         /\ UNCHANGED q
                      \/ /\ ~LastEnded(EventSymbol)
                         /\ q' = Append(q, sym_chunks[EventSymbol][sym_chunk_id'[EventSymbol] + 1])
                         /\ UNCHANGED <<sym_data, saved, sym_status, remaining, unsaved>>,
                      UNCHANGED dropped
               PROVE  FlowInv'
    BY DropFlow DEF process_hist_bar_end
  <1>1. TypeOK /\ ChunkSymbols /\ Filing /\ Ends /\ OneChunk /\ NextChunk
        /\ UnsavedSettled /\ RemainingExact /\ FinalStatus
    BY DEF FlowInv
  <1>2. UNCHANGED <<cutVars, runVars, twsVars>> /\ sym_chunks' = sym_chunks
    BY DEF Handles, cutVars
  <1>3. /\ pcR # "cutting" /\ pcR' = pcR
        /\ BeforeRun' /\ ChunkSymbols' /\ Filing' /\ Ends'
        /\ \A id \in ReqIds : /\ Owner(id)' = Owner(id)
                              /\ Live(id)' => Live(id) /\ id # EventId
    BY HandledFrame DEF EventId
  <1>4. PICK s \in Wanted : s = EventSymbol /\ Owner(EventId) = s /\ EventId \in ReqIds
    BY FiledSymbol
  <1>5. s \in Symbols /\ sym_chunks[s] \in Seq(Chunks) /\ Len(sym_chunks[s]) \in Nat
        /\ sym_chunk_id[s] \in Nat /\ q \in Seq(Chunks) /\ Len(q) \in Nat
    BY <1>1, LenProperties DEF Wanted, TypeOK
  <1>6. Live(EventId)
    <2>1. Head(eq) = eq[1] /\ Head(eq).type = "hist_bar_end" /\ 1 \in 1 .. Len(eq)
      BY <1>1, HandledEvent
    <2> QED
      BY <2>1 DEF Live, EndQueued, EndAt, EventId
  <1>7. ChunkDue(s)
    BY <1>1, <1>4, <1>6 DEF NextChunk
  <1>8. /\ sym_chunk_id'[s] = sym_chunk_id[s] + 1
        /\ \A r \in Symbols : r # s => sym_chunk_id'[r] = sym_chunk_id[r]
        /\ sym_chunk_id' \in [Symbols -> Nat]
    <2>1. sym_chunk_id \in [Symbols -> Nat]
      BY <1>1 DEF TypeOK
    <2>2. sym_chunk_id' = [sym_chunk_id EXCEPT ![s] = sym_chunk_id[s] + 1]
      BY <1>4
    <2>3. sym_chunk_id[s] + 1 \in Nat
      BY <1>5
    <2> QED BY <1>5, <2>1, <2>2, <2>3
  <1>9. /\ \A i \in 1 .. Len(q) : q[i].symbol \in Symbols /\ q[i].symbol # s
        /\ \A id \in ReqIds : Live(id)' => Owner(id) # s /\ Owner(id) \in Symbols
    <2>1. ASSUME NEW i \in 1 .. Len(q) PROVE q[i].symbol \in Symbols /\ q[i].symbol # s
      <3>1. q[i] \in Chunks
        BY <1>5, ElementOfSeq
      <3>2. q[i].symbol # s
        BY <1>1, <1>4, <1>6 DEF OneChunk
      <3> QED
        BY <3>1, <3>2 DEF Chunks
    <2>2. ASSUME NEW id \in ReqIds, Live(id)' PROVE Owner(id) # s /\ Owner(id) \in Symbols
      <3>1. Live(id) /\ id # EventId
        BY <1>3, <2>2
      <3>2. id < m_req_id
        <4>1. tws[id].state # "absent"
          BY <1>1, <3>1 DEF Live, EndQueued, EndAt, Ends
        <4> QED
          BY <1>1, <4>1 DEF Filing, TypeOK, ReqIds
      <3> QED
        BY <1>1, <1>4, <1>6, <3>1, <3>2 DEF OneChunk, Filing, Wanted
    <2> QED
      BY <2>1, <2>2
  <1>10. \A r \in Symbols : sym_chunk_id'[r] <= Len(sym_chunks'[r])
    BY <1>1, <1>2, <1>5, <1>7, <1>8 DEF NextChunk, ChunkDue
  <1>11. \A id \in ReqIds : Live(id)' => ChunkDue(Owner(id))'
    BY <1>1, <1>2, <1>3, <1>8, <1>9 DEF NextChunk, ChunkDue
  <1>12. \A i \in 1 .. Len(q) : /\ sym_chunk_id'[q[i].symbol] < Len(sym_chunks'[q[i].symbol])
                                /\ q[i] = sym_chunks'[q[i].symbol][sym_chunk_id'[q[i].symbol] + 1]
    BY <1>1, <1>2, <1>8, <1>9 DEF NextChunk, ChunkDue
  <1>13. CASE /\ LastEnded(EventSymbol) /\ UNCHANGED q
              /\ Save(EventSymbol) \/ SaveFails(EventSymbol) \/ SaveThrows(EventSymbol)
    <2>1. OneChunk'
      BY <1>1, <1>3, <1>13 DEF OneChunk
    <2>2. NextChunk'
      BY <1>10, <1>11, <1>12, <1>13 DEF NextChunk, ChunkDue
    <2>3. /\ UnsavedSettled' /\ RemainingExact' /\ InProgress' \subseteq InProgress
          /\ remaining' \in Nat /\ sym_status' \in [Symbols -> {"in_prog", "success", "error"}]
          /\ sym_data' \in [Symbols -> Seq(Int)] /\ saved' \in [Symbols -> Seq(Int)]
          /\ unsaved' \subseteq Symbols
      BY <1>1, <1>2, <1>3, <1>4, <1>13, SavingCounts
    <2>4. eq' \in Seq(Events)
      BY <1>1, HandledEvent
    <2>5. TypeOK'
      BY <1>1, <1>2, <1>8, <1>13, <2>3, <2>4 DEF TypeOK, cutVars, runVars, twsVars
    <2>6. FinalStatus'
      BY <1>1, <1>3, <2>3 DEF FinalStatus
    <2> QED
      BY <1>3, <2>1, <2>2, <2>3, <2>5, <2>6 DEF FlowInv
  <1>14. CASE /\ ~LastEnded(EventSymbol)
              /\ q' = Append(q, sym_chunks[EventSymbol][sym_chunk_id'[EventSymbol] + 1])
              /\ UNCHANGED <<sym_data, saved, sym_status, remaining, unsaved>>
    <2>1. sym_chunk_id[s] + 2 \in 1 .. Len(sym_chunks[s])
      BY <1>4, <1>5, <1>7, <1>14 DEF LastEnded, ChunkDue
    <2>2. PICK c \in Chunks : /\ c = sym_chunks[s][sym_chunk_id'[s] + 1] /\ c.symbol = s
                              /\ q' = Append(q, c)
      BY <1>1, <1>4, <1>5, <1>8, <1>14, <2>1, ElementOfSeq DEF ChunkSymbols
    <2>3. /\ q' \in Seq(Chunks) /\ Len(q') = Len(q) + 1
          /\ \A i \in 1 .. Len(q) : q'[i] = q[i]
          /\ q'[Len(q) + 1] = c
          /\ \A i \in 1 .. Len(q') : i \in 1 .. Len(q) \/ i = Len(q) + 1
      BY <1>5, <2>2, AppendProperties
    <2>4. OneChunk'
      <3>1. ASSUME NEW i \in 1 .. Len(q'), NEW j \in 1 .. Len(q'), q'[i].symbol = q'[j].symbol
            PROVE  i = j
        BY <1>1, <1>9, <2>2, <2>3, <3>1 DEF OneChunk
      <3>2. ASSUME NEW i \in 1 .. Len(q'), NEW id \in ReqIds, Live(id)'
            PROVE  Owner(id)' # q'[i].symbol
        BY <1>1, <1>3, <1>9, <2>2, <2>3, <3>2 DEF OneChunk
      <3> QED
        BY <1>1, <1>3, <3>1, <3>2 DEF OneChunk
    <2>5. NextChunk'
      <3>1. sym_chunk_id'[s] < Len(sym_chunks'[s])
        BY <1>2, <1>5, <1>8, <2>1
      <3>2. ASSUME NEW i \in 1 .. Len(q')
            PROVE  /\ sym_chunk_id'[q'[i].symbol] < Len(sym_chunks'[q'[i].symbol])
                   /\ q'[i] = sym_chunks'[q'[i].symbol][sym_chunk_id'[q'[i].symbol] + 1]
        <4>1. CASE i \in 1 .. Len(q)
          <5>1. q'[i] = q[i]
            BY <2>3, <4>1
          <5> QED BY <1>12, <4>1, <5>1
        <4>2. CASE i = Len(q) + 1
          <5>1. q'[i] = c
            BY <2>3, <4>2
          <5> QED BY <1>2, <2>2, <3>1, <5>1
        <4> QED BY <2>3, <4>1, <4>2
      <3> QED
        BY <1>10, <1>11, <3>2 DEF NextChunk, ChunkDue
    <2>6. UnsavedSettled' /\ RemainingExact' /\ FinalStatus'
      BY <1>1, <1>2, <1>3, <1>14, CountKept
    <2>7. eq' \in Seq(Events)
      BY <1>1, HandledEvent
    <2>8. TypeOK'
      BY <1>1, <1>2, <1>8, <1>14, <2>3, <2>7 DEF TypeOK, cutVars, runVars, twsVars
    <2> QED
      BY <1>3, <2>4, <2>5, <2>6, <2>8 DEF FlowInv
  <1> QED
    BY <1>13, <1>14

(* Cutting and beginning keep the bookkeeping. *)
LEMMA CutFlow == FlowInv /\ CutInv /\ CutInv' /\ CutChunk => FlowInv'
  <1> SUFFICES ASSUME FlowInv, CutInv, CutInv', CutChunk PROVE FlowInv'
    OBVIOUS
  <1>1. TypeOK /\ BeforeRun /\ ChunkSymbols /\ Filing /\ UnsavedSettled
    BY DEF FlowInv
  <1>2. /\ pcR = "cutting" /\ UNCHANGED <<sym_req, q, runVars, twsVars, eq, symVars, dropped>>
    BY DEF CutChunk
  <1>3. TypeOK'
    BY <1>1, <1>2 DEF TypeOK, CutInv, CutTypeOK, runVars, twsVars, symVars
  <1>4. /\ q = << >> /\ eq = << >> /\ m_req_id = 1 /\ unsaved = {}
        /\ Len(q) = 0 /\ Len(eq) = 0
        /\ \A id \in ReqIds : tws[id].state = "absent"
        /\ \A s \in Symbols : sym_chunk_id[s] = 0 /\ sym_status[s] = "in_prog"
    BY <1>1, <1>2, EmptySeq DEF BeforeRun
  <1>5. BeforeRun' /\ Ends' /\ UnsavedSettled' /\ RemainingExact' /\ FinalStatus'
    BY <1>2, <1>4 DEF BeforeRun, Ends, UnsavedSettled, RemainingExact, FinalStatus,
       runVars, twsVars, symVars
  <1>6. Filing'
    BY <1>1, <1>2, <1>4 DEF Filing, runVars, twsVars, ReqIds
  <1>7. \A id \in ReqIds : ~Live(id)'
    BY <1>2, <1>4 DEF Live, EndQueued, twsVars
  <1>8. OneChunk'
    BY <1>2, <1>4, <1>7 DEF OneChunk
  <1>9. NextChunk'
    <2>1. \A s \in Symbols : Len(sym_chunks'[s]) \in Nat
      BY <1>3, LenProperties DEF TypeOK
    <2> QED
      BY <1>2, <1>4, <1>7, <2>1 DEF NextChunk, symVars
  <1>10. ChunkSymbols'
    <2>0. PICK s \in Symbols :
            \E chunk : /\ chunk.symbol = s
                       /\ sym_chunks' = [sym_chunks EXCEPT ![s] = Append(@, chunk)]
      BY DEF CutChunk, generate_ib_reqs, Cut
    <2>1. PICK chunk :
            /\ chunk.symbol = s
            /\ sym_chunks' = [sym_chunks EXCEPT ![s] = Append(@, chunk)]
      BY <2>0
    <2>2. /\ Len(sym_chunks[s]) \in Nat
          /\ Len(sym_chunks'[s]) = Len(sym_chunks[s]) + 1
          /\ \A k \in 1 .. Len(sym_chunks[s]) : sym_chunks'[s][k] = sym_chunks[s][k]
          /\ sym_chunks'[s][Len(sym_chunks[s]) + 1] = chunk
      <3>1. sym_chunks[s] \in Seq(Chunks) /\ sym_chunks'[s] = Append(sym_chunks[s], chunk)
        BY <1>1, <2>1 DEF TypeOK
      <3>2. sym_chunks[s] \in Seq(Chunks \cup {chunk})
        BY <3>1, SeqMonotonic
      <3> QED
        BY <3>1, <3>2, AppendProperties, LenProperties
    <2>3. \A r \in Symbols : r # s => sym_chunks'[r] = sym_chunks[r]
      BY <1>1, <2>1 DEF TypeOK
    <2>4. ASSUME NEW k \in 1 .. Len(sym_chunks'[s]) PROVE sym_chunks'[s][k].symbol = s
      <3>1. k \in 1 .. Len(sym_chunks[s]) \/ k = Len(sym_chunks[s]) + 1
        BY <2>2
      <3> QED
        BY <1>1, <2>1, <2>2, <3>1 DEF ChunkSymbols
    <2> QED
      BY <1>1, <2>3, <2>4 DEF ChunkSymbols
  <1> QED
    BY <1>3, <1>5, <1>6, <1>8, <1>9, <1>10 DEF FlowInv

(* run() begins with the first chunk. *)
LEMMA BeginFlow == FlowInv /\ BeginRun => FlowInv'
  <1> SUFFICES ASSUME FlowInv, BeginRun PROVE FlowInv'
    OBVIOUS
  <1>1. TypeOK /\ BeforeRun /\ ChunkSymbols /\ Filing
    BY DEF FlowInv
  <1>2. PICK order \in SetToSeqs(Wanted) :
          q' = [i \in 1 .. Len(order) |-> sym_chunks[order[i]][1]]
    BY DEF BeginRun
  <1>3. /\ pcR = "cutting" /\ pcR' = "testing" /\ remaining' = Cardinality(Wanted)
        /\ UNCHANGED <<cutVars, sent, m_req_id, req_id_sym, twsVars, eq, dropped,
                       sym_chunk_id, sym_data, saved, sym_status, unsaved>>
        /\ sym_chunks' = sym_chunks
    BY DEF BeginRun, cutVars
  <1>4. /\ eq = << >> /\ m_req_id = 1 /\ unsaved = {} /\ Len(eq) = 0
        /\ \A id \in ReqIds : tws[id].state = "absent"
        /\ \A s \in Symbols : sym_chunk_id[s] = 0 /\ sym_status[s] = "in_prog"
    BY <1>1, <1>3, EmptySeq DEF BeforeRun
  <1> DEFINE n == Cardinality(Wanted)
  <1>5. n \in Nat /\ IsFiniteSet(Wanted)
    BY <1>1, FiniteCounts
  <1>6. /\ order \in [1 .. n -> Wanted] /\ Len(order) = n
        /\ \A i, j \in 1 .. n : i # j => order[i] # order[j]
    <2>1. order \in [1 .. n -> Wanted] /\ \A i, j \in 1 .. n : i # j => order[i] # order[j]
      BY <1>2 DEF SetToSeqs
    <2> HIDE DEF n
    <2>2. Len(order) = n
      BY <1>5, <2>1
    <2> QED
      BY <2>1, <2>2
  <1> HIDE DEF n
  <1>7. \A s \in Wanted : /\ s \in Symbols /\ 1 \in 1 .. Len(sym_chunks[s])
                          /\ sym_chunks[s][1] \in Chunks /\ sym_chunks[s][1].symbol = s
    <2> TAKE s \in Wanted
    <2>1. s \in Symbols /\ sym_chunks[s] \in Seq(Chunks) /\ sym_chunks[s] # << >>
      BY <1>1 DEF Wanted, TypeOK
    <2>2. 1 \in 1 .. Len(sym_chunks[s])
      BY <2>1, EmptySeq
    <2> QED
      BY <1>1, <2>1, <2>2, ElementOfSeq DEF ChunkSymbols
  <1>8. /\ q' \in Seq(Chunks) /\ Len(q') = n
        /\ \A i \in 1 .. n : /\ q'[i] = sym_chunks[order[i]][1] /\ q'[i].symbol = order[i]
                             /\ order[i] \in Wanted
    <2>1. q' = [i \in 1 .. n |-> sym_chunks[order[i]][1]]
      BY <1>2, <1>6
    <2>2. \A i \in 1 .. n : /\ q'[i] = sym_chunks[order[i]][1] /\ q'[i].symbol = order[i]
                            /\ order[i] \in Wanted
      BY <1>6, <1>7, <2>1
    <2>3. q' \in [1 .. n -> Chunks]
      BY <1>6, <1>7, <2>1
    <2> QED
      BY <1>5, <2>2, <2>3
  <1>9. TypeOK'
    BY <1>1, <1>3, <1>5, <1>8 DEF TypeOK, cutVars, twsVars, n
  <1>10. BeforeRun' /\ ChunkSymbols' /\ Ends'
    BY <1>1, <1>3, <1>4 DEF BeforeRun, ChunkSymbols, Ends
  <1>11. Filing'
    BY <1>1, <1>3, <1>4 DEF Filing, twsVars, ReqIds
  <1>12. \A id \in ReqIds : ~Live(id)'
    BY <1>3, <1>4 DEF Live, EndQueued, twsVars
  <1>13. OneChunk'
    BY <1>6, <1>8, <1>12 DEF OneChunk
  <1>14. NextChunk'
    <2>1. \A s \in Symbols : Len(sym_chunks[s]) \in Nat
      BY <1>1, LenProperties DEF TypeOK
    <2>2. \A s \in Wanted : 0 < Len(sym_chunks[s])
      BY <1>7, <2>1
    <2> QED
      BY <1>3, <1>4, <1>7, <1>8, <1>12, <2>1, <2>2 DEF NextChunk, ChunkDue
  <1>15. UnsavedSettled' /\ RemainingExact' /\ FinalStatus'
    <2>1. InProgress' = Wanted
      BY <1>3, <1>4 DEF InProgress, Wanted
    <2>2. Cardinality(unsaved') = 0
      BY <1>3, <1>4, FS_EmptySet
    <2> QED
      BY <1>3, <1>4, <1>5, <2>1, <2>2 DEF UnsavedSettled, RemainingExact, FinalStatus, n
  <1> QED
    BY <1>9, <1>10, <1>11, <1>13, <1>14, <1>15 DEF FlowInv

(* The bookkeeping holds from the start, and is kept by every step. *)
LEMMA FlowInit == Init => FlowInv
  <1> SUFFICES ASSUME Init PROVE FlowInv
    OBVIOUS
  <1>1. CutTypeOK
    BY CutInvInit DEF CutInv
  <1>2. TypeOK
    BY <1>1, EmptySeq DEF Init, TypeOK, CutTypeOK, Requests
  <1>3. Len(q) = 0 /\ Len(eq) = 0 /\ \A s \in Symbols : Len(sym_chunks[s]) = 0
    BY EmptySeq DEF Init
  <1>4. BeforeRun /\ ChunkSymbols /\ Ends /\ UnsavedSettled /\ RemainingExact /\ FinalStatus
    BY <1>3 DEF Init, BeforeRun, ChunkSymbols, Ends, UnsavedSettled, RemainingExact, FinalStatus
  <1>5. Filing
    BY DEF Init, Filing, ReqIds
  <1>6. \A id \in ReqIds : ~Live(id)
    BY <1>3 DEF Init, Live, EndQueued
  <1>7. OneChunk /\ NextChunk
    BY <1>3, <1>6 DEF Init, OneChunk, NextChunk
  <1> QED
    BY <1>2, <1>4, <1>5, <1>7 DEF FlowInv

(* The flow of requests and answers is preserved by every step. *)
LEMMA FlowNext == FlowInv /\ CutInv /\ CutInv' /\ [Next]_vars => FlowInv'
  <1> SUFFICES ASSUME FlowInv, CutInv, CutInv', [Next]_vars PROVE FlowInv'
    OBVIOUS
  <1>1. CASE UNCHANGED vars
    <2>1. UNCHANGED <<sym_req, st, sym_chunks, q, pcR, sent, m_req_id, tws, eq, req_id_sym,
                      sym_chunk_id, sym_data, saved, sym_status, remaining, errors, dropped,
                      unsaved>>
      BY <1>1 DEF vars, cutVars, runVars, twsVars, symVars
    <2>2. TypeOK'
      BY <2>1 DEF FlowInv, TypeOK
    <2>3. ASSUME NEW id \in ReqIds
          PROVE  Owner(id)' = Owner(id) /\ (Live(id)' <=> Live(id))
      <3>1. \A i \in 1 .. Len(eq) : EndAt(i, id)' <=> EndAt(i, id)
        BY <2>1 DEF EndAt
      <3> QED
        BY <2>1, <3>1 DEF Owner, Live, EndQueued
    <2>4. BeforeRun' /\ ChunkSymbols' /\ Filing'
      BY <2>1, <2>3 DEF FlowInv, BeforeRun, ChunkSymbols, Filing, Wanted
    <2>5. Ends'
      BY <2>1 DEF FlowInv, Ends, EndAt
    <2>6. OneChunk' /\ NextChunk'
      BY <2>1, <2>3 DEF FlowInv, OneChunk, NextChunk, ChunkDue
    <2>7. UnsavedSettled' /\ RemainingExact' /\ FinalStatus'
      BY <2>1 DEF FlowInv, UnsavedSettled, RemainingExact, FinalStatus, Wanted, InProgress
    <2> QED
      BY <2>2, <2>4, <2>5, <2>6, <2>7 DEF FlowInv
  <1>2. CASE Dispatch
    BY <1>2, BarFlow, EndFlow, ErrorFlow DEF Dispatch
  <1>3. CASE run
    BY <1>3, PlaceFlow, FileFlow, RequestFlow DEF run
  <1> QED
    BY <1>1, <1>2, <1>3, CutFlow, BeginFlow, AnswersFlow DEF Next

(* The bookkeeping of a download keeps its types: whatever TWS answers and *)
(* whenever, each end of a request finds a chunk of its symbol that is     *)
(* due, so that process_hist_bar_end never reads behind the last chunk.    *)
THEOREM HistTypeCorrect == Spec => []TypeOK
  <1>1. FlowInv => TypeOK
    BY DEF FlowInv
  <1> QED
    BY <1>1, FlowInit, FlowNext, CutInvInit, CutInvNext, PTL DEF Spec

(* remaining is the number of symbols in progress and of those that could  *)
(* not be saved, for any symbols, answers and errors: no error and no end  *)
(* counts a symbol down a second time, and none is left out.               *)
THEOREM RemainingIsExact == Spec => []RemainingExact
  <1>1. FlowInv => RemainingExact
    BY DEF FlowInv
  <1> QED
    BY <1>1, FlowInit, FlowNext, CutInvInit, CutInvNext, PTL DEF Spec

(* When run() comes to its end, no symbol is in progress. *)
THEOREM FinalStatusKnown == Spec => []FinalStatus
  <1>1. FlowInv => FinalStatus
    BY DEF FlowInv
  <1> QED
    BY <1>1, FlowInit, FlowNext, CutInvInit, CutInvNext, PTL DEF Spec
-----------------------------------------------------------------------------
(* The last bar of a request stays on its way, or arrives, when a message  *)
(* of TWS is queued.                                                       *)
LEMMA QueuedKeepsLast ==
    ASSUME TypeOK, NEW e \in Events, eq' = Append(eq, e), NEW k \in ReqIds, LastKept(k),
           Owner(k)' = Owner(k), DueBar(Owner(k))' = DueBar(Owner(k)),
           sym_data' = sym_data,
           \/ tws'[k].bars = tws[k].bars
           \/ tws[k].bars = << >>
           \/ /\ tws[k].bars \in Seq(Int) /\ tws'[k].bars = Tail(tws[k].bars)
              /\ e = [type |-> "hist_bar", id |-> k, time |-> Head(tws[k].bars)]
              /\ ~EndQueued(k)
    PROVE  LastKept(k)'
  <1> DEFINE due == DueBar(Owner(k))
  <1>1. /\ Len(eq) \in Nat /\ Len(eq') = Len(eq) + 1
        /\ \A i \in 1 .. Len(eq) : eq'[i] = eq[i]
        /\ eq'[Len(eq) + 1] = e
        /\ \A i \in 1 .. Len(eq') : i \in 1 .. Len(eq) \/ i = Len(eq) + 1
    BY AppendedEvent
  <1>2. CASE \E i \in 1 .. Len(eq) :
                /\ eq[i] = [type |-> "hist_bar", id |-> k, time |-> due]
                /\ \A j \in 1 .. Len(eq) : EndAt(j, k) => i < j
    <2>1. PICK i \in 1 .. Len(eq) :
              /\ eq[i] = [type |-> "hist_bar", id |-> k, time |-> due]
              /\ \A j \in 1 .. Len(eq) : EndAt(j, k) => i < j
      BY <1>2
    <2>2. i \in 1 .. Len(eq') /\ eq'[i] = eq[i] /\ i < Len(eq) + 1
      BY <1>1
    <2>3. \A j \in 1 .. Len(eq') : EndAt(j, k)' => i < j
      BY <1>1, <2>1, <2>2 DEF EndAt
    <2> HIDE DEF due
    <2>4. \E n \in 1 .. Len(eq') :
             /\ eq'[n] = [type |-> "hist_bar", id |-> k, time |-> due]
             /\ \A j \in 1 .. Len(eq') : EndAt(j, k)' => n < j
      BY <2>1, <2>2, <2>3
    <2> QED
      BY <2>4 DEF LastKept, due
  <1>3. CASE due \in ToSet(sym_data[Owner(k)])
    BY <1>3 DEF LastKept
  <1>4. CASE tws[k].bars # << >> /\ tws[k].bars[Len(tws[k].bars)] = due
    <2>1. CASE tws'[k].bars = tws[k].bars
      BY <1>4, <2>1 DEF LastKept
    <2>2. CASE /\ tws[k].bars \in Seq(Int) /\ tws'[k].bars = Tail(tws[k].bars)
               /\ e = [type |-> "hist_bar", id |-> k, time |-> Head(tws[k].bars)]
               /\ ~EndQueued(k)
      <3> DEFINE bars == tws[k].bars
      <3>1. bars \in Seq(Int) /\ bars # << >> /\ Len(bars) \in Nat \ {0}
        BY <1>4, <2>2, EmptySeq
      <3>2. /\ Tail(bars) \in Seq(Int) /\ Len(Tail(bars)) = Len(bars) - 1
            /\ \A i \in 1 .. Len(Tail(bars)) : Tail(bars)[i] = bars[i + 1]
            /\ Head(bars) = bars[1]
        BY <3>1, HeadTailProperties
      <3>3. CASE Len(bars) = 1
        <4>1. e = [type |-> "hist_bar", id |-> k, time |-> due]
          BY <1>4, <2>2, <3>2, <3>3
        <4>2. Len(eq) + 1 \in 1 .. Len(eq')
          BY <1>1
        <4>3. \A j \in 1 .. Len(eq') : ~EndAt(j, k)'
          BY <1>1, <2>2, <4>1 DEF EndAt, EndQueued
        <4> HIDE DEF due
        <4>4. \E n \in 1 .. Len(eq') :
                 /\ eq'[n] = [type |-> "hist_bar", id |-> k, time |-> due]
                 /\ \A j \in 1 .. Len(eq') : EndAt(j, k)' => n < j
          BY <1>1, <4>1, <4>2, <4>3
        <4> QED
          BY <4>4 DEF LastKept, due
      <3>4. CASE Len(bars) # 1
        <4> HIDE DEF bars
        <4>1. /\ Len(Tail(bars)) \in 1 .. Len(Tail(bars)) /\ Len(Tail(bars)) + 1 = Len(bars)
              /\ Len(Tail(bars)) # 0
          BY <3>1, <3>2, <3>4
        <4>2. Tail(bars)[Len(Tail(bars))] = bars[Len(bars)]
          BY <3>2, <4>1
        <4>3. Tail(bars) # << >>
          BY <4>1, EmptySeq
        <4> QED
          BY <1>4, <2>2, <4>2, <4>3 DEF LastKept, bars
      <3> QED
        BY <3>3, <3>4
    <2> QED
      BY <1>4, <2>1, <2>2
  <1> QED
    BY <1>2, <1>3, <1>4 DEF LastKept

(* The same when an event is handled, unless it is dropped. *)
LEMMA HandledKeepsLast ==
    ASSUME TypeOK, NEW type, Handles(type), NEW k \in ReqIds, LastKept(k),
           Owner(k)' = Owner(k), DueBar(Owner(k))' = DueBar(Owner(k)),
           ToSet(sym_data[Owner(k)]) \subseteq ToSet(sym_data'[Owner(k)]),
           type = "hist_bar" /\ EventId = k => Head(eq).time \in ToSet(sym_data'[Owner(k)])
    PROVE  LastKept(k)'
  <1> DEFINE due == DueBar(Owner(k))
  <1>1. /\ Head(eq) = eq[1] /\ Head(eq).type = type
        /\ Len(eq) \in Nat \ {0} /\ Len(eq') = Len(eq) - 1
        /\ \A i \in 1 .. Len(eq') : eq'[i] = eq[i + 1] /\ i + 1 \in 1 .. Len(eq)
        /\ \A i \in 1 .. Len(eq) : i = 1 \/ (i - 1 \in 1 .. Len(eq') /\ eq'[i - 1] = eq[i])
    BY HandledEvent
  <1>2. CASE \E i \in 1 .. Len(eq) :
                /\ eq[i] = [type |-> "hist_bar", id |-> k, time |-> due]
                /\ \A j \in 1 .. Len(eq) : EndAt(j, k) => i < j
    <2>1. PICK i \in 1 .. Len(eq) :
              /\ eq[i] = [type |-> "hist_bar", id |-> k, time |-> due]
              /\ \A j \in 1 .. Len(eq) : EndAt(j, k) => i < j
      BY <1>2
    <2>2. CASE i = 1
      <3>1. type = "hist_bar" /\ EventId = k /\ Head(eq).time = due
        BY <1>1, <2>1, <2>2 DEF EventId
      <3> QED
        BY <3>1 DEF LastKept
    <2>3. CASE i # 1
      <3>1. i - 1 \in 1 .. Len(eq') /\ eq'[i - 1] = eq[i]
        BY <1>1, <2>3
      <3>2. \A j \in 1 .. Len(eq') : EndAt(j, k)' => i - 1 < j
        <4> SUFFICES ASSUME NEW j \in 1 .. Len(eq'), EndAt(j, k)' PROVE i - 1 < j
          OBVIOUS
        <4>1. EndAt(j + 1, k) /\ j + 1 \in 1 .. Len(eq)
          BY <1>1 DEF EndAt
        <4> QED
          BY <1>1, <2>1, <4>1
      <3> HIDE DEF due
      <3>3. \E n \in 1 .. Len(eq') :
               /\ eq'[n] = [type |-> "hist_bar", id |-> k, time |-> due]
               /\ \A j \in 1 .. Len(eq') : EndAt(j, k)' => n < j
        BY <2>1, <3>1, <3>2
      <3> QED
        BY <3>3 DEF LastKept, due
    <2> QED
      BY <2>2, <2>3
  <1>3. CASE due \in ToSet(sym_data[Owner(k)])
    BY <1>3 DEF LastKept
  <1>4. CASE tws[k].bars # << >> /\ tws[k].bars[Len(tws[k].bars)] = due
    BY <1>4 DEF LastKept, Handles, twsVars
  <1> QED
    BY <1>2, <1>3, <1>4 DEF LastKept

(* A step that ends no chunk and touches no symbol's bars. *)
LEMMA CollectedKept ==
    ASSUME Collected, SavedComplete,
           UNCHANGED <<sym_chunks, sym_chunk_id, sym_data, saved, sym_status>>,
           dropped \subseteq dropped',
           ASSUME NEW k \in ReqIds, dropped' = {}, Live(k)', Live(k) => LastKept(k)
           PROVE  LastKept(k)'
    PROVE  Collected' /\ SavedComplete'
  <1>1. dropped' = {} => dropped = {}
    OBVIOUS
  <1>2. SavedComplete'
    BY <1>1 DEF SavedComplete
  <1>3. ASSUME dropped' = {}, NEW k \in ReqIds, Live(k)' PROVE LastKept(k)'
    BY <1>1, <1>3 DEF Collected
  <1>4. Collected'
    BY <1>1, <1>3 DEF Collected
  <1> QED
    BY <1>2, <1>4

(* Every owner of a live request is a symbol. *)
LEMMA LiveOwner ==
    ASSUME FlowInv, NEW k \in ReqIds, Live(k)
    PROVE  Owner(k) \in Wanted /\ Owner(k) \in Symbols
  <1>1. TypeOK /\ Ends /\ Filing
    BY DEF FlowInv
  <1>2. tws[k].state # "absent"
    BY <1>1 DEF Live, EndQueued, EndAt, Ends
  <1>3. k < m_req_id
    BY <1>1, <1>2 DEF Filing, TypeOK, ReqIds
  <1> QED
    BY <1>1, <1>3 DEF Filing, Wanted

(* The bars of a request are followed through a message of TWS, ... *)
LEMMA AnswersCollected ==
    ASSUME DataInv, NEW id \in ReqIds,
           historicalData(id) \/ historicalDataEnd(id) \/ error(id)
    PROVE  Collected' /\ SavedComplete'
  <1>1. TypeOK /\ Filing /\ Ends /\ Collected /\ SavedComplete
    BY DEF DataInv, FlowInv
  <1>2. /\ tws[id].state = "open" /\ tws[id] \in Requests
        /\ UNCHANGED <<cutVars, q, runVars, symVars, dropped>>
        /\ UNCHANGED <<sym_chunks, sym_chunk_id, sym_data, saved, sym_status>>
    BY <1>1 DEF historicalData, historicalDataEnd, error, Answers, TypeOK, cutVars, symVars
  <1>3. ~EndQueued(id)
    BY <1>1, <1>2 DEF EndQueued, EndAt, Ends
  <1>4. \A k \in ReqIds : Owner(k)' = Owner(k) /\ DueBar(Owner(k))' = DueBar(Owner(k))
    BY <1>2 DEF Owner, DueBar, runVars, LastBar
  <1>5. PICK e \in Events :
          /\ eq' = Append(eq, e) /\ e.id = id
          /\ \A k \in ReqIds :
                \/ tws'[k].bars = tws[k].bars
                \/ /\ k = id /\ tws'[k].bars = Tail(tws[k].bars)
                   /\ e = [type |-> "hist_bar", id |-> k, time |-> Head(tws[k].bars)]
    <2>1. CASE historicalData(id)
      <3> DEFINE e == [type |-> "hist_bar", id |-> id, time |-> Head(tws[id].bars)]
      <3>1. tws[id].bars \in Seq(Int) /\ tws[id].bars # << >>
        BY <1>2, <2>1 DEF historicalData, Requests
      <3>2. Head(tws[id].bars) \in Int
        BY <3>1, HeadTailProperties
      <3>3. e \in Events /\ e.id = id
        BY <3>2 DEF Events
      <3>4. tws' = [tws EXCEPT ![id].bars = Tail(@)] /\ eq' = Append(eq, e)
        BY <2>1 DEF historicalData
      <3>5. tws'[id].bars = Tail(tws[id].bars) /\ \A k \in ReqIds : k # id => tws'[k] = tws[k]
        BY <1>1, <1>2, <3>4 DEF TypeOK, Requests
      <3> QED
        BY <3>3, <3>4, <3>5
    <2>2. CASE historicalDataEnd(id)
      <3> DEFINE e == [type |-> "hist_bar_end", id |-> id]
      <3>1. e \in Events /\ e.id = id
        BY DEF Events
      <3>2. \A k \in ReqIds : tws'[k].bars = tws[k].bars
        BY <1>1, <1>2, <2>2 DEF historicalDataEnd, TypeOK, Requests
      <3> QED
        BY <2>2, <3>1, <3>2 DEF historicalDataEnd
    <2>3. CASE error(id)
      <3> DEFINE e == [type |-> "ib_err_msg", id |-> id]
      <3>1. e \in Events /\ e.id = id
        BY DEF Events
      <3>2. CASE tws' = [tws EXCEPT ![id].state = "closed"]
        <4>1. \A k \in ReqIds : tws'[k].bars = tws[k].bars
          BY <1>1, <1>2, <3>2 DEF TypeOK, Requests
        <4> QED
          BY <2>3, <3>1, <4>1 DEF error
      <3>3. CASE UNCHANGED tws
        BY <2>3, <3>1, <3>3 DEF error
      <3> QED
        BY <2>3, <3>2, <3>3 DEF error
    <2> QED
      BY <2>1, <2>2, <2>3
  <1>6. ASSUME NEW k \in ReqIds, Live(k)' PROVE Live(k)
    <2>1. EndQueued(k)' => EndQueued(k) \/ k = id
      BY <1>1, <1>5, AppendEnds
    <2>2. k # id => tws'[k] = tws[k]
      BY <1>1, <1>2 DEF historicalData, historicalDataEnd, error, TypeOK
    <2> QED
      BY <1>2, <1>6, <2>1, <2>2 DEF Live
  <1>7. ASSUME NEW k \in ReqIds, dropped' = {}, Live(k)', Live(k) => LastKept(k)
        PROVE  LastKept(k)'
    <2>1. LastKept(k)
      BY <1>6, <1>7
    <2>2. tws[k].bars \in Seq(Int)
      BY <1>1 DEF TypeOK, Requests
    <2> QED
      BY <1>1, <1>2, <1>3, <1>4, <1>5, <2>1, <2>2, QueuedKeepsLast
  <1> QED
    BY <1>1, <1>2, <1>7, CollectedKept

(* ... a step of run() that sends nothing, ... *)
LEMMA PlaceCollected ==
    ASSUME DataInv, TestRemaining \/ PopTimeout \/ Pace \/ FileRequest
    PROVE  Collected' /\ SavedComplete'
  <1>1. TypeOK /\ Filing /\ Collected /\ SavedComplete
    BY DEF DataInv, FlowInv
  <1>2. /\ UNCHANGED <<cutVars, twsVars, eq, symVars, dropped>>
        /\ UNCHANGED <<sym_chunks, sym_chunk_id, sym_data, saved, sym_status, tws>>
    BY DEF TestRemaining, PopTimeout, Pace, FileRequest, cutVars, symVars, twsVars
  <1>3. ASSUME NEW k \in ReqIds PROVE Owner(k)' = Owner(k)
    <2>1. CASE FileRequest
      BY <1>1, <2>1 DEF FileRequest, Filing, Owner, TypeOK
    <2>2. CASE TestRemaining \/ PopTimeout \/ Pace
      BY <2>2 DEF TestRemaining, PopTimeout, Pace, Owner
    <2> QED
      BY <2>1, <2>2
  <1>4. \A k \in ReqIds : (Live(k)' <=> Live(k)) /\ (LastKept(k)' <=> LastKept(k))
    BY <1>2, <1>3 DEF Live, EndQueued, EndAt, LastKept, DueBar, LastBar
  <1> QED
    BY <1>1, <1>2, <1>4, CollectedKept

(* ... a new request, whose bars are all still to come, ... *)
LEMMA RequestCollected == DataInv /\ req_historical_bar => Collected' /\ SavedComplete'
  <1> SUFFICES ASSUME DataInv, req_historical_bar PROVE Collected' /\ SavedComplete'
    OBVIOUS
  <1>1. TypeOK /\ Filing /\ Ends /\ NextChunk /\ Collected /\ SavedComplete
    BY DEF DataInv, FlowInv
  <1>2. PICK m \in ReqIds : m = m_req_id /\ m \in Nat \ {0}
    BY <1>1 DEF req_historical_bar, TypeOK
  <1>3. /\ pcR = "popping" /\ pcR' = "filing" /\ q # << >> /\ m_req_id' = m + 1
        /\ sent' = Head(q).symbol /\ req_id_sym' = req_id_sym /\ eq' = eq
        /\ tws' = [tws EXCEPT ![m] = [state |-> "open", bars |-> BarsOf(Head(q))]]
        /\ UNCHANGED <<sym_chunks, sym_chunk_id, sym_data, saved, sym_status, dropped>>
    BY <1>2 DEF req_historical_bar, cutVars, symVars
  <1>4. Head(q) = q[1] /\ Head(q) \in Chunks /\ 1 \in 1 .. Len(q)
    BY <1>1, <1>3, HeadTailProperties, EmptySeq DEF TypeOK
  <1>5. LastBar(Head(q)) = DueBar(Head(q).symbol)
    BY <1>1, <1>4 DEF NextChunk, DueBar
  <1>6. Owner(m)' = Head(q).symbol /\ \A k \in ReqIds : k # m => Owner(k)' = Owner(k)
    <2>1. m_req_id' - 1 = m
      BY <1>2, <1>3
    <2> QED
      BY <1>3, <2>1 DEF Owner
  <1>7. /\ tws'[m].bars = BarsOf(Head(q)) /\ tws'[m].state = "open"
        /\ \A k \in ReqIds : k # m => tws'[k] = tws[k]
    BY <1>1, <1>3 DEF TypeOK
  <1>8. \A s : DueBar(s)' = DueBar(s)
    BY <1>3 DEF DueBar, LastBar
  <1>9. LastKept(m)'
    <2>1. BarsOf(Head(q)) # << >> /\ BarsOf(Head(q))[Len(BarsOf(Head(q)))] = LastBar(Head(q))
      BY <1>4, BarsOfType
    <2>2. DueBar(Owner(m))' = LastBar(Head(q))
      BY <1>3, <1>5, <1>6 DEF DueBar, LastBar
    <2> QED
      BY <1>7, <2>1, <2>2 DEF LastKept
  <1>10. ASSUME NEW k \in ReqIds, k # m
         PROVE  (Live(k)' <=> Live(k)) /\ (LastKept(k)' <=> LastKept(k))
    BY <1>3, <1>6, <1>7, <1>10 DEF Live, EndQueued, EndAt, LastKept, DueBar, LastBar
  <1>11. ASSUME NEW k \in ReqIds, dropped' = {}, Live(k)', Live(k) => LastKept(k)
         PROVE  LastKept(k)'
    BY <1>9, <1>10, <1>11
  <1> QED
    BY <1>1, <1>3, <1>11, CollectedKept

(* ... the beginning, when there is none, ... *)
LEMMA BeginCollected == DataInv /\ (CutChunk \/ BeginRun) => Collected' /\ SavedComplete'
  <1> SUFFICES ASSUME DataInv, CutChunk \/ BeginRun PROVE Collected' /\ SavedComplete'
    OBVIOUS
  <1>1. BeforeRun /\ pcR = "cutting" /\ TypeOK
    BY DEF DataInv, FlowInv, CutChunk, BeginRun
  <1>2. UNCHANGED <<tws, eq, sym_chunk_id, sym_status>>
    BY DEF CutChunk, BeginRun, twsVars, symVars
  <1>3. /\ \A k \in ReqIds : tws'[k].state = "absent"
        /\ Len(eq') = 0
        /\ \A s \in Symbols : sym_chunk_id'[s] = 0 /\ sym_status'[s] = "in_prog"
    BY <1>1, <1>2, EmptySeq DEF BeforeRun
  <1>4. \A k \in ReqIds : ~Live(k)'
    BY <1>3 DEF Live, EndQueued
  <1> QED
    BY <1>3, <1>4 DEF Collected, SavedComplete

(* ... the collection of a bar, ... *)
LEMMA BarCollected == DataInv /\ process_hist_bar => Collected' /\ SavedComplete'
  <1> SUFFICES ASSUME DataInv, process_hist_bar PROVE Collected' /\ SavedComplete'
    OBVIOUS
  <1>1. FlowInv /\ TypeOK /\ Collected /\ SavedComplete /\ Handles("hist_bar")
    BY DEF DataInv, FlowInv, process_hist_bar
  <1>2. CASE Drop
    <2>1. dropped' # {}
      BY <1>2 DEF Drop
    <2> QED
      BY <2>1 DEF Collected, SavedComplete
  <1>3. CASE /\ EventSymbol # NoSymbol
             /\ sym_data' = [sym_data EXCEPT ![EventSymbol] = Append(@, Head(eq).time)]
             /\ UNCHANGED <<q, sym_chunk_id, saved, sym_status, remaining, unsaved, dropped>>
    <2>1. /\ sym_chunks' = sym_chunks
          /\ \A k \in ReqIds : Owner(k)' = Owner(k) /\ (Live(k)' => Live(k))
      BY <1>1, HandledFrame DEF Handles, cutVars
    <2>2. EventSymbol \in Symbols /\ Owner(EventId) = EventSymbol /\ Head(eq).time \in Int
      BY <1>1, <1>3, FiledSymbol, HandledEvent, EventFields
    <2>3. /\ \A s \in Symbols : ToSet(sym_data[s]) \subseteq ToSet(sym_data'[s])
          /\ Head(eq).time \in ToSet(sym_data'[EventSymbol])
      <3> DEFINE old == sym_data[EventSymbol]
                 t == Head(eq).time
      <3>1. old \in Seq(Int) /\ Len(old) \in Nat
        BY <1>1, <2>2, LenProperties DEF TypeOK
      <3> HIDE DEF old, t
      <3>2. /\ Append(old, t) \in Seq(Int) /\ Len(Append(old, t)) = Len(old) + 1
            /\ \A i \in 1 .. Len(old) : Append(old, t)[i] = old[i]
            /\ Append(old, t)[Len(old) + 1] = t
        BY <2>2, <3>1, AppendProperties DEF t
      <3>3. 1 .. Len(old) \subseteq 1 .. Len(old) + 1 /\ Len(old) + 1 \in 1 .. Len(old) + 1
        BY <3>1
      <3>4. ToSet(old) \subseteq ToSet(Append(old, t)) /\ t \in ToSet(Append(old, t))
        <4>1. \A x : x \in ToSet(old) <=> \E i \in 1 .. Len(old) : old[i] = x
          BY <3>1, ElementsOfSeq
        <4>2. PICK new \in Seq(Int) : new = Append(old, t)
          BY <3>2
        <4>3. \A x : x \in ToSet(new) <=> \E i \in 1 .. Len(old) + 1 : new[i] = x
          <5>1. \A x : x \in ToSet(new) <=> \E i \in 1 .. Len(new) : new[i] = x
            BY ElementsOfSeq
          <5> QED
            BY <3>2, <4>2, <5>1
        <4> QED
          BY <3>2, <3>3, <4>1, <4>2, <4>3
      <3>5. /\ sym_data'[EventSymbol] = Append(old, t)
            /\ \A s \in Symbols : s # EventSymbol => sym_data'[s] = sym_data[s]
        BY <1>1, <1>3, <2>2 DEF TypeOK, old, t
      <3> QED
        BY <3>4, <3>5 DEF old, t
    <2>4. \A s : DueBar(s)' = DueBar(s)
      BY <1>3, <2>1 DEF DueBar, LastBar
    <2>5. SavedComplete'
      BY <1>1, <1>3, <2>1 DEF SavedComplete, LastBar
    <2>6. ASSUME dropped = {}, NEW k \in ReqIds, Live(k)' PROVE LastKept(k)'
      <3>1. Live(k) /\ LastKept(k) /\ Owner(k) \in Symbols
        BY <1>1, <2>1, <2>6, LiveOwner DEF Collected
      <3>2. DueBar(Owner(k))' = DueBar(Owner(k))
        BY <1>3, <2>1, <2>6 DEF DueBar, LastBar
      <3> QED
        BY <1>1, <2>1, <2>2, <2>3, <3>1, <3>2, HandledKeepsLast
    <2>7. Collected'
      <3>1. ASSUME dropped = {}, NEW s \in Symbols, NEW k \in 1 .. sym_chunk_id[s]
            PROVE  LastBar(sym_chunks[s][k]) \in ToSet(sym_data'[s])
        BY <1>1, <2>3, <3>1 DEF Collected
      <3> QED
        BY <1>3, <2>1, <2>6, <3>1 DEF Collected, LastBar
    <2> QED
      BY <2>5, <2>7
  <1> QED
    BY <1>2, <1>3 DEF process_hist_bar

(* ... an error, ... *)
LEMMA ErrorCollected == DataInv /\ process_err_msg => Collected' /\ SavedComplete'
  <1> SUFFICES ASSUME DataInv, process_err_msg PROVE Collected' /\ SavedComplete'
    OBVIOUS
  <1>1. FlowInv /\ TypeOK /\ Collected /\ SavedComplete /\ Handles("ib_err_msg")
    BY DEF DataInv, FlowInv, process_err_msg
  <1>2. CASE Drop
    <2>1. dropped' # {}
      BY <1>2 DEF Drop
    <2> QED
      BY <2>1 DEF Collected, SavedComplete
  <1>3. CASE /\ EventSymbol # NoSymbol
             /\ sym_status' = [sym_status EXCEPT ![EventSymbol] = "error"]
             /\ UNCHANGED <<q, sym_chunk_id, sym_data, saved, unsaved, dropped>>
    <2>1. /\ sym_chunks' = sym_chunks
          /\ \A k \in ReqIds : Owner(k)' = Owner(k) /\ (Live(k)' => Live(k))
      BY <1>1, HandledFrame DEF Handles, cutVars
    <2>2. \A s \in Symbols : sym_status'[s] = "success" => sym_status[s] = "success"
      BY <1>1, <1>3 DEF TypeOK
    <2>3. SavedComplete'
      BY <1>1, <1>3, <2>1, <2>2 DEF SavedComplete, LastBar
    <2>4. ASSUME dropped = {}, NEW k \in ReqIds, Live(k)' PROVE LastKept(k)'
      <3>1. Live(k) /\ LastKept(k)
        BY <1>1, <2>1, <2>4 DEF Collected
      <3>2. DueBar(Owner(k))' = DueBar(Owner(k))
        BY <1>3, <2>1, <2>4 DEF DueBar, LastBar
      <3> QED
        BY <1>1, <1>3, <2>1, <3>1, <3>2, HandledKeepsLast
    <2>5. Collected'
      BY <1>1, <1>3, <2>1, <2>4 DEF Collected, LastBar
    <2> QED
      BY <2>3, <2>5
  <1> QED
    BY <1>2, <1>3 DEF process_err_msg, Settle

(* ... and the end of a chunk, by which its last bar must have arrived. *)
LEMMA EndCollected == DataInv /\ process_hist_bar_end => Collected' /\ SavedComplete'
  <1> SUFFICES ASSUME DataInv, process_hist_bar_end PROVE Collected' /\ SavedComplete'
    OBVIOUS
  <1>1. FlowInv /\ TypeOK /\ Ends /\ OneChunk /\ NextChunk /\ Collected /\ SavedComplete
        /\ Handles("hist_bar_end")
    BY DEF DataInv, FlowInv, process_hist_bar_end
  <1>2. CASE Drop
    <2>1. dropped' # {}
      BY <1>2 DEF Drop
    <2> QED
      BY <2>1 DEF Collected, SavedComplete
  <1>3. CASE EventSymbol # NoSymbol /\ ~Drop
    <2>1. PICK s \in Symbols : s = EventSymbol /\ Owner(EventId) = s /\ EventId \in ReqIds
      BY <1>1, <1>3, FiledSymbol
    <2>2. /\ sym_chunk_id' = [sym_chunk_id EXCEPT ![s] = @ + 1] /\ dropped' = dropped
          /\ sym_chunks' = sym_chunks
          /\ \/ LastEnded(s) /\ (Save(s) \/ SaveFails(s) \/ SaveThrows(s))
             \/ UNCHANGED <<sym_data, saved, sym_status>> /\ ~LastEnded(s)
      BY <1>3, <2>1 DEF process_hist_bar_end, Handles, cutVars
    <2>3. /\ sym_chunk_id[s] \in Nat /\ sym_chunk_id'[s] = sym_chunk_id[s] + 1
          /\ \A r \in Symbols : r # s => sym_chunk_id'[r] = sym_chunk_id[r]
      BY <1>1, <2>2 DEF TypeOK
    <2>4. /\ \A r \in Symbols : ToSet(sym_data'[r]) = ToSet(sym_data[r])
          /\ \A r \in Symbols : r # s => saved'[r] = saved[r] /\ sym_status'[r] = sym_status[r]
      <3>1. ToSet(SortUnique(sym_data[s])) = ToSet(sym_data[s])
        BY <1>1, SortUniqueProperties DEF TypeOK
      <3>2. CASE Save(s)
        <4>1. /\ sym_data' = [sym_data EXCEPT ![s] = SortUnique(sym_data[s])]
              /\ saved' = [saved EXCEPT ![s] = SortUnique(sym_data[s])]
              /\ sym_status' = [sym_status EXCEPT ![s] = "success"] \/ sym_status' = sym_status
          BY <3>2 DEF Save, process_data, Settle
        <4>2. \A r \in Symbols : ToSet(sym_data'[r]) = ToSet(sym_data[r])
          BY <1>1, <3>1, <4>1 DEF TypeOK
        <4> QED
          BY <1>1, <4>1, <4>2 DEF TypeOK
      <3>3. CASE SaveFails(s)
        BY <1>1, <3>1, <3>3 DEF SaveFails, TypeOK
      <3>4. CASE SaveThrows(s)
        BY <1>1, <3>1, <3>4 DEF SaveThrows, TypeOK
      <3> QED
        BY <2>2, <3>2, <3>3, <3>4
    <2>5. \A k \in ReqIds : /\ Owner(k)' = Owner(k)
                            /\ Live(k)' => Live(k) /\ k # EventId
      BY <1>1, HandledFrame DEF EventId
    <2>6. Head(eq) = eq[1] /\ Head(eq).type = "hist_bar_end" /\ 1 \in 1 .. Len(eq)
          /\ EventId = eq[1].id
      BY <1>1, HandledEvent DEF EventId
    <2>7. Live(EventId) /\ EndAt(1, EventId)
      BY <2>6 DEF Live, EndQueued, EndAt
    <2>8. dropped = {} => DueBar(s) \in ToSet(sym_data[s])
      <3> SUFFICES ASSUME dropped = {} PROVE DueBar(s) \in ToSet(sym_data[s])
        OBVIOUS
      <3>1. LastKept(EventId)
        BY <1>1, <2>1, <2>7 DEF Collected
      <3>2. tws[EventId].bars = << >>
        BY <1>1, <2>6 DEF Ends
      <3>3. \A i \in 1 .. Len(eq) : ~(i < 1)
        BY <2>6
      <3> QED
        BY <2>1, <2>6, <2>7, <3>1, <3>2, <3>3 DEF LastKept
    <2>9. ASSUME dropped = {}, NEW r \in Symbols, NEW k \in 1 .. sym_chunk_id'[r]
          PROVE  LastBar(sym_chunks[r][k]) \in ToSet(sym_data'[r])
      <3>1. CASE r = s /\ k = sym_chunk_id[s] + 1
        BY <2>4, <2>8, <2>9, <3>1 DEF DueBar
      <3>2. CASE ~(r = s /\ k = sym_chunk_id[s] + 1)
        <4>1. k \in 1 .. sym_chunk_id[r]
          BY <2>3, <3>2
        <4> QED
          BY <1>1, <2>4, <2>9, <4>1 DEF Collected
      <3> QED
        BY <3>1, <3>2
    <2>10. ASSUME dropped = {}, NEW k \in ReqIds, Live(k)' PROVE LastKept(k)'
      <3>1. Live(k) /\ LastKept(k) /\ Owner(k) \in Symbols /\ k # EventId
        BY <1>1, <2>5, <2>10, LiveOwner DEF Collected
      <3>2. Owner(k) # s
        BY <1>1, <2>1, <2>7, <3>1 DEF OneChunk
      <3>3. DueBar(Owner(k))' = DueBar(Owner(k))
        BY <2>2, <2>3, <2>5, <3>1, <3>2 DEF DueBar, LastBar
      <3> QED
        BY <1>1, <2>4, <2>5, <3>1, <3>3, HandledKeepsLast
    <2>11. Collected'
      BY <2>2, <2>9, <2>10 DEF Collected, LastBar
    <2>12. ASSUME dropped = {}, NEW r \in Symbols, sym_status'[r] = "success"
           PROVE  /\ \A i \in 1 .. Len(saved'[r]) - 1 : saved'[r][i] < saved'[r][i + 1]
                  /\ \A i \in 1 .. Len(sym_chunks[r]) :
                        LastBar(sym_chunks[r][i]) \in ToSet(saved'[r])
      <3>1. CASE r = s /\ Save(s) /\ LastEnded(s)
        <4>1. /\ saved'[s] = SortUnique(sym_data[s]) /\ sym_data[s] \in Seq(Int)
              /\ ToSet(saved'[s]) = ToSet(sym_data[s])
          BY <1>1, <3>1, SortUniqueProperties DEF Save, process_data, TypeOK
        <4>2. sym_chunk_id'[s] = Len(sym_chunks[s])
          BY <2>3, <3>1 DEF LastEnded
        <4> QED
          BY <2>4, <2>9, <2>12, <3>1, <4>1, <4>2, SortUniqueProperties
      <3>2. CASE r = s /\ SaveFails(s)
        BY <1>1, <2>12, <3>2 DEF SaveFails, TypeOK
      <3>3. CASE r = s /\ SaveThrows(s)
        BY <1>1, <2>12, <3>3 DEF SaveThrows, SavedComplete
      <3>4. CASE r # s \/ UNCHANGED <<sym_data, saved, sym_status>>
        BY <1>1, <2>4, <2>12, <3>4 DEF SavedComplete
      <3> QED
        BY <2>2, <3>1, <3>2, <3>3, <3>4
    <2>13. SavedComplete'
      BY <2>2, <2>12 DEF SavedComplete, LastBar
    <2> QED
      BY <2>11, <2>13
  <1> QED
    BY <1>2, <1>3 DEF process_hist_bar_end

(* The bars are accounted for in every step, from the start. *)
LEMMA DataNext == DataInv /\ CutInv /\ CutInv' /\ [Next]_vars => DataInv'
  <1> SUFFICES ASSUME DataInv, CutInv, CutInv', [Next]_vars PROVE DataInv'
    OBVIOUS
  <1>1. FlowInv'
    BY FlowNext DEF DataInv
  <1>2. CASE UNCHANGED vars
    <2>1. UNCHANGED <<sym_chunks, sym_chunk_id, sym_data, saved, sym_status, tws, eq, pcR,
                      m_req_id, sent, req_id_sym, dropped>>
      BY <1>2 DEF vars, cutVars, runVars, twsVars, symVars
    <2>2. ASSUME NEW id \in ReqIds
          PROVE  (Live(id)' <=> Live(id)) /\ (LastKept(id)' <=> LastKept(id))
      <3>1. /\ Owner(id)' = Owner(id)
            /\ \A i \in 1 .. Len(eq) : EndAt(i, id)' <=> EndAt(i, id)
        BY <2>1 DEF Owner, EndAt
      <3>2. DueBar(Owner(id))' = DueBar(Owner(id))
        BY <2>1, <3>1 DEF DueBar, LastBar
      <3> QED
        BY <2>1, <3>1, <3>2 DEF Live, EndQueued, LastKept
    <2>3. Collected'
      BY <2>1, <2>2 DEF DataInv, Collected, LastBar
    <2>4. SavedComplete'
      BY <2>1 DEF DataInv, SavedComplete, LastBar
    <2> QED
      BY <1>1, <2>3, <2>4 DEF DataInv
  <1>3. CASE Dispatch
    BY <1>1, <1>3, BarCollected, EndCollected, ErrorCollected DEF Dispatch, DataInv
  <1>4. CASE run
    BY <1>1, <1>4, PlaceCollected, RequestCollected DEF run, DataInv
  <1>5. CASE CutChunk \/ BeginRun
    BY <1>1, <1>5, BeginCollected DEF DataInv
  <1>6. CASE \E id \in ReqIds : historicalData(id) \/ historicalDataEnd(id) \/ error(id)
    BY <1>1, <1>6, AnswersCollected DEF DataInv
  <1> QED
    BY <1>2, <1>3, <1>4, <1>5, <1>6 DEF Next

(* No bar was collected yet. *)
LEMMA DataInit == Init => DataInv
  <1> SUFFICES ASSUME Init PROVE DataInv
    OBVIOUS
  <1>1. FlowInv
    BY FlowInit
  <1>2. \A id \in ReqIds : ~Live(id)
    BY EmptySeq DEF Init, Live, EndQueued
  <1>3. Collected /\ SavedComplete
    BY <1>2 DEF Init, Collected, SavedComplete
  <1> QED
    BY <1>1, <1>3 DEF DataInv

(* A symbol reported as a success has the last bar of each of its chunks   *)
(* in its file, and the file is in order without duplicates, for any       *)
(* symbols, periods and windows and whatever TWS does, as long as no       *)
(* answer overtook the filing of its request.                              *)
THEOREM SavedIsComplete == Spec => []SavedComplete
  <1>1. DataInv => SavedComplete
    BY DEF DataInv
  <1> QED
    BY <1>1, DataInit, DataNext, CutInvInit, CutInvNext, PTL DEF Spec
=============================================================================
