--------------------------- MODULE HistBarGetter ---------------------------
(***************************************************************************)
(* calm::HistBarGetter downloads the bars of a period for some symbols.    *)
(* The constructor cuts each period into chunks TWS is willing to answer.  *)
(* run(), on the main thread, requests one chunk after the other and files *)
(* the id of each request under its symbol.  The event engine's thread     *)
(* collects the bars, asks for a symbol's next chunk when one has ended    *)
(* and saves the symbol's bars after the last one.                         *)
(*                                                                         *)
(* Times are seconds.  A message of TWS counts as an event in the engine's *)
(* queue from the moment it is sent: IBApi's callback thread only converts *)
(* it.                                                                     *)
(***************************************************************************)
EXTENDS Integers, Sequences, FiniteSets, SequencesExt

CONSTANTS
    Symbols,          \* the symbols asked for
    Periods,          \* what may be asked for: <<start, end>> for each symbol
    hist_window_sz,   \* days in a chunk
    NoSymbol,         \* a request id filed under no symbol
    MaxReqs,          \* bound: requests sent
    MaxErrors,        \* bound: error messages about a request
    SaveMayFail,      \* whether writing a file may fail
    MayOvertake       \* whether TWS may answer before its request is filed

ASSUME SymbolsAreFinite == IsFiniteSet(Symbols)
ASSUME PeriodsArePairs == Periods \subseteq [Symbols -> Int \X Int]
ASSUME WindowIsPositive == hist_window_sz \in Nat \ {0}
ASSUME NoSymbolIsNoSymbol == NoSymbol \notin Symbols
ASSUME BoundsAreNat == MaxReqs \in Nat /\ MaxErrors \in Nat
ASSUME ChoicesAreBoolean == SaveMayFail \in BOOLEAN /\ MayOvertake \in BOOLEAN

VARIABLES
    sym_req,        \* the period asked for, per symbol
    st,             \* per symbol, where the next chunk begins
    sym_chunks,     \* per symbol, the chunks cut so far
    q,              \* the chunks to request
    pcR,            \* where run() is
    sent,           \* the request run() has sent and not yet filed
    m_req_id,       \* the id of the next request
    tws,            \* per request, what TWS still has to send
    eq,             \* the queue of the event engine
    req_id_sym,     \* the symbol each request is filed under
    sym_chunk_id,   \* per symbol, how many chunks have ended
    sym_data,       \* per symbol, the times of the bars collected
    saved,          \* per symbol, the times of the bars in its file
    sym_status,     \* how each symbol is doing
    remaining,      \* how many symbols run() waits for
    errors,         \* how many errors TWS has reported
    dropped,        \* history: requests of which an event was dropped
    unsaved         \* history: symbols in progress whose file was not written

cutVars    == <<sym_req, st, sym_chunks>>
runVars    == <<pcR, sent, m_req_id, req_id_sym>>
twsVars    == <<tws, errors>>
symVars    == <<sym_chunk_id, sym_data, saved, sym_status, remaining, unsaved>>
vars       == <<cutVars, q, runVars, twsVars, eq, symVars, dropped>>

ReqIds == 1 .. MaxReqs
Day    == 86400

Chunks   == [symbol : Symbols, end : Int, dur : Nat \ {0}, unit : {1, Day}]
Requests == [state : {"absent", "open", "closed"}, bars : Seq(Int)]
Events   == [type : {"hist_bar"}, id : ReqIds, time : Int]
                \cup [type : {"hist_bar_end", "ib_err_msg"}, id : ReqIds]

TypeOK ==
    /\ sym_req \in [Symbols -> Int \X Int]
    /\ st \in [Symbols -> Int]
    /\ sym_chunks \in [Symbols -> Seq(Chunks)]
    /\ q \in Seq(Chunks)
    /\ pcR \in {"cutting", "testing", "popping", "filing", "pacing", "done"}
    /\ sent \in Symbols \cup {NoSymbol}
    /\ m_req_id \in Nat \ {0}
    /\ tws \in [ReqIds -> Requests]
    /\ eq \in Seq(Events)
    /\ req_id_sym \in [ReqIds -> Symbols \cup {NoSymbol}]
    /\ sym_chunk_id \in [Symbols -> Nat]
    /\ sym_data \in [Symbols -> Seq(Int)]
    /\ saved \in [Symbols -> Seq(Int)]
    /\ sym_status \in [Symbols -> {"in_prog", "success", "error"}]
    /\ remaining \in Nat
    /\ errors \in Nat
    /\ dropped \subseteq ReqIds
    /\ unsaved \subseteq Symbols

Init ==
    /\ sym_req \in Periods
    /\ st = [s \in Symbols |-> sym_req[s][1]]
    /\ sym_chunks = [s \in Symbols |-> << >>]
    /\ q = << >>
    /\ pcR = "cutting"
    /\ sent = NoSymbol
    /\ m_req_id = 1
    /\ tws = [id \in ReqIds |-> [state |-> "absent", bars |-> << >>]]
    /\ eq = << >>
    /\ req_id_sym = [id \in ReqIds |-> NoSymbol]
    /\ sym_chunk_id = [s \in Symbols |-> 0]
    /\ sym_data = [s \in Symbols |-> << >>]
    /\ saved = [s \in Symbols |-> << >>]
    /\ sym_status = [s \in Symbols |-> "in_prog"]
    /\ remaining = 0
    /\ errors = 0
    /\ dropped = {}
    /\ unsaved = {}
-----------------------------------------------------------------------------
\* generate_ib_reqs: one chunk more of a period that has not been cut up.
Cut(s, dur, unit) ==
    /\ st' = [st EXCEPT ![s] = @ + dur * unit]
    /\ sym_chunks' = [sym_chunks EXCEPT ![s] =
            Append(@, [symbol |-> s, end |-> st[s] + dur * unit,
                       dur |-> dur, unit |-> unit])]

\* Mutant: the rest of a period is rounded up to whole days.
generate_ib_reqs_whole_days(s) ==
    LET left == sym_req[s][2] - st[s]
    IN  \/ left > hist_window_sz * Day /\ Cut(s, hist_window_sz, Day)
        \/ left \in 1 .. hist_window_sz * Day /\ Cut(s, (left \div Day) + 1, Day)

generate_ib_reqs(s) ==
    LET left == sym_req[s][2] - st[s]
    IN  \/ left > hist_window_sz * Day /\ Cut(s, hist_window_sz, Day)
        \/ /\ left >= Day /\ left <= hist_window_sz * Day
           /\ Cut(s, left \div Day, Day)
        \/ left > 0 /\ left < Day /\ Cut(s, left, 1)

CutChunk ==
    /\ pcR = "cutting"
    /\ \E s \in Symbols : generate_ib_reqs(s)
    /\ UNCHANGED <<sym_req, q, runVars, twsVars, eq, symVars, dropped>>

Wanted == {s \in Symbols : sym_chunks[s] # << >>}

\* Nothing is left to cut: count the symbols and queue the first chunk of
\* each, in whatever order the map has them.
BeginRun ==
    /\ pcR = "cutting"
    /\ \A s \in Symbols : st[s] >= sym_req[s][2]
    /\ \E order \in SetToSeqs(Wanted) :
          q' = [i \in 1 .. Len(order) |-> sym_chunks[order[i]][1]]
    /\ remaining' = Cardinality(Wanted)
    /\ pcR' = "testing"
    /\ UNCHANGED <<cutVars, sent, m_req_id, req_id_sym, twsVars, eq, dropped,
                   sym_chunk_id, sym_data, saved, sym_status, unsaved>>
-----------------------------------------------------------------------------
\* Mutant: run() ends when there is nothing to request.
TestQueue ==
    /\ pcR = "testing"
    /\ pcR' = IF q = << >> THEN "done" ELSE "popping"
    /\ UNCHANGED <<cutVars, q, sent, m_req_id, req_id_sym, twsVars, eq, symVars,
                   dropped>>

\* run(): while (remaining).
TestRemaining ==
    /\ pcR = "testing"
    /\ pcR' = IF remaining = 0 THEN "done" ELSE "popping"
    /\ UNCHANGED <<cutVars, q, sent, m_req_id, req_id_sym, twsVars, eq, symVars,
                   dropped>>

PopTimeout ==
    /\ pcR = "popping"
    /\ q = << >>
    /\ pcR' = "testing"
    /\ UNCHANGED <<cutVars, q, sent, m_req_id, req_id_sym, twsVars, eq, symVars,
                   dropped>>

(* What TWS answers: the bars of a window of that length up to its end,    *)
(* five seconds apart; the last one stands for them.  A window of days     *)
(* also reaches further back than asked, since TWS counts trading days: by *)
(* two bars, so that bars come both twice and after later ones.            *)
WindowStart(chunk) == chunk.end - chunk.dur * chunk.unit
LastBar(chunk)     == chunk.end - 5

BarsOf(chunk) ==
    IF chunk.unit = Day
    THEN <<WindowStart(chunk) - 10, WindowStart(chunk) - 5, LastBar(chunk)>>
    ELSE <<LastBar(chunk)>>

req_historical_bar ==
    /\ pcR = "popping"
    /\ q # << >>
    /\ m_req_id \in ReqIds
    /\ q' = Tail(q)
    /\ tws' = [tws EXCEPT ![m_req_id] = [state |-> "open", bars |-> BarsOf(Head(q))]]
    /\ sent' = Head(q).symbol
    /\ m_req_id' = m_req_id + 1
    /\ pcR' = "filing"
    /\ UNCHANGED <<cutVars, req_id_sym, errors, eq, symVars, dropped>>

FileRequest ==
    /\ pcR = "filing"
    /\ req_id_sym' = [req_id_sym EXCEPT ![m_req_id - 1] = sent]
    /\ sent' = NoSymbol
    /\ pcR' = "pacing"
    /\ UNCHANGED <<cutVars, q, m_req_id, twsVars, eq, symVars, dropped>>

\* The ten seconds between two requests are over.
Pace ==
    /\ pcR = "pacing"
    /\ pcR' = "testing"
    /\ UNCHANGED <<cutVars, q, sent, m_req_id, req_id_sym, twsVars, eq, symVars,
                   dropped>>

run == TestRemaining \/ PopTimeout \/ req_historical_bar \/ FileRequest \/ Pace
-----------------------------------------------------------------------------
\* TWS, and IBApi's callback thread, which turns its messages into events.
Answers(id) ==
    /\ tws[id].state = "open"
    /\ MayOvertake \/ req_id_sym[id] # NoSymbol
    /\ UNCHANGED <<cutVars, q, runVars, symVars, dropped>>

historicalData(id) ==
    /\ Answers(id)
    /\ tws[id].bars # << >>
    /\ eq' = Append(eq, [type |-> "hist_bar", id |-> id, time |-> Head(tws[id].bars)])
    /\ tws' = [tws EXCEPT ![id].bars = Tail(@)]
    /\ UNCHANGED errors

historicalDataEnd(id) ==
    /\ Answers(id)
    /\ tws[id].bars = << >>
    /\ eq' = Append(eq, [type |-> "hist_bar_end", id |-> id])
    /\ tws' = [tws EXCEPT ![id].state = "closed"]
    /\ UNCHANGED errors

\* An error: the request fails, or goes on after a warning.
error(id) ==
    /\ Answers(id)
    /\ errors < MaxErrors
    /\ errors' = errors + 1
    /\ eq' = Append(eq, [type |-> "ib_err_msg", id |-> id])
    /\ \/ tws' = [tws EXCEPT ![id].state = "closed"]
       \/ UNCHANGED tws
-----------------------------------------------------------------------------
\* The event engine hands the next event to the callback of its type.
Handles(type) ==
    /\ eq # << >>
    /\ Head(eq).type = type
    /\ eq' = Tail(eq)
    /\ UNCHANGED <<cutVars, runVars, twsVars>>

EventId     == Head(eq).id
EventSymbol == req_id_sym[EventId]

\* An event of a request that is not filed is dropped.
Drop ==
    /\ EventSymbol = NoSymbol
    /\ dropped' = dropped \cup {EventId}
    /\ UNCHANGED <<q, symVars>>

process_hist_bar ==
    /\ Handles("hist_bar")
    /\ \/ Drop
       \/ /\ EventSymbol # NoSymbol
          /\ sym_data' = [sym_data EXCEPT ![EventSymbol] = Append(@, Head(eq).time)]
          /\ UNCHANGED <<q, sym_chunk_id, saved, sym_status, remaining, unsaved, dropped>>

\* Mutant: a symbol is settled and not counted.
SettleUncounted(s, status) ==
    /\ sym_status' = [sym_status EXCEPT ![s] = status]
    /\ UNCHANGED remaining

Settle(s, status) ==
    /\ sym_status' = [sym_status EXCEPT ![s] = status]
    /\ remaining' = remaining - 1

\* Mutant: nothing is sorted, and std::unique removes what came twice in a row.
process_data_unsorted(s) ==
    LET AddNew(bars, t) ==
            IF bars # << >> /\ bars[Len(bars)] = t THEN bars ELSE Append(bars, t)
        bars == FoldLeft(AddNew, << >>, sym_data[s])
    IN  /\ sym_data' = [sym_data EXCEPT ![s] = bars]
        /\ saved' = [saved EXCEPT ![s] = bars]

\* std::sort and std::unique: the times in ascending order, each one once.
SortUnique(times) ==
    LET all == ToSet(times)
    IN  [i \in 1 .. Cardinality(all) |->
            CHOOSE t \in all : Cardinality({u \in all : u < t}) = i - 1]

\* The bars are sorted, bars that came twice are removed, and the rest saved.
process_data(s) ==
    LET bars == SortUnique(sym_data[s])
    IN  /\ sym_data' = [sym_data EXCEPT ![s] = bars]
        /\ saved' = [saved EXCEPT ![s] = bars]

\* The file cannot be written: remaining stays as it is.
SaveFails(s) ==
    /\ SaveMayFail
    /\ sym_data' = [sym_data EXCEPT ![s] = SortUnique(@)]
    /\ sym_status' = [sym_status EXCEPT ![s] = "error"]
    /\ unsaved' = IF sym_status[s] = "in_prog" THEN unsaved \cup {s} ELSE unsaved
    /\ UNCHANGED <<saved, remaining>>

\* The folder of the file cannot be made: create_directories throws out of the
\* callback, the event engine logs it, and the symbol stays in progress.
SaveThrows(s) ==
    /\ SaveMayFail
    /\ sym_data' = [sym_data EXCEPT ![s] = SortUnique(@)]
    /\ UNCHANGED <<saved, sym_status, remaining, unsaved>>

\* Mutant: a symbol an error has settled is settled once more.
SaveSettlingAgain(s) ==
    /\ process_data(s)
    /\ Settle(s, "success")
    /\ UNCHANGED unsaved

Save(s) ==
    /\ process_data(s)
    /\ \/ sym_status[s] = "in_prog" /\ Settle(s, "success")
       \/ sym_status[s] # "in_prog" /\ UNCHANGED <<sym_status, remaining>>
    /\ UNCHANGED unsaved

LastEnded(s) == sym_chunk_id[s] + 1 = Len(sym_chunks[s])

process_hist_bar_end ==
    /\ Handles("hist_bar_end")
    /\ \/ Drop
       \/ /\ EventSymbol # NoSymbol
          /\ sym_chunk_id' = [sym_chunk_id EXCEPT ![EventSymbol] = @ + 1]
          /\ \/ /\ LastEnded(EventSymbol)
                /\ Save(EventSymbol) \/ SaveFails(EventSymbol) \/ SaveThrows(EventSymbol)
                /\ UNCHANGED q
             \/ /\ ~LastEnded(EventSymbol)
                /\ q' = Append(q, sym_chunks[EventSymbol][sym_chunk_id'[EventSymbol] + 1])
                /\ UNCHANGED <<sym_data, saved, sym_status, remaining, unsaved>>
          /\ UNCHANGED dropped

\* Mutant: an error settles its symbol, whether it was settled before or not.
process_err_msg_again ==
    /\ Handles("ib_err_msg")
    /\ \/ Drop
       \/ /\ EventSymbol # NoSymbol
          /\ Settle(EventSymbol, "error")
          /\ UNCHANGED <<q, sym_chunk_id, sym_data, saved, unsaved, dropped>>

\* An error about a request settles its symbol.
process_err_msg ==
    /\ Handles("ib_err_msg")
    /\ \/ Drop
       \/ /\ EventSymbol # NoSymbol
          /\ \/ sym_status[EventSymbol] = "in_prog" /\ Settle(EventSymbol, "error")
             \/ /\ sym_status[EventSymbol] # "in_prog"
                /\ sym_status' = [sym_status EXCEPT ![EventSymbol] = "error"]
                /\ UNCHANGED remaining
          /\ UNCHANGED <<q, sym_chunk_id, sym_data, saved, unsaved, dropped>>

Dispatch == process_hist_bar \/ process_hist_bar_end \/ process_err_msg

Next ==
    \/ CutChunk
    \/ BeginRun
    \/ run
    \/ \E id \in ReqIds : historicalData(id) \/ historicalDataEnd(id) \/ error(id)
    \/ Dispatch

Spec == Init /\ [][Next]_vars

(* The threads keep running, and TWS answers each request to its end, or   *)
(* fails it.                                                               *)
FairSpec ==
    /\ Spec
    /\ WF_vars(CutChunk \/ BeginRun)
    /\ WF_vars(run)
    /\ WF_vars(Dispatch)
    /\ \A id \in ReqIds : WF_vars(historicalData(id) \/ historicalDataEnd(id))
-----------------------------------------------------------------------------
(* The chunks of a period follow each other without a gap or an overlap,   *)
(* from its start on, and do not reach beyond its end: generate_ib_reqs    *)
(* with its windows of days and a rest in seconds.                         *)
CutCovers ==
    \A s \in Symbols :
        LET chunks == sym_chunks[s]
        IN  /\ \A i \in 1 .. Len(chunks) :
                  WindowStart(chunks[i]) =
                      IF i = 1 THEN sym_req[s][1] ELSE chunks[i - 1].end
            /\ chunks # << >> => chunks[Len(chunks)].end = st[s]
            /\ st[s] <= sym_req[s][2] \/ chunks = << >>

(* A symbol reported as a success has all its bars in its file, once and   *)
(* in order, unless an answer overtook the filing of its request           *)
(* (process_hist_bar, process_hist_bar_end, process_data).                 *)
SavedComplete ==
    \A s \in Symbols : sym_status[s] = "success" /\ dropped = {} =>
        /\ \A i \in 1 .. Len(saved[s]) - 1 : saved[s][i] < saved[s][i + 1]
        /\ \A i \in 1 .. Len(sym_chunks[s]) :
              LastBar(sym_chunks[s][i]) \in ToSet(saved[s])

InProgress == {s \in Wanted : sym_status[s] = "in_prog"}

(* remaining counts the symbols still in progress, and those that saving   *)
(* failed for, which nobody counts down: an error that comes twice, or     *)
(* before the data it was about, takes nothing off twice (process_err_msg  *)
(* against process_hist_bar_end).  An unsigned count would wrap around.    *)
RemainingExact ==
    pcR # "cutting" => remaining = Cardinality(InProgress) + Cardinality(unsaved)

(* When run() comes to log the final status, every symbol has one.         *)
FinalStatus == pcR = "done" => InProgress = {}

\* The symbols in progress whose chunks have all ended: saving them threw.
Abandoned == {s \in InProgress : sym_chunk_id[s] = Len(sym_chunks[s])}

(* run() returns, unless saving a symbol failed or threw, or an answer     *)
(* overtook the filing of its request, and with it the chain of chunks     *)
(* broke off (run, process_hist_bar_end, process_err_msg).                 *)
RunReturns == <>(pcR = "done" \/ unsaved \cup Abandoned # {} \/ dropped # {})

(* "The final status is": run() gets to its end and reports how every      *)
(* symbol fared, those that could not be saved included                    *)
(* (historical_data.cpp:69, 335).                                          *)
RunEnds == <>(pcR = "done")
=============================================================================
