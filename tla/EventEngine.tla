----------------------------- MODULE EventEngine -----------------------------
(***************************************************************************)
(* calm::EventEngine: its callback thread takes events off a queue and     *)
(* hands each to the callbacks in m_cbs[e_type].  The owner starts, stops  *)
(* and awaits that thread; any thread registers callbacks and sends        *)
(* events, the one that stops the engine among them.                       *)
(*                                                                         *)
(* The mutex m guards running and m_cbs, but run() reads both without it,  *)
(* and stop() holds it while it joins.  The read of running in run() is    *)
(* unsynchronised; the queue's mutex in between makes each pass of the     *)
(* loop read it anew, so it is one read of the current value here.         *)
(***************************************************************************)
EXTENDS Naturals, Sequences, FiniteSets

CONSTANTS
    EventTypes,   \* what callbacks are registered for
    CbNames,      \* names callbacks are registered under
    Stop,         \* event_engine_stop
    StopSent,     \* whether somebody sends Stop
    MaxEvents     \* bound: events sent

ASSUME StopIsNoEventType == Stop \notin EventTypes
ASSUME StopSentIsBoolean == StopSent \in BOOLEAN
ASSUME MaxEventsIsNat == MaxEvents \in Nat

VARIABLES
    running,   \* whether run() goes on
    m_held,    \* whether the owner holds m, which it does while it joins
    q,         \* the queue of events
    sent,      \* how many events were sent
    m_cbs,     \* the names registered for each type of event
    owner,     \* what the owner of the engine is doing
    thread,    \* what the callback thread is doing; "none": not joinable
    e_type,    \* the event in hand
    todo       \* its callbacks that have not run yet

vars == <<running, m_held, q, sent, m_cbs, owner, thread, e_type, todo>>

Events == EventTypes \cup (IF StopSent THEN {Stop} ELSE {})

TypeOK ==
    /\ running \in BOOLEAN
    /\ m_held \in BOOLEAN
    /\ q \in Seq(Events)
    /\ sent \in Nat
    /\ m_cbs \in [EventTypes -> SUBSET CbNames]
    /\ owner \in {"free", "spawning", "joining", "waiting"}
    /\ thread \in {"none", "testing", "popping", "dispatching", "stopping", "done"}
    /\ e_type \in Events \cup {Stop}
    /\ todo \in SUBSET CbNames
    /\ todo # {} => e_type \in EventTypes /\ todo \subseteq m_cbs[e_type]

Init ==
    /\ running = FALSE
    /\ m_held = FALSE
    /\ q = << >>
    /\ sent = 0
    /\ m_cbs = [type \in EventTypes |-> {}]
    /\ owner = "free"
    /\ thread = "none"
    /\ e_type = Stop
    /\ todo = {}
-----------------------------------------------------------------------------
\* start(): the flag under m, then the thread.  A thread that was not joined
\* is never assigned over: that would end the process, and no caller does it.
StartFlag ==
    /\ owner = "free"
    /\ thread = "none"
    /\ ~m_held
    /\ running' = TRUE
    /\ owner' = "spawning"
    /\ UNCHANGED <<m_held, q, sent, m_cbs, thread, e_type, todo>>

StartThread ==
    /\ owner = "spawning"
    /\ thread' = "testing"
    /\ owner' = "free"
    /\ UNCHANGED <<running, m_held, q, sent, m_cbs, e_type, todo>>

\* Mutants of stop(): m is released before the join; the flag is not lowered.
LowerFlagReleasing ==
    /\ owner = "free"
    /\ ~m_held
    /\ running' = FALSE
    /\ owner' = "joining"
    /\ UNCHANGED <<m_held, q, sent, m_cbs, thread, e_type, todo>>

JoinWithoutFlag ==
    /\ owner = "free"
    /\ ~m_held
    /\ m_held' = TRUE
    /\ owner' = "joining"
    /\ UNCHANGED <<running, q, sent, m_cbs, thread, e_type, todo>>

\* stop(): the flag is lowered under m, and m stays held until the join.
LowerFlag ==
    /\ owner = "free"
    /\ ~m_held
    /\ running' = FALSE
    /\ m_held' = TRUE
    /\ owner' = "joining"
    /\ UNCHANGED <<q, sent, m_cbs, thread, e_type, todo>>

Join ==
    /\ owner = "joining"
    /\ thread \in {"none", "done"}
    /\ thread' = "none"
    /\ m_held' = FALSE
    /\ owner' = "free"
    /\ UNCHANGED <<running, q, sent, m_cbs, e_type, todo>>

\* wait_till_finish(), of a thread that can be joined.
BeginWait ==
    /\ owner = "free"
    /\ thread # "none"
    /\ owner' = "waiting"
    /\ UNCHANGED <<running, m_held, q, sent, m_cbs, thread, e_type, todo>>

EndWait ==
    /\ owner = "waiting"
    /\ thread = "done"
    /\ thread' = "none"
    /\ owner' = "free"
    /\ UNCHANGED <<running, m_held, q, sent, m_cbs, e_type, todo>>
-----------------------------------------------------------------------------
\* An engine that runs refuses the callback.
register_cb(type, cb_name) ==
    /\ ~m_held
    /\ ~running
    /\ m_cbs' = [m_cbs EXCEPT ![type] = @ \cup {cb_name}]
    /\ UNCHANGED <<running, m_held, q, sent, owner, thread, e_type, todo>>

send(event) ==
    /\ sent < MaxEvents
    /\ sent' = sent + 1
    /\ q' = Append(q, event)
    /\ UNCHANGED <<running, m_held, m_cbs, owner, thread, e_type, todo>>
-----------------------------------------------------------------------------
\* run(): while (running).
TestRunning ==
    /\ thread = "testing"
    /\ thread' = IF running THEN "popping" ELSE "done"
    /\ UNCHANGED <<running, m_held, q, sent, m_cbs, owner, e_type, todo>>

\* try_pop gives up on an empty queue.
PopTimeout ==
    /\ thread = "popping"
    /\ q = << >>
    /\ thread' = "testing"
    /\ UNCHANGED <<running, m_held, q, sent, m_cbs, owner, e_type, todo>>

\* Mutant: the stop event is looked up like any other.
PopIgnoringStop ==
    /\ thread = "popping"
    /\ q # << >>
    /\ q' = Tail(q)
    /\ e_type' = Head(q)
    /\ todo' = IF Head(q) = Stop THEN {} ELSE m_cbs[Head(q)]
    /\ thread' = IF todo' = {} THEN "testing" ELSE "dispatching"
    /\ UNCHANGED <<running, m_held, sent, m_cbs, owner>>

\* Mutant: the callbacks of one event are handed the event before it.
PopKeepingEvent ==
    /\ thread = "popping"
    /\ q # << >>
    /\ q' = Tail(q)
    /\ \/ /\ Head(q) = Stop
          /\ thread' = "stopping"
          /\ UNCHANGED todo
       \/ /\ Head(q) # Stop
          /\ todo' = m_cbs[Head(q)]
          /\ thread' = IF todo' = {} THEN "testing" ELSE "dispatching"
    /\ UNCHANGED <<running, m_held, sent, m_cbs, owner, e_type>>

PopEvent ==
    /\ thread = "popping"
    /\ q # << >>
    /\ q' = Tail(q)
    /\ e_type' = Head(q)
    /\ \/ /\ Head(q) = Stop
          /\ thread' = "stopping"
          /\ UNCHANGED todo
       \/ /\ Head(q) # Stop
          /\ todo' = m_cbs[Head(q)]
          /\ thread' = IF todo' = {} THEN "testing" ELSE "dispatching"
    /\ UNCHANGED <<running, m_held, sent, m_cbs, owner>>

\* The event is handed to the next callback, in whatever order the map has
\* them.  What the callback throws is caught and logged, and nothing else.
Dispatch(cb_name) ==
    /\ thread = "dispatching"
    /\ cb_name \in todo
    /\ todo' = todo \ {cb_name}
    /\ thread' = IF todo' = {} THEN "testing" ELSE "dispatching"
    /\ UNCHANGED <<running, m_held, q, sent, m_cbs, owner, e_type>>

\* The stop event: the flag is lowered under m.
StopItself ==
    /\ thread = "stopping"
    /\ ~m_held
    /\ running' = FALSE
    /\ thread' = "testing"
    /\ UNCHANGED <<m_held, q, sent, m_cbs, owner, e_type, todo>>

run ==
    \/ TestRunning \/ PopTimeout \/ PopEvent \/ StopItself
    \/ \E cb_name \in CbNames : Dispatch(cb_name)

Owner == StartFlag \/ StartThread \/ LowerFlag \/ Join \/ BeginWait \/ EndWait

Next ==
    \/ Owner
    \/ \E type \in EventTypes, cb_name \in CbNames : register_cb(type, cb_name)
    \/ \E event \in Events : send(event)
    \/ run

Spec == Init /\ [][Next]_vars

(* The callback thread keeps running, which includes that callbacks        *)
(* return, and a join that can return does.  Nobody has to call anything.  *)
FairSpec == Spec /\ WF_vars(run) /\ WF_vars(Join \/ EndWait \/ StartThread)
-----------------------------------------------------------------------------
(* While an event is handed out, the table of callbacks the loop iterates  *)
(* over does not change, although run() reads it without the mutex that    *)
(* register_cb takes (event.cpp:36-50, 64).                                *)
TableStable == [][todo # {} => UNCHANGED m_cbs]_vars

(* stop() returns, whatever is in the queue (event.cpp:26-32), unless the  *)
(* callback thread holds the event that stops the engine as well.          *)
StopReturns == (owner = "joining") ~> (owner # "joining" \/ thread = "stopping")

(* wait_till_finish() returns once the stop event is in the queue          *)
(* (event.cpp:57-62, 80-82).                                               *)
WaitReturns ==
    (owner = "waiting" /\ \E i \in 1 .. Len(q) : q[i] = Stop) ~> (owner # "waiting")

(* "received EVENT_ENGINE_STOP, stopping event engine": from there the     *)
(* thread gets to its end (event.cpp:58).                                  *)
StopEventHonoured == (thread = "stopping") ~> (thread # "stopping")
=============================================================================
