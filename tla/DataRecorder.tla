---------------------------- MODULE DataRecorder ----------------------------
(***************************************************************************)
(* calm::DataRecorder: the event engine's thread copies every tick and     *)
(* order event to the queue q, and a thread of its own inserts them into   *)
(* MongoDB, the n-th event as document n of the collection of its type.    *)
(* The recorder can be started and stopped more than once, and an insert   *)
(* may fail.  The queue is FifoQueue: its calls take effect at an instant. *)
(***************************************************************************)
EXTENDS Naturals, Sequences, FiniteSets, Functions

CONSTANTS
    Other,        \* any value of EventType the recorder does not save
    MaxEvents,    \* bound: events copied
    MaxDocs,      \* bound: documents MongoDB takes; then it refuses inserts
    MaxStarts     \* bound: calls of start

Recorded == {"tick_data", "order_data"}

ASSUME OtherIsNotRecorded == Other \notin Recorded
ASSUME BoundsAreNat == MaxEvents \in Nat /\ MaxDocs \in Nat /\ MaxStarts \in Nat

VARIABLES
    running,
    owner,      \* the thread that calls start and stop: free, or joining
    q,          \* the queue, of event numbers
    event,      \* run_action's event: its type and, unless data is null, number
    pc,         \* where run_action is
    db,         \* MongoDB: per collection, the events of its documents
    alive,      \* the process has not crashed
    accepted,   \* history: the type of each event copied
    refused,    \* history: events of failed inserts
    starts

vars == <<running, owner, q, event, pc, db, alive, accepted, refused, starts>>

Numbers == 1 .. MaxEvents
Null == 0

TypeOK ==
    /\ running \in BOOLEAN /\ alive \in BOOLEAN
    /\ owner \in {"free", "join"}
    /\ q \in Seq(Numbers)
    /\ event \in [e_type : Recorded \cup {Other}, data : Numbers \cup {Null}]
    /\ pc \in {"none", "test", "pop", "save", "ended"}
    /\ db \in [Recorded -> Seq(Numbers)]
    /\ accepted \in Seq(Recorded)
    /\ refused \in SUBSET Numbers
    /\ starts \in 0 .. MaxStarts

Init ==
    /\ running = FALSE
    /\ owner = "free"
    /\ q = << >>
    /\ event = [e_type |-> Other, data |-> Null]
    /\ pc = "none"
    /\ db = [type \in Recorded |-> << >>]
    /\ alive = TRUE
    /\ accepted = << >>
    /\ refused = {}
    /\ starts = 0
-----------------------------------------------------------------------------
\* On the event engine's thread, whether or not the recorder is running.
copy_to_queue(type) ==
    /\ Len(accepted) < MaxEvents
    /\ accepted' = Append(accepted, type)
    /\ q' = Append(q, Len(accepted'))
    /\ UNCHANGED <<running, owner, event, pc, db, alive, refused, starts>>

\* run_action's event is a new one, and its e_type not initialised.
start ==
    /\ owner = "free"
    /\ ~running
    /\ starts < MaxStarts
    /\ starts' = starts + 1
    /\ running' = TRUE
    /\ pc' = "test"
    /\ \E type \in Recorded \cup {Other} : event' = [e_type |-> type, data |-> Null]
    /\ UNCHANGED <<owner, q, db, alive, accepted, refused>>

stop ==
    /\ owner = "free"
    /\ running
    /\ running' = FALSE
    /\ owner' = "join"
    /\ UNCHANGED <<q, event, pc, db, alive, accepted, refused, starts>>

join ==
    /\ owner = "join"
    /\ pc = "ended"
    /\ owner' = "free"
    /\ pc' = "none"
    /\ UNCHANGED <<running, q, event, db, alive, accepted, refused, starts>>
-----------------------------------------------------------------------------
TestRunning ==
    /\ pc = "test"
    /\ pc' = IF running THEN "pop" ELSE "ended"
    /\ UNCHANGED <<running, owner, q, event, db, alive, accepted, refused, starts>>

\* Mutants: running is tested between try_pop and the switch; an event that
\* is declared inside the loop.
TakeTesting ==
    /\ pc = "pop"
    /\ q # << >>
    /\ event' = [e_type |-> accepted[Head(q)], data |-> Head(q)]
    /\ q' = Tail(q)
    /\ pc' = IF running THEN "save" ELSE "ended"
    /\ UNCHANGED <<running, owner, db, alive, accepted, refused, starts>>

ExpireForgetting ==
    /\ pc = "pop"
    /\ q = << >>
    /\ \E type \in Recorded \cup {Other} : event' = [e_type |-> type, data |-> Null]
    /\ pc' = "save"
    /\ UNCHANGED <<running, owner, q, db, alive, accepted, refused, starts>>

\* Mutant: wait_pop in the place of try_pop.
ExpireNever ==
    /\ pc = "pop"
    /\ FALSE
    /\ UNCHANGED vars

Take ==
    /\ pc = "pop"
    /\ q # << >>
    /\ event' = [e_type |-> accepted[Head(q)], data |-> Head(q)]
    /\ q' = Tail(q)
    /\ pc' = "save"
    /\ UNCHANGED <<running, owner, db, alive, accepted, refused, starts>>

\* try_pop's wait expires, its result is not looked at, event stays as it is.
Expire ==
    /\ pc = "pop"
    /\ q = << >>
    /\ pc' = "save"
    /\ UNCHANGED <<running, owner, q, event, db, alive, accepted, refused, starts>>

Docs == Len(db["tick_data"]) + Len(db["order_data"])

\* Also an insert that MongoDB has done and whose answer is lost.
Inserted ==
    /\ Docs < MaxDocs
    /\ db' = [db EXCEPT ![event.e_type] = Append(@, event.data)]
    /\ pc' = "test"
    /\ UNCHANGED refused

\* Mutant: the exception leaves the loop.
FailedOut ==
    /\ refused' = refused \cup {event.data}
    /\ pc' = "ended"
    /\ UNCHANGED db

\* A mongocxx::exception, which run_action catches and logs.
Failed ==
    /\ refused' = refused \cup {event.data}
    /\ pc' = "test"
    /\ UNCHANGED db

\* Mutant: an event without data is saved as an empty document.
SaveNull ==
    /\ pc = "save"
    /\ \/ event.e_type = Other /\ pc' = "test" /\ UNCHANGED <<db, refused>>
       \/ event.e_type # Other /\ (Inserted \/ Failed)
    /\ UNCHANGED <<running, owner, q, event, alive, accepted, starts>>

\* save_tick and save_order_data; both follow the pointer event.data.
Save ==
    /\ pc = "save"
    /\ \/ /\ event.e_type = Other
          /\ pc' = "test"
          /\ UNCHANGED <<db, refused, alive>>
       \/ /\ event.e_type # Other /\ event.data = Null
          /\ alive' = FALSE
          /\ UNCHANGED <<pc, db, refused>>
       \/ /\ event.e_type # Other /\ event.data # Null
          /\ Inserted \/ Failed
          /\ UNCHANGED alive
    /\ UNCHANGED <<running, owner, q, event, accepted, starts>>

run_action == TestRunning \/ Take \/ Expire \/ Save

Next ==
    /\ alive
    /\ \/ \E type \in Recorded : copy_to_queue(type)
       \/ start \/ stop \/ join
       \/ run_action

Spec == Init /\ [][Next]_vars

\* The threads keep running: a wait of one second ends, an insert comes back.
FairSpec == Spec /\ WF_vars(alive /\ run_action) /\ WF_vars(alive /\ join)
-----------------------------------------------------------------------------
(* DataRecorder keeps Journal's promise, the events taken from the queue   *)
(* being those it has turned to: however waits expire, inserts fail and    *)
(* the recorder is stopped and started again, events are inserted in the   *)
(* order in which the event engine handled them, and each one is tried     *)
(* before the next (copy_to_queue, run_action, stop).                      *)
J == INSTANCE Journal WITH
        cursor  <- Len(accepted) - Len(q),
        written <- db
ImplementsJournal == J!JournalSpec

(* A recorder that is started once, as Trader::run does, can crash the     *)
(* process through the e_type nobody has set only before it has taken its  *)
(* first event: later an expired wait finds the last event still in hand   *)
(* (run_action).                                                           *)
SafeOnceFed == ~alive /\ starts = 1 => Len(q) = Len(accepted)

Tried(n) == n \in refused \/ n \in Range(db[accepted[n]])

(* An event that was copied is tried, or the recorder is stopped: a failed *)
(* insert does not end the thread (run_action's catch).                    *)
EventuallyTried ==
    \A n \in Numbers :
        Len(accepted) >= n /\ running
            ~> (Len(accepted) >= n /\ Tried(n)) \/ ~running \/ ~alive

(* stop() comes back, also when no event arrives any more (try_pop's       *)
(* timeout, join).                                                         *)
StopReturns == owner = "join" ~> owner = "free" \/ ~alive
=============================================================================
