----------------------------- MODULE FifoQueue -----------------------------
(***************************************************************************)
(* What calm::LBQueue promises to the threads that share it, without its   *)
(* mutex and condition variable: every call takes effect at one instant,   *)
(* items leave in the order in which they entered, wait_pop never comes    *)
(* back empty-handed, and try_pop does so only when the queue is empty.    *)
(* The event engine, the portfolio, the algo engine and the data recorder  *)
(* are modelled on top of this specification; LBQueue implements it.       *)
(***************************************************************************)
EXTENDS Sequences

CONSTANTS
    Threads,   \* threads that share the queue
    Items,     \* values that are pushed
    NoItem     \* nothing: what a push, or a try_pop that times out, returns

VARIABLES
    q,         \* the items in the queue, oldest first
    call       \* per thread, the call in progress or the last return

Pops == {"wait_pop", "try_pop"}

Returned(v) == [op |-> "return", v |-> v]

Calls == [op : {"wait_push"}, v : Items]
            \cup [op : Pops, v : {NoItem}]
            \cup [op : {"return"}, v : Items \cup {NoItem}]

FifoTypeOK == q \in Seq(Items) /\ call \in [Threads -> Calls]

FifoInit ==
    /\ q = << >>
    /\ call = [t \in Threads |-> Returned(NoItem)]

(* A thread between two calls starts one. *)
Start(t, c) ==
    /\ call[t].op = "return"
    /\ c \in Calls /\ c.op # "return"
    /\ call' = [call EXCEPT ![t] = c]
    /\ UNCHANGED q

Enqueue(t) ==
    /\ call[t].op = "wait_push"
    /\ q' = Append(q, call[t].v)
    /\ call' = [call EXCEPT ![t] = Returned(NoItem)]

Dequeue(t) ==
    /\ call[t].op \in Pops
    /\ q # << >>
    /\ q' = Tail(q)
    /\ call' = [call EXCEPT ![t] = Returned(Head(q))]

Miss(t) ==
    /\ call[t].op = "try_pop"
    /\ q = << >>
    /\ call' = [call EXCEPT ![t] = Returned(NoItem)]
    /\ UNCHANGED q

FifoNext ==
    \E t \in Threads :
        \/ \E c \in Calls : Start(t, c)
        \/ Enqueue(t)
        \/ Dequeue(t)
        \/ Miss(t)

FifoSpec == FifoInit /\ [][FifoNext]_<<q, call>>
=============================================================================
