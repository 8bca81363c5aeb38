------------------------------ MODULE LBQueue ------------------------------
(***************************************************************************)
(* calm::LBQueue, the unbounded queue every thread boundary of the system  *)
(* goes through: a std::queue guarded by the mutex m, with the condition   *)
(* variable cv on which the consumers sleep.  A call is split where it     *)
(* takes or gives up m, so the calls of several threads interleave as the  *)
(* code lets them: a notified consumer competes for m with a new caller, a *)
(* timed wait may expire while a notification is on its way, and the       *)
(* condition variable may wake a thread for no reason.                     *)
(***************************************************************************)
EXTENDS Naturals, Sequences, FiniteSets

CONSTANTS
    Threads, Items, NoItem,
    Nobody,        \* the owner of a free mutex
    MaxPushes      \* bound: pushes begun while fewer than this many are done

ASSUME NobodyIsNotAThread == Nobody \notin Threads
ASSUME NoItemAssumption == NoItem \notin Items
ASSUME ThreadsFinite == IsFiniteSet(Threads)
ASSUME MaxPushesIsNat == MaxPushes \in Nat

VARIABLES
    m,         \* owner of the mutex
    q,         \* the std::queue
    waiters,   \* threads asleep on cv
    pc,        \* where each thread is in its call
    call,      \* the call, as FifoQueue sees it
    pushed,    \* history: everything that was ever pushed, in order
    popped     \* history: everything that was ever popped, in order

vars == <<m, q, waiters, pc, call, pushed, popped>>

Pops == {"wait_pop", "try_pop"}

Returned(v) == [op |-> "return", v |-> v]

Calls == [op : {"wait_push"}, v : Items]
            \cup [op : Pops, v : {NoItem}]
            \cup [op : {"return"}, v : Items \cup {NoItem}]

\* Places where a thread owns m, and places where it is about to lock it.
Owning  == {"push", "check", "late_check", "unlock"}
Locking == {"lock", "relock", "late_relock"}

TypeOK ==
    /\ m \in Threads \cup {Nobody}
    /\ q \in Seq(Items)
    /\ waiters \in SUBSET Threads
    /\ pc \in [Threads -> {"idle", "asleep"} \cup Owning \cup Locking]
    /\ call \in [Threads -> Calls]
    /\ pushed \in Seq(Items)
    /\ popped \in Seq(Items)

Init ==
    /\ m = Nobody
    /\ q = << >>
    /\ waiters = {}
    /\ pc = [t \in Threads |-> "idle"]
    /\ call = [t \in Threads |-> Returned(NoItem)]
    /\ pushed = << >>
    /\ popped = << >>
-----------------------------------------------------------------------------
BeginPush(t, x) ==
    /\ pc[t] = "idle"
    /\ Len(pushed) < MaxPushes
    /\ call' = [call EXCEPT ![t] = [op |-> "wait_push", v |-> x]]
    /\ pc' = [pc EXCEPT ![t] = "lock"]
    /\ UNCHANGED <<m, q, waiters, pushed, popped>>

BeginPop(t, op) ==
    /\ pc[t] = "idle"
    /\ call' = [call EXCEPT ![t] = [op |-> op, v |-> NoItem]]
    /\ pc' = [pc EXCEPT ![t] = "lock"]
    /\ UNCHANGED <<m, q, waiters, pushed, popped>>

(* The constructor of lock_guard or unique_lock, and the lock that a wait  *)
(* on cv takes again before it returns.                                    *)
Lock(t) ==
    /\ pc[t] \in Locking
    /\ m = Nobody
    /\ m' = t
    /\ pc' = [pc EXCEPT ![t] =
                 CASE pc[t] = "late_relock" -> "late_check"
                   [] pc[t] = "lock" /\ call[t].op = "wait_push" -> "push"
                   [] OTHER -> "check"]
    /\ UNCHANGED <<q, waiters, call, pushed, popped>>

Unlock(t) ==
    /\ pc[t] = "unlock"
    /\ m' = Nobody
    /\ pc' = [pc EXCEPT ![t] = "idle"]
    /\ UNCHANGED <<q, waiters, call, pushed, popped>>

\* Mutant: what is queued is an item that was moved from before.
EnqueuedMovedFrom(t) ==
    /\ q' = Append(q, NoItem)
    /\ pushed' = Append(pushed, call[t].v)
    /\ call' = [call EXCEPT ![t] = Returned(NoItem)]
    /\ UNCHANGED <<m, popped>>

Enqueued(t) ==
    /\ q' = Append(q, call[t].v)
    /\ pushed' = Append(pushed, call[t].v)
    /\ call' = [call EXCEPT ![t] = Returned(NoItem)]
    /\ UNCHANGED <<m, popped>>

(* cv.notify_one(): one sleeper, whichever it is, goes for the mutex; the  *)
(* caller t goes on to release it.                                         *)
NotifyOne(t) ==
    IF waiters = {}
    THEN /\ pc' = [pc EXCEPT ![t] = "unlock"]
         /\ UNCHANGED waiters
    ELSE \E w \in waiters :
            /\ waiters' = waiters \ {w}
            /\ pc' = [pc EXCEPT ![t] = "unlock", ![w] = "relock"]

\* Mutants of wait_push: no notification; one only if the queue was empty.
PushSilently(t) ==
    /\ pc[t] = "push"
    /\ Enqueued(t)
    /\ pc' = [pc EXCEPT ![t] = "unlock"]
    /\ UNCHANGED waiters

PushNotifyingIfEmpty(t) ==
    /\ pc[t] = "push"
    /\ Enqueued(t)
    /\ IF q = << >>
       THEN NotifyOne(t)
       ELSE pc' = [pc EXCEPT ![t] = "unlock"] /\ UNCHANGED waiters

(* The body of wait_push: the item is queued and one sleeper notified.     *)
Push(t) ==
    /\ pc[t] = "push"
    /\ Enqueued(t)
    /\ NotifyOne(t)

\* Mutant of the removal: the front is copied out but q.pop() is missing.
TakeWithoutPop(t) ==
    /\ call' = [call EXCEPT ![t] = Returned(Head(q))]
    /\ popped' = Append(popped, Head(q))
    /\ pc' = [pc EXCEPT ![t] = "unlock"]
    /\ UNCHANGED <<m, q, waiters, pushed>>

(* The front item is moved out, popped and returned.                       *)
Take(t) ==
    /\ call' = [call EXCEPT ![t] = Returned(Head(q))]
    /\ q' = Tail(q)
    /\ popped' = Append(popped, Head(q))
    /\ pc' = [pc EXCEPT ![t] = "unlock"]
    /\ UNCHANGED <<m, waiters, pushed>>

(* The predicate of the wait: take the item, or release m and sleep.       *)
Check(t) ==
    /\ pc[t] = "check"
    /\ \/ q # << >> /\ Take(t)
       \/ /\ q = << >>
          /\ m' = Nobody
          /\ waiters' = waiters \cup {t}
          /\ pc' = [pc EXCEPT ![t] = "asleep"]
          /\ UNCHANGED <<q, call, pushed, popped>>

(* cv may wake a thread that nobody notified.                              *)
SpuriousWakeup(t) ==
    /\ t \in waiters
    /\ waiters' = waiters \ {t}
    /\ pc' = [pc EXCEPT ![t] = "relock"]
    /\ UNCHANGED <<m, q, call, pushed, popped>>

(* The wait_for of try_pop expires; m must be locked again to return.      *)
Timeout(t) ==
    /\ t \in waiters
    /\ call[t].op = "try_pop"
    /\ waiters' = waiters \ {t}
    /\ pc' = [pc EXCEPT ![t] = "late_relock"]
    /\ UNCHANGED <<m, q, call, pushed, popped>>

\* Mutant: an expired wait returns false without looking at the queue.
LateCheckGivingUp(t) ==
    /\ pc[t] = "late_check"
    /\ call' = [call EXCEPT ![t] = Returned(NoItem)]
    /\ pc' = [pc EXCEPT ![t] = "unlock"]
    /\ UNCHANGED <<m, q, waiters, pushed, popped>>

(* After an expired wait the queue is looked at once more: an item that    *)
(* arrived meanwhile is taken, otherwise try_pop returns false.            *)
LateCheck(t) ==
    /\ pc[t] = "late_check"
    /\ \/ q # << >> /\ Take(t)
       \/ /\ q = << >>
          /\ call' = [call EXCEPT ![t] = Returned(NoItem)]
          /\ pc' = [pc EXCEPT ![t] = "unlock"]
          /\ UNCHANGED <<m, q, waiters, pushed, popped>>
-----------------------------------------------------------------------------
(* What a thread inside a call does by itself.                             *)
Advance(t) == Lock(t) \/ Push(t) \/ Check(t) \/ LateCheck(t) \/ Unlock(t)

Next ==
    \E t \in Threads :
        \/ \E x \in Items : BeginPush(t, x)
        \/ \E op \in Pops : BeginPop(t, op)
        \/ Advance(t)
        \/ SpuriousWakeup(t)
        \/ Timeout(t)

Spec == Init /\ [][Next]_vars

(* Threads in a call keep running.  New calls, timeouts and spurious       *)
(* wakeups are left to chance: nothing may depend on them.                 *)
FairSpec == Spec /\ \A t \in Threads : WF_vars(Advance(t))
-----------------------------------------------------------------------------
(* Nothing is lost, duplicated or reordered on the way through the queue:  *)
(* what was popped followed by what is still queued is what was pushed     *)
(* (wait_push, wait_pop, try_pop; the claim tests/utils/test_queue.cpp     *)
(* makes with fifteen producers and fifteen consumers).                    *)
Fifo == pushed = popped \o q

Awake == {t \in Threads : pc[t] \in {"relock", "late_relock", "check", "late_check"}}

(* No lost wakeup: as long as some consumer sleeps on cv, there is an      *)
(* awake consumer for every item in the queue (notify_one in wait_push     *)
(* against the waits of wait_pop and try_pop).                             *)
NoLostWakeup == waiters # {} => Len(q) <= Cardinality(Awake)

(* An item does not stay in the queue while a consumer sleeps: without     *)
(* help from a timeout or a spurious wakeup, either the queue is drained   *)
(* or the sleepers are woken (notify_one).                                 *)
NoStrandedItem == (q # << >> /\ waiters # {}) ~> (q = << >> \/ waiters = {})

(* The implementation's promise, stated in FifoQueue: each call of         *)
(* wait_push, wait_pop and try_pop takes effect at one instant.            *)
Abstract == INSTANCE FifoQueue
ImplementsFifo == Abstract!FifoSpec
=============================================================================
