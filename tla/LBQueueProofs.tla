--------------------------- MODULE LBQueueProofs ---------------------------
(***************************************************************************)
(* What LBQueue guarantees for any number of threads, items and pushes:    *)
(* type correctness, FIFO order, no lost wakeup, and that it implements    *)
(* FifoQueue.                                                              *)
(***************************************************************************)
EXTENDS LBQueue, SequenceTheorems, FiniteSetTheorems, TLAPS

(* Where a thread is agrees with the call it makes.                        *)
CallsMatch ==
    \A t \in Threads :
        /\ pc[t] \in {"idle", "unlock"} => call[t].op = "return"
        /\ pc[t] = "lock" => call[t].op # "return"
        /\ pc[t] = "push" => call[t].op = "wait_push"
        /\ pc[t] \in {"asleep", "relock", "check"} => call[t].op \in Pops
        /\ pc[t] \in {"late_relock", "late_check"} => call[t].op = "try_pop"

(* m is held by the thread that is between locking and unlocking it.       *)
MutexHeld == \A t \in Threads : pc[t] \in Owning <=> m = t

(* cv knows the threads that sleep on it.                                  *)
SleepersKnown == \A t \in Threads : t \in waiters <=> pc[t] = "asleep"

ControlInv == TypeOK /\ CallsMatch /\ MutexHeld /\ SleepersKnown

(***************************************************************************)
(* What a push does, whomever it wakes.                                    *)
(***************************************************************************)
LEMMA PushEffect ==
    ASSUME TypeOK, NEW t \in Threads, Push(t)
    PROVE  /\ q' = Append(q, call[t].v)
           /\ pushed' = Append(pushed, call[t].v)
           /\ call' = [call EXCEPT ![t] = Returned(NoItem)]
           /\ m' = m /\ popped' = popped
           /\ \/ /\ waiters = {}
                 /\ waiters' = {}
                 /\ pc' = [pc EXCEPT ![t] = "unlock"]
              \/ \E w \in waiters :
                    /\ waiters' = waiters \ {w}
                    /\ pc' = [pc EXCEPT ![t] = "unlock", ![w] = "relock"]
  BY DEF Push, Enqueued, NotifyOne, TypeOK, Calls, Pops

(* Every step of wait_push, wait_pop and try_pop keeps types, the owner of *)
(* m, the sleepers of cv and the places of the threads consistent.         *)
LEMMA ControlInvInit == Init => ControlInv
  <1> SUFFICES ASSUME Init PROVE ControlInv
    OBVIOUS
  <1>1. TypeOK
    BY EmptySeq DEF Init, TypeOK, Calls, Returned, Pops
  <1>2. CallsMatch
    BY DEF Init, CallsMatch, Returned
  <1>3. MutexHeld /\ SleepersKnown
    BY NobodyIsNotAThread DEF Init, MutexHeld, SleepersKnown, Owning
  <1> QED BY <1>1, <1>2, <1>3 DEF ControlInv

(* Every step of a call keeps them consistent.                             *)
LEMMA ControlInvStep == ControlInv /\ [Next]_vars => ControlInv'
  <1> SUFFICES ASSUME ControlInv, [Next]_vars PROVE ControlInv'
    OBVIOUS
  <1> USE NobodyIsNotAThread
      DEF ControlInv, TypeOK, CallsMatch, MutexHeld, SleepersKnown, Owning, Locking, Pops
  <1>1. ASSUME NEW t \in Threads, NEW x \in Items, BeginPush(t, x)
        PROVE  ControlInv'
    BY <1>1 DEF BeginPush, Calls
  <1>2. ASSUME NEW t \in Threads, NEW op \in Pops, BeginPop(t, op)
        PROVE  ControlInv'
    BY <1>2 DEF BeginPop, Calls
  <1>3. ASSUME NEW t \in Threads, Lock(t)
        PROVE  ControlInv'
    <2>1. call[t] \in Calls
      OBVIOUS
    <2> QED BY <1>3, <2>1 DEF Lock, Calls
  <1>4. ASSUME NEW t \in Threads, Unlock(t)
        PROVE  ControlInv'
    BY <1>4 DEF Unlock
  <1>5. ASSUME NEW t \in Threads, Push(t)
        PROVE  ControlInv'
    <2>1. pc[t] = "push" /\ call[t].v \in Items
      BY <1>5 DEF Push, Calls
    <2>2. TypeOK'
      <3>1. q' = Append(q, call[t].v) /\ pushed' = Append(pushed, call[t].v)
        BY <1>5, PushEffect
      <3>2. q' \in Seq(Items) /\ pushed' \in Seq(Items)
        BY <2>1, <3>1, AppendProperties
      <3>3. /\ call' = [call EXCEPT ![t] = Returned(NoItem)]
            /\ m' = m /\ popped' = popped
        BY <1>5, PushEffect
      <3>4. call' \in [Threads -> Calls]
        BY <3>3 DEF Calls, Returned
      <3>5. waiters' \in SUBSET Threads
        BY <1>5, PushEffect
      <3>6. pc' \in [Threads -> {"idle", "asleep"} \cup Owning \cup Locking]
        <4>1. \/ pc' = [pc EXCEPT ![t] = "unlock"]
              \/ \E w \in waiters : pc' = [pc EXCEPT ![t] = "unlock", ![w] = "relock"]
          BY <1>5, PushEffect
        <4> QED BY <4>1
      <3> QED BY <3>2, <3>3, <3>4, <3>5, <3>6
    <2>3. CallsMatch'
      BY <1>5, <2>1, PushEffect DEF Returned
    <2>4. MutexHeld' /\ SleepersKnown'
      BY <1>5, <2>1, PushEffect
    <2> QED BY <2>2, <2>3, <2>4
  <1>6. ASSUME NEW t \in Threads, q # << >>, Take(t), pc[t] \in {"check", "late_check"}
        PROVE  ControlInv'
    <2>1. Head(q) \in Items /\ q' \in Seq(Items) /\ popped' \in Seq(Items)
      BY <1>6, HeadTailProperties, AppendProperties DEF Take
    <2> QED BY <1>6, <2>1 DEF Take, Calls, Returned
  <1>7. ASSUME NEW t \in Threads, Check(t)
        PROVE  ControlInv'
    <2>1. CASE q # << >>
      BY <1>6, <1>7, <2>1 DEF Check
    <2>2. CASE q = << >>
      BY <1>7, <2>2 DEF Check
    <2> QED BY <2>1, <2>2
  <1>8. ASSUME NEW t \in Threads, LateCheck(t)
        PROVE  ControlInv'
    <2>1. CASE q # << >>
      BY <1>6, <1>8, <2>1 DEF LateCheck
    <2>2. CASE q = << >>
      <3>1. call' \in [Threads -> Calls]
        BY <1>8, <2>2 DEF LateCheck, Calls, Returned
      <3>2. TypeOK'
        BY <1>8, <2>2, <3>1 DEF LateCheck
      <3>3. CallsMatch'
        BY <1>8, <2>2 DEF LateCheck, Returned
      <3>4. MutexHeld' /\ SleepersKnown'
        BY <1>8, <2>2 DEF LateCheck
      <3> QED BY <3>2, <3>3, <3>4
    <2> QED BY <2>1, <2>2
  <1>9. ASSUME NEW t \in Threads, SpuriousWakeup(t)
        PROVE  ControlInv'
    BY <1>9 DEF SpuriousWakeup
  <1>10. ASSUME NEW t \in Threads, Timeout(t)
         PROVE  ControlInv'
    BY <1>10 DEF Timeout
  <1>11. CASE UNCHANGED vars
    BY <1>11 DEF vars
  <1> QED
    BY <1>1, <1>2, <1>3, <1>4, <1>5, <1>7, <1>8, <1>9, <1>10, <1>11 DEF Next, Advance

(* The state of the queue always has its types.                            *)
THEOREM TypeCorrect == Spec => []TypeOK
  <1>1. ControlInv => TypeOK
    BY DEF ControlInv
  <1> QED BY <1>1, ControlInvInit, ControlInvStep, PTL DEF Spec

(* They are consistent in every state.                                     *)
LEMMA ControlInvariant == Spec => []ControlInv
  BY ControlInvInit, ControlInvStep, PTL DEF Spec

-----------------------------------------------------------------------------
(* Dividing a sequence differently does not change it.                     *)
LEMMA MoveFront ==
    ASSUME NEW S, NEW s \in Seq(S), NEW t \in Seq(S), t # << >>
    PROVE  Append(s, Head(t)) \o Tail(t) = s \o t
  <1>1. /\ Head(t) \in S
        /\ Tail(t) \in Seq(S)
        /\ Len(t) \in Nat \ {0}
        /\ Len(Tail(t)) = Len(t) - 1
        /\ \A i \in 1 .. Len(Tail(t)) : Tail(t)[i] = t[i + 1]
        /\ Head(t) = t[1]
    BY HeadTailProperties, EmptySeq
  <1>2. /\ Append(s, Head(t)) \in Seq(S)
        /\ Len(Append(s, Head(t))) = Len(s) + 1
        /\ \A i \in 1 .. Len(s) : Append(s, Head(t))[i] = s[i]
        /\ Append(s, Head(t))[Len(s) + 1] = Head(t)
    BY <1>1, AppendProperties
  <1> QED BY <1>1, <1>2, ConcatProperties, SeqEqual, LenProperties

(* Appending to the right of two sequences put together.                   *)
LEMMA AppendRight ==
    ASSUME NEW S, NEW s \in Seq(S), NEW t \in Seq(S), NEW e \in S
    PROVE  s \o Append(t, e) = Append(s \o t, e)
  <1>1. Append(t, e) = t \o <<e>> /\ Append(s \o t, e) = (s \o t) \o <<e>>
    BY AppendIsConcat, ConcatProperties
  <1>2. <<e>> \in Seq(S)
    OBVIOUS
  <1> QED BY <1>1, <1>2, ConcatAssociative

(* What was popped followed by what is queued is what was pushed: each     *)
(* item leaves wait_pop or try_pop once, in the order of wait_push.        *)
LEMMA FifoStep == ControlInv /\ Fifo /\ [Next]_vars => Fifo'
  <1> SUFFICES ASSUME ControlInv, Fifo, [Next]_vars PROVE Fifo'
    OBVIOUS
  <1>1. ASSUME NEW t \in Threads, Push(t)
        PROVE  Fifo'
    <2>1. call[t].v \in Items
      BY <1>1 DEF Push, ControlInv, TypeOK, CallsMatch, Calls, Pops
    <2>2. /\ q' = Append(q, call[t].v)
          /\ pushed' = Append(pushed, call[t].v)
          /\ popped' = popped
      BY <1>1, PushEffect DEF ControlInv
    <2>3. popped \o Append(q, call[t].v) = Append(popped \o q, call[t].v)
      BY <2>1, AppendRight DEF ControlInv, TypeOK
    <2> QED BY <2>2, <2>3 DEF Fifo
  <1>2. ASSUME NEW t \in Threads, q # << >>, Take(t)
        PROVE  Fifo'
    BY <1>2, MoveFront DEF Take, ControlInv, TypeOK, Fifo
  <1>3. ASSUME UNCHANGED <<q, pushed, popped>>
        PROVE  Fifo'
    BY <1>3 DEF Fifo
  <1> QED
    BY <1>1, <1>2, <1>3
    DEF Next, Advance, vars, BeginPush, BeginPop, Lock, Unlock, Check, LateCheck,
        SpuriousWakeup, Timeout

(* The queue is first in, first out, whatever the threads do.              *)
THEOREM FirstInFirstOut == Spec => []Fifo
  <1>1. Init => Fifo
    BY ConcatEmptySeq, EmptySeq DEF Init, Fifo
  <1> QED BY <1>1, ControlInvariant, FifoStep, PTL DEF Spec
-----------------------------------------------------------------------------
(* The threads that are awake can be counted.                              *)
LEMMA AwakeIsFinite == IsFiniteSet(Awake) /\ Cardinality(Awake) \in Nat
  <1>1. Awake \subseteq Threads
    BY DEF Awake
  <1> QED BY <1>1, ThreadsFinite, FS_Subset, FS_CardinalityType

(* A push wakes a sleeper if there is one, a consumer that takes an item   *)
(* or goes to sleep leaves enough others awake.                            *)
LEMMA NoLostWakeupStep ==
    ControlInv /\ ControlInv' /\ NoLostWakeup /\ [Next]_vars => NoLostWakeup'
  <1> SUFFICES ASSUME ControlInv, ControlInv', NoLostWakeup, [Next]_vars
               PROVE  NoLostWakeup'
    OBVIOUS
  <1>0. Len(q) \in Nat /\ Len(q') \in Nat
    BY LenProperties DEF ControlInv, TypeOK
  <1>1. ASSUME Awake \subseteq Awake', Len(q') = Len(q), waiters' \subseteq waiters
        PROVE  NoLostWakeup'
    <2>1. /\ IsFiniteSet(Awake') /\ Cardinality(Awake') \in Nat
          /\ IsFiniteSet(Awake) /\ Cardinality(Awake) \in Nat
      <3>1. IsFiniteSet(Awake')
        BY ThreadsFinite, FS_Subset DEF Awake
      <3> QED BY <3>1, AwakeIsFinite, FS_CardinalityType
    <2>2. Cardinality(Awake) <= Cardinality(Awake')
      BY <1>1, <2>1, FS_Subset
    <2> QED BY <1>0, <1>1, <2>1, <2>2 DEF NoLostWakeup
  <1>2. ASSUME q' = << >>
        PROVE  NoLostWakeup'
    <2>1. IsFiniteSet(Awake')
      BY ThreadsFinite, FS_Subset DEF Awake
    <2>2. Cardinality(Awake') \in Nat
      BY <2>1, FS_CardinalityType
    <2> QED BY <1>2, <2>2, EmptySeq DEF NoLostWakeup
  <1>3. ASSUME NEW t \in Threads, Push(t)
        PROVE  NoLostWakeup'
    <2>1. CASE waiters = {}
      <3>1. waiters' = {}
        BY <1>3, <2>1, PushEffect DEF ControlInv
      <3> QED BY <3>1 DEF NoLostWakeup
    <2>2. CASE waiters # {}
      <3>1. PICK w \in waiters :
               /\ waiters' = waiters \ {w}
               /\ pc' = [pc EXCEPT ![t] = "unlock", ![w] = "relock"]
        BY <1>3, <2>2, PushEffect DEF ControlInv
      <3>2. w \in Threads /\ pc[w] = "asleep" /\ pc[t] = "push"
        BY <1>3 DEF Push, ControlInv, TypeOK, SleepersKnown
      <3>3. Awake' = Awake \cup {w} /\ w \notin Awake
        BY <3>1, <3>2 DEF Awake, ControlInv, TypeOK
      <3>4. Cardinality(Awake') = Cardinality(Awake) + 1
        BY <3>3, AwakeIsFinite, FS_AddElement
      <3>5. Len(q') = Len(q) + 1
        <4>1. call[t].v \in Items
          BY <1>3, <3>2 DEF Push, ControlInv, TypeOK, CallsMatch, Calls, Pops
        <4>2. q' = Append(q, call[t].v)
          BY <1>3, PushEffect DEF ControlInv
        <4> QED BY <4>1, <4>2, AppendProperties DEF ControlInv, TypeOK
      <3> QED BY <1>0, <2>2, <3>4, <3>5, AwakeIsFinite DEF NoLostWakeup
    <2> QED BY <2>1, <2>2
  <1>4. ASSUME NEW t \in Threads, q # << >>, Take(t), pc[t] \in {"check", "late_check"}
        PROVE  NoLostWakeup'
    <2>1. Awake' = Awake \ {t} /\ t \in Awake
      BY <1>4 DEF Take, Awake, ControlInv, TypeOK
    <2>2. Cardinality(Awake') = Cardinality(Awake) - 1
      BY <2>1, AwakeIsFinite, FS_RemoveElement
    <2>3. Len(q') = Len(q) - 1 /\ waiters' = waiters
      BY <1>4, HeadTailProperties DEF Take, ControlInv, TypeOK
    <2> QED BY <1>0, <2>2, <2>3, AwakeIsFinite DEF NoLostWakeup
  <1>5. ASSUME NEW t \in Threads, Check(t)
        PROVE  NoLostWakeup'
    BY <1>2, <1>4, <1>5 DEF Check
  <1>6. ASSUME NEW t \in Threads, LateCheck(t)
        PROVE  NoLostWakeup'
    BY <1>2, <1>4, <1>6 DEF LateCheck
  <1>7. ASSUME NEW t \in Threads,
               \/ \E x \in Items : BeginPush(t, x)
               \/ \E op \in Pops : BeginPop(t, op)
               \/ Lock(t) \/ Unlock(t) \/ SpuriousWakeup(t) \/ Timeout(t)
        PROVE  NoLostWakeup'
    <2>1. q' = q /\ waiters' \subseteq waiters
      BY <1>7 DEF BeginPush, BeginPop, Lock, Unlock, SpuriousWakeup, Timeout
    <2>2. ASSUME NEW s \in Threads, s \in Awake
          PROVE  s \in Awake'
      <3>1. CASE Lock(t)
        BY <2>2, <3>1 DEF Lock, Awake, ControlInv, TypeOK, Locking
      <3>2. CASE ~Lock(t)
        BY <1>7, <2>2, <3>2
        DEF BeginPush, BeginPop, Unlock, SpuriousWakeup, Timeout, Awake,
            ControlInv, TypeOK, SleepersKnown
      <3> QED BY <3>1, <3>2
    <2>3. Awake \subseteq Awake'
      BY <2>2 DEF Awake
    <2> QED BY <1>1, <2>1, <2>3
  <1>8. CASE UNCHANGED vars
    BY <1>1, <1>8 DEF vars, Awake
  <1> QED
    BY <1>3, <1>5, <1>6, <1>7, <1>8 DEF Next, Advance

(* No wakeup is lost: no consumer stays asleep for want of a notification  *)
(* while there is an item that nobody awake is coming for.                 *)
THEOREM NoWakeupLost == Spec => []NoLostWakeup
  <1>1. Init => NoLostWakeup
    BY DEF Init, NoLostWakeup
  <1> QED BY <1>1, ControlInvariant, NoLostWakeupStep, PTL DEF Spec
-----------------------------------------------------------------------------
(* Every step of LBQueue is a step of FifoQueue or leaves it as it is: a   *)
(* push takes effect in its critical section, a pop when it finds an item, *)
(* a try_pop that comes back empty when it looks for the last time.        *)
LEMMA StepRefines ==
    ControlInv /\ [Next]_vars => [Abstract!FifoNext]_<<q, call>>
  <1> SUFFICES ASSUME ControlInv, [Next]_vars
               PROVE  [Abstract!FifoNext]_<<q, call>>
    OBVIOUS
  <1> USE DEF Abstract!FifoNext
  <1>1. ASSUME NEW t \in Threads, NEW x \in Items, BeginPush(t, x)
        PROVE  Abstract!FifoNext
    <2>1. PICK c \in Abstract!Calls : c = [op |-> "wait_push", v |-> x]
      BY DEF Abstract!Calls
    <2>2. Abstract!Start(t, c)
      BY <1>1, <2>1 DEF BeginPush, ControlInv, CallsMatch, Abstract!Start
    <2> QED BY <2>2
  <1>2. ASSUME NEW t \in Threads, NEW op \in Pops, BeginPop(t, op)
        PROVE  Abstract!FifoNext
    <2>1. PICK c \in Abstract!Calls : c = [op |-> op, v |-> NoItem]
      BY DEF Abstract!Calls, Abstract!Pops, Pops
    <2>2. Abstract!Start(t, c)
      BY <1>2, <2>1 DEF BeginPop, ControlInv, CallsMatch, Abstract!Start, Pops
    <2> QED BY <2>2
  <1>3. ASSUME NEW t \in Threads, Push(t)
        PROVE  Abstract!FifoNext
    <2>1. Abstract!Enqueue(t)
      <3>1. call[t].op = "wait_push"
        BY <1>3 DEF Push, ControlInv, CallsMatch
      <3>2. /\ q' = Append(q, call[t].v)
            /\ call' = [call EXCEPT ![t] = Returned(NoItem)]
        BY <1>3, PushEffect DEF ControlInv
      <3> QED BY <3>1, <3>2 DEF Abstract!Enqueue, Abstract!Returned, Returned
    <2> QED BY <2>1
  <1>4. ASSUME NEW t \in Threads, q # << >>, Take(t), pc[t] \in {"check", "late_check"}
        PROVE  Abstract!FifoNext
    <2>1. Abstract!Dequeue(t)
      BY <1>4 DEF Take, ControlInv, CallsMatch, Pops, Abstract!Dequeue, Abstract!Pops,
                  Abstract!Returned, Returned
    <2> QED BY <2>1
  <1>5. ASSUME NEW t \in Threads, Check(t)
        PROVE  Abstract!FifoNext \/ UNCHANGED <<q, call>>
    BY <1>4, <1>5 DEF Check
  <1>6. ASSUME NEW t \in Threads, LateCheck(t)
        PROVE  Abstract!FifoNext
    <2>1. CASE q # << >>
      BY <1>4, <1>6, <2>1 DEF LateCheck
    <2>2. CASE q = << >>
      <3>1. Abstract!Miss(t)
        BY <1>6, <2>2 DEF LateCheck, ControlInv, CallsMatch, Abstract!Miss,
                          Abstract!Returned, Returned
      <3> QED BY <3>1
    <2> QED BY <2>1, <2>2
  <1>7. ASSUME NEW t \in Threads,
               Lock(t) \/ Unlock(t) \/ SpuriousWakeup(t) \/ Timeout(t)
        PROVE  UNCHANGED <<q, call>>
    BY <1>7 DEF Lock, Unlock, SpuriousWakeup, Timeout
  <1>8. CASE UNCHANGED vars
    BY <1>8 DEF vars
  <1> QED
    BY <1>1, <1>2, <1>3, <1>5, <1>6, <1>7, <1>8 DEF Next, Advance

(* LBQueue implements FifoQueue, so that the modules built on queues may   *)
(* take every push and every pop as one step.                              *)
THEOREM Implements == Spec => ImplementsFifo
  <1>1. Init => Abstract!FifoInit
    BY DEF Init, Abstract!FifoInit, Abstract!Returned, Returned
  <1> QED
    BY <1>1, ControlInvariant, StepRefines, PTL DEF Spec, ImplementsFifo, Abstract!FifoSpec
=============================================================================
