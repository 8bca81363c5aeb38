------------------------- MODULE DataRecorderProofs -------------------------
(***************************************************************************)
(* DataRecorder implements Journal, for any number of events, documents    *)
(* and starts.  The queue always holds the events that were accepted last, *)
(* the event in hand is the one taken last, and it was tried unless the    *)
(* thread is on its way to try it: also after a stop and a new start.      *)
(***************************************************************************)
EXTENDS DataRecorder, TLAPS

taken == Len(accepted) - Len(q)

(* The queue holds the events after the first "taken" ones, in order.      *)
QueueIsRest ==
    /\ Len(q) <= Len(accepted)
    /\ \A i \in 1 .. Len(q) : q[i] = taken + i

(* The event in hand, if it is one, is the latest taken.                   *)
HandIsLatest ==
    /\ event.data # Null =>
          /\ event.data = taken
          /\ event.data \in 1 .. Len(accepted)
          /\ event.e_type = accepted[event.data]

(* The latest event taken was tried, or the thread is about to try it.     *)
LatestTried ==
    taken > 0 => Tried(taken) \/ (pc = "save" /\ event.data = taken)

(* Before a second start the hand is empty only if nothing was taken.      *)
EmptyHand ==
    /\ starts = 0 => pc = "none" /\ event.data = Null
    /\ starts \in {0, 1} /\ event.data = Null => taken = 0
    /\ ~alive => event.data = Null

(* start() finds no thread of an earlier start.                            *)
NoThreadLeft == owner = "free" /\ ~running => pc = "none"

Inv == /\ TypeOK /\ QueueIsRest /\ HandIsLatest /\ LatestTried
       /\ EmptyHand /\ NoThreadLeft

(* At the start the recorder is stopped and nothing was copied.            *)
LEMMA InvInit == Init => Inv
  <1> SUFFICES ASSUME Init PROVE Inv
    OBVIOUS
  <1> USE BoundsAreNat DEF Init
  <1>1. TypeOK
    <2>1. alive \in BOOLEAN /\ running \in BOOLEAN
      OBVIOUS
    <2> QED BY <2>1 DEF TypeOK, Null, Recorded
  <1>2. QueueIsRest /\ HandIsLatest /\ LatestTried /\ EmptyHand /\ NoThreadLeft
    BY DEF QueueIsRest, HandIsLatest, LatestTried, EmptyHand, NoThreadLeft, taken
  <1> QED BY <1>1, <1>2 DEF Inv

(* A step that touches neither queue nor collections keeps what is known   *)
(* of them.                                                                *)
LEMMA QueueStays ==
    ASSUME QueueIsRest, UNCHANGED <<q, accepted>>
    PROVE  QueueIsRest' /\ taken' = taken
  BY DEF QueueIsRest, taken

(* Every step of the recorder and of the event engine keeps the invariant. *)
LEMMA InvStep == Inv /\ [Next]_vars => Inv'
  <1> SUFFICES ASSUME Inv, [Next]_vars PROVE Inv'
    OBVIOUS
  <1> USE BoundsAreNat, OtherIsNotRecorded
  <1>1. /\ TypeOK /\ QueueIsRest /\ HandIsLatest /\ LatestTried
        /\ EmptyHand /\ NoThreadLeft
    BY DEF Inv
  <1>2. ASSUME NEW type \in Recorded, copy_to_queue(type) PROVE Inv'
    <2>1. /\ accepted' = Append(accepted, type) /\ q' = Append(q, Len(accepted'))
          /\ Len(accepted) < MaxEvents
          /\ UNCHANGED <<running, owner, event, pc, db, alive, refused, starts>>
      BY <1>2 DEF copy_to_queue
    <2>2. /\ accepted \in Seq(Recorded) /\ q \in Seq(Numbers)
      BY <1>1 DEF TypeOK
    <2>3. /\ accepted' \in Seq(Recorded) /\ Len(accepted') = Len(accepted) + 1
          /\ \A i \in 1 .. Len(accepted) : accepted'[i] = accepted[i]
      BY <2>1, <2>2
    <2>4. Len(accepted') \in Numbers
      BY <2>1, <2>2, <2>3 DEF Numbers
    <2>5. /\ q' \in Seq(Numbers) /\ Len(q') = Len(q) + 1
          /\ \A i \in 1 .. Len(q) : q'[i] = q[i]
          /\ q'[Len(q) + 1] = Len(accepted')
      BY <2>1, <2>2, <2>4
    <2>6. taken' = taken /\ taken \in Int
      BY <2>2, <2>3, <2>5 DEF taken
    <2>7. TypeOK'
      BY <1>1, <2>1, <2>3, <2>5 DEF TypeOK
    <2>8. QueueIsRest'
      BY <1>1, <2>2, <2>3, <2>5, <2>6 DEF QueueIsRest, taken
    <2>9. HandIsLatest'
      BY <1>1, <2>1, <2>2, <2>3, <2>6 DEF HandIsLatest
    <2>10. LatestTried'
      <3>1. taken > 0 => taken \in 1 .. Len(accepted)
        BY <1>1, <2>2 DEF QueueIsRest, taken
      <3> QED BY <1>1, <2>1, <2>3, <2>6, <3>1 DEF LatestTried, Tried
    <2>11. EmptyHand' /\ NoThreadLeft'
      BY <1>1, <2>1, <2>6 DEF EmptyHand, NoThreadLeft
    <2> QED BY <2>7, <2>8, <2>9, <2>10, <2>11 DEF Inv
  <1>3. CASE start
    <2>1. PICK type \in Recorded \cup {Other} : event' = [e_type |-> type, data |-> Null]
      BY <1>3 DEF start
    <2>2. /\ pc' = "test" /\ starts' = starts + 1 /\ starts < MaxStarts /\ running' = TRUE
          /\ UNCHANGED <<owner, q, db, alive, accepted, refused>>
      BY <1>3 DEF start
    <2>3. QueueIsRest' /\ taken' = taken
      BY <1>1, <2>2, QueueStays
    <2>4. event'.data = Null /\ TypeOK'
      BY <1>1, <2>1, <2>2 DEF TypeOK, Null
    <2>5. HandIsLatest'
      BY <2>4 DEF HandIsLatest
    <2>6. LatestTried'
      <3>1. pc = "none"
        BY <1>1, <1>3 DEF start, NoThreadLeft
      <3> QED BY <1>1, <2>2, <2>3, <3>1 DEF LatestTried, Tried
    <2>7. EmptyHand' /\ NoThreadLeft'
      <3>1. starts \in Nat
        BY <1>1 DEF TypeOK
      <3>2. starts = 0 => taken = 0
        BY <1>1 DEF EmptyHand
      <3> QED BY <1>1, <2>2, <2>3, <2>4, <3>1, <3>2 DEF EmptyHand, NoThreadLeft
    <2> QED BY <2>3, <2>4, <2>5, <2>6, <2>7 DEF Inv
  <1>4. CASE stop \/ join \/ TestRunning \/ Expire
    <2>1. /\ UNCHANGED <<q, event, db, alive, accepted, refused, starts>>
          /\ pc' = pc \/ pc # "save"
          /\ starts = 0 => pc' = pc
      BY <1>1, <1>4 DEF stop, join, TestRunning, Expire, EmptyHand
    <2>2. QueueIsRest' /\ taken' = taken
      BY <1>1, <2>1, QueueStays
    <2>3. TypeOK'
      BY <1>1, <1>4, <2>1 DEF stop, join, TestRunning, Expire, TypeOK
    <2>4. HandIsLatest' /\ LatestTried' /\ EmptyHand'
      BY <1>1, <2>1, <2>2 DEF HandIsLatest, LatestTried, Tried, EmptyHand
    <2>5. NoThreadLeft'
      BY <1>1, <1>4 DEF stop, join, TestRunning, Expire, NoThreadLeft
    <2> QED BY <2>2, <2>3, <2>4, <2>5 DEF Inv
  <1>5. CASE alive /\ Take
    <2>1. /\ pc = "pop" /\ q # << >>
          /\ event' = [e_type |-> accepted[Head(q)], data |-> Head(q)]
          /\ q' = Tail(q)
          /\ pc' = "save"
          /\ UNCHANGED <<running, owner, db, alive, accepted, refused, starts>>
      BY <1>5 DEF Take
    <2>2. accepted \in Seq(Recorded) /\ q \in Seq(Numbers)
      BY <1>1 DEF TypeOK
    <2>3. /\ q' \in Seq(Numbers) /\ Len(q') = Len(q) - 1 /\ Len(q) > 0
          /\ \A i \in 1 .. Len(q') : q'[i] = q[i + 1]
          /\ Head(q) = q[1] /\ Head(q) \in Numbers
      BY <2>1, <2>2
    <2>4. taken' = taken + 1 /\ taken \in Nat /\ Head(q) = taken + 1
      BY <1>1, <2>1, <2>2, <2>3 DEF QueueIsRest, taken
    <2>5. Head(q) \in 1 .. Len(accepted) /\ accepted[Head(q)] \in Recorded
      BY <1>1, <2>2, <2>3, <2>4 DEF QueueIsRest, taken
    <2>6. TypeOK'
      BY <1>1, <2>1, <2>3, <2>5 DEF TypeOK
    <2>7. QueueIsRest'
      BY <1>1, <2>1, <2>2, <2>3, <2>4 DEF QueueIsRest
    <2>8. HandIsLatest' /\ LatestTried'
      BY <2>1, <2>4, <2>5 DEF HandIsLatest, LatestTried
    <2>9. EmptyHand'
      <3>1. event'.data # Null
        BY <2>1, <2>4 DEF Null
      <3>2. starts # 0 /\ alive
        BY <1>1, <2>1, <1>5 DEF EmptyHand
      <3> QED BY <1>1, <2>1, <3>1, <3>2 DEF EmptyHand
    <2>10. NoThreadLeft'
      BY <1>1, <2>1 DEF NoThreadLeft
    <2> QED BY <2>6, <2>7, <2>8, <2>9, <2>10 DEF Inv
  <1>6. CASE Save
    <2>1. /\ pc = "save" /\ pc' \in {"save", "test"}
          /\ UNCHANGED <<running, owner, q, event, accepted, starts>>
      BY <1>6 DEF Save, Inserted, Failed
    <2>2. QueueIsRest' /\ taken' = taken
      BY <1>1, <2>1, QueueStays
    <2>3. HandIsLatest'
      BY <1>1, <2>1, <2>2 DEF HandIsLatest
    <2>4. starts # 0
      BY <1>1, <2>1 DEF EmptyHand
    <2>5. NoThreadLeft'
      BY <1>1, <2>1 DEF NoThreadLeft
    <2>6. CASE event.e_type = Other /\ pc' = "test" /\ UNCHANGED <<db, refused, alive>>
      <3>1. event.data = Null
        BY <1>1, <2>6 DEF HandIsLatest, TypeOK
      <3>2. LatestTried'
        BY <1>1, <2>1, <2>2, <2>6, <3>1 DEF LatestTried, Tried, Null
      <3>3. TypeOK' /\ EmptyHand'
        BY <1>1, <2>1, <2>2, <2>4, <2>6 DEF TypeOK, EmptyHand
      <3> QED BY <2>2, <2>3, <2>5, <3>2, <3>3 DEF Inv
    <2>7. CASE event.data = Null /\ alive' = FALSE /\ UNCHANGED <<pc, db, refused>>
      <3>1. LatestTried'
        BY <1>1, <2>1, <2>2, <2>7 DEF LatestTried, Tried
      <3>2. TypeOK'
        BY <1>1, <2>1, <2>7 DEF TypeOK
      <3>3. EmptyHand'
        BY <1>1, <2>1, <2>2, <2>4, <2>7 DEF EmptyHand
      <3> QED BY <2>2, <2>3, <2>5, <3>1, <3>2, <3>3 DEF Inv
    <2>8. CASE event.e_type # Other /\ event.data # Null /\ (Inserted \/ Failed) /\ UNCHANGED alive
      <3>1. /\ event.data = taken /\ event.data \in Numbers
            /\ event.e_type \in Recorded /\ event.e_type = accepted[taken]
        BY <1>1, <2>8 DEF HandIsLatest, TypeOK, Null
      <3>2. TypeOK' /\ Tried(taken)'
        <4>1. CASE Inserted
          <5>1. /\ db' = [db EXCEPT ![event.e_type] = Append(@, event.data)]
                /\ pc' = "test" /\ UNCHANGED refused
            BY <4>1 DEF Inserted
          <5>2. /\ db \in [Recorded -> Seq(Numbers)]
                /\ db[event.e_type] \in Seq(Numbers)
            BY <1>1, <3>1 DEF TypeOK
          <5>3. /\ db' \in [Recorded -> Seq(Numbers)]
                /\ db'[event.e_type] = Append(db[event.e_type], event.data)
            BY <3>1, <5>1, <5>2
          <5>4. event.data \in Range(db'[event.e_type])
            <6>1. db'[event.e_type][Len(db[event.e_type]) + 1] = event.data
              BY <3>1, <5>2, <5>3
            <6>2. Len(db[event.e_type]) + 1 \in DOMAIN db'[event.e_type]
              BY <3>1, <5>2, <5>3
            <6> QED BY <6>1, <6>2 DEF Range
          <5> QED BY <1>1, <2>1, <2>2, <2>8, <3>1, <5>1, <5>3, <5>4 DEF TypeOK, Tried
        <4>2. CASE Failed
          BY <1>1, <2>1, <2>2, <2>8, <3>1, <4>2 DEF Failed, TypeOK, Tried
        <4> QED BY <2>8, <4>1, <4>2
      <3>3. LatestTried' /\ EmptyHand'
        BY <1>1, <2>1, <2>2, <2>4, <2>8, <3>2 DEF LatestTried, EmptyHand, Tried
      <3> QED BY <2>2, <2>3, <2>5, <3>2, <3>3 DEF Inv
    <2> QED BY <1>6, <2>6, <2>7, <2>8 DEF Save
  <1>7. CASE UNCHANGED vars
    BY <1>1, <1>7 DEF vars, Inv, TypeOK, QueueIsRest, HandIsLatest, LatestTried, Tried,
       EmptyHand, NoThreadLeft, taken
  <1> QED BY <1>2, <1>3, <1>4, <1>5, <1>6, <1>7 DEF Next, run_action

(* The invariant holds in every state.                                     *)
LEMMA Invariant == Spec => []Inv
  BY InvInit, InvStep, PTL DEF Spec

(* Every variable of the recorder stays in its range: no document is       *)
(* without an event, in particular (run_action, save_tick,                 *)
(* save_order_data).                                                       *)
THEOREM RecorderTypeCorrect == Spec => []TypeOK
  <1>1. Inv => TypeOK
    BY DEF Inv
  <1> QED BY <1>1, Invariant, PTL

(* A recorder started once can crash the process only before it has taken  *)
(* its first event, however long it runs (run_action's event).             *)
THEOREM SafeOnceFedAlways == Spec => []SafeOnceFed
  <1>1. Inv => SafeOnceFed
    <2> SUFFICES ASSUME Inv, ~alive, starts = 1 PROVE Len(q) = Len(accepted)
      BY DEF SafeOnceFed
    <2>1. taken = 0
      BY DEF Inv, EmptyHand
    <2>2. Len(q) \in Nat /\ Len(accepted) \in Nat
      BY DEF Inv, TypeOK
    <2> QED BY <2>1, <2>2 DEF taken
  <1> QED BY <1>1, Invariant, PTL

(* DataRecorder implements Journal: in-order recording, and no event is    *)
(* left for the next before it was tried, through any stops and starts     *)
(* (copy_to_queue, run_action, stop).                                      *)
THEOREM RecorderImplementsJournal == Spec => ImplementsJournal
  <1>1. Init => J!JournalInit
    BY DEF Init, J!JournalInit
  <1>2. Inv /\ [Next]_vars =>
           [J!JournalNext]_<<accepted, Len(accepted) - Len(q), db, refused>>
    <2> SUFFICES ASSUME Inv, [Next]_vars
                 PROVE  [J!JournalNext]_<<accepted, Len(accepted) - Len(q), db, refused>>
      OBVIOUS
    <2>1. TypeOK /\ QueueIsRest /\ HandIsLatest /\ LatestTried
      BY DEF Inv
    <2>2. accepted \in Seq(Recorded) /\ q \in Seq(Numbers)
      BY <2>1 DEF TypeOK
    <2>3. ASSUME NEW type \in Recorded, copy_to_queue(type) PROVE J!Accept(type)
      <3>1. Len(accepted') = Len(accepted) + 1 /\ Len(q') = Len(q) + 1
        BY <2>2, <2>3 DEF copy_to_queue
      <3> QED BY <2>2, <2>3, <3>1 DEF copy_to_queue, J!Accept
    <2>4. CASE Take
      <3>1. Len(q') = Len(q) - 1 /\ Len(q) > 0 /\ UNCHANGED <<accepted, db, refused>>
        BY <2>2, <2>4 DEF Take
      <3>2. /\ taken < Len(accepted)
            /\ Len(accepted') - Len(q') = taken + 1
        BY <2>2, <3>1 DEF taken
      <3>3. taken > 0 => Tried(taken)
        BY <2>1, <2>4 DEF LatestTried, Take
      <3>4. /\ taken < Len(accepted)
            /\ taken > 0 => J!InCollection(taken) \/ taken \in refused
        BY <3>2, <3>3 DEF Tried, Range, J!InCollection, J!Range
      <3>5. J!TurnToNext
        BY <3>1, <3>2, <3>4 DEF taken, J!TurnToNext
      <3> QED BY <3>5 DEF J!JournalNext
    <2>5. CASE Save
      <3>1. UNCHANGED <<q, accepted>>
        BY <2>5 DEF Save
      <3>2. CASE UNCHANGED <<db, refused>>
        BY <3>1, <3>2
      <3>3. CASE event.e_type # Other /\ event.data # Null /\ (Inserted \/ Failed)
        <4>1. /\ event.data = Len(accepted) - Len(q) /\ event.data > 0
              /\ event.e_type = accepted[Len(accepted) - Len(q)]
          BY <2>1, <2>2, <3>3 DEF HandIsLatest, taken
        <4>2. CASE Inserted
          BY <3>1, <4>1, <4>2 DEF Inserted, J!Write, J!JournalNext
        <4>3. CASE Failed
          BY <3>1, <4>1, <4>3 DEF Failed, J!Refuse, J!JournalNext
        <4> QED BY <3>3, <4>2, <4>3
      <3> QED BY <2>5, <3>2, <3>3 DEF Save
    <2>6. CASE start \/ stop \/ join \/ TestRunning \/ Expire \/ UNCHANGED vars
      BY <2>6 DEF start, stop, join, TestRunning, Expire, vars
    <2> QED BY <2>3, <2>4, <2>5, <2>6 DEF Next, run_action, J!JournalNext
  <1> QED BY <1>1, <1>2, Invariant, PTL DEF Spec, ImplementsJournal, J!JournalSpec
=============================================================================
