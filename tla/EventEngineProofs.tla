------------------------- MODULE EventEngineProofs -------------------------
(***************************************************************************)
(* What the event engine guarantees for any callbacks, any number of       *)
(* events and any order of calls.                                          *)
(***************************************************************************)
EXTENDS EventEngine, SequenceTheorems, TLAPS

(* Why the table is stable although run() does not take the mutex: a       *)
(* thread past its test of running finds the flag lowered only because the *)
(* owner is joining it, and then the owner holds m.                        *)
GuardedByTheJoin ==
    /\ todo # {} => thread = "dispatching"
    /\ thread \in {"popping", "dispatching", "stopping"} /\ ~running => m_held
    /\ m_held <=> owner = "joining"
    /\ owner = "spawning" => running /\ thread = "none"

Inv == TypeOK /\ GuardedByTheJoin

(* At the start the engine is stopped and no thread holds its mutex.       *)
LEMMA InvInit == Init => Inv
  <1> SUFFICES ASSUME Init PROVE Inv
    OBVIOUS
  <1>1. q \in Seq(Events)
    BY EmptySeq DEF Init
  <1> QED BY <1>1 DEF Init, Inv, TypeOK, GuardedByTheJoin

(* Every step of a caller and of run() keeps the invariant.                *)
LEMMA InvStep == Inv /\ [Next]_vars => Inv'
  <1> SUFFICES ASSUME Inv, [Next]_vars PROVE Inv'
    OBVIOUS
  <1>1. TypeOK /\ GuardedByTheJoin
    BY DEF Inv
  <1>2. CASE Owner
    <2>1. UNCHANGED <<q, sent, m_cbs, e_type, todo>>
      BY <1>2 DEF Owner, StartFlag, StartThread, LowerFlag, Join, BeginWait, EndWait
    <2>2. CASE StartFlag
      BY <1>1, <2>1, <2>2 DEF StartFlag, Inv, TypeOK, GuardedByTheJoin
    <2>3. CASE StartThread
      BY <1>1, <2>1, <2>3 DEF StartThread, Inv, TypeOK, GuardedByTheJoin
    <2>4. CASE LowerFlag
      BY <1>1, <2>1, <2>4 DEF LowerFlag, Inv, TypeOK, GuardedByTheJoin
    <2>5. CASE Join
      BY <1>1, <2>1, <2>5 DEF Join, Inv, TypeOK, GuardedByTheJoin
    <2>6. CASE BeginWait
      BY <1>1, <2>1, <2>6 DEF BeginWait, Inv, TypeOK, GuardedByTheJoin
    <2>7. CASE EndWait
      BY <1>1, <2>1, <2>7 DEF EndWait, Inv, TypeOK, GuardedByTheJoin
    <2> QED BY <1>2, <2>2, <2>3, <2>4, <2>5, <2>6, <2>7 DEF Owner
  <1>3. ASSUME NEW type \in EventTypes, NEW cb_name \in CbNames, register_cb(type, cb_name)
        PROVE  Inv'
    <2>1. m_cbs' \in [EventTypes -> SUBSET CbNames]
             /\ \A t \in EventTypes : m_cbs[t] \subseteq m_cbs'[t]
      BY <1>1, <1>3 DEF register_cb, TypeOK
    <2> QED BY <1>1, <1>3, <2>1 DEF register_cb, Inv, TypeOK, GuardedByTheJoin
  <1>4. ASSUME NEW event \in Events, send(event) PROVE Inv'
    <2>1. q' \in Seq(Events) /\ sent' \in Nat
      BY <1>1, <1>4, AppendProperties DEF send, TypeOK
    <2> QED BY <1>1, <1>4, <2>1 DEF send, Inv, TypeOK, GuardedByTheJoin
  <1>5. CASE TestRunning
    BY <1>1, <1>5 DEF TestRunning, Inv, TypeOK, GuardedByTheJoin
  <1>6. CASE PopTimeout
    BY <1>1, <1>6 DEF PopTimeout, Inv, TypeOK, GuardedByTheJoin
  <1>7. CASE PopEvent
    <2>1. Head(q) \in Events /\ Tail(q) \in Seq(Events)
      BY <1>1, <1>7, HeadTailProperties DEF PopEvent, TypeOK
    <2>2. q' = Tail(q) /\ e_type' = Head(q) /\ thread = "popping"
             /\ UNCHANGED <<running, m_held, sent, m_cbs, owner>>
      BY <1>7 DEF PopEvent
    <2>3. todo = {}
      BY <1>1, <2>2 DEF GuardedByTheJoin
    <2>4. CASE Head(q) = Stop
      <3>1. thread' = "stopping" /\ todo' = todo
        BY <1>7, <2>4 DEF PopEvent
      <3> QED BY <1>1, <2>1, <2>2, <2>3, <3>1 DEF Inv, TypeOK, GuardedByTheJoin
    <2>5. CASE Head(q) # Stop
      <3>1. todo' = m_cbs[Head(q)] /\ thread' = IF todo' = {} THEN "testing" ELSE "dispatching"
        BY <1>7, <2>5 DEF PopEvent
      <3>2. Head(q) \in EventTypes
        BY <2>1, <2>5 DEF Events
      <3> QED BY <1>1, <2>1, <2>2, <3>1, <3>2 DEF Inv, TypeOK, GuardedByTheJoin
    <2> QED BY <2>4, <2>5
  <1>8. CASE StopItself
    BY <1>1, <1>8 DEF StopItself, Inv, TypeOK, GuardedByTheJoin
  <1>9. ASSUME NEW cb_name \in CbNames, Dispatch(cb_name) PROVE Inv'
    BY <1>1, <1>9 DEF Dispatch, Inv, TypeOK, GuardedByTheJoin
  <1>10. CASE UNCHANGED vars
    BY <1>1, <1>10 DEF vars, Inv, TypeOK, GuardedByTheJoin
  <1> QED BY <1>2, <1>3, <1>4, <1>5, <1>6, <1>7, <1>8, <1>9, <1>10 DEF Next, run

(* The invariant holds in every state.                                     *)
LEMMA Invariant == Spec => []Inv
  BY InvInit, InvStep, PTL DEF Spec

(* The flags, the table and the event in hand fit together, for any        *)
(* callbacks and any calls (EventEngine::run hands an event to callbacks   *)
(* registered for its type).                                               *)
THEOREM EngineTypeCorrect == Spec => []TypeOK
  <1>1. Inv => TypeOK
    BY DEF Inv
  <1> QED BY <1>1, Invariant, PTL

(* The table of callbacks does not change while an event is handed out,    *)
(* whoever registers and whoever stops the engine (EventEngine::run reads  *)
(* m_cbs without the mutex).                                               *)
THEOREM TableIsStable == Spec => TableStable
  <1>1. Inv /\ [Next]_vars => [todo # {} => UNCHANGED m_cbs]_vars
    <2> SUFFICES ASSUME Inv, Next, todo # {}, m_cbs' # m_cbs PROVE FALSE
      BY DEF vars
    <2>1. \E type \in EventTypes, cb_name \in CbNames : register_cb(type, cb_name)
      BY DEF Next, Owner, StartFlag, StartThread, LowerFlag, Join, BeginWait, EndWait,
             send, run, TestRunning, PopTimeout, PopEvent, StopItself, Dispatch
    <2>2. ~m_held /\ ~running
      BY <2>1 DEF register_cb
    <2> QED BY <2>2 DEF Inv, GuardedByTheJoin
  <1> QED BY <1>1, Invariant, PTL DEF Spec, TableStable
=============================================================================
