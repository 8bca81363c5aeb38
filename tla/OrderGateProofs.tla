-------------------------- MODULE OrderGateProofs --------------------------
(***************************************************************************)
(* What the gateway's mutex gives the algo engines, however many there     *)
(* are, however many orders they send and whatever the flow limit is.      *)
(***************************************************************************)
EXTENDS OrderGate, TLAPS

Inner == {"inside", "numbering", "numbered", "filed"}

(* Whoever numbers, files or places an order holds the mutex.              *)
OneInside == \A a \in Algos : stage[a] \in Inner => m = a

(* The algos start after the wait for the first order id, and a connected  *)
(* client has that id by then.                                             *)
StartInOrder ==
    /\ main = "connect" => ~connected /\ ~announced /\ m_order_id = -1
    /\ main \in {"spawn", "await"} => connected
    /\ main \in {"connect", "spawn", "await"} => started = {}
    /\ announced => main \in {"spawn", "await"} /\ m_order_id = -1
    /\ main \in {"algos", "terminated"} /\ connected => m_order_id >= FirstId
    /\ connected => m_order_id = -1 \/ m_order_id >= FirstId
    /\ \A a \in Algos : stage[a] # "idle" => a \in listening

(* Ids not given out are clean, and an algo's id follows its stage.        *)
FreshIds == \A id \in Ids : id >= m_order_id => source[id] = NoAlgo /\ placed[id] = {}

IdFollowsStage ==
    \A a \in Algos :
        /\ stage[a] = "inside" => m_order_id \in Ids
        /\ stage[a] = "numbering" => order_id[a] = m_order_id
        /\ stage[a] \in {"numbered", "filed", "sent"} => order_id[a] < m_order_id
        /\ stage[a] \in {"numbering", "numbered", "filed", "sent"} /\ connected =>
              order_id[a] >= FirstId
        /\ stage[a] = "numbered" =>
              source[order_id[a]] = NoAlgo /\ placed[order_id[a]] = {}
        /\ stage[a] = "filed" =>
              source[order_id[a]] = a /\ placed[order_id[a]] = {}

Inv == /\ TypeOK /\ StartInOrder /\ OneInside /\ FreshIds /\ IdFollowsStage
       /\ OwnOrder /\ IdsValid

(* At the start no algo has sent a request.                                *)
LEMMA InvInit == Init => Inv
  <1> SUFFICES ASSUME Init PROVE Inv
    OBVIOUS
  <1>1. TypeOK
    <2>1. -1 \in Ids
      BY MaxOrdersIsNat DEF Ids
    <2>2. connected \in BOOLEAN /\ running \in BOOLEAN /\ announced \in BOOLEAN
      BY DEF Init
    <2>3. /\ RiskTypeOK
          /\ main \in {"connect", "spawn", "await", "algos", "terminated"}
          /\ cb \in {"none", "test", "messages", "ended"}
          /\ started \in SUBSET Algos /\ listening \in SUBSET started
          /\ m \in Algos \cup {NoAlgo}
          /\ m_order_id \in Nat \cup {-1}
      BY DEF Init, RiskInit, RiskTypeOK
    <2>4. /\ source \in [Ids -> Algos \cup {NoAlgo}]
          /\ placed \in [Ids -> SUBSET Algos]
          /\ failed \in SUBSET Ids
          /\ ended \in SUBSET Ids
          /\ told \in SUBSET ended
          /\ stage \in [Algos -> Stages]
          /\ order_id \in [Algos -> Ids]
      BY <2>1 DEF Init, Stages
    <2> QED BY <2>2, <2>3, <2>4 DEF TypeOK
  <1>2. StartInOrder
    BY DEF Init, StartInOrder
  <1>3. OneInside /\ FreshIds /\ IdFollowsStage /\ OwnOrder /\ IdsValid
    BY DEF Init, OneInside, FreshIds, IdFollowsStage, OwnOrder, IdsValid, Inner
  <1> QED BY <1>1, <1>2, <1>3 DEF Inv

(* An algo that moves on leaves the stages of the others alone.            *)
LEMMA MovesStage ==
    ASSUME TypeOK, NEW a \in Algos, NEW from, NEW to \in Stages, Moves(a, from, to)
    PROVE  /\ stage' \in [Algos -> Stages]
           /\ stage[a] = from /\ stage'[a] = to
           /\ \A b \in Algos : b # a => stage'[b] = stage[b]
  BY DEF TypeOK, Moves

(* A step of the start-up finds the gateway as it was made, or leaves it   *)
(* alone.                                                                  *)
LEMMA StartStep ==
    ASSUME Inv, MainStep \/ CbStep
    PROVE  Inv'
  <1> USE MaxOrdersIsNat, FirstIdIsPositive, NoAlgoIsNoAlgo DEF Stages
  <1>1. /\ TypeOK /\ StartInOrder /\ OneInside /\ FreshIds /\ IdFollowsStage
        /\ OwnOrder /\ IdsValid
    BY DEF Inv
  <1>2. CASE Connect
    <2>1. \A a \in Algos : stage[a] = "idle"
      BY <1>1, <1>2 DEF Connect, StartInOrder, TypeOK
    <2>2. UNCHANGED <<active_orders, cb, started, listening, gateVars>> /\ main = "connect"
      BY <1>2 DEF Connect
    <2>3. TypeOK'
      BY <1>1, <1>2 DEF Connect, gateVars, TypeOK, RiskTypeOK
    <2>5. StartInOrder'
      BY <1>1, <1>2, <2>1 DEF Connect, gateVars, StartInOrder
    <2>4. OneInside' /\ FreshIds' /\ IdFollowsStage' /\ OwnOrder' /\ IdsValid'
      BY <1>1, <2>1, <2>2
         DEF gateVars, OneInside, FreshIds, IdFollowsStage, OwnOrder, IdsValid, Inner
    <2> QED BY <2>3, <2>4, <2>5 DEF Inv
  <1>3. CASE SpawnCallbacks \/ AwaitOrderId \/ TestRunning \/ \E a \in Algos : StartAlgo(a)
    <2>1. UNCHANGED <<active_orders, connected, running, announced, gateVars>>
      BY <1>3 DEF SpawnCallbacks, AwaitOrderId, TestRunning, StartAlgo
    <2>2. started \subseteq started' /\ started' \subseteq Algos /\ UNCHANGED listening
      BY <1>1, <1>3 DEF SpawnCallbacks, AwaitOrderId, TestRunning, StartAlgo, TypeOK
    <2>3. TypeOK'
      BY <1>1, <1>3, <2>1, <2>2
         DEF SpawnCallbacks, AwaitOrderId, TestRunning, StartAlgo, gateVars, TypeOK, RiskTypeOK
    <2>4. StartInOrder'
      BY <1>1, <1>3, <2>1, <2>2
         DEF SpawnCallbacks, AwaitOrderId, TestRunning, StartAlgo, gateVars, TypeOK, StartInOrder
    <2>5. OneInside' /\ FreshIds' /\ IdFollowsStage' /\ OwnOrder' /\ IdsValid'
      BY <1>1, <2>1 DEF gateVars, OneInside, FreshIds, IdFollowsStage, OwnOrder, IdsValid
    <2> QED BY <2>3, <2>4, <2>5 DEF Inv
  <1>4. CASE nextValidId
    <2>1. /\ m_order_id' = FirstId /\ announced /\ ~announced'
          /\ UNCHANGED <<active_orders, main, connected, running, started, listening, m,
                         source, placed, failed, ended, told, stage, order_id>>
      BY <1>4 DEF nextValidId
    <2>2. main \in {"spawn", "await"} /\ m_order_id = -1
      BY <1>1, <2>1 DEF StartInOrder, TypeOK
    <2>3. \A a \in Algos : stage[a] = "idle"
      BY <1>1, <2>2 DEF StartInOrder, TypeOK
    <2>4. TypeOK'
      BY <1>1, <1>4, <2>1 DEF nextValidId, TypeOK, RiskTypeOK
    <2>7. StartInOrder'
      BY <1>1, <2>1, <2>2, <2>3 DEF StartInOrder
    <2>5. FreshIds'
      BY <1>1, <2>1, <2>2 DEF FreshIds, Ids
    <2>6. OneInside' /\ IdFollowsStage' /\ OwnOrder' /\ IdsValid'
      BY <1>1, <2>1, <2>3 DEF OneInside, IdFollowsStage, OwnOrder, IdsValid, Inner
    <2> QED BY <2>4, <2>5, <2>6, <2>7 DEF Inv
  <1> QED BY <1>2, <1>3, <1>4 DEF MainStep, CbStep

(* A step of an algo that has started leaves the start-up in order.        *)
LEMMA StartStays ==
    ASSUME TypeOK, StartInOrder, UNCHANGED startVars, NEW a \in Algos, a \in listening,
           \A b \in Algos : b # a => stage'[b] = stage[b],
           m_order_id' = m_order_id \/ (m_order_id' >= FirstId /\ m_order_id' # -1)
              \/ ~connected
    PROVE  StartInOrder'
  <1>1. main \in {"algos", "terminated"} /\ ~announced
    BY DEF TypeOK, StartInOrder
  <1> QED BY <1>1, FirstIdIsPositive DEF TypeOK, StartInOrder, startVars

(* Every step of an algo, of IBApi and of TWS keeps the invariant.         *)
LEMMA InvStep == Inv /\ [Next]_vars => Inv'
  <1> SUFFICES ASSUME Inv, [Next]_vars PROVE Inv'
    OBVIOUS
  <1> USE MaxOrdersIsNat, FirstIdIsPositive DEF Stages
  <1>1. /\ TypeOK /\ StartInOrder /\ OneInside /\ FreshIds /\ IdFollowsStage
        /\ OwnOrder /\ IdsValid /\ NoAlgo \notin Algos
    BY NoAlgoIsNoAlgo DEF Inv
  <1>2. ASSUME NEW a \in Algos, NEW pnl_ok \in BOOLEAN, check_risk(a, pnl_ok) PROVE Inv'
    <2>1. /\ RiskTypeOK' /\ a \in listening
          /\ UNCHANGED <<startVars, m, m_order_id, source, placed, failed, ended, told, order_id>>
      BY <1>1, <1>2 DEF check_risk, PassesRisk, FailsRisk, TypeOK, RiskTypeOK
    <2>2. CASE UNCHANGED stage
      BY <1>1, <2>1, <2>2 DEF startVars, Inv, TypeOK, StartInOrder, OneInside, FreshIds,
         IdFollowsStage, OwnOrder, IdsValid
    <2>3. CASE Moves(a, "idle", "passed")
      <3>1. /\ stage' \in [Algos -> Stages] /\ stage'[a] = "passed"
            /\ \A b \in Algos : b # a => stage'[b] = stage[b]
        BY <1>1, <2>3, MovesStage
      <3>2. StartInOrder'
        BY <1>1, <2>1, <3>1, StartStays
      <3>3. TypeOK'
        BY <1>1, <2>1, <3>1 DEF startVars, TypeOK
      <3>4. OneInside' /\ FreshIds' /\ IdsValid'
        BY <1>1, <2>1, <3>1 DEF OneInside, FreshIds, IdsValid, Inner
      <3>5. OwnOrder' /\ IdFollowsStage'
        BY <1>1, <2>1, <3>1 DEF startVars, OwnOrder, IdFollowsStage
      <3> QED BY <3>2, <3>3, <3>4, <3>5 DEF Inv
    <2> QED BY <1>2, <2>2, <2>3 DEF check_risk
  <1>3. ASSUME NEW a \in Algos, Enter(a) PROVE Inv'
    <2>1. /\ stage' \in [Algos -> Stages] /\ stage[a] = "passed" /\ stage'[a] = "inside"
          /\ \A b \in Algos : b # a => stage'[b] = stage[b]
      BY <1>1, <1>3, MovesStage DEF Enter
    <2>2. /\ m = NoAlgo /\ m' = a /\ m_order_id \in Ids
          /\ UNCHANGED <<startVars, active_orders, m_order_id, source, placed, failed, ended,
                         told, order_id>>
      BY <1>1, <1>3 DEF Enter, TypeOK, Ids
    <2>3. \A b \in Algos : stage[b] \notin Inner
      BY <1>1, <2>2 DEF OneInside
    <2>4. StartInOrder'
      BY <1>1, <2>1, <2>2, StartStays DEF StartInOrder
    <2>5. TypeOK' /\ OneInside' /\ FreshIds' /\ OwnOrder' /\ IdsValid'
      BY <1>1, <2>1, <2>2, <2>3
         DEF startVars, TypeOK, RiskTypeOK, OneInside, FreshIds, OwnOrder, IdsValid
    <2>6. IdFollowsStage'
      BY <1>1, <2>1, <2>2 DEF startVars, IdFollowsStage
    <2> QED BY <2>4, <2>5, <2>6 DEF Inv
  <1>4. ASSUME NEW a \in Algos, ReadId(a) PROVE Inv'
    <2>1. /\ stage' \in [Algos -> Stages] /\ stage[a] = "inside" /\ stage'[a] = "numbering"
          /\ \A b \in Algos : b # a => stage'[b] = stage[b]
      BY <1>1, <1>4, MovesStage DEF ReadId
    <2>2. /\ order_id' = [order_id EXCEPT ![a] = m_order_id]
          /\ UNCHANGED <<startVars, active_orders, m, m_order_id, source, placed, failed,
                         ended, told>>
      BY <1>4 DEF ReadId
    <2>3. m_order_id \in Ids /\ a \in listening
      BY <1>1, <2>1 DEF IdFollowsStage, StartInOrder
    <2>4. /\ order_id' \in [Algos -> Ids] /\ order_id'[a] = m_order_id
          /\ \A b \in Algos : b # a => order_id'[b] = order_id[b]
      BY <1>1, <2>2, <2>3 DEF TypeOK
    <2>5. connected => m_order_id >= FirstId
      BY <1>1, <2>3 DEF StartInOrder, TypeOK
    <2>6. StartInOrder'
      BY <1>1, <2>1, <2>2, <2>3, StartStays
    <2>7. TypeOK'
      BY <1>1, <2>1, <2>2, <2>4 DEF startVars, TypeOK, RiskTypeOK
    <2>8. OneInside' /\ FreshIds' /\ IdsValid'
      BY <1>1, <2>1, <2>2 DEF OneInside, FreshIds, IdsValid, Inner
    <2>9. OwnOrder' /\ IdFollowsStage'
      BY <1>1, <2>1, <2>2, <2>4, <2>5 DEF startVars, OwnOrder, IdFollowsStage
    <2> QED BY <2>6, <2>7, <2>8, <2>9 DEF Inv
  <1>5. ASSUME NEW a \in Algos, CountId(a) PROVE Inv'
    <2>1. /\ stage' \in [Algos -> Stages] /\ stage[a] = "numbering" /\ stage'[a] = "numbered"
          /\ \A b \in Algos : b # a => stage'[b] = stage[b]
      BY <1>1, <1>5, MovesStage DEF CountId
    <2>2. /\ m_order_id' = order_id[a] + 1
          /\ UNCHANGED <<startVars, active_orders, m, source, placed, failed, ended, told,
                         order_id>>
      BY <1>5 DEF CountId
    <2>3. order_id[a] \in Ids /\ order_id[a] = m_order_id /\ a \in listening
      BY <1>1, <2>1 DEF IdFollowsStage, StartInOrder, TypeOK
    <2>4. m_order_id' \in Nat /\ m_order_id' = m_order_id + 1 /\ m_order_id \in Int
      BY <1>1, <2>2, <2>3 DEF TypeOK, Ids
    <2>5. \A b \in Algos : b # a => stage[b] \notin Inner
      BY <1>1, <2>1 DEF OneInside, Inner
    <2>6. connected => m_order_id >= FirstId
      BY <1>1, <2>1, <2>3 DEF IdFollowsStage
    <2>7. StartInOrder'
      BY <1>1, <2>1, <2>2, <2>3, <2>4, <2>6, StartStays
    <2>8. TypeOK' /\ OneInside' /\ OwnOrder' /\ IdsValid'
      BY <1>1, <2>1, <2>2, <2>4
         DEF startVars, TypeOK, RiskTypeOK, OneInside, OwnOrder, IdsValid, Inner
    <2>9. FreshIds'
      BY <1>1, <2>2, <2>4 DEF FreshIds, Ids
    <2>10. source[order_id[a]] = NoAlgo /\ placed[order_id[a]] = {}
      BY <1>1, <2>3, <2>4 DEF FreshIds
    <2>11. IdFollowsStage'
      <3>1. \A b \in Algos : order_id[b] \in Int
        BY <1>1 DEF TypeOK, Ids
      <3> QED BY <1>1, <2>1, <2>2, <2>3, <2>4, <2>5, <2>6, <2>10, <3>1
              DEF startVars, IdFollowsStage, Inner
    <2> QED BY <2>7, <2>8, <2>9, <2>11 DEF Inv
  <1>6. ASSUME NEW a \in Algos, FileSnapshot(a) PROVE Inv'
    <2>1. /\ stage' \in [Algos -> Stages] /\ stage[a] = "numbered" /\ stage'[a] = "filed"
          /\ \A b \in Algos : b # a => stage'[b] = stage[b]
      BY <1>1, <1>6, MovesStage DEF FileSnapshot
    <2>2. /\ source' = [source EXCEPT ![order_id[a]] = IF @ = NoAlgo THEN a ELSE @]
          /\ UNCHANGED <<startVars, active_orders, m, m_order_id, placed, failed, ended, told,
                         order_id>>
      BY <1>6 DEF FileSnapshot
    <2>3. /\ order_id[a] \in Ids /\ order_id[a] < m_order_id /\ a \in listening
          /\ source[order_id[a]] = NoAlgo /\ placed[order_id[a]] = {}
      BY <1>1, <2>1 DEF IdFollowsStage, StartInOrder, TypeOK
    <2>4. /\ source' \in [Ids -> Algos \cup {NoAlgo}] /\ source'[order_id[a]] = a
          /\ \A id \in Ids : id # order_id[a] => source'[id] = source[id]
      BY <1>1, <2>2, <2>3 DEF TypeOK
    <2>5. \A b \in Algos : b # a => stage[b] \notin Inner
      BY <1>1, <2>1 DEF OneInside, Inner
    <2>6. StartInOrder'
      BY <1>1, <2>1, <2>2, <2>3, StartStays
    <2>7. TypeOK' /\ OneInside' /\ IdsValid'
      BY <1>1, <2>1, <2>2, <2>4 DEF startVars, TypeOK, RiskTypeOK, OneInside, IdsValid, Inner
    <2>8. FreshIds'
      BY <1>1, <2>2, <2>3, <2>4 DEF FreshIds, TypeOK, Ids
    <2>9. ASSUME NEW b \in Algos, stage'[b] = "sent" PROVE order_id[b] # order_id[a]
      <3>1. b # a /\ stage[b] = "sent"
        BY <2>1, <2>9
      <3>2. source[order_id[b]] = b /\ b # NoAlgo
        BY <1>1, <3>1 DEF OwnOrder
      <3> QED BY <2>3, <3>2
    <2>10. OwnOrder'
      BY <1>1, <2>1, <2>2, <2>4, <2>9 DEF startVars, OwnOrder, TypeOK
    <2>11. IdFollowsStage'
      BY <1>1, <2>1, <2>2, <2>3, <2>4, <2>5 DEF startVars, IdFollowsStage, Inner
    <2> QED BY <2>6, <2>7, <2>8, <2>10, <2>11 DEF Inv
  <1>7. ASSUME NEW a \in Algos, Place(a) PROVE Inv'
    <2>1. PICK to \in {"sent", "idle"} : Moves(a, "filed", to)
      BY <1>7 DEF Place
    <2>2. /\ stage' \in [Algos -> Stages] /\ stage[a] = "filed" /\ stage'[a] = to
          /\ \A b \in Algos : b # a => stage'[b] = stage[b]
      BY <1>1, <2>1, MovesStage
    <2>3. /\ order_id[a] \in Ids /\ order_id[a] < m_order_id /\ a \in listening
          /\ source[order_id[a]] = a /\ placed[order_id[a]] = {}
          /\ connected => order_id[a] >= FirstId
      BY <1>1, <2>2 DEF IdFollowsStage, StartInOrder, TypeOK
    <2>4. /\ m' = NoAlgo
          /\ UNCHANGED <<startVars, active_orders, m_order_id, source, ended, told, order_id>>
      BY <1>7 DEF Place
    <2>5. /\ placed' \in [Ids -> SUBSET Algos] /\ failed' \in SUBSET Ids
          /\ placed'[order_id[a]] = IF connected THEN {a} ELSE {}
          /\ \A id \in Ids : id # order_id[a] => placed'[id] = placed[id]
      <3>1. CASE connected
        BY <1>1, <1>7, <2>3, <3>1 DEF Place, TypeOK
      <3>2. CASE ~connected
        BY <1>1, <1>7, <2>3, <3>2 DEF Place, TypeOK
      <3> QED BY <3>1, <3>2
    <2>6. \A b \in Algos : b # a => stage[b] \notin Inner
      BY <1>1, <2>2 DEF OneInside, Inner
    <2>7. StartInOrder'
      BY <1>1, <2>2, <2>3, <2>4, StartStays
    <2>8. TypeOK'
      BY <1>1, <2>2, <2>4, <2>5 DEF startVars, TypeOK, RiskTypeOK
    <2>9. OneInside'
      BY <2>2, <2>6 DEF OneInside, Inner
    <2>10. FreshIds' /\ IdsValid'
      <3>1. m_order_id' = m_order_id /\ source' = source /\ m_order_id \in Int
            /\ \A id \in Ids : id \in Int
        BY <1>1, <2>4 DEF TypeOK, Ids
      <3>2. FreshIds'
        <4>1. ASSUME NEW id \in Ids, id >= m_order_id PROVE id # order_id[a]
          BY <2>3, <3>1, <4>1
        <4> QED BY <1>1, <2>5, <3>1, <4>1 DEF FreshIds
      <3>3. IdsValid'
        <4>1. ASSUME NEW id \in Ids, placed'[id] # {} PROVE id >= FirstId
          <5>1. CASE id = order_id[a]
            BY <2>3, <2>5, <4>1, <5>1
          <5>2. CASE id # order_id[a]
            BY <1>1, <2>5, <4>1, <5>2 DEF IdsValid
          <5> QED BY <5>1, <5>2
        <4> QED BY <4>1 DEF IdsValid
      <3> QED BY <3>2, <3>3
    <2>11. ASSUME NEW b \in Algos, b # a, stage'[b] = "sent" PROVE order_id[b] # order_id[a]
      <3>1. stage[b] = "sent"
        BY <2>2, <2>11
      <3>2. source[order_id[b]] = b
        BY <1>1, <3>1 DEF OwnOrder
      <3> QED BY <2>3, <2>11, <3>2
    <2>12. OwnOrder'
      <3>1. ASSUME NEW b \in Algos, stage'[b] = "sent"
            PROVE  /\ source'[order_id'[b]] = b
                   /\ placed'[order_id'[b]] = IF connected' THEN {b} ELSE {}
        <4>1. source' = source /\ order_id' = order_id /\ connected' = connected
              /\ order_id[b] \in Int
          BY <1>1, <2>4 DEF startVars, TypeOK, Ids
        <4>2. CASE b = a
          BY <2>3, <2>5, <4>1, <4>2
        <4>3. CASE b # a
          <5>1. stage[b] = "sent" /\ order_id[b] # order_id[a]
            BY <2>2, <2>11, <3>1, <4>3
          <5>2. source[order_id[b]] = b /\ placed[order_id[b]] = IF connected THEN {b} ELSE {}
            BY <1>1, <5>1 DEF OwnOrder
          <5>3. order_id[b] \in Ids
            BY <1>1, <4>3, <5>2 DEF TypeOK
          <5> QED BY <2>5, <4>1, <5>1, <5>2, <5>3
        <4> QED BY <4>2, <4>3
      <3> QED BY <3>1 DEF OwnOrder
    <2>13. IdFollowsStage'
      BY <1>1, <2>2, <2>3, <2>4, <2>6 DEF startVars, IdFollowsStage, Inner
    <2> QED BY <2>7, <2>8, <2>9, <2>10, <2>12, <2>13 DEF Inv
  <1>8. ASSUME NEW id \in Ids, EndOrder(id) \/ LetGo(id) PROVE Inv'
    <2>1. /\ UNCHANGED <<startVars, m, m_order_id, source, placed, failed, stage, order_id>>
          /\ RiskTypeOK' /\ ended' \in SUBSET Ids /\ told' \in SUBSET ended'
      BY <1>1, <1>8 DEF EndOrder, LetGo, TypeOK, RiskTypeOK
    <2> QED BY <1>1, <2>1 DEF startVars, Inv, TypeOK, StartInOrder, OneInside, FreshIds,
            IdFollowsStage, OwnOrder, IdsValid
  <1>9. ASSUME NEW a \in Algos, HearOfEnd(a) PROVE Inv'
    <2>1. /\ stage' \in [Algos -> Stages] /\ stage[a] = "sent" /\ stage'[a] = "idle"
          /\ \A b \in Algos : b # a => stage'[b] = stage[b]
      BY <1>1, <1>9, MovesStage DEF HearOfEnd
    <2>2. /\ order_id' = [order_id EXCEPT ![a] = -1]
          /\ UNCHANGED <<startVars, active_orders, m, m_order_id, source, placed, failed,
                         ended, told>>
      BY <1>9 DEF HearOfEnd
    <2>3. /\ order_id' \in [Algos -> Ids]
          /\ \A b \in Algos : b # a => order_id'[b] = order_id[b]
      BY <1>1, <2>2 DEF TypeOK, Ids
    <2>4. StartInOrder'
      BY <1>1, <2>1, <2>2, StartStays DEF StartInOrder
    <2>5. TypeOK'
      BY <1>1, <2>1, <2>2, <2>3 DEF startVars, TypeOK, RiskTypeOK
    <2>6. OneInside' /\ FreshIds' /\ IdsValid'
      BY <1>1, <2>1, <2>2 DEF OneInside, FreshIds, IdsValid, Inner
    <2>7. OwnOrder' /\ IdFollowsStage'
      BY <1>1, <2>1, <2>2, <2>3 DEF startVars, OwnOrder, IdFollowsStage
    <2> QED BY <2>4, <2>5, <2>6, <2>7 DEF Inv
  <1>10. CASE UNCHANGED vars
    BY <1>1, <1>10 DEF vars, gateVars, startVars, Inv, TypeOK, RiskTypeOK, StartInOrder,
       OneInside, FreshIds, IdFollowsStage, OwnOrder, IdsValid
  <1>11. CASE MainStep \/ CbStep
    BY <1>11, StartStep
  <1>12. ASSUME NEW a \in Algos, Listen(a) PROVE Inv'
    <2>1. /\ a \in started
          /\ UNCHANGED <<active_orders, connected, running, cb, announced, started, gateVars>>
          /\ listening \subseteq listening' /\ listening' \in SUBSET started
          /\ main' = main \/ main' = "terminated"
      BY <1>1, <1>12 DEF Listen, TypeOK
    <2>2. main \in {"algos", "terminated"} /\ ~announced
      BY <1>1, <2>1 DEF StartInOrder, TypeOK
    <2>3. StartInOrder'
      BY <1>1, <2>1, <2>2 DEF gateVars, StartInOrder
    <2>4. TypeOK'
      BY <1>1, <2>1 DEF gateVars, TypeOK, RiskTypeOK
    <2>5. OneInside' /\ FreshIds' /\ IdFollowsStage' /\ OwnOrder' /\ IdsValid'
      BY <1>1, <2>1 DEF gateVars, OneInside, FreshIds, IdFollowsStage, OwnOrder, IdsValid
    <2> QED BY <2>3, <2>4, <2>5 DEF Inv
  <1> QED BY <1>2, <1>3, <1>4, <1>5, <1>6, <1>7, <1>8, <1>9, <1>10, <1>11, <1>12
          DEF Next, GateStep

(* The invariant holds in every state.                                     *)
LEMMA Invariant == Spec => []Inv
  BY InvInit, InvStep, PTL DEF Spec

(* The id an algo gets back names its own order, at IBApi and at TWS, for  *)
(* any number of algo engines that send at once (the mutex of              *)
(* IBGateway::send_order around IBApi::send_order).                        *)
THEOREM OwnOrderAlways == Spec => []OwnOrder
  <1>1. Inv => OwnOrder
    BY DEF Inv
  <1> QED BY <1>1, Invariant, PTL

(* No order is placed under an id below the one TWS announced, whichever   *)
(* way the connection and the callback thread start (IBApi::start,         *)
(* nextValidId, IBApi::send_order).                                        *)
THEOREM IdsValidAlways == Spec => []IdsValid
  <1>1. Inv => IdsValid
    BY DEF Inv
  <1> QED BY <1>1, Invariant, PTL
=============================================================================
