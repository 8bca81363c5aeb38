--------------------------- MODULE OrderMistakes ---------------------------
(***************************************************************************)
(* The order flow with a record of what AlgoEngine::order_cb has mistaken. *)
(* It applies every answer to the order in flight, and takes every error   *)
(* for an end; the code prevents neither mistake.  What the algo promises  *)
(* about the market and its position it keeps up to the first of them.     *)
(***************************************************************************)
EXTENDS OrderFlow

VARIABLE mistaken   \* history: the kinds of mistakes order_cb has made

recordedVars == <<vars, mistaken>>

(* The event the action thread takes is an answer about an order of the    *)
(* algo's.                                                                 *)
TakesAnswer == order_cb /\ order_status[Head(aq).data.order_id] # "untracked"

(* order_cb takes the answer for one about the order in flight, whatever   *)
(* order it is about: inflight_order_id, order_cancelled and order_filled  *)
(* are those of the order sent last.                                       *)
MistakesOrder == TakesAnswer /\ Head(aq).data.order_id + 1 # m_order_id

(* order_cb takes any error for the end of its order, a warning too.       *)
MistakesEnd ==
    /\ TakesAnswer
    /\ Head(aq).data.error_code
    /\ is_active_order(Head(aq).data.status)
    /\ book[Head(aq).data.order_id].state = "working"

Mistakes ==
    {kind \in {"order", "end"} :
        \/ kind = "order" /\ MistakesOrder
        \/ kind = "end" /\ MistakesEnd}

RecordedNext == Next /\ mistaken' = mistaken \cup Mistakes

RecordedSpec == Init /\ mistaken = {} /\ [][RecordedNext]_recordedVars
-----------------------------------------------------------------------------
(* "no inflight order at this point": the algo has no second order in the  *)
(* market, whatever TWS repeats, reports late or warns of and whenever the *)
(* socket breaks, unless order_cb has applied an answer to another order   *)
(* or taken a warning for an end: there is no third way (update_pos_cb,    *)
(* order_cb).                                                              *)
NoSecondOrder == mistaken = {} => NoInflightOrder

(* Once everything is handled the algo's position is what TWS filled,      *)
(* counted from the one order_filled that send_order resets, unless        *)
(* order_cb has applied an answer to another order: what TWS repeats,      *)
(* reports late or warns of counts once, and a warning taken for an end    *)
(* does no harm to the count (send_order, order_cb).                       *)
PositionFollows == "order" \notin mistaken => CurrPosExact
=============================================================================
