-------------------------------- MODULE TWS --------------------------------
(***************************************************************************)
(* The Trader Workstation at the far end of the socket, as far as IBApi    *)
(* depends on it: it works the orders it is given, fills them lot by lot,  *)
(* rejects them, cancels them or fails to, and tells of every change over  *)
(* a connection that keeps the order of its messages.                      *)
(*                                                                         *)
(* Beside the messages that report a change it sends others about an       *)
(* order: the same status once more, the commission of a fill that was     *)
(* reported before, the error that comes along with a cancellation or with *)
(* a cancellation that came too late, a warning about an order that stays  *)
(* in the market.  MaxNotes bounds them, NoteKinds says which there are.   *)
(***************************************************************************)
EXTENDS OrderObjects

CONSTANTS
    MaxNotes,        \* bound: messages that report no change of state
    NoteKinds,       \* a subset of {"repeat", "commission", "error"}
    MayDisconnect    \* whether the connection may break, for good

ASSUME MaxNotesIsNat == MaxNotes \in Nat
ASSUME NoteKindsAreKinds == NoteKinds \subseteq {"repeat", "commission", "error"}
ASSUME MayDisconnectIsBoolean == MayDisconnect \in BOOLEAN

VARIABLES
    book,       \* TWS's own record of each order
    wire,       \* messages sent and not yet read by the client
    connected,  \* whether the socket is up
    notes       \* messages sent so far that report no change

twsVars == <<book, wire, connected, notes>>

\* What TWS knows of an order; cancels counts the requests to cancel it.
BookEntries ==
    [state : {"absent", "working", "done"}, action : Actions, quantity : Nat,
     filled : Nat, status : Statuses, cancels : Nat]

Absent == [state |-> "absent", action |-> "buy", quantity |-> 0,
           filled |-> 0, status |-> "pending_submit", cancels |-> 0]

Messages ==
    [type : {"orderStatus"}, id : Orders, status : Statuses, filled : Nat, px : Nat]
        \cup [type : {"openOrder"}, id : Orders, commission : Nat]
        \cup [type : {"error"}, id : Orders]

TwsTypeOK ==
    /\ book \in [Orders -> BookEntries]
    /\ wire \in Seq(Messages)
    /\ connected \in BOOLEAN
    /\ notes \in Nat

TwsInit ==
    /\ book = [id \in Orders |-> Absent]
    /\ wire = << >>
    /\ connected = TRUE
    /\ notes = 0

Working == {id \in Orders : book[id].state = "working"}
Done    == {id \in Orders : book[id].state = "done"}

\* The average price after so many lots: the first fill is dear, others cheap.
AvgPrice(filled) == IF filled = 0 THEN 0 ELSE IF filled = 1 THEN 3 ELSE 2

Commission(filled) == filled

StatusMsg(id, status, filled) ==
    [type |-> "orderStatus", id |-> id, status |-> status,
     filled |-> filled, px |-> AvgPrice(filled)]

CommissionMsg(id) ==
    [type |-> "openOrder", id |-> id, commission |-> Commission(book[id].filled)]

ErrorMsg(id) == [type |-> "error", id |-> id]
-----------------------------------------------------------------------------
\* What the client asks for.
Accept(id, action, quantity) ==
    book' = [book EXCEPT ![id] =
                [Absent EXCEPT !.state = "working", !.action = action,
                               !.quantity = quantity]]

RequestCancel(id) ==
    book' = [book EXCEPT ![id].cancels = @ + 1]

-----------------------------------------------------------------------------
\* An order changes and the change is reported.
Report(id, state, status, filled) ==
    /\ book' = [book EXCEPT ![id].state = state, ![id].status = status,
                            ![id].filled = filled]
    /\ wire' = Append(wire, StatusMsg(id, status, filled))

Acknowledge(id) ==
    /\ book[id].status = "pending_submit"
    /\ Report(id, "working", "submitted", 0)
    /\ UNCHANGED notes

Fill(id) ==
    LET filled == book[id].filled + 1
        full   == filled = book[id].quantity
    IN  /\ book[id].status = "submitted"
        /\ Report(id, IF full THEN "done" ELSE "working",
                  IF full THEN "filled" ELSE "submitted", filled)
        /\ UNCHANGED notes

Cancel(id) ==
    /\ book[id].cancels > 0
    /\ Report(id, "done", "cancelled", book[id].filled)
    /\ UNCHANGED notes

\* A rejected order is reported by its error alone.
Reject(id) ==
    /\ book[id].status = "pending_submit"
    /\ book' = [book EXCEPT ![id].state = "done", ![id].status = "inactive"]
    /\ wire' = Append(wire, ErrorMsg(id))
    /\ UNCHANGED notes

Note(id, kind) ==
    /\ notes < MaxNotes
    /\ notes' = notes + 1
    /\ wire' = Append(wire,
          CASE kind = "repeat"     -> StatusMsg(id, book[id].status, book[id].filled)
            [] kind = "commission" -> CommissionMsg(id)
            [] kind = "error"      -> ErrorMsg(id))
    /\ UNCHANGED book

TwsStep ==
    /\ connected
    /\ \/ \E id \in Working : Acknowledge(id) \/ Fill(id) \/ Cancel(id) \/ Reject(id)
       \/ \E id \in Working \cup Done, kind \in NoteKinds : Note(id, kind)
    /\ UNCHANGED connected

\* The socket breaks.  What it delivered before can still be read.
Disconnect ==
    /\ connected
    /\ MayDisconnect
    /\ connected' = FALSE
    /\ UNCHANGED <<book, wire, notes>>

(* The steps that bring a working order nearer to its end.  They end every *)
(* order: it has a finite number of lots, and none is left waiting.        *)
TwsProgress ==
    /\ connected
    /\ \E id \in Working : Acknowledge(id) \/ Fill(id) \/ Cancel(id) \/ Reject(id)
    /\ UNCHANGED connected
=============================================================================
