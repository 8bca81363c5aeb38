------------------------------ MODULE Journal ------------------------------
(***************************************************************************)
(* What calm::DataRecorder owes its readers, without its queue and thread: *)
(* events are written in the order in which they were accepted, each to    *)
(* the collection of its type, and the recorder does not turn to the next  *)
(* event before it has written this one or the database has refused it.    *)
(* Nothing is promised about how often an event is written.                *)
(***************************************************************************)
EXTENDS Naturals, Sequences, Functions

CONSTANT Recorded      \* the types of the events to be written

VARIABLES
    accepted,   \* the types of the events accepted so far
    cursor,     \* the number of the latest event the recorder has turned to
    written,    \* per collection, the numbers of the events in it
    refused     \* events the database has refused to write

Accept(type) ==
    /\ accepted' = Append(accepted, type)
    /\ UNCHANGED <<cursor, written, refused>>

InCollection(n) == n \in Range(written[accepted[n]])

TurnToNext ==
    /\ cursor < Len(accepted)
    /\ cursor > 0 => InCollection(cursor) \/ cursor \in refused
    /\ cursor' = cursor + 1
    /\ UNCHANGED <<accepted, written, refused>>

Write ==
    /\ cursor > 0
    /\ written' = [written EXCEPT ![accepted[cursor]] = Append(@, cursor)]
    /\ UNCHANGED <<accepted, cursor, refused>>

Refuse ==
    /\ cursor > 0
    /\ refused' = refused \cup {cursor}
    /\ UNCHANGED <<accepted, cursor, written>>

JournalInit ==
    /\ accepted = << >>
    /\ cursor = 0
    /\ written = [type \in Recorded |-> << >>]
    /\ refused = {}

JournalNext == (\E type \in Recorded : Accept(type)) \/ TurnToNext \/ Write \/ Refuse

JournalSpec == JournalInit /\ [][JournalNext]_<<accepted, cursor, written, refused>>
=============================================================================
