--------------------------- MODULE EventDelivery ---------------------------
(***************************************************************************)
(* What the event queue promises (src/src/lib/base/IEventQueue.h): addEvent *)
(* adds an event "to the end of the queue", getEvent returns "the next      *)
(* event on the queue", and replacing the buffer discards "any queued       *)
(* events".                                                                 *)
(***************************************************************************)
EXTENDS Sequences

CONSTANTS
    Events,
    None        \* no event has been returned yet

VARIABLES
    waiting,    \* added and not yet returned, oldest first
    returned    \* the event getEvent returned last

vars == <<waiting, returned>>

Init == waiting = <<>> /\ returned = None

AddEvent(e) == waiting' = Append(waiting, e) /\ UNCHANGED returned

GetEvent ==
    /\ waiting # <<>>
    /\ returned' = Head(waiting)
    /\ waiting' = Tail(waiting)

AdoptBuffer == waiting' = <<>> /\ UNCHANGED returned

Next == (\E e \in Events : AddEvent(e)) \/ GetEvent \/ AdoptBuffer

Spec == Init /\ [][Next]_vars
=============================================================================
