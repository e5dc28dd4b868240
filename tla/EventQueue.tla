----------------------------- MODULE EventQueue -----------------------------
(***************************************************************************)
(* The event queue shared by every part of the program                      *)
(* (src/src/lib/base/EventQueue.cpp, SimpleEventQueueBuffer.cpp).           *)
(*                                                                         *)
(* Any thread may post; one thread runs loop(), which a handler may enter   *)
(* again.  The buffer holds ids, the events themselves are in a table whose *)
(* free ids are used again.  Timers are counted down only when the loop     *)
(* finds no event.                                                          *)
(***************************************************************************)
EXTENDS Integers, FiniteSets, SequencesExt

CONSTANTS
    Threads,    \* those that post; handlers post as one of them
    Loop,       \* the thread that runs loop()
    Events,     \* each stands for one event that may be posted again once returned
    Quit,       \* the events that end loop()
    None,
    Timers,
    OneShot,    \* the timers made by newOneShotTimer
    Duration,   \* of each timer, in ticks
    MaxDepth,   \* bound: loops inside each other
    MaxAdopts,  \* bound: replacements of the buffer
    MaxAge      \* bound: ticks since a timer was started or fired, and since
                \* m_time was reset

ASSUME Parameters ==
    /\ Quit \subseteq Events /\ Loop \notin Threads
    /\ None \notin Nat /\ None \notin Events \cup Threads \cup {Loop}
    /\ OneShot \subseteq Timers /\ Duration \in [Timers -> Nat \ {0}]
    /\ MaxDepth \in Nat /\ MaxAdopts \in Nat /\ MaxAge \in Nat

VARIABLES
    ready,      \* *m_readyCondVar
    pending,    \* m_pending
    holder,     \* who holds m_readyMutex
    posting,    \* the event each thread is adding, and what it read in ready
    buffer,     \* m_queue: ids, oldest first
    table,      \* m_events
    oldIDs,     \* m_oldEventIDs
    taken,      \* the id getEvent has from the buffer, before removeEvent
    returned,   \* the event getEvent returned last
    depth,      \* how many loops the loop thread is in
    armed,      \* the timers in m_timerQueue
    left,       \* their m_time
    elapsed,    \* the clock m_time
    age,        \* history: ticks since each timer was started or fired
    adopts

posts == <<ready, pending, holder, posting>>
store == <<buffer, table, oldIDs>>
timers == <<armed, left, elapsed, age>>
vars == <<posts, store, taken, returned, depth, timers, adopts>>

(***************************************************************************)
(* Posting                                                                 *)
(***************************************************************************)

(* The ids of the stored events, and the events that were posted and not    *)
(* returned, oldest first.                                                  *)
Queued == IF taken = None THEN buffer ELSE <<taken>> \o buffer
Stored == [i \in 1..Len(Queued) |-> table[Queued[i]]]
Waiting == Stored \o pending

Added == {e \in Events : \E t \in Threads : posting[t] # None /\ posting[t].event = e}

(* addEvent: lock m_readyMutex and look whether the loop has started.       *)
Unlocked_Always == TRUE
Unlocked == holder = None

AddEvent(t, e) ==
    /\ posting[t] = None
    /\ e \notin ToSet(Waiting) \cup Added
    /\ Unlocked
    /\ holder' = t
    /\ posting' = [posting EXCEPT ![t] = [event |-> e, ready |-> ready]]
    /\ UNCHANGED <<ready, pending, store, taken, returned, depth, timers, adopts>>

(* saveEvent, and the id into the buffer.                                   *)
NewID == IF oldIDs # <<>> THEN Last(oldIDs) ELSE Cardinality(DOMAIN table)

AddEventToBuffer(e) ==
    /\ table' = [id \in DOMAIN table \cup {NewID} |-> IF id = NewID THEN e ELSE table[id]]
    /\ oldIDs' = IF oldIDs # <<>> THEN Front(oldIDs) ELSE <<>>
    /\ buffer' = Append(buffer, NewID)

(* The rest of addEvent.                                                    *)
Push(t) ==
    /\ posting[t] # None
    /\ \/ posting[t].ready /\ AddEventToBuffer(posting[t].event) /\ UNCHANGED pending
       \/ ~posting[t].ready /\ pending' = Append(pending, posting[t].event) /\ UNCHANGED store
    /\ posting' = [posting EXCEPT ![t] = None]
    /\ holder' = None
    /\ UNCHANGED <<ready, taken, returned, depth, timers, adopts>>

(***************************************************************************)
(* The loop                                                                *)
(***************************************************************************)

(* loop() starts: locked, it declares itself ready.  A handler starts       *)
(* another loop inside.                                                     *)
StartLoop ==
    /\ holder = None /\ taken = None
    /\ IF ready THEN depth > 0 ELSE depth = 0
    /\ depth < MaxDepth
    /\ depth' = depth + 1
    /\ ready' = TRUE
    /\ holder' = Loop
    /\ UNCHANGED <<pending, posting, store, taken, returned, timers, adopts>>

(* Still locked, it moves the pending events to the buffer.                 *)
Drain ==
    /\ holder = Loop /\ pending # <<>>
    /\ AddEventToBuffer(Head(pending))
    /\ pending' = Tail(pending)
    /\ UNCHANGED <<ready, holder, posting, taken, returned, depth, timers, adopts>>

Drained_Early == TRUE
Drained == pending = <<>>

EndDrain ==
    /\ holder = Loop /\ Drained
    /\ holder' = None
    /\ UNCHANGED <<ready, pending, posting, store, taken, returned, depth, timers, adopts>>

Running == depth > 0 /\ holder # Loop

(* getEvent takes an id from the buffer ...                                 *)
TakeID ==
    /\ Running /\ taken = None /\ buffer # <<>>
    /\ taken' = Head(buffer)
    /\ buffer' = Tail(buffer)
    /\ UNCHANGED <<posts, table, oldIDs, returned, depth, timers, adopts>>

(* ... and, under m_mutex, the event from the table (removeEvent).  Quit    *)
(* ends the innermost loop, anything else is dispatched.                    *)
RemoveEvent ==
    /\ taken # None
    /\ returned' = table[taken]
    /\ table' = [id \in DOMAIN table \ {taken} |-> table[id]]
    /\ oldIDs' = Append(oldIDs, taken)
    /\ taken' = None
    /\ depth' = IF table[taken] \in Quit THEN depth - 1 ELSE depth
    /\ UNCHANGED <<posts, buffer, timers, adopts>>

(* adoptBuffer, by a screen that is made, deleted or reconnected.           *)
AdoptBuffer ==
    /\ holder # Loop /\ taken = None
    /\ adopts < MaxAdopts
    /\ adopts' = adopts + 1
    /\ buffer' = <<>> /\ table' = <<>> /\ oldIDs' = <<>>
    /\ UNCHANGED <<posts, taken, returned, depth, timers>>

(***************************************************************************)
(* Timers                                                                  *)
(***************************************************************************)

(* newTimer and newOneShotTimer.  What is on the clock is added, since it   *)
(* will be subtracted later.                                                *)
InitialTime_Plain(t) == Duration[t]
InitialTime(t) == Duration[t] + elapsed

NewTimer(t) ==
    /\ t \notin armed
    /\ armed' = armed \cup {t}
    /\ left' = [left EXCEPT ![t] = InitialTime(t)]
    /\ age' = [age EXCEPT ![t] = 0]
    /\ UNCHANGED <<posts, store, taken, returned, depth, elapsed, adopts>>

DeleteTimer(t) ==
    /\ t \in armed
    /\ armed' = armed \ {t}
    /\ UNCHANGED <<posts, store, taken, returned, depth, left, elapsed, age, adopts>>

(* Time passes.                                                             *)
Tick ==
    /\ elapsed < MaxAge /\ \A t \in armed : age[t] < MaxAge
    /\ elapsed' = elapsed + 1
    /\ age' = [t \in Timers |-> IF t \in armed THEN age[t] + 1 ELSE age[t]]
    /\ UNCHANGED <<posts, store, taken, returned, depth, armed, left, adopts>>

(* hasTimerExpired, when the buffer is empty: the clock is subtracted from  *)
(* every timer, and the one with the least time left may fire.              *)
Remaining(t) == left[t] - elapsed
Idle == Running /\ taken = None /\ buffer = <<>> /\ armed # {}

CountDown ==
    /\ Idle /\ \A t \in armed : Remaining(t) > 0
    /\ left' = [t \in Timers |-> IF t \in armed THEN Remaining(t) ELSE left[t]]
    /\ elapsed' = 0
    /\ UNCHANGED <<posts, store, taken, returned, depth, armed, age, adopts>>

FireTimer(t) ==
    /\ Idle /\ t \in armed
    /\ Remaining(t) <= 0 /\ \A u \in armed : Remaining(t) <= Remaining(u)
    /\ left' = [u \in Timers |->
           IF u = t THEN Duration[t] ELSE IF u \in armed THEN Remaining(u) ELSE left[u]]
    /\ elapsed' = 0
    /\ armed' = IF t \in OneShot THEN armed \ {t} ELSE armed
    /\ age' = [age EXCEPT ![t] = 0]
    /\ UNCHANGED <<posts, store, taken, returned, depth, adopts>>

(***************************************************************************)
(* The specification                                                       *)
(***************************************************************************)

Init ==
    /\ ready = FALSE /\ pending = <<>> /\ holder = None
    /\ posting = [t \in Threads |-> None]
    /\ buffer = <<>> /\ table = <<>> /\ oldIDs = <<>>
    /\ taken = None /\ returned = None /\ depth = 0
    /\ armed = {} /\ elapsed = 0
    /\ left = [t \in Timers |-> 0] /\ age = [t \in Timers |-> 0]
    /\ adopts = 0

Next ==
    \/ \E t \in Threads : Push(t) \/ \E e \in Events : AddEvent(t, e)
    \/ StartLoop \/ Drain \/ EndDrain
    \/ TakeID \/ RemoveEvent \/ AdoptBuffer
    \/ Tick \/ CountDown
    \/ \E t \in Timers : NewTimer(t) \/ DeleteTimer(t) \/ FireTimer(t)

(* The loop thread goes on, and every thread leaves its critical section.   *)
(* Threads cannot post so fast that the loop never finds the buffer empty   *)
(* when it becomes so again and again.                                      *)
Fairness ==
    /\ WF_vars(Drain) /\ WF_vars(EndDrain) /\ WF_vars(TakeID) /\ WF_vars(RemoveEvent)
    /\ \A t \in Threads : WF_vars(Push(t))
    /\ \A t \in Timers : SF_vars(FireTimer(t))

Spec == Init /\ [][Next]_vars
FairSpec == Spec /\ Fairness

(***************************************************************************)
(* Properties                                                              *)
(***************************************************************************)

(* The type of every variable.  Each id of the table is queued once, and    *)
(* the ids in use and the free ones are 0, 1, ... without a gap: saveEvent   *)
(* never hands out an id that is in use.                                    *)
IDs ==
    /\ IsInjective(oldIDs) /\ IsInjective(Queued)
    /\ DOMAIN table = ToSet(Queued)
    /\ DOMAIN table \cap ToSet(oldIDs) = {}
    /\ DOMAIN table \cup ToSet(oldIDs) = 0..Len(oldIDs) + Len(Queued) - 1

(* m_readyMutex is held by the thread that posts, and what it read in ready *)
(* stays true; once the loop has drained them, no event is left pending; an *)
(* id is taken inside a loop only.                                          *)
Locking ==
    /\ \A t \in Threads : posting[t] # None => holder = t /\ posting[t].ready = ready
    /\ ready /\ holder # Loop => pending = <<>>
    /\ ~ready => Queued = <<>> /\ oldIDs = <<>> /\ holder # Loop
    /\ taken # None => depth > 0 /\ holder # Loop

TypeOK ==
    /\ ready \in BOOLEAN /\ pending \in Seq(Events) /\ holder \in Threads \cup {Loop, None}
    /\ posting \in [Threads -> {None} \cup [event : Events, ready : BOOLEAN]]
    /\ buffer \in Seq(Nat) /\ oldIDs \in Seq(Nat) /\ taken \in Nat \cup {None}
    /\ \A id \in DOMAIN table : table[id] \in Events
    /\ returned \in Events \cup {None}
    /\ depth \in 0..MaxDepth /\ adopts \in 0..MaxAdopts
    /\ armed \subseteq Timers /\ left \in [Timers -> Int]
    /\ elapsed \in 0..MaxAge /\ age \in [Timers -> 0..MaxAge]
    /\ IDs /\ Locking

(* Every event is returned once, in the order of posting, whatever thread    *)
(* posted it and whether the loop had started (addEvent, loop, getEvent,     *)
(* adoptBuffer).                                                            *)
Delivery == INSTANCE EventDelivery WITH waiting <- Waiting
Delivers == Delivery!Spec

(* A countdown is what remains of the timer's duration, however long the     *)
(* clock ran before the timer was started and while events kept the loop     *)
(* from looking (newTimer, hasTimerExpired): no timer fires early.           *)
TimersExact == \A t \in armed : Remaining(t) = Duration[t] - age[t]

(* While a loop runs, every event that was posted is returned or discarded;  *)
(* and every timer that is due fires or is deleted, if the buffer does not   *)
(* stay filled.                                                             *)
Due(t) == t \in armed /\ age[t] >= Duration[t]
NoFlood == []<>(depth = 0 \/ (taken = None /\ buffer = <<>>))

Served ==
    /\ \A e \in Events :
          (depth > 0 /\ e \in ToSet(Waiting)) ~> (depth = 0 \/ e \notin ToSet(Waiting))
    /\ NoFlood => \A t \in Timers : (depth > 0 /\ Due(t)) ~> (depth = 0 \/ ~Due(t))
=============================================================================
