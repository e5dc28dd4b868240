-------------------------- MODULE SocketMultiplexer --------------------------
(***************************************************************************)
(* The socket multiplexer (src/src/lib/net/SocketMultiplexer.cpp): the      *)
(* event thread adds and removes sockets while the service thread polls a   *)
(* snapshot of their jobs and runs them without holding the lock.           *)
(*                                                                         *)
(* What is done under m_mutex is one action.  A job is named by its         *)
(* address, which may be used again once the job is deleted; so may the     *)
(* address of a socket.                                                     *)
(***************************************************************************)
EXTENDS Naturals

CONSTANTS
    Sockets,  \* addresses of ISocket objects
    Jobs,     \* addresses of ISocketMultiplexerJob objects
    NoJob,    \* nullptr
    Same      \* the result of a job that returned itself

ASSUME Values == NoJob \notin Jobs /\ Same \notin Jobs \cup {NoJob}

VARIABLES
    entry,    \* m_jobs: the job of each socket, NoJob for one without an entry
    removals, \* m_pendingRemovals
    retired,  \* m_retiredJobs
    ready,    \* m_jobsReady
    pc,       \* where the service thread is
    snapshot, \* its snapshot, NoJob for a socket that is not in it
    todo,     \* the sockets of the snapshot whose jobs it has yet to run
    result,   \* what the others returned: the transitions
    alloc,    \* jobs that exist
    live,     \* socket objects that exist
    removed   \* history: sockets last passed to removeSocket, not addSocket

shared  == <<entry, removals, retired, ready>>
service == <<pc, snapshot, todo, result>>
vars    == <<shared, service, alloc, live, removed>>

JobOf(f, s)  == f[s] # NoJob
Entries      == {s \in Sockets : JobOf(entry, s)}
JobsIn(f, S) == {f[s] : s \in S}

(***************************************************************************)
(* The event thread                                                        *)
(***************************************************************************)

CreateSocket(s) ==
    /\ s \notin live
    /\ live' = live \cup {s}
    /\ UNCHANGED <<shared, service, alloc, removed>>

(* A socket being added again is not subject to an earlier removal.         *)
KeptRemovals_All(s) == removals
KeptRemovals(s) == removals \ {s}

(* The displaced job may be running: updateJobState deletes it.             *)
Displaced(s) == IF JobOf(entry, s) THEN {entry[s]} ELSE {}

(* The condition variable is only signalled for a new entry.                *)
ReadyAfterAdd_Never(s) == ready
ReadyAfterAdd(s) == ready \/ ~JobOf(entry, s)

(* SocketMultiplexer::addSocket with a job that was just created.           *)
AddSocket(s, job) ==
    /\ s \in live
    /\ job \notin alloc
    /\ alloc' = alloc \cup {job}
    /\ removals' = KeptRemovals(s)
    /\ retired' = retired \cup Displaced(s)
    /\ entry' = [entry EXCEPT ![s] = job]
    /\ ready' = ReadyAfterAdd(s)
    /\ removed' = removed \ {s}
    /\ UNCHANGED <<service, live>>

(* SocketMultiplexer::removeSocket.                                         *)
Removing(s) == JobOf(entry, s)

RemoveSocket_Deletes(s) ==
    /\ s \in live
    /\ entry' = [entry EXCEPT ![s] = NoJob]
    /\ alloc' = alloc \ {entry[s]}
    /\ ready' = (\E t \in Sockets : entry'[t] # NoJob)
    /\ removed' = removed \cup {s}
    /\ UNCHANGED <<removals, retired, service, live>>
RemoveSocket(s) ==
    /\ s \in live
    /\ removals' = IF Removing(s) THEN removals \cup {s} ELSE removals
    /\ removed' = removed \cup {s}
    /\ UNCHANGED <<entry, retired, ready, service, alloc, live>>

(* A socket's destructor, after its call of removeSocket.                   *)
DeleteSocket(s) ==
    /\ s \in live \cap removed
    /\ live' = live \ {s}
    /\ UNCHANGED <<shared, service, alloc, removed>>

(***************************************************************************)
(* The service thread                                                      *)
(***************************************************************************)

WaitReady ==
    /\ pc = "wait"
    /\ ready
    /\ pc' = "snapshot"
    /\ UNCHANGED <<shared, snapshot, todo, result, alloc, live, removed>>

(* SocketMultiplexer::buildJobSnapshot.                                     *)
InSnapshot_All(s) == TRUE
InSnapshot(s) == s \notin removals

BuildSnapshot ==
    /\ pc = "snapshot"
    /\ snapshot' = [s \in Sockets |-> IF InSnapshot(s) THEN entry[s] ELSE NoJob]
    /\ pc' = "poll"
    /\ UNCHANGED <<shared, todo, result, alloc, live, removed>>

(* pollSocket times out or fails, or every job of the snapshot is to run.   *)
Poll ==
    /\ pc = "poll"
    /\ result' = [s \in Sockets |-> Same]
    /\ \/ todo' = {} /\ pc' = "update"
       \/ todo' = {s \in Sockets : JobOf(snapshot, s)} /\ pc' = "run"
    /\ UNCHANGED <<shared, snapshot, alloc, live, removed>>

(* One job runs.  It returns itself, a new job, or nullptr, as it does when *)
(* it throws.                                                               *)
RunJob(s) ==
    /\ pc = "run"
    /\ s \in todo
    /\ todo' = todo \ {s}
    /\ \/ UNCHANGED <<result, alloc>>
       \/ result' = [result EXCEPT ![s] = NoJob] /\ UNCHANGED alloc
       \/ \E job \in Jobs \ alloc :
             /\ result' = [result EXCEPT ![s] = job]
             /\ alloc' = alloc \cup {job}
    /\ UNCHANGED <<shared, pc, snapshot, live, removed>>

RunDone ==
    /\ pc = "run"
    /\ todo = {}
    /\ pc' = "update"
    /\ UNCHANGED <<shared, snapshot, todo, result, alloc, live, removed>>

(* Transitions whose entry was not replaced by addSocket in the meantime.   *)
Changed == {s \in Sockets : result[s] # Same}
Matched == {s \in Changed : entry[s] = snapshot[s]}

(* The entries after the transitions, before the removals.                  *)
Transitioned == [s \in Sockets |-> IF s \in Matched THEN result[s] ELSE entry[s]]

(* What updateJobState deletes: the job of a matched transition, a new job  *)
(* that is not installed, the job of a removed socket, and the retired ones. *)
Superseded == JobsIn(snapshot, Matched)
Unmatched_Leaked == {}
Unmatched  == JobsIn(result, Changed \ Matched) \ {NoJob}
OfRemoved  == JobsIn(Transitioned, removals) \ {NoJob}
Deleted    == Superseded \cup Unmatched \cup OfRemoved \cup retired

(* SocketMultiplexer::updateJobState.                                       *)
UpdateJobState ==
    /\ pc = "update"
    /\ entry' = [s \in Sockets |-> IF s \in removals THEN NoJob ELSE Transitioned[s]]
    /\ alloc' = alloc \ Deleted
    /\ removals' = {}
    /\ retired' = {}
    /\ ready' = (\E s \in Sockets : entry'[s] # NoJob)
    /\ pc' = "wait"
    /\ snapshot' = [s \in Sockets |-> NoJob]
    /\ result' = [s \in Sockets |-> Same]
    /\ UNCHANGED <<todo, live, removed>>

(***************************************************************************)
(* The specification                                                       *)
(***************************************************************************)

Init ==
    /\ entry = [s \in Sockets |-> NoJob]
    /\ removals = {}
    /\ retired = {}
    /\ ready = FALSE
    /\ pc = "wait"
    /\ snapshot = [s \in Sockets |-> NoJob]
    /\ todo = {}
    /\ result = [s \in Sockets |-> Same]
    /\ alloc = {}
    /\ live = {}
    /\ removed = {}

EventThread ==
    \E s \in Sockets :
        \/ CreateSocket(s) \/ RemoveSocket(s) \/ DeleteSocket(s)
        \/ \E job \in Jobs : AddSocket(s, job)

ServiceThread ==
    \/ WaitReady \/ BuildSnapshot \/ Poll \/ RunDone \/ UpdateJobState
    \/ \E s \in Sockets : RunJob(s)

Next == EventThread \/ ServiceThread

(* The service thread keeps running; pollSocket has a timeout.              *)
Fairness == WF_vars(ServiceThread)

Spec == Init /\ [][Next]_vars /\ Fairness

(***************************************************************************)
(* Properties                                                              *)
(***************************************************************************)

(* The type of every variable.                                              *)
TypeOK ==
    /\ entry \in [Sockets -> Jobs \cup {NoJob}]
    /\ removals \in SUBSET Sockets
    /\ retired \in SUBSET Jobs
    /\ ready \in BOOLEAN
    /\ pc \in {"wait", "snapshot", "poll", "run", "update"}
    /\ snapshot \in [Sockets -> Jobs \cup {NoJob}]
    /\ todo \in SUBSET Sockets
    /\ result \in [Sockets -> Jobs \cup {NoJob, Same}]
    /\ alloc \in SUBSET Jobs
    /\ live \in SUBSET Sockets
    /\ removed \in SUBSET Sockets

(* New jobs waiting in the transitions.                                     *)
Results == JobsIn(result, Sockets) \ {NoJob, Same}

(* Every job that exists has exactly one owner among the entries, the       *)
(* retired jobs and the transitions: updateJobState deletes each once, and   *)
(* none is lost.                                                            *)
OneOwner ==
    /\ alloc = (JobsIn(entry, Sockets) \ {NoJob}) \cup retired \cup Results
    /\ \A s, t \in Sockets : s # t /\ JobOf(entry, s) => entry[s] # entry[t]
    /\ \A s, t \in Sockets : s # t /\ result[s] \in Jobs => result[s] # result[t]
    /\ \A s \in Sockets : entry[s] \notin retired \cup Results
    /\ retired \cap Results = {}

(* A job of the snapshot, polled and run without the lock, exists: both      *)
(* removals and replacements leave its deletion to updateJobState.          *)
NoDeletedJobRuns ==
    pc \in {"poll", "run", "update"} =>
        \A s \in Sockets : JobOf(snapshot, s) => snapshot[s] \in alloc

(* The service thread sleeps only while there is nothing to poll.           *)
ReadyWhenJobs == ready <=> Entries # {}

(* A pending removal has an entry to remove, so the thread is awake for it. *)
RemovalsHaveEntries == removals \subseteq Entries

(* An entry goes away only when its socket was removed and not added again,  *)
(* or when its own job ended: a replacement is never lost.                   *)
NeverDropped ==
    [][\A s \in Sockets :
          JobOf(entry, s) /\ entry'[s] = NoJob =>
             s \in removed \/ (entry[s] = snapshot[s] /\ result[s] = NoJob)]_vars

(* After removeSocket the socket's job is in no later snapshot.             *)
RemovedNotPolled ==
    [][\A s \in removed : snapshot'[s] # snapshot[s] => snapshot'[s] = NoJob]_vars

(* A removal is carried out.                                                *)
RemovalEnds == \A s \in Sockets : s \in removals ~> s \notin removals

=============================================================================
