---------------------------- MODULE SocketProof ----------------------------
(***************************************************************************)
(* Proofs about the network side of a connection, for any sockets, jobs,    *)
(* packets and high-water mark: SocketMultiplexer, the safety of its        *)
(* deferred deletions, and PacketStream, where the order of what is read is *)
(* kept through the socket, the filter and the client.                      *)
(*                                                                         *)
(* The two models share no variable: a theorem about one says nothing of    *)
(* the variables of the other.                                              *)
(***************************************************************************)
EXTENDS SocketMultiplexer, PacketStream, SequenceTheorems, TLAPS

(***************************************************************************)
(* SocketMultiplexer                                                        *)
(***************************************************************************)
(* A job of the snapshot is still its socket's entry, or it was retired.    *)
SnapshotOwned ==
    \A s \in Sockets : JobOf(snapshot, s) => snapshot[s] \in {entry[s]} \cup retired

(* Transitions are results of jobs of the snapshot that have run.           *)
ResultsOfSnapshot ==
    /\ \A s \in Sockets : result[s] # Same => JobOf(snapshot, s) /\ s \notin todo
    /\ pc \notin {"run", "update"} => todo = {} /\ \A s \in Sockets : result[s] = Same
    /\ pc = "update" => todo = {}
    /\ \A s \in todo : JobOf(snapshot, s)

(* removeSocket's history: a removed socket has no entry, or a pending      *)
(* removal; a pending removal was asked for.                                *)
RemovalsRemoved ==
    /\ removals \subseteq removed
    /\ \A s \in removed : JobOf(entry, s) => s \in removals

IInv ==
    /\ TypeOK
    /\ OneOwner
    /\ SnapshotOwned
    /\ ResultsOfSnapshot
    /\ ReadyWhenJobs
    /\ RemovalsHaveEntries
    /\ RemovalsRemoved

(* The multiplexer starts without sockets and jobs.                         *)
LEMMA InitOK == Init => IInv
BY Values DEF Init, IInv, TypeOK, OneOwner, SnapshotOwned, ResultsOfSnapshot, ReadyWhenJobs,
   RemovalsHaveEntries, RemovalsRemoved, Entries, JobOf, JobsIn, Results

(* addSocket retires the job it displaces: the snapshot may still hold it.  *)
LEMMA AddOK ==
    ASSUME IInv, NEW s \in Sockets, NEW j \in Jobs, AddSocket(s, j)
    PROVE  IInv'
<1> USE Values DEF IInv, AddSocket, KeptRemovals, Displaced, ReadyAfterAdd, JobOf, shared, service
<1>1. TypeOK'
  BY DEF TypeOK
<1>2. OneOwner'
  <2>1. JobsIn(entry', Sockets) \ {NoJob}
          = (((JobsIn(entry, Sockets) \ {NoJob}) \ Displaced(s)) \cup {j})
    BY DEF TypeOK, OneOwner, JobsIn
  <2>2. Results' = Results
    BY DEF Results, JobsIn
  <2>3. j \notin JobsIn(entry, Sockets) \cup retired \cup Results
    BY DEF OneOwner
  <2>4. alloc' = (JobsIn(entry', Sockets) \ {NoJob}) \cup retired' \cup Results'
    BY <2>1, <2>2 DEF OneOwner, JobsIn
  <2>5. \A t, u \in Sockets : t # u /\ entry'[t] # NoJob => entry'[t] # entry'[u]
    BY <2>3 DEF OneOwner, TypeOK, JobsIn
  <2>6. \A t \in Sockets : entry'[t] \notin retired' \cup Results'
    BY <2>2, <2>3 DEF OneOwner, TypeOK, JobsIn, Results
  <2>7. retired' \cap Results' = {}
    BY <2>2, <2>3 DEF OneOwner, TypeOK, JobsIn
  <2> QED
    BY <2>4, <2>5, <2>6, <2>7 DEF OneOwner
<1>3. SnapshotOwned'
  BY DEF SnapshotOwned, TypeOK
<1>4. ResultsOfSnapshot'
  BY DEF ResultsOfSnapshot
<1>5. ReadyWhenJobs' /\ RemovalsHaveEntries' /\ RemovalsRemoved'
  BY DEF ReadyWhenJobs, RemovalsHaveEntries, RemovalsRemoved, Entries, TypeOK
<1> QED
  BY <1>1, <1>2, <1>3, <1>4, <1>5

(* A job's new successor is owned by the transitions.                       *)
LEMMA RunOK ==
    ASSUME IInv, NEW s \in Sockets, RunJob(s)
    PROVE  IInv'
<1> USE Values DEF IInv, RunJob, shared
<1>1. TypeOK'
  BY DEF TypeOK
<1>2. result[s] = Same
  BY DEF ResultsOfSnapshot
<1>3. OneOwner'
  <2>1. CASE UNCHANGED <<result, alloc>>
    BY <2>1 DEF OneOwner, Results, JobsIn, JobOf
  <2>2. CASE result' = [result EXCEPT ![s] = NoJob] /\ UNCHANGED alloc
    <3>1. Results' = Results
      BY <1>2, <2>2 DEF Results, JobsIn, TypeOK
    <3>2. QED
      BY <2>2, <3>1 DEF OneOwner, JobsIn, JobOf, TypeOK
  <2>3. ASSUME NEW j \in Jobs \ alloc, result' = [result EXCEPT ![s] = j],
               alloc' = alloc \cup {j}
        PROVE  OneOwner'
    <3>1. Results' = Results \cup {j}
      BY <1>2, <2>3 DEF Results, JobsIn, TypeOK
    <3>2. j \notin JobsIn(entry, Sockets) \cup retired \cup Results
      BY DEF OneOwner
    <3>3. \A t, u \in Sockets : t # u /\ result'[t] \in Jobs => result'[t] # result'[u]
      BY <2>3, <3>2 DEF OneOwner, Results, JobsIn, TypeOK
    <3>4. alloc' = (JobsIn(entry', Sockets) \ {NoJob}) \cup retired' \cup Results'
      BY <2>3, <3>1 DEF OneOwner, JobsIn
    <3>5. \A t \in Sockets : entry'[t] \notin retired' \cup Results'
      BY <2>3, <3>1, <3>2 DEF OneOwner, JobsIn
    <3>6. retired' \cap Results' = {}
      BY <2>3, <3>1, <3>2 DEF OneOwner
    <3>7. \A t, u \in Sockets : t # u /\ JobOf(entry', t) => entry'[t] # entry'[u]
      BY DEF OneOwner, JobOf
    <3> QED
      BY <3>3, <3>4, <3>5, <3>6, <3>7 DEF OneOwner, JobOf
  <2> QED
    BY <2>1, <2>2, <2>3
<1>4. SnapshotOwned' /\ ReadyWhenJobs' /\ RemovalsHaveEntries' /\ RemovalsRemoved'
  BY DEF SnapshotOwned, ReadyWhenJobs, RemovalsHaveEntries, RemovalsRemoved, Entries, JobOf
<1>5. ResultsOfSnapshot'
  BY <1>2 DEF ResultsOfSnapshot, JobOf, TypeOK
<1> QED
  BY <1>1, <1>3, <1>4, <1>5

(* updateJobState deletes exactly the jobs that are no entry afterwards.    *)
LEMMA UpdateOK ==
    ASSUME IInv, UpdateJobState
    PROVE  IInv'
<1> USE Values DEF IInv, UpdateJobState
<1>1. \A s \in Sockets : Transitioned[s] = IF s \in Matched THEN result[s] ELSE entry[s]
  BY DEF Transitioned
<1>2. \A s \in Sockets : entry'[s] = IF s \in removals THEN NoJob ELSE Transitioned[s]
  OBVIOUS
<1>3. \A s \in Matched : /\ s \in Sockets /\ result[s] \in Jobs \cup {NoJob}
                          /\ entry[s] = snapshot[s] /\ entry[s] \in Jobs
  BY DEF Matched, Changed, ResultsOfSnapshot, TypeOK, JobOf
<1>4. TypeOK'
  <2>1. entry' \in [Sockets -> Jobs \cup {NoJob}]
    BY <1>1, <1>3 DEF TypeOK
  <2> QED
    BY <2>1 DEF TypeOK
<1>5. Results' = {}
  BY DEF Results, JobsIn
<1>6. ASSUME NEW j \in alloc, j \notin Deleted
      PROVE  j \in JobsIn(entry', Sockets) \ {NoJob}
  <2>1. j \in Jobs /\ j \notin retired
    BY <1>6 DEF TypeOK, Deleted
  <2>2. CASE j \in JobsIn(entry, Sockets)
    <3>1. PICK s \in Sockets : j = entry[s]
      BY <2>2 DEF JobsIn
    <3>2. s \notin Matched
      BY <1>3, <1>6, <3>1 DEF Deleted, Superseded, JobsIn
    <3>3. s \notin removals
      BY <1>1, <1>6, <2>1, <3>1, <3>2 DEF Deleted, OfRemoved, JobsIn
    <3> QED
      BY <1>1, <1>2, <2>1, <3>1, <3>2, <3>3 DEF JobsIn
  <2>3. CASE j \in Results
    <3>1. PICK s \in Sockets : j = result[s] /\ result[s] # Same
      BY <2>1, <2>3 DEF Results, JobsIn
    <3>2. s \in Matched
      BY <1>6, <2>1, <3>1 DEF Deleted, Unmatched, Changed, JobsIn
    <3>3. s \notin removals
      BY <1>1, <1>6, <2>1, <3>1, <3>2 DEF Deleted, OfRemoved, JobsIn
    <3> QED
      BY <1>1, <1>2, <2>1, <3>1, <3>2, <3>3 DEF JobsIn
  <2> QED
    BY <2>1, <2>2, <2>3 DEF OneOwner
<1>7. ASSUME NEW s \in Sockets, JobOf(entry', s)
      PROVE  /\ entry'[s] \in alloc \ Deleted
             /\ s \notin removals /\ entry'[s] = Transitioned[s]
             /\ entry'[s] \in Jobs
  <2>1. s \notin removals /\ entry'[s] = Transitioned[s] /\ entry'[s] \in Jobs
    BY <1>2, <1>4, <1>7 DEF JobOf, TypeOK
  <2>2. CASE s \in Matched
    <3>1. entry'[s] = result[s] /\ result[s] \in Results
      BY <1>1, <2>1, <2>2, <1>3 DEF Results, JobsIn
    <3>2. result[s] \notin Superseded
      BY <1>3, <3>1 DEF Superseded, JobsIn, OneOwner
    <3>3. result[s] \notin Unmatched
      BY <2>1, <2>2, <3>1 DEF Unmatched, JobsIn, OneOwner, Changed
    <3>4. result[s] \notin OfRemoved
      BY <1>1, <1>3, <2>1, <3>1 DEF OfRemoved, JobsIn, OneOwner, TypeOK
    <3>5. result[s] \in alloc \ retired
      BY <3>1 DEF OneOwner
    <3> QED
      BY <2>1, <3>1, <3>2, <3>3, <3>4, <3>5 DEF Deleted
  <2>3. CASE s \notin Matched
    <3>1. entry'[s] = entry[s] /\ entry[s] \in alloc
      BY <1>1, <2>1, <2>3 DEF OneOwner, JobsIn
    <3>2. entry[s] \notin Superseded
      BY <1>3, <2>1, <2>3, <3>1 DEF Superseded, JobsIn, OneOwner, JobOf
    <3>3. entry[s] \notin Unmatched
      <4>1. entry[s] \notin Results /\ entry[s] \in Jobs
        BY <2>1, <3>1 DEF OneOwner
      <4> QED
        BY <4>1 DEF Unmatched, Results, JobsIn, Changed
    <3>4. entry[s] \notin OfRemoved
      <4>1. SUFFICES ASSUME NEW t \in removals, entry[s] = Transitioned[t] PROVE FALSE
        BY DEF OfRemoved, JobsIn
      <4>2. t \in Sockets /\ t # s
        BY <2>1, <4>1 DEF TypeOK
      <4>3. t \notin Matched => entry[s] = entry[t]
        BY <1>1, <4>1, <4>2
      <4>4. t \in Matched => entry[s] = result[t]
        BY <1>1, <4>1, <4>2
      <4>5. entry[s] \notin Results /\ entry[s] \in Jobs /\ JobOf(entry, s)
        BY <2>1, <3>1 DEF OneOwner, JobOf
      <4> QED
        BY <4>2, <4>3, <4>4, <4>5 DEF OneOwner, Results, JobsIn
    <3>5. entry[s] \notin retired
      BY DEF OneOwner
    <3> QED
      BY <2>1, <3>1, <3>2, <3>3, <3>4, <3>5 DEF Deleted
  <2> QED
    BY <2>2, <2>3
<1>8. OneOwner'
  <2>1. alloc' = JobsIn(entry', Sockets) \ {NoJob}
    BY <1>6, <1>7 DEF JobsIn, JobOf
  <2>2. \A s, t \in Sockets : s # t /\ JobOf(entry', s) => entry'[s] # entry'[t]
    <3>1. SUFFICES ASSUME NEW s \in Sockets, NEW t \in Sockets, s # t, JobOf(entry', s),
                          entry'[s] = entry'[t]
                   PROVE  FALSE
      OBVIOUS
    <3>2. /\ Transitioned[s] = Transitioned[t] /\ Transitioned[s] \in Jobs
      BY <1>7, <3>1 DEF JobOf
    <3>3. CASE s \in Matched /\ t \in Matched
      BY <1>1, <3>1, <3>2, <3>3 DEF OneOwner
    <3>4. CASE s \notin Matched /\ t \notin Matched
      BY <1>1, <3>1, <3>2, <3>4 DEF OneOwner, JobOf
    <3>5. CASE s \in Matched /\ t \notin Matched
      BY <1>1, <3>1, <3>2, <3>5 DEF OneOwner, Results, JobsIn
    <3>6. CASE s \notin Matched /\ t \in Matched
      BY <1>1, <3>1, <3>2, <3>6 DEF OneOwner, Results, JobsIn
    <3> QED
      BY <3>3, <3>4, <3>5, <3>6
  <2>3. \A s \in Sockets : result'[s] = Same
    OBVIOUS
  <2> QED
    BY <1>5, <2>1, <2>2, <2>3 DEF OneOwner, JobOf
<1>9. SnapshotOwned' /\ ResultsOfSnapshot'
  BY DEF SnapshotOwned, ResultsOfSnapshot, JobOf
<1>10. ReadyWhenJobs' /\ RemovalsHaveEntries'
  BY DEF ReadyWhenJobs, RemovalsHaveEntries, Entries, JobOf
<1>11. RemovalsRemoved'
  <2>1. \A s \in removed : s \in Sockets /\ (s \in removals \/ entry[s] = NoJob)
    BY DEF RemovalsRemoved, JobOf, TypeOK
  <2>2. \A s \in removed : entry'[s] = NoJob
    BY <1>1, <1>2, <1>3, <2>1
  <2> QED
    BY <2>2 DEF RemovalsRemoved, JobOf
<1> QED
  BY <1>4, <1>8, <1>9, <1>10, <1>11

(* Every step preserves the invariant.                                      *)
LEMMA StepOK == IInv /\ [Next]_vars => IInv'
<1> SUFFICES ASSUME IInv, [Next]_vars PROVE IInv'
  OBVIOUS
<1> USE Values DEF IInv, shared, service
<1>1. ASSUME NEW s \in Sockets, CreateSocket(s) \/ DeleteSocket(s) PROVE IInv'
  BY <1>1 DEF CreateSocket, DeleteSocket, TypeOK, OneOwner, SnapshotOwned, ResultsOfSnapshot,
     ReadyWhenJobs, RemovalsHaveEntries, RemovalsRemoved, Entries, Results, JobsIn, JobOf
<1>2. ASSUME NEW s \in Sockets, RemoveSocket(s) PROVE IInv'
  <2>1. OneOwner' /\ SnapshotOwned' /\ ResultsOfSnapshot' /\ ReadyWhenJobs'
    BY <1>2 DEF RemoveSocket, OneOwner, SnapshotOwned, ResultsOfSnapshot, ReadyWhenJobs,
       Entries, Results, JobsIn, JobOf
  <2>2. TypeOK' /\ RemovalsHaveEntries' /\ RemovalsRemoved'
    BY <1>2 DEF RemoveSocket, Removing, TypeOK, RemovalsHaveEntries, RemovalsRemoved, Entries, JobOf
  <2> QED
    BY <2>1, <2>2
<1>3. CASE WaitReady \/ RunDone
  BY <1>3 DEF WaitReady, RunDone, TypeOK, OneOwner, SnapshotOwned, ResultsOfSnapshot,
     ReadyWhenJobs, RemovalsHaveEntries, RemovalsRemoved, Entries, Results, JobsIn, JobOf
<1>4. CASE BuildSnapshot
  <2>1. TypeOK' /\ SnapshotOwned' /\ ResultsOfSnapshot'
    BY <1>4 DEF BuildSnapshot, InSnapshot, TypeOK, SnapshotOwned, ResultsOfSnapshot, JobOf
  <2>2. OneOwner' /\ ReadyWhenJobs' /\ RemovalsHaveEntries' /\ RemovalsRemoved'
    BY <1>4 DEF BuildSnapshot, OneOwner, ReadyWhenJobs, RemovalsHaveEntries, RemovalsRemoved,
       Entries, Results, JobsIn, JobOf
  <2> QED
    BY <2>1, <2>2
<1>5. CASE Poll
  <2>1. result' = result
    BY <1>5 DEF Poll, ResultsOfSnapshot, TypeOK
  <2> QED
    BY <1>5, <2>1 DEF Poll, TypeOK, OneOwner, SnapshotOwned, ResultsOfSnapshot,
       ReadyWhenJobs, RemovalsHaveEntries, RemovalsRemoved, Entries, Results, JobsIn, JobOf
<1>6. CASE UNCHANGED vars
  BY <1>6 DEF vars, TypeOK, OneOwner, SnapshotOwned, ResultsOfSnapshot,
     ReadyWhenJobs, RemovalsHaveEntries, RemovalsRemoved, Entries, Results, JobsIn, JobOf
<1> QED
  BY <1>1, <1>2, <1>3, <1>4, <1>5, <1>6, AddOK, RunOK, UpdateOK
     DEF Next, EventThread, ServiceThread

(* The inductive invariant.                                                 *)
THEOREM Invariance == Spec => []IInv
BY InitOK, StepOK, PTL DEF Spec

(* Every variable keeps its type.                                           *)
THEOREM TypeCorrect == Spec => []TypeOK
<1>1. IInv => TypeOK
  BY DEF IInv
<1> QED
  BY <1>1, Invariance, PTL

(* updateJobState deletes each job once, and none is lost or deleted twice. *)
THEOREM JobsOwned == Spec => []OneOwner
<1>1. IInv => OneOwner
  BY DEF IInv
<1> QED
  BY <1>1, Invariance, PTL

(* The service thread polls and runs no job that was deleted: updateJobState *)
(* deletes jobs only between a run and the next snapshot.                    *)
THEOREM JobsAlive == Spec => []NoDeletedJobRuns
<1>1. IInv => NoDeletedJobRuns
  BY DEF IInv, OneOwner, NoDeletedJobRuns, SnapshotOwned, JobOf, JobsIn
<1> QED
  BY <1>1, Invariance, PTL

(* The service thread sleeps only without jobs, and a pending removal has   *)
(* an entry, so the thread is awake to make it.                             *)
THEOREM ThreadAwake == Spec => [](ReadyWhenJobs /\ RemovalsHaveEntries)
<1>1. IInv => ReadyWhenJobs /\ RemovalsHaveEntries
  BY DEF IInv
<1> QED
  BY <1>1, Invariance, PTL

(* addSocket's job stays until it is removed, replaced, or has ended.       *)
THEOREM Kept == Spec => NeverDropped
<1> DEFINE Dropped(s) == JobOf(entry, s) /\ entry'[s] = NoJob
           Allowed(s) == s \in removed \/ (entry[s] = snapshot[s] /\ result[s] = NoJob)
<1>1. IInv /\ [Next]_vars => [\A s \in Sockets : Dropped(s) => Allowed(s)]_vars
  <2> SUFFICES ASSUME IInv, Next, NEW s \in Sockets, Dropped(s) PROVE Allowed(s)
    OBVIOUS
  <2>1. ASSUME NEW t \in Sockets, NEW j \in Jobs, AddSocket(t, j) PROVE FALSE
    BY <2>1, Values DEF AddSocket, JobOf, IInv, TypeOK
  <2>2. CASE UpdateJobState
    BY <2>2 DEF UpdateJobState, Transitioned, Matched, JobOf, IInv, RemovalsRemoved
  <2>3. CASE entry' = entry
    BY <2>3 DEF JobOf
  <2>4. UpdateJobState \/ entry' = entry
         \/ \E t \in Sockets, j \in Jobs : AddSocket(t, j)
    BY DEF Next, EventThread, ServiceThread, CreateSocket, RemoveSocket, DeleteSocket,
       WaitReady, BuildSnapshot, Poll, RunJob, RunDone, shared
  <2> QED
    BY <2>1, <2>2, <2>3, <2>4
<1> QED
  BY <1>1, Invariance, PTL DEF Spec, NeverDropped

(* buildJobSnapshot skips the sockets removeSocket was called for.          *)
THEOREM NotPolled == Spec => RemovedNotPolled
<1> DEFINE Skipped == \A s \in removed : snapshot'[s] # snapshot[s] => snapshot'[s] = NoJob
<1>1. IInv /\ [Next]_vars => [Skipped]_vars
  <2> SUFFICES ASSUME IInv, Next PROVE Skipped
    OBVIOUS
  <2>1. CASE BuildSnapshot
    BY <2>1 DEF BuildSnapshot, InSnapshot, IInv, RemovalsRemoved, JobOf, TypeOK
  <2>2. CASE UpdateJobState
    BY <2>2 DEF UpdateJobState, IInv, TypeOK
  <2>3. CASE snapshot' = snapshot
    BY <2>3
  <2>4. BuildSnapshot \/ UpdateJobState \/ snapshot' = snapshot
    BY DEF Next, EventThread, ServiceThread, CreateSocket, RemoveSocket, DeleteSocket,
       AddSocket, WaitReady, Poll, RunJob, RunDone, service
  <2> QED
    BY <2>1, <2>2, <2>3, <2>4
<1> QED
  BY <1>1, Invariance, PTL DEF Spec, RemovedNotPolled

(***************************************************************************)
(* PacketStream: what the invariants say                                    *)
(***************************************************************************)
Pieces == [of : Nat, part : {"size", "code", "rest"}]
Events == [type : {"InputReady", "InputShutdown", "SocketDisconnected", "OutputError"},
           from : {"socket", "filter"}]
SocketStates == [input : Seq(Pieces), readable : BOOLEAN, paused : BOOLEAN, output : BOOLEAN,
                 writable : BOOLEAN, job : Job]
Filters == [buffer : Seq(Pieces), size : {0, Size}, shutdown : BOOLEAN]

TypedStream ==
    /\ sent \in Seq(Nat) /\ peer \in {"open", "closed", "broken"} /\ wire \in Seq(Pieces)
    /\ socket \in SocketStates /\ filter \in Filters /\ events \in Seq(Events)
    /\ owner \in [greeted : BOOLEAN, reading : BOOLEAN, got : Seq(Nat)]
    /\ told \in BOOLEAN /\ job \in {<<>>} \cup {<<j>> : j \in Job}

(* A job made before the buffer was full may read once more: it is either    *)
(* registered, or about to be, never both.                                  *)
Reads == job # <<>> /\ job[1].read

ReadsOnce ==
    /\ Full(socket.input) => socket.paused
    /\ Len(socket.input) > HighWater => ~socket.job.read /\ ~Reads
    /\ socket.paused => ~(socket.job.read /\ Reads)
    /\ Len(socket.input) <= HighWater + 1

(* The packet of a piece is known by how many pieces came before it: k of    *)
(* them precede q.  The filter has taken the size of a packet it waits for.  *)
Follow(q, k) == \A i \in 1 .. Len(q) : 3 * (q[i].of - 1) < k + i /\ k + i <= 3 * q[i].of

Taken(f) == IF f.size = 0 THEN 0 ELSE 1

(* The packets read are the first that were sent ...                         *)
GotInOrder ==
    /\ \A i \in 1 .. Len(sent) : sent[i] = i
    /\ Len(owner.got) <= Len(sent) /\ \A i \in 1 .. Len(owner.got) : owner.got[i] = i

(* ... and the pieces of the others are in the filter (b), the socket (i) and *)
(* on their way (w), in this order, until the client is told of the end.     *)
Transit(k, b, i, w, n, broken) ==
    /\ Follow(b, k) /\ Follow(i, k + Len(b)) /\ Follow(w, k + Len(b) + Len(i))
    /\ IF broken THEN k + Len(b) + Len(i) + Len(w) <= 3 * n + 2
                 ELSE k + Len(b) + Len(i) + Len(w) = 3 * n

Whole(f) == f.size = 0 => f.buffer = <<>>

InTransit ==
    /\ Whole(filter)
    /\ Transit(3 * Len(owner.got) + Taken(filter), filter.buffer, socket.input, wire, Len(sent), peer = "broken")

StreamInv ==
    /\ GotInOrder
    /\ ~told => InTransit
    /\ owner.reading => ~told /\ IsReady(filter)

(* The end of the stream comes behind its last piece, and is passed on       *)
(* behind the last packet.                                                  *)
Has(q, event) == \E i \in 1 .. Len(q) : q[i] = event

AheadOfEnd(q) ==
    \E i \in 1 .. Len(q) : q[i] = Raw("InputReady") /\ \A j \in 1 .. i : q[j] # Raw("InputShutdown")

AllGot == peer = "broken" \/ (peer = "closed" /\ owner.got = sent)

EndInOrder ==
    /\ socket.input # <<>> => AheadOfEnd(events)
    /\ ~socket.readable => wire = <<>> /\ peer # "open"
    /\ Has(events, Raw("InputShutdown")) \/ filter.shutdown => ~socket.readable
    /\ filter.shutdown => socket.input = <<>>
    /\ Has(events, Own("InputShutdown")) => filter.shutdown /\ filter.size = 0
    /\ Has(events, Raw("SocketDisconnected")) \/ Has(events, Raw("OutputError")) \/ ~socket.writable
       => peer = "broken"
    /\ told => AllGot

(***************************************************************************)
(* PacketStream: sequences of pieces                                        *)
(***************************************************************************)
LEMMA Joined ==
    ASSUME NEW S, NEW q \in Seq(S), NEW r \in Seq(S)
    PROVE  /\ q \o r \in Seq(S) /\ Len(q) \in Nat /\ Len(r) \in Nat /\ Len(q \o r) = Len(q) + Len(r)
           /\ \A i \in 1 .. Len(q) : (q \o r)[i] = q[i] /\ q[i] \in S
           /\ \A i \in 1 .. Len(r) : (q \o r)[Len(q) + i] = r[i] /\ r[i] \in S
<1>1. /\ q \o r \in Seq(S) /\ Len(q) \in Nat /\ Len(r) \in Nat /\ Len(q \o r) = Len(q) + Len(r)
      /\ \A i \in 1 .. Len(q) : q[i] \in S
      /\ \A i \in 1 .. Len(r) : r[i] \in S
  BY ConcatProperties, LenProperties, ElementOfSeq
<1>2. \A i \in 1 .. Len(q) + Len(r) : (q \o r)[i] = IF i <= Len(q) THEN q[i] ELSE r[i - Len(q)]
  BY ConcatProperties
<1> QED
  BY <1>1, <1>2

LEMMA Longer ==
    ASSUME NEW S, NEW q \in Seq(S), NEW r \in Seq(S)
    PROVE  Len(q) <= Len(q \o r)
<1>1. ASSUME NEW a \in Nat, NEW b \in Nat PROVE a <= a + b
  OBVIOUS
<1> QED
  BY <1>1, Joined

LEMMA Cut ==
    ASSUME NEW S, NEW q \in Seq(S), NEW n \in 0 .. Len(q)
    PROVE  /\ Len(q) \in Nat
           /\ SubSeq(q, 1, n) \in Seq(S) /\ Len(SubSeq(q, 1, n)) = n
           /\ SubSeq(q, n + 1, Len(q)) \in Seq(S) /\ Len(SubSeq(q, n + 1, Len(q))) = Len(q) - n
           /\ \A i \in 1 .. n : SubSeq(q, 1, n)[i] = q[i]
           /\ \A i \in 1 .. Len(q) - n : SubSeq(q, n + 1, Len(q))[i] = q[n + i]
<1>1. Len(q) \in Nat
  BY LenProperties
<1>2. SubSeq(q, 1, n) \in Seq(S) /\ Len(SubSeq(q, 1, n)) = n /\ \A i \in 1 .. n : SubSeq(q, 1, n)[i] = q[i]
  <2>1. \A i \in 1 .. n : q[i] \in S
    BY <1>1, ElementOfSeq
  <2> QED
    BY <1>1, <2>1, SubSeqProperties
<1>3. /\ SubSeq(q, n + 1, Len(q)) \in Seq(S) /\ Len(SubSeq(q, n + 1, Len(q))) = Len(q) - n
      /\ \A i \in 1 .. Len(q) - n : SubSeq(q, n + 1, Len(q))[i] = q[n + i]
  <2>1. \A i \in n + 1 .. Len(q) : q[i] \in S
    BY <1>1, ElementOfSeq
  <2> QED
    BY <1>1, <2>1, SubSeqProperties
<1> QED
  BY <1>1, <1>2, <1>3

LEMMA FollowJoined ==
    ASSUME NEW q \in Seq(Pieces), NEW r \in Seq(Pieces), NEW k \in Nat, Follow(q, k), Follow(r, k + Len(q))
    PROVE  Follow(q \o r, k)
<1>1. SUFFICES ASSUME NEW i \in 1 .. Len(q \o r)
      PROVE 3 * ((q \o r)[i].of - 1) < k + i /\ k + i <= 3 * (q \o r)[i].of
  BY DEF Follow
<1>2. Len(q) \in Nat /\ Len(r) \in Nat /\ i \in 1 .. Len(q) + Len(r)
  BY Joined
<1>3. CASE i <= Len(q)
  BY <1>2, <1>3, Joined DEF Follow
<1>4. CASE i > Len(q)
  <2> DEFINE j == i - Len(q)
  <2>1. j \in 1 .. Len(r) /\ i = Len(q) + j
    BY <1>2, <1>4
  <2>2. (q \o r)[i] = r[j] /\ r[j] \in Pieces
    BY <2>1, Joined
  <2>3. 3 * (r[j].of - 1) < k + Len(q) + j /\ k + Len(q) + j <= 3 * r[j].of
    BY <2>1 DEF Follow
  <2> QED
    BY <2>1, <2>2, <2>3, <1>2 DEF Pieces
<1> QED
  BY <1>2, <1>3, <1>4

LEMMA FollowCut ==
    ASSUME NEW q \in Seq(Pieces), NEW n \in 0 .. Len(q), NEW k \in Nat, Follow(q, k)
    PROVE  Follow(SubSeq(q, 1, n), k) /\ Follow(SubSeq(q, n + 1, Len(q)), k + n)
<1>1. Len(q) \in Nat /\ \A i \in 1 .. Len(q) : q[i] \in Pieces
  BY LenProperties, ElementOfSeq
<1>2. Follow(SubSeq(q, 1, n), k)
  <2>1. SUFFICES ASSUME NEW i \in 1 .. n PROVE 3 * (q[i].of - 1) < k + i /\ k + i <= 3 * q[i].of
    BY Cut DEF Follow
  <2>2. i \in 1 .. Len(q)
    BY <1>1
  <2> QED
    BY <2>2 DEF Follow
<1>3. Follow(SubSeq(q, n + 1, Len(q)), k + n)
  <2>1. SUFFICES ASSUME NEW i \in 1 .. Len(q) - n
        PROVE 3 * (q[n + i].of - 1) < k + n + i /\ k + n + i <= 3 * q[n + i].of
    BY Cut DEF Follow
  <2>2. n + i \in 1 .. Len(q) /\ k + (n + i) = k + n + i
    BY <1>1
  <2> QED
    BY <2>2 DEF Follow
<1> QED
  BY <1>2, <1>3

LEMMA FollowNone == \A k : Follow(<<>>, k) /\ Len(<<>>) = 0 /\ <<>> \in Seq(Pieces)
  BY EmptySeq DEF Follow

(***************************************************************************)
(* PacketStream: the filter                                                 *)
(***************************************************************************)
LEMMA SizeRead ==
    ASSUME NEW f \in Filters, NEW k \in Nat, Follow(f.buffer, k + Taken(f))
    PROVE  LET r == ReadPacketSize(f)
           IN  /\ r \in Filters /\ r.shutdown = f.shutdown /\ Whole(r)
               /\ Taken(r) + Len(r.buffer) = Taken(f) + Len(f.buffer)
               /\ Follow(r.buffer, k + Taken(r))
<1> DEFINE r == ReadPacketSize(f)
<1>1. f.buffer \in Seq(Pieces) /\ f.size \in {0, Size} /\ f.shutdown \in BOOLEAN
  BY DEF Filters
<1>2. CASE f.size = 0 /\ f.buffer # <<>>
  <2>1. r = [f EXCEPT !.size = Size, !.buffer = Tail(@)]
    BY <1>2 DEF ReadPacketSize
  <2>2. Len(f.buffer) \in Nat \ {0} /\ Tail(f.buffer) \in Seq(Pieces) /\ Len(Tail(f.buffer)) = Len(f.buffer) - 1
    BY <1>1, <1>2, EmptySeq, LenProperties, HeadTailProperties
  <2>4. r.size = Size /\ r.buffer = Tail(f.buffer) /\ r.shutdown = f.shutdown /\ r \in Filters
    BY <2>1, <2>2, <1>1 DEF Filters
  <2>5. Taken(f) = 0 /\ Taken(r) = 1
    BY <2>4, <1>2 DEF Taken, Size
  <2>6. Follow(r.buffer, k + 1)
    <3>1. SUFFICES ASSUME NEW i \in 1 .. Len(f.buffer) - 1
          PROVE 3 * (Tail(f.buffer)[i].of - 1) < (k + 1) + i /\ (k + 1) + i <= 3 * Tail(f.buffer)[i].of
      BY <2>2, <2>4 DEF Follow
    <3>2. i + 1 \in 1 .. Len(f.buffer) /\ Tail(f.buffer)[i] = f.buffer[i + 1]
      BY <1>1, <1>2, <2>2, HeadTailProperties
    <3>3. 3 * (f.buffer[i + 1].of - 1) < k + (i + 1) /\ k + (i + 1) <= 3 * f.buffer[i + 1].of
      BY <3>2, <2>5 DEF Follow
    <3> QED
      BY <3>2, <3>3, <2>2
  <2> QED
    BY <2>2, <2>4, <2>5, <2>6 DEF Whole, Size
<1>3. CASE ~(f.size = 0 /\ f.buffer # <<>>)
  BY <1>3, <1>1 DEF ReadPacketSize, Whole
<1> QED
  BY <1>2, <1>3

(* A packet that is read is the next one.                                   *)
LEMMA PacketRead ==
    ASSUME NEW f \in Filters, NEW n \in Nat, IsReady(f), Follow(f.buffer, 3 * n + Taken(f))
    PROVE  LET r == Rest(f)
           IN  /\ r \in Filters /\ r.shutdown = f.shutdown /\ Whole(r)
               /\ Len(f.buffer) \in Nat /\ Len(f.buffer) >= 2 /\ Taken(f) = 1
               /\ 3 * (n + 1) + Taken(r) + Len(r.buffer) = 3 * n + Taken(f) + Len(f.buffer)
               /\ Follow(r.buffer, 3 * (n + 1) + Taken(r))
               /\ Head(f.buffer).of = n + 1
<1> DEFINE g == [f EXCEPT !.buffer = SubSeq(@, f.size + 1, Len(@)), !.size = 0]
           r == Rest(f)
<1>1. f.buffer \in Seq(Pieces) /\ f.size = 2 /\ f.shutdown \in BOOLEAN /\ Taken(f) = 1 /\ Taken(g) = 0
  BY DEF Filters, IsReady, Size, Taken
<1>2. Len(f.buffer) \in Nat /\ Len(f.buffer) >= 2 /\ 2 \in 0 .. Len(f.buffer)
  BY <1>1, LenProperties DEF IsReady
<1>3. g.buffer = SubSeq(f.buffer, 3, Len(f.buffer)) /\ g.size = 0 /\ g.shutdown = f.shutdown
  BY <1>1 DEF Filters
<1>4. /\ SubSeq(f.buffer, 2 + 1, Len(f.buffer)) \in Seq(Pieces)
      /\ Len(SubSeq(f.buffer, 2 + 1, Len(f.buffer))) = Len(f.buffer) - 2
  BY <1>1, <1>2, Cut
<1>5. g \in Filters /\ Len(g.buffer) = Len(f.buffer) - 2
  BY <1>1, <1>3, <1>4 DEF Filters, Size
<1>6. Follow(SubSeq(f.buffer, 2 + 1, Len(f.buffer)), (3 * n + 1) + 2)
  BY <1>1, <1>2, FollowCut
<1>7. Follow(g.buffer, 3 * (n + 1) + Taken(g))
  <2>1. (3 * n + 1) + 2 = 3 * (n + 1) + Taken(g) /\ 2 + 1 = 3
    BY <1>1
  <2> QED
    BY <1>6, <1>3, <2>1
<1>8. r = ReadPacketSize(g)
  BY DEF Rest
<1>9. 3 * (n + 1) \in Nat
  OBVIOUS
<1>10. /\ r \in Filters /\ r.shutdown = g.shutdown /\ Whole(r)
       /\ Taken(r) + Len(r.buffer) = Taken(g) + Len(g.buffer)
       /\ Follow(r.buffer, 3 * (n + 1) + Taken(r))
  BY <1>5, <1>7, <1>8, <1>9, SizeRead
<1>11. Head(f.buffer).of = n + 1
  <2>1. f.buffer # <<>> /\ 1 \in 1 .. Len(f.buffer)
    BY <1>2, EmptySeq
  <2>2. Head(f.buffer) = f.buffer[1] /\ f.buffer[1] \in Pieces
    BY <2>1, <1>1, ElementOfSeq, HeadTailProperties
  <2>3. 3 * (f.buffer[1].of - 1) < (3 * n + 1) + 1 /\ (3 * n + 1) + 1 <= 3 * f.buffer[1].of
    BY <2>1, <1>1 DEF Follow
  <2> QED
    BY <2>2, <2>3 DEF Pieces
<1>12. r.buffer \in Seq(Pieces) /\ Len(r.buffer) \in Nat /\ Taken(r) \in Nat
  BY <1>10, LenProperties DEF Filters, Taken
<1>13. 3 * (n + 1) + Taken(r) + Len(r.buffer) = 3 * n + Taken(f) + Len(f.buffer)
  <2> DEFINE t == Taken(r)
             l == Len(r.buffer)
             u == Taken(f)
             m == Len(f.buffer)
  <2>1. t \in Nat /\ l \in Nat /\ u = 1 /\ m \in Nat /\ t + l = m - 2
    BY <1>1, <1>2, <1>5, <1>10, <1>12
  <2> HIDE DEF t, l, u, m
  <2>2. 3 * (n + 1) + t + l = 3 * n + u + m
    BY <2>1
  <2> QED
    BY <2>2 DEF t, l, u, m
<1>14. r.shutdown = f.shutdown
  BY <1>3, <1>10
<1> QED
  BY <1>1, <1>2, <1>10, <1>11, <1>13, <1>14

(***************************************************************************)
(* PacketStream: what is on the way                                         *)
(***************************************************************************)
LEMMA Sum ==
    ASSUME NEW k \in Nat, NEW b \in Nat, NEW i \in Nat, NEW w \in Nat, NEW n \in Nat, NEW q \in Nat,
           k + b + i + w = 3 * n
    PROVE  /\ q = 3 => k + b + i + (w + q) = 3 * (n + 1)
           /\ q <= 2 => k + b + i + (w + q) <= 3 * n + 2
  OBVIOUS

(* More pieces enter the wire.                                              *)
LEMMA Entering ==
    ASSUME NEW k \in Nat, NEW b \in Seq(Pieces), NEW i \in Seq(Pieces), NEW w \in Seq(Pieces),
           NEW n \in Nat, Transit(k, b, i, w, n, FALSE),
           NEW q \in Seq(Pieces), Follow(q, 3 * n)
    PROVE  /\ w \o q \in Seq(Pieces)
           /\ Len(q) = 3 => Transit(k, b, i, w \o q, n + 1, FALSE)
           /\ Len(q) <= 2 => Transit(k, b, i, w \o q, n, TRUE)
<1> DEFINE l == k + Len(b) + Len(i)
<1>1. Len(b) \in Nat /\ Len(i) \in Nat /\ Len(w) \in Nat /\ k + Len(b) + Len(i) + Len(w) = 3 * n /\ Len(q) \in Nat
  BY LenProperties DEF Transit
<1>2. Follow(w, l) /\ Follow(b, k) /\ Follow(i, k + Len(b)) /\ l \in Nat
  BY <1>1 DEF Transit
<1>3. Follow(q, l + Len(w))
  BY <1>1
<1>4. w \o q \in Seq(Pieces) /\ Len(w \o q) = Len(w) + Len(q)
  BY Joined
<1>5. Follow(w \o q, l)
  BY <1>2, <1>3, FollowJoined
<1>6. /\ Len(q) = 3 => k + Len(b) + Len(i) + (Len(w) + Len(q)) = 3 * (n + 1)
      /\ Len(q) <= 2 => k + Len(b) + Len(i) + (Len(w) + Len(q)) <= 3 * n + 2
  BY <1>1, Sum, Zenon
<1> QED
  BY <1>2, <1>4, <1>5, <1>6 DEF Transit

LEMMA Pack ==
    ASSUME NEW n \in Nat
    PROVE  /\ Packet(n + 1) \in Seq(Pieces) /\ Len(Packet(n + 1)) = 3 /\ Follow(Packet(n + 1), 3 * n)
           /\ \A m \in 1 .. Size :
                 LET q == SubSeq(Packet(n + 1), 1, m)
                 IN  q \in Seq(Pieces) /\ Len(q) <= 2 /\ Follow(q, 3 * n)
<1>1. Packet(n + 1) \in Seq(Pieces) /\ Len(Packet(n + 1)) = 3
  <2>1. n + 1 \in Nat
    OBVIOUS
  <2> QED
    BY <2>1 DEF Packet, Pieces
<1>2. Follow(Packet(n + 1), 3 * n)
  <2>1. Packet(n + 1)[1].of = n + 1 /\ Packet(n + 1)[2].of = n + 1 /\ Packet(n + 1)[3].of = n + 1
    BY DEF Packet
  <2>2. \A j \in 1 .. 3 : j = 1 \/ j = 2 \/ j = 3
    OBVIOUS
  <2>3. \A j \in 1 .. 3 : Packet(n + 1)[j].of = n + 1
    BY <2>1, <2>2
  <2>4. \A j \in 1 .. 3 : 3 * ((n + 1) - 1) < 3 * n + j /\ 3 * n + j <= 3 * (n + 1)
    OBVIOUS
  <2> QED
    BY <1>1, <2>3, <2>4 DEF Follow
<1>3. ASSUME NEW q \in Seq(Pieces), Len(q) = 3, Follow(q, 3 * n), NEW m \in 1 .. Size
      PROVE  SubSeq(q, 1, m) \in Seq(Pieces) /\ Len(SubSeq(q, 1, m)) <= 2 /\ Follow(SubSeq(q, 1, m), 3 * n)
  <2>1. m \in 0 .. Len(q) /\ m <= 2 /\ 3 * n \in Nat
    BY <1>3 DEF Size
  <2> QED
    BY <1>3, <2>1, Cut, FollowCut
<1> QED
  BY <1>1, <1>2, <1>3

LEMMA Reading ==
    ASSUME NEW k \in Nat, NEW b \in Seq(Pieces), NEW i \in Seq(Pieces), NEW w \in Seq(Pieces),
           NEW n \in Nat, NEW broken \in BOOLEAN, Transit(k, b, i, w, n, broken), NEW m \in 1 .. Len(w)
    PROVE  /\ i \o SubSeq(w, 1, m) \in Seq(Pieces) /\ SubSeq(w, m + 1, Len(w)) \in Seq(Pieces)
           /\ Transit(k, b, i \o SubSeq(w, 1, m), SubSeq(w, m + 1, Len(w)), n, broken)
<1> DEFINE l == k + Len(b)
           r == SubSeq(w, 1, m)
           s == SubSeq(w, m + 1, Len(w))
<1>1. Len(b) \in Nat /\ Len(i) \in Nat /\ Len(w) \in Nat /\ l \in Nat /\ m \in Nat /\ m \in 0 .. Len(w)
  BY LenProperties
<1>2. Follow(b, k) /\ Follow(i, l) /\ Follow(w, l + Len(i)) /\ l + Len(i) \in Nat
  BY <1>1 DEF Transit
<1>3. r \in Seq(Pieces) /\ Len(r) = m /\ s \in Seq(Pieces) /\ Len(s) = Len(w) - m
  BY <1>1, Cut
<1>4. Follow(r, l + Len(i)) /\ Follow(s, l + Len(i) + m)
  BY <1>1, <1>2, FollowCut
<1>5. i \o r \in Seq(Pieces) /\ Len(i \o r) = Len(i) + m /\ Follow(i \o r, l)
  <2> HIDE DEF r, l
  <2>1. i \o r \in Seq(Pieces) /\ Len(i \o r) = Len(i) + m
    BY <1>3, Joined
  <2>2. Follow(i \o r, l)
    BY <1>1, <1>2, <1>3, <1>4, FollowJoined
  <2> QED
    BY <2>1, <2>2
<1>6. Follow(s, k + Len(b) + Len(i \o r))
  <2>1. l + Len(i) + m = k + Len(b) + Len(i \o r)
    BY <1>1, <1>5
  <2> QED
    BY <1>4, <2>1
<1>7. k + Len(b) + Len(i \o r) + Len(s) = k + Len(b) + Len(i) + Len(w)
  <2> HIDE DEF r, s
  <2> QED
    BY <1>1, <1>3, <1>5
<1> QED
  <2> HIDE DEF r, s
  <2>1. Transit(k, b, i \o r, s, n, broken)
    BY <1>2, <1>5, <1>6, <1>7 DEF Transit
  <2> QED
    BY <2>1, <1>3, <1>5 DEF r, s

LEMMA Filtering ==
    ASSUME NEW k \in Nat, NEW b \in Seq(Pieces), NEW i \in Seq(Pieces), NEW w \in Seq(Pieces),
           NEW n \in Nat, NEW broken \in BOOLEAN, Transit(k, b, i, w, n, broken)
    PROVE  b \o i \in Seq(Pieces) /\ Transit(k, b \o i, <<>>, w, n, broken)
<1>1. Len(b) \in Nat /\ Len(i) \in Nat /\ Len(w) \in Nat
  BY LenProperties
<1>2. Follow(b, k) /\ Follow(i, k + Len(b)) /\ Follow(w, k + Len(b) + Len(i))
  BY DEF Transit
<1>3. b \o i \in Seq(Pieces) /\ Len(b \o i) = Len(b) + Len(i) /\ Follow(b \o i, k)
  BY <1>2, FollowJoined, Joined
<1>4. /\ k + Len(b \o i) + Len(<<>>) = k + Len(b) + Len(i)
      /\ k + Len(b \o i) + Len(<<>>) + Len(w) = k + Len(b) + Len(i) + Len(w)
  BY <1>1, <1>3, FollowNone
<1> QED
  BY <1>2, <1>3, <1>4, FollowNone DEF Transit

(* The connection breaks, and what had arrived may be dropped.              *)
LEMMA Breaking ==
    ASSUME NEW k \in Nat, NEW b \in Seq(Pieces), NEW i \in Seq(Pieces), NEW w \in Seq(Pieces),
           NEW n \in Nat, NEW broken \in BOOLEAN, Transit(k, b, i, w, n, broken)
    PROVE  Transit(k, b, i, w, n, TRUE) /\ Transit(k, b, <<>>, <<>>, n, TRUE)
<1>1. Len(b) \in Nat /\ Len(i) \in Nat /\ Len(w) \in Nat
  BY LenProperties
<1>2. /\ Follow(b, k) /\ Follow(i, k + Len(b)) /\ Follow(w, k + Len(b) + Len(i))
      /\ k + Len(b) + Len(i) + Len(w) <= 3 * n + 2
  BY <1>1 DEF Transit
<1>3. k + Len(b) + Len(<<>>) + Len(<<>>) <= 3 * n + 2
  BY <1>1, <1>2, FollowNone
<1> QED
  BY <1>2, <1>3, FollowNone DEF Transit

(* The filter takes what is next.                                           *)
LEMMA Taking ==
    ASSUME NEW k \in Nat, NEW b \in Seq(Pieces), NEW i \in Seq(Pieces), NEW w \in Seq(Pieces),
           NEW n \in Nat, NEW broken \in BOOLEAN, Transit(k, b, i, w, n, broken),
           NEW l \in Nat, NEW c \in Seq(Pieces), l + Len(c) = k + Len(b), Follow(c, l)
    PROVE  Transit(l, c, i, w, n, broken)
<1>1. Len(b) \in Nat /\ Len(c) \in Nat /\ Len(i) \in Nat /\ Len(w) \in Nat
  BY LenProperties
<1>2. Follow(i, l + Len(c)) /\ Follow(w, l + Len(c) + Len(i))
  BY DEF Transit
<1> QED
  BY <1>1, <1>2 DEF Transit

(***************************************************************************)
(* PacketStream: types                                                      *)
(***************************************************************************)
LEMMA Made ==
    /\ \A s \in SocketStates : NewJob(s) \in Job /\ InputReady(s) \in Seq(Events)
    /\ \A type \in {"InputReady", "InputShutdown", "SocketDisconnected", "OutputError"} :
          /\ Raw(type) \in Events /\ Own(type) \in Events
          /\ <<Raw(type)>> \in Seq(Events) /\ <<Own(type)>> \in Seq(Events)
    /\ <<>> \in Seq(Events) /\ None \in Job
<1>1. \A s \in SocketStates : NewJob(s) \in Job
  BY DEF SocketStates, NewJob, Job
<1>2. \A type \in {"InputReady", "InputShutdown", "SocketDisconnected", "OutputError"} :
          Raw(type) \in Events /\ Own(type) \in Events
  BY DEF Raw, Own, Events
<1>3. \A e \in Events : <<e>> \in Seq(Events)
  OBVIOUS
<1>4. \A s \in SocketStates : InputReady(s) \in Seq(Events)
  BY <1>2, <1>3 DEF InputReady
<1>5. None \in Job
  BY DEF None, Job
<1> QED
  BY <1>1, <1>2, <1>3, <1>4, <1>5, EmptySeq

LEMMA TypedAtFirst == StreamInit => TypedStream
<1> SUFFICES ASSUME StreamInit PROVE TypedStream
  OBVIOUS
<1>1. <<>> \in Seq(Pieces) /\ <<>> \in Seq(Nat) /\ <<>> \in Seq(Events)
  OBVIOUS
<1>2. socket \in SocketStates /\ filter \in Filters
  BY <1>1 DEF StreamInit, SocketStates, Filters, Job
<1> QED
  BY <1>1, <1>2 DEF StreamInit, TypedStream

(* What a packet that is read leaves.                                       *)
LEMMA ReadPacketTyped ==
    ASSUME TypedStream, owner.reading => IsReady(filter), owner.reading,
           NEW posted \in Seq(Events), ReadPacket(posted)
    PROVE  /\ filter' \in Filters /\ owner' \in [greeted : BOOLEAN, reading : BOOLEAN, got : Seq(Nat)]
           /\ events' \in Seq(Events)
<1>1. /\ filter \in Filters /\ filter.buffer \in Seq(Pieces) /\ events \in Seq(Events) /\ IsReady(filter)
      /\ filter.size = 2 /\ owner \in [greeted : BOOLEAN, reading : BOOLEAN, got : Seq(Nat)]
  BY DEF TypedStream, Filters, IsReady, Size
<1>2. Len(filter.buffer) \in Nat /\ Len(filter.buffer) >= 2 /\ filter.buffer # <<>>
  BY <1>1, LenProperties, EmptySeq DEF IsReady
<1>3. Rest(filter) \in Filters
  <2> DEFINE g == [filter EXCEPT !.buffer = SubSeq(@, filter.size + 1, Len(@)), !.size = 0]
  <2>1. SubSeq(filter.buffer, 2 + 1, Len(filter.buffer)) \in Seq(Pieces)
    BY <1>1, <1>2, Cut
  <2>2. g \in Filters /\ g.buffer \in Seq(Pieces) /\ g.size = 0
    BY <1>1, <2>1 DEF Filters
  <2>3. CASE g.buffer = <<>>
    BY <2>2, <2>3 DEF Rest, ReadPacketSize
  <2>4. CASE g.buffer # <<>>
    <3>1. Tail(g.buffer) \in Seq(Pieces)
      BY <2>2, <2>4, HeadTailProperties
    <3>2. Rest(filter) = [g EXCEPT !.size = Size, !.buffer = Tail(@)]
      BY <2>2, <2>4 DEF Rest, ReadPacketSize
    <3> HIDE DEF g
    <3> QED
      BY <2>2, <3>1, <3>2 DEF Filters, Size
  <2> QED
    BY <2>3, <2>4
<1>4. Head(filter.buffer).of \in Nat
  <2>1. Head(filter.buffer) \in Pieces
    BY <1>1, <1>2, HeadTailProperties
  <2> QED
    BY <2>1 DEF Pieces
<1>5. owner' \in [greeted : BOOLEAN, reading : BOOLEAN, got : Seq(Nat)]
  <2>1. Append(owner.got, Head(filter.buffer).of) \in Seq(Nat)
    BY <1>1, <1>4, AppendProperties
  <2>2. (owner.greeted /\ IsReady(Rest(filter))) \in BOOLEAN
    BY <1>1
  <2> QED
    BY <1>1, <2>1, <2>2 DEF ReadPacket
<1>6. events' \in Seq(Events)
  <2>1. (IF EndsInput(Rest(filter)) THEN <<Own("InputShutdown")>> ELSE <<>>) \in Seq(Events)
    BY Made
  <2> QED
    BY <1>1, <2>1, ConcatProperties DEF ReadPacket
<1> QED
  BY <1>3, <1>5, <1>6 DEF ReadPacket

LEMMA AnswerTyped ==
    ASSUME TypedStream, owner.reading => IsReady(filter), owner.reading,
           NEW posted \in Seq(Events), Answer(posted)
    PROVE  /\ filter' \in Filters /\ owner' \in [greeted : BOOLEAN, reading : BOOLEAN, got : Seq(Nat)]
           /\ events' \in Seq(Events)
           /\ socket' \in SocketStates
           /\ job' \in {job, <<>>} \cup {<<j>> : j \in Job}
           /\ \E p \in Seq(Events) : ReadPacket(p)
<1>1. CASE Write /\ ReadPacket((IF socket.writable THEN <<>> ELSE <<Raw("OutputError")>>) \o posted)
  <2>1. (IF socket.writable THEN <<>> ELSE <<Raw("OutputError")>>) \o posted \in Seq(Events)
    BY Made, ConcatProperties
  <2>2. socket' \in SocketStates
    BY <1>1 DEF Write, TypedStream, SocketStates
  <2>3. job' \in {job, <<>>} \cup {<<j>> : j \in Job}
    BY <1>1, <2>2, Made DEF Write
  <2> QED
    BY <1>1, <2>1, <2>2, <2>3, ReadPacketTyped
<1>2. CASE UNCHANGED <<socket, job>> /\ ReadPacket(posted)
  BY <1>2, ReadPacketTyped DEF TypedStream
<1> QED
  BY <1>1, <1>2 DEF Answer

LEMMA TypedNext ==
    ASSUME TypedStream, owner.reading => IsReady(filter), [StreamNext]_streamVars
    PROVE  TypedStream'
<1>1. /\ sent \in Seq(Nat) /\ Len(sent) \in Nat /\ peer \in {"open", "closed", "broken"} /\ wire \in Seq(Pieces)
      /\ Len(wire) \in Nat /\ socket \in SocketStates /\ filter \in Filters /\ events \in Seq(Events)
      /\ owner \in [greeted : BOOLEAN, reading : BOOLEAN, got : Seq(Nat)]
      /\ told \in BOOLEAN /\ job \in {<<>>} \cup {<<j>> : j \in Job}
      /\ socket.input \in Seq(Pieces) /\ filter.buffer \in Seq(Pieces)
  BY LenProperties DEF TypedStream, SocketStates, Filters
<1>2. events # <<>> => Tail(events) \in Seq(Events)
  BY <1>1, HeadTailProperties
<1>3. CASE Send
  <2>1. wire' \in Seq(Pieces)
    BY <1>1, <1>3, Pack, ConcatProperties DEF Send
  <2>2. sent' \in Seq(Nat)
    BY <1>1, <1>3, AppendProperties DEF Send
  <2> QED
    BY <1>1, <1>3, <2>1, <2>2 DEF Send, TypedStream
<1>4. CASE Close
  BY <1>1, <1>4 DEF Close, TypedStream
<1>5. CASE Break
  <2>1. wire' \in Seq(Pieces)
    BY <1>1, <1>5, Pack, ConcatProperties DEF Break
  <2> QED
    BY <1>1, <1>5, <2>1 DEF Break, TypedStream
<1>6. CASE DoRead
  <2>1. PICK n \in 1 .. Len(wire) :
           LET input == socket.input \o SubSeq(wire, 1, n)
               s == [socket EXCEPT !.input = input, !.paused = @ \/ Full(input)]
           IN  /\ socket' = IF s.paused THEN [s EXCEPT !.job = NewJob(s)] ELSE s
               /\ wire' = SubSeq(wire, n + 1, Len(wire))
    BY <1>6 DEF DoRead
  <2> DEFINE input == socket.input \o SubSeq(wire, 1, n)
             s == [socket EXCEPT !.input = input, !.paused = @ \/ Full(input)]
  <2>2. n \in 0 .. Len(wire)
    BY <1>1
  <2>3. SubSeq(wire, 1, n) \in Seq(Pieces) /\ SubSeq(wire, n + 1, Len(wire)) \in Seq(Pieces)
    BY <1>1, <2>2, Cut
  <2>4. input \in Seq(Pieces)
    BY <1>1, <2>3, ConcatProperties
  <2>5. Full(input) \in BOOLEAN
    BY DEF Full
  <2>6. s \in SocketStates
    BY <1>1, <2>4, <2>5 DEF SocketStates
  <2>7. socket' = IF s.paused THEN [s EXCEPT !.job = NewJob(s)] ELSE s
    BY <2>1
  <2>8. socket' \in SocketStates
    <3> HIDE DEF s
    <3>1. NewJob(s) \in Job
      BY <2>6, Made
    <3> QED
      BY <2>6, <2>7, <3>1 DEF SocketStates
  <2>9. events' \in Seq(Events)
    BY <1>1, <1>6, Made, ConcatProperties DEF DoRead
  <2> QED
    BY <1>1, <1>6, <2>1, <2>3, <2>8, <2>9 DEF DoRead, peerVars, TypedStream
<1>7. CASE DoReadEnd
  <2> DEFINE s == [socket EXCEPT !.readable = FALSE]
  <2>1. s \in SocketStates /\ socket' = [s EXCEPT !.job = NewJob(s)]
    BY <1>1, <1>7 DEF SocketStates, DoReadEnd
  <2>2. socket' \in SocketStates
    <3> HIDE DEF s
    <3>1. NewJob(s) \in Job
      BY <2>1, Made
    <3> QED
      BY <2>1, <3>1 DEF SocketStates
  <2>3. events' \in Seq(Events)
    BY <1>1, <1>7, Made, AppendProperties DEF DoReadEnd
  <2> QED
    BY <1>1, <1>7, <2>2, <2>3 DEF DoReadEnd, peerVars, TypedStream
<1>8. CASE DoWrite
  <2> DEFINE s == [socket EXCEPT !.output = FALSE]
  <2>1. s \in SocketStates /\ socket' = [s EXCEPT !.job = NewJob(s)]
    BY <1>1, <1>8 DEF SocketStates, DoWrite
  <2>2. socket' \in SocketStates
    <3> HIDE DEF s
    <3>1. NewJob(s) \in Job
      BY <2>1, Made
    <3> QED
      BY <2>1, <3>1 DEF SocketStates
  <2> QED
    BY <1>1, <1>8, <2>2 DEF DoWrite, TypedStream
<1>9. CASE Reset
  <2>1. socket' \in SocketStates /\ wire' \in Seq(Pieces)
    BY <1>1, <1>9, Made, FollowNone DEF Reset, SocketStates
  <2>2. events' \in Seq(Events)
    BY <1>1, <1>9, Made, AppendProperties DEF Reset
  <2> QED
    BY <1>1, <1>9, <2>1, <2>2 DEF Reset, peerVars, TypedStream
<1>10. CASE SetJob
  <2>1. PICK j \in Job : job = <<j>>
    BY <1>1, <1>10 DEF SetJob, Idle
  <2>2. socket' \in SocketStates
    BY <1>1, <1>10, <2>1 DEF SetJob, SocketStates
  <2> QED
    BY <1>1, <1>10, <2>2 DEF SetJob, peerVars, TypedStream
<1>11. CASE FilterInputReady(socket.input)
  <2> DEFINE f == [filter EXCEPT !.buffer = @ \o socket.input]
  <2>1. f \in Filters
    BY <1>1, ConcatProperties DEF Filters
  <2>2. f.buffer \in Seq(Pieces) /\ filter' = ReadPacketSize(f)
    BY <1>11, <2>1 DEF FilterInputReady, Filters
  <2>3. filter' \in Filters
    <3> HIDE DEF f
    <3>1. f.buffer # <<>> => Tail(f.buffer) \in Seq(Pieces)
      BY <2>2, HeadTailProperties
    <3> QED
      BY <2>1, <2>2, <3>1 DEF ReadPacketSize, Filters, Size
  <2>4. socket' \in SocketStates
    BY <1>1, <1>11, FollowNone DEF FilterInputReady, Drained, SocketStates
  <2>5. job' \in {<<>>} \cup {<<j>> : j \in Job}
    BY <1>11, <2>4, Made DEF FilterInputReady
  <2>6. owner' \in [greeted : BOOLEAN, reading : BOOLEAN, got : Seq(Nat)] /\ events' \in Seq(Events)
    BY <1>1, <1>2, <1>11 DEF FilterInputReady, First
  <2> QED
    BY <1>1, <1>11, <2>3, <2>4, <2>5, <2>6 DEF FilterInputReady, peerVars, TypedStream
<1>12. CASE OwnInputReady
  <2>1. IsReady(filter) \in BOOLEAN
    BY DEF IsReady
  <2> QED
    BY <1>1, <1>2, <1>12, <2>1 DEF OwnInputReady, First, peerVars, TypedStream
<1>13. CASE HandleHello \/ HandleData
  <2>1. /\ owner.reading /\ UNCHANGED <<peerVars, wire, told>>
        /\ \E p \in {<<>>, <<Own("InputReady")>>} : Answer(p)
    BY <1>13 DEF HandleHello, HandleData
  <2>2. PICK p \in Seq(Events) : Answer(p)
    BY <2>1, Made
  <2> QED
    BY <1>1, <2>1, <2>2, AnswerTyped DEF peerVars, TypedStream
<1>14. CASE FilterInputShutdown
  <2>1. filter' \in Filters
    BY <1>1, <1>14 DEF FilterInputShutdown, Filters
  <2>2. told' \in BOOLEAN /\ events' \in Seq(Events)
    BY <1>2, <1>14 DEF FilterInputShutdown, First
  <2> QED
    BY <1>1, <1>14, <2>1, <2>2 DEF FilterInputShutdown, peerVars, TypedStream
<1>15. CASE HandleDisconnected
  BY <1>1, <1>2, <1>15 DEF HandleDisconnected, First, peerVars, TypedStream
<1>16. CASE UNCHANGED streamVars
  BY <1>1, <1>16 DEF streamVars, TypedStream
<1> QED
  BY <1>3, <1>4, <1>5, <1>6, <1>7, <1>8, <1>9, <1>10, <1>11, <1>12, <1>13, <1>14, <1>15, <1>16
     DEF StreamNext, Peer, Multiplexer, Loop

(***************************************************************************)
(* PacketStream: what is read stays within the mark                         *)
(***************************************************************************)
LEMMA MarkIs == HighWater \in Nat /\ HighWater >= 1 /\ \A q : Full(q) <=> Len(q) >= HighWater
  BY Parameters DEF Full

LEMMA ReadsOnceAtFirst == StreamInit => ReadsOnce
  BY MarkIs, FollowNone DEF StreamInit, ReadsOnce, Reads

(* One read, of n pieces.                                                   *)
LEMMA Slurped ==
    ASSUME NEW i \in Seq(Pieces), NEW w \in Seq(Pieces), NEW n \in 1 .. Len(w), Len(i) <= HighWater,
           n = 1 \/ ~Full(i \o SubSeq(w, 1, n - 1))
    PROVE  LET q == i \o SubSeq(w, 1, n)
           IN  /\ q \in Seq(Pieces) /\ Len(q) \in Nat /\ Len(q) <= HighWater + 1
               /\ Len(i) < HighWater => Len(q) <= HighWater
<1>1. Len(i) \in Nat /\ Len(w) \in Nat /\ n \in Nat /\ n >= 1 /\ n \in 0 .. Len(w) /\ n - 1 \in 0 .. Len(w)
  BY LenProperties
<1>2. SubSeq(w, 1, n) \in Seq(Pieces) /\ Len(SubSeq(w, 1, n)) = n
  BY <1>1, Cut
<1>3. SubSeq(w, 1, n - 1) \in Seq(Pieces) /\ Len(SubSeq(w, 1, n - 1)) = n - 1
  BY <1>1, Cut
<1>4. i \o SubSeq(w, 1, n) \in Seq(Pieces) /\ Len(i \o SubSeq(w, 1, n)) = Len(i) + n
  BY <1>2, Joined
<1>5. Len(i \o SubSeq(w, 1, n - 1)) = Len(i) + (n - 1)
  BY <1>3, Joined
<1>6. n = 1 \/ Len(i) + (n - 1) < HighWater
  <2>1. ASSUME n # 1 PROVE ~(Len(i) + (n - 1) >= HighWater)
    BY <2>1, <1>5 DEF Full
  <2>2. ASSUME NEW l \in Nat, ~(l + (n - 1) >= HighWater) PROVE l + (n - 1) < HighWater
    BY <1>1, <2>2, MarkIs
  <2> QED
    BY <1>1, <2>1, <2>2
<1>7. Len(i) + n <= HighWater + 1 /\ (Len(i) < HighWater => Len(i) + n <= HighWater) /\ Len(i) + n \in Nat
  BY <1>1, <1>6, MarkIs
<1> QED
  BY <1>4, <1>7

LEMMA ReadsOnceNext ==
    ASSUME TypedStream, ReadsOnce, [StreamNext]_streamVars
    PROVE  ReadsOnce'
<1>1. /\ socket \in SocketStates /\ socket.input \in Seq(Pieces) /\ Len(socket.input) \in Nat
      /\ socket.job \in Job /\ socket.paused \in BOOLEAN /\ job \in {<<>>} \cup {<<j>> : j \in Job}
      /\ wire \in Seq(Pieces) /\ Len(wire) \in Nat
  BY LenProperties DEF TypedStream, SocketStates
<1>2. CASE UNCHANGED <<socket, job>>
  BY <1>2 DEF ReadsOnce, Reads
<1>3. CASE DoRead
  <2>1. PICK n \in 1 .. Len(wire) :
           LET input == socket.input \o SubSeq(wire, 1, n)
               s == [socket EXCEPT !.input = input, !.paused = @ \/ Full(input)]
           IN  /\ n = 1 \/ ~Full(socket.input \o SubSeq(wire, 1, n - 1))
               /\ socket' = IF s.paused THEN [s EXCEPT !.job = NewJob(s)] ELSE s
    BY <1>3 DEF DoRead
  <2> DEFINE input == socket.input \o SubSeq(wire, 1, n)
             s == [socket EXCEPT !.input = input, !.paused = @ \/ Full(input)]
  <2>2. socket.job.read /\ job' = job /\ Len(socket.input) <= HighWater
    <3>1. socket.job.read /\ job' = job
      BY <1>3 DEF DoRead
    <3>2. ~(Len(socket.input) > HighWater)
      BY <3>1 DEF ReadsOnce
    <3> QED
      BY <1>1, <3>1, <3>2, MarkIs
  <2>3. n = 1 \/ ~Full(socket.input \o SubSeq(wire, 1, n - 1))
    BY <2>1
  <2>4. /\ input \in Seq(Pieces) /\ Len(input) \in Nat /\ Len(input) <= HighWater + 1
        /\ Len(socket.input) < HighWater => Len(input) <= HighWater
    BY <1>1, <2>2, <2>3, Slurped
  <2>5. /\ s.input = input /\ s.paused = (socket.paused \/ Full(input)) /\ s.readable = socket.readable
        /\ s.job = socket.job /\ socket' = IF s.paused THEN [s EXCEPT !.job = NewJob(s)] ELSE s
    BY <1>1, <2>1 DEF SocketStates
  <2>6. s \in SocketStates
    <3>1. Full(input) \in BOOLEAN
      BY DEF Full
    <3> QED
      BY <1>1, <2>4, <3>1 DEF SocketStates
  <2>7. /\ socket'.input = input /\ socket'.paused = (socket.paused \/ Full(input))
        /\ socket'.paused => ~socket'.job.read
        /\ ~socket'.paused => socket'.job = socket.job
    <3> HIDE DEF s, input
    <3>1. CASE s.paused
      <4>1. NewJob(s).read = FALSE
        BY <3>1 DEF NewJob
      <4> QED
        BY <2>5, <2>6, <3>1, <4>1 DEF SocketStates
    <3>2. CASE ~s.paused
      BY <2>5, <2>6, <3>2 DEF SocketStates
    <3> QED
      BY <3>1, <3>2
  <2>8. Len(input) > HighWater => ~Reads
    <3> HIDE DEF input
    <3>1. Reads => ~socket.paused
      BY <2>2 DEF ReadsOnce
    <3>2. ~socket.paused => Len(socket.input) < HighWater
      BY <1>1, MarkIs DEF ReadsOnce
    <3> QED
      BY <2>4, <3>1, <3>2, MarkIs
  <2>9. Full(input) = (Len(input) >= HighWater) /\ Reads' = Reads
    BY <2>2, MarkIs DEF Reads, Full
  <2> HIDE DEF input
  <2>10. Len(input) > HighWater => Full(input)
    BY <2>4, <2>9, MarkIs
  <2> QED
    BY <2>2, <2>4, <2>7, <2>8, <2>9, <2>10 DEF ReadsOnce
<1>4. CASE DoReadEnd
  <2> DEFINE s == [socket EXCEPT !.readable = FALSE]
  <2>1. s \in SocketStates /\ s.readable = FALSE /\ s.input = socket.input /\ s.paused = socket.paused
        /\ socket' = [s EXCEPT !.job = NewJob(s)]
    BY <1>1, <1>4 DEF DoReadEnd, SocketStates
  <2>2. socket'.input = socket.input /\ socket'.paused = socket.paused /\ ~socket'.job.read
    <3> HIDE DEF s
    <3>1. NewJob(s).read = FALSE
      BY <2>1 DEF NewJob
    <3> QED
      BY <2>1, <3>1 DEF SocketStates
  <2>3. job' = job /\ socket.job.read
    BY <1>4 DEF DoReadEnd
  <2> QED
    BY <1>1, <2>2, <2>3 DEF ReadsOnce, Reads, Full
<1>5. CASE DoWrite
  <2> DEFINE s == [socket EXCEPT !.output = FALSE]
  <2>1. s \in SocketStates /\ s.readable = socket.readable /\ s.input = socket.input /\ s.paused = socket.paused
        /\ socket' = [s EXCEPT !.job = NewJob(s)]
    BY <1>1, <1>5 DEF DoWrite, SocketStates
  <2>2. socket'.input = socket.input /\ socket'.paused = socket.paused /\ (socket'.job.read => ~socket.paused)
    <3> HIDE DEF s
    <3>1. NewJob(s).read => ~s.paused
      BY <2>1 DEF NewJob
    <3> QED
      BY <2>1, <3>1 DEF SocketStates
  <2>3. job' = job
    BY <1>5 DEF DoWrite
  <2> QED
    BY <1>1, <2>2, <2>3, MarkIs DEF ReadsOnce, Reads, Full
<1>6. CASE Reset
  <2>1. socket'.input = <<>> /\ socket'.paused = socket.paused /\ ~socket'.job.read /\ job' = job
    BY <1>1, <1>6 DEF Reset, SocketStates, None
  <2> QED
    BY <2>1, MarkIs, FollowNone DEF ReadsOnce, Reads
<1>7. CASE SetJob
  <2>1. socket'.input = socket.input /\ socket'.paused = socket.paused /\ socket'.job = job[1] /\ job' = <<>> /\ job # <<>>
    BY <1>1, <1>7 DEF SetJob, Idle, SocketStates
  <2> QED
    BY <2>1 DEF ReadsOnce, Reads, Full
<1>8. CASE FilterInputReady(socket.input)
  <2>1. socket'.input = <<>> /\ socket'.paused = FALSE
    BY <1>1, <1>8 DEF FilterInputReady, Drained, SocketStates
  <2> QED
    BY <2>1, MarkIs, FollowNone DEF ReadsOnce
<1>9. CASE \E p : Answer(p)
  <2>1. CASE Write
    <3>1. CASE UNCHANGED <<socket, job>>
      BY <1>2, <3>1
    <3>2. CASE ~UNCHANGED <<socket, job>>
      <4>1. socket' = [socket EXCEPT !.output = TRUE] /\ job' = IF socket.output THEN <<>> ELSE <<NewJob(socket')>>
        BY <2>1, <3>2 DEF Write
      <4>2. /\ socket'.input = socket.input /\ socket'.paused = socket.paused /\ socket'.job = socket.job
            /\ socket'.readable = socket.readable
        BY <1>1, <4>1 DEF SocketStates
      <4>3. Reads' => ~socket.paused
        BY <4>1, <4>2 DEF Reads, NewJob
      <4> QED
        BY <1>1, <4>2, <4>3, MarkIs DEF ReadsOnce, Full
    <3> QED
      BY <3>1, <3>2
  <2> QED
    BY <1>2, <1>9, <2>1 DEF Answer
<1> QED
  BY <1>2, <1>3, <1>4, <1>5, <1>6, <1>7, <1>8, <1>9
     DEF StreamNext, Peer, Multiplexer, Loop, streamVars, Send, Close, Break, OwnInputReady, HandleHello, HandleData,
         FilterInputShutdown, HandleDisconnected

(***************************************************************************)
(* PacketStream: packets arrive whole and in order                          *)
(***************************************************************************)
LEMMA Fields ==
    ASSUME TypedStream
    PROVE  /\ sent \in Seq(Nat) /\ Len(sent) \in Nat /\ wire \in Seq(Pieces) /\ Len(wire) \in Nat
           /\ socket \in SocketStates /\ socket.input \in Seq(Pieces)
           /\ filter \in Filters /\ filter.buffer \in Seq(Pieces)
           /\ owner.got \in Seq(Nat) /\ Len(owner.got) \in Nat
           /\ Taken(filter) \in Nat /\ 3 * Len(owner.got) + Taken(filter) \in Nat
           /\ events \in Seq(Events) /\ (peer = "broken") \in BOOLEAN
<1>1. Len(sent) \in Nat /\ Len(wire) \in Nat /\ Len(owner.got) \in Nat
  BY LenProperties DEF TypedStream
<1>2. Taken(filter) \in Nat
  BY DEF Taken
<1> QED
  BY <1>1, <1>2 DEF TypedStream, SocketStates, Filters

LEMMA StreamAtFirst == StreamInit => StreamInv
<1> SUFFICES ASSUME StreamInit PROVE StreamInv
  OBVIOUS
<1>1. /\ sent = <<>> /\ peer = "open" /\ wire = <<>> /\ socket.input = <<>> /\ filter.buffer = <<>>
      /\ filter.size = 0 /\ owner.got = <<>> /\ owner.reading = FALSE
  BY DEF StreamInit
<1>2. Len(sent) = 0 /\ Len(owner.got) = 0 /\ Taken(filter) = 0
  BY <1>1 DEF Taken
<1>3. GotInOrder
  BY <1>2 DEF GotInOrder
<1>4. Transit(0, <<>>, <<>>, <<>>, 0, FALSE)
  BY FollowNone DEF Transit
<1>5. InTransit
  <2>1. 3 * Len(owner.got) + Taken(filter) = 0 /\ (peer = "broken") = FALSE
    BY <1>1, <1>2
  <2> QED
    BY <1>1, <1>2, <1>4, <2>1 DEF InTransit, Whole
<1> QED
  BY <1>1, <1>3, <1>5 DEF StreamInv

(* Reading the next packet.                                                 *)
LEMMA GotNext ==
    ASSUME TypedStream, StreamInv, owner.reading, NEW p, ReadPacket(p)
    PROVE  /\ filter' \in Filters /\ Whole(filter')
           /\ 3 * Len(owner'.got) + Taken(filter') \in Nat
           /\ Transit(3 * Len(owner'.got) + Taken(filter'), filter'.buffer, socket.input, wire, Len(sent), peer = "broken")
           /\ owner'.got = Append(owner.got, Len(owner.got) + 1)
           /\ Len(owner.got) < Len(sent)
           /\ filter'.shutdown = filter.shutdown
           /\ owner'.reading => IsReady(filter')
<1> DEFINE n == Len(owner.got)
           r == Rest(filter)
           k == 3 * n + Taken(filter)
<1>1. /\ InTransit /\ IsReady(filter) /\ filter \in Filters /\ n \in Nat /\ k \in Nat /\ Len(sent) \in Nat
      /\ filter.buffer \in Seq(Pieces) /\ socket.input \in Seq(Pieces) /\ wire \in Seq(Pieces)
      /\ (peer = "broken") \in BOOLEAN /\ owner.got \in Seq(Nat)
  BY Fields DEF StreamInv
<1>2. Transit(k, filter.buffer, socket.input, wire, Len(sent), peer = "broken")
  BY <1>1 DEF InTransit
<1>3. Follow(filter.buffer, k)
  BY <1>2 DEF Transit
<1>4. /\ r \in Filters /\ r.shutdown = filter.shutdown /\ Whole(r)
      /\ Len(filter.buffer) \in Nat /\ Len(filter.buffer) >= 2 /\ Taken(filter) = 1
      /\ 3 * (n + 1) + Taken(r) + Len(r.buffer) = 3 * n + Taken(filter) + Len(filter.buffer)
      /\ Follow(r.buffer, 3 * (n + 1) + Taken(r))
      /\ Head(filter.buffer).of = n + 1
  BY <1>1, <1>3, PacketRead
<1>5. filter' = r /\ owner' = [owner EXCEPT !.got = Append(@, Head(filter.buffer).of), !.greeted = TRUE,
                                           !.reading = owner.greeted /\ IsReady(Rest(filter))]
  BY DEF ReadPacket
<1>6. owner'.got = Append(owner.got, n + 1) /\ (owner'.reading => IsReady(r))
  BY <1>4, <1>5 DEF TypedStream
<1>7. Len(owner'.got) = n + 1
  BY <1>1, <1>6, AppendProperties
<1>8. Taken(r) \in Nat /\ 3 * (n + 1) + Taken(r) \in Nat /\ r.buffer \in Seq(Pieces)
  <2>1. Taken(r) \in Nat
    BY DEF Taken
  <2>2. r.buffer \in Seq(Pieces)
    BY <1>4 DEF Filters
  <2>3. ASSUME NEW g \in Nat, NEW t \in Nat PROVE 3 * (g + 1) + t \in Nat
    OBVIOUS
  <2>4. n \in Nat
    BY <1>1
  <2> HIDE DEF r, n
  <2> QED
    BY <2>1, <2>2, <2>3, <2>4
<1>9. Transit(3 * (n + 1) + Taken(r), r.buffer, socket.input, wire, Len(sent), peer = "broken")
  <2> DEFINE l == 3 * (n + 1) + Taken(r)
             m == Len(sent)
             broken == peer = "broken"
             c == r.buffer
             b == filter.buffer
             i == socket.input
  <2>1. l \in Nat /\ c \in Seq(Pieces) /\ Follow(c, l) /\ l + Len(c) = k + Len(b)
    BY <1>4, <1>8
  <2>2. broken \in BOOLEAN /\ m \in Nat /\ k \in Nat /\ Transit(k, b, i, wire, m, broken)
    BY <1>1, <1>2
  <2>3. b \in Seq(Pieces) /\ i \in Seq(Pieces) /\ wire \in Seq(Pieces)
    BY <1>1
  <2> HIDE DEF l, c, k, m, broken, b, i
  <2>4. Transit(l, c, i, wire, m, broken)
    BY <2>1, <2>2, <2>3, Taking
  <2> QED
    BY <2>4 DEF l, c, m, broken, i
<1>10. n < Len(sent)
  <2>1. /\ IF peer = "broken" THEN k + Len(filter.buffer) + Len(socket.input) + Len(wire) <= 3 * Len(sent) + 2
                              ELSE k + Len(filter.buffer) + Len(socket.input) + Len(wire) = 3 * Len(sent)
        /\ Len(socket.input) \in Nat /\ Len(wire) \in Nat
    BY <1>1, <1>2, LenProperties DEF Transit
  <2>2. ASSUME NEW a \in Nat, NEW b \in Nat, NEW c \in Nat, NEW d \in Nat, NEW s \in Nat, b >= 2,
               3 * a + 1 + b + c + d <= 3 * s + 2 \/ 3 * a + 1 + b + c + d = 3 * s
        PROVE a < s
    BY <2>2
  <2>3. k = 3 * n + 1
    BY <1>4
  <2>4. \/ 3 * n + 1 + Len(filter.buffer) + Len(socket.input) + Len(wire) <= 3 * Len(sent) + 2
        \/ 3 * n + 1 + Len(filter.buffer) + Len(socket.input) + Len(wire) = 3 * Len(sent)
    BY <2>1, <2>3
  <2> HIDE DEF n
  <2> QED
    BY <1>1, <1>4, <2>1, <2>2, <2>4
<1> QED
  BY <1>4, <1>5, <1>6, <1>7, <1>8, <1>9, <1>10

LEMMA StreamKept ==
    ASSUME TypedStream, StreamInv, [StreamNext]_streamVars
    PROVE  StreamInv'
<1> DEFINE k == 3 * Len(owner.got) + Taken(filter)
           b == filter.buffer
           i == socket.input
           n == Len(sent)
           broken == peer = "broken"
<1>1. /\ k \in Nat /\ b \in Seq(Pieces) /\ i \in Seq(Pieces) /\ wire \in Seq(Pieces) /\ n \in Nat
      /\ sent \in Seq(Nat) /\ broken \in BOOLEAN /\ owner.got \in Seq(Nat) /\ Len(owner.got) \in Nat
  BY Fields
<1>2. /\ GotInOrder /\ (owner.reading => ~told /\ IsReady(filter))
      /\ ~told => Whole(filter) /\ Transit(k, b, i, wire, n, broken)
  BY DEF StreamInv, InTransit
<1>3. CASE Send
  <2>1. UNCHANGED <<peer, socket, filter, owner, told>> /\ peer = "open" /\ sent' = Append(sent, n + 1)
        /\ wire' = wire \o Packet(n + 1)
    BY <1>3 DEF Send
  <2>2. Len(sent') = n + 1 /\ sent'[n + 1] = n + 1 /\ \A j \in 1 .. n : sent'[j] = sent[j]
    BY <1>1, <2>1, AppendProperties
  <2>3. GotInOrder'
    BY <1>1, <1>2, <2>1, <2>2 DEF GotInOrder
  <2>4. ASSUME ~told PROVE Transit(k, b, i, wire', n + 1, FALSE)
    <3>1. Transit(k, b, i, wire, n, FALSE)
      BY <1>2, <2>1, <2>4
    <3>2. Packet(n + 1) \in Seq(Pieces) /\ Len(Packet(n + 1)) = 3 /\ Follow(Packet(n + 1), 3 * n)
      BY <1>1, Pack
    <3> QED
      BY <1>1, <2>1, <3>1, <3>2, Entering
  <2> QED
    BY <1>2, <2>1, <2>2, <2>3, <2>4 DEF StreamInv, InTransit
<1>4. CASE Close
  BY <1>2, <1>4 DEF Close, StreamInv, InTransit, GotInOrder
<1>5. CASE Break
  <2>1. UNCHANGED <<sent, socket, filter, owner, told>> /\ peer = "open" /\ peer' = "broken"
    BY <1>5 DEF Break
  <2>2. PICK m \in 1 .. Size : wire' = wire \o SubSeq(Packet(n + 1), 1, m)
    BY <1>5 DEF Break
  <2>3. ASSUME ~told PROVE Transit(k, b, i, wire', n, TRUE)
    <3>1. Transit(k, b, i, wire, n, FALSE)
      BY <1>2, <2>1, <2>3
    <3> DEFINE q == SubSeq(Packet(n + 1), 1, m)
    <3>2. q \in Seq(Pieces) /\ Len(q) <= 2 /\ Follow(q, 3 * n)
      BY <1>1, Pack
    <3>3. wire' = wire \o q
      BY <2>2
    <3> HIDE DEF q
    <3> QED
      BY <1>1, <3>1, <3>2, <3>3, Entering
  <2> QED
    BY <1>2, <2>1, <2>3 DEF StreamInv, InTransit, GotInOrder
<1>6. CASE DoRead
  <2>1. UNCHANGED <<sent, peer, filter, owner, told>> /\ ~told
    BY <1>6 DEF DoRead, peerVars
  <2>2. PICK m \in 1 .. Len(wire) :
           LET input == socket.input \o SubSeq(wire, 1, m)
               s == [socket EXCEPT !.input = input, !.paused = @ \/ Full(input)]
           IN  /\ socket' = IF s.paused THEN [s EXCEPT !.job = NewJob(s)] ELSE s
               /\ wire' = SubSeq(wire, m + 1, Len(wire))
    BY <1>6 DEF DoRead
  <2>3. socket'.input = i \o SubSeq(wire, 1, m)
    BY <2>2 DEF TypedStream, SocketStates
  <2>4. Transit(k, b, socket'.input, wire', n, broken)
    <3> HIDE DEF k, b, i, n, broken
    <3>1. Transit(k, b, i \o SubSeq(wire, 1, m), SubSeq(wire, m + 1, Len(wire)), n, broken)
      BY <1>1, <1>2, <2>1, Reading
    <3> QED
      BY <2>2, <2>3, <3>1
  <2> QED
    BY <1>2, <2>1, <2>4 DEF StreamInv, InTransit, GotInOrder
<1>7. CASE DoReadEnd
  <2>1. UNCHANGED <<sent, peer, wire, filter, owner, told>> /\ socket'.input = i
    BY <1>7 DEF DoReadEnd, peerVars, TypedStream, SocketStates
  <2> QED
    BY <1>2, <2>1 DEF StreamInv, InTransit, GotInOrder
<1>8. CASE DoWrite
  <2>1. UNCHANGED <<sent, wire, filter, owner, told>> /\ socket'.input = i /\ peer' \in {peer, "broken"}
    BY <1>8 DEF DoWrite, TypedStream, SocketStates
  <2>2. ~told => Transit(k, b, i, wire, n, peer' = "broken")
    BY <1>1, <1>2, <2>1, Breaking
  <2> QED
    BY <1>2, <2>1, <2>2 DEF StreamInv, InTransit, GotInOrder
<1>9. CASE Reset
  <2>1. UNCHANGED <<sent, peer, filter, owner, told>> /\ socket'.input = <<>> /\ wire' = <<>> /\ peer = "broken"
    BY <1>9 DEF Reset, peerVars, TypedStream, SocketStates
  <2>2. ~told => Transit(k, b, <<>>, <<>>, n, TRUE)
    BY <1>1, <1>2, Breaking
  <2> QED
    BY <1>2, <2>1, <2>2 DEF StreamInv, InTransit, GotInOrder
<1>10. CASE SetJob
  <2>1. UNCHANGED <<sent, peer, wire, filter, owner, told>> /\ socket'.input = i
    BY <1>10 DEF SetJob, peerVars, TypedStream, SocketStates
  <2> QED
    BY <1>2, <2>1 DEF StreamInv, InTransit, GotInOrder
<1>11. CASE FilterInputReady(i)
  <2> DEFINE f == [filter EXCEPT !.buffer = @ \o i]
  <2>1. /\ UNCHANGED <<sent, peer, wire, told>> /\ filter' = ReadPacketSize(f) /\ ~told /\ ~owner.reading
        /\ owner' = [owner EXCEPT !.reading = IsReady(filter') # IsReady(filter)]
    BY <1>11 DEF FilterInputReady, First, peerVars
  <2>2. socket'.input = <<>>
    BY <1>11 DEF FilterInputReady, Drained, TypedStream, SocketStates
  <2>3. b \o i \in Seq(Pieces) /\ Transit(k, b \o i, <<>>, wire, n, broken)
    BY <1>1, <1>2, <2>1, Filtering
  <2>4. f \in Filters /\ f.buffer = b \o i /\ f.size = filter.size /\ Taken(f) = Taken(filter)
    BY <2>3, Fields DEF Filters, Taken
  <2>5. 3 * Len(owner.got) \in Nat /\ Follow(f.buffer, 3 * Len(owner.got) + Taken(f))
    BY <1>1, <2>3, <2>4 DEF Transit
  <2>6. /\ filter' \in Filters /\ Whole(filter')
        /\ Taken(filter') + Len(filter'.buffer) = Taken(f) + Len(f.buffer)
        /\ Follow(filter'.buffer, 3 * Len(owner.got) + Taken(filter'))
    <3> HIDE DEF f
    <3> QED
      BY <2>1, <2>4, <2>5, SizeRead
  <2>7. 3 * Len(owner.got) + Taken(filter') \in Nat /\ filter'.buffer \in Seq(Pieces) /\ Taken(filter') \in Nat
    <3>1. Taken(filter') \in Nat
      BY DEF Taken
    <3> QED
      BY <2>5, <2>6, <3>1 DEF Filters
  <2>8. 3 * Len(owner.got) + Taken(filter') + Len(filter'.buffer) = k + Len(b \o i)
    <3> DEFINE g == 3 * Len(owner.got)
               t == Taken(filter)
               u == Taken(filter')
               l == Len(b \o i)
               m == Len(filter'.buffer)
    <3>1. g \in Nat /\ t \in Nat /\ u \in Nat /\ l \in Nat /\ m \in Nat /\ u + m = t + l
      BY <2>3, <2>4, <2>5, <2>6, <2>7, Fields, LenProperties
    <3> HIDE DEF g, t, u, l, m
    <3>2. g + u + m = g + t + l
      BY <3>1
    <3> QED
      BY <3>2 DEF g, t, u, l, m
  <2>9. Transit(3 * Len(owner.got) + Taken(filter'), filter'.buffer, <<>>, wire, n, broken)
    <3> DEFINE l == 3 * Len(owner.got) + Taken(filter')
               c == filter'.buffer
               d == b \o i
               e == <<>>
    <3>1. l \in Nat /\ c \in Seq(Pieces) /\ Follow(c, l) /\ l + Len(c) = k + Len(d)
      BY <2>6, <2>7, <2>8
    <3>2. d \in Seq(Pieces) /\ e \in Seq(Pieces) /\ Transit(k, d, e, wire, n, broken)
      BY <2>3, FollowNone
    <3>3. k \in Nat /\ wire \in Seq(Pieces) /\ n \in Nat /\ broken \in BOOLEAN
      BY <1>1
    <3> HIDE DEF l, c, d, e, k, n, broken
    <3>4. Transit(l, c, e, wire, n, broken)
      BY <3>1, <3>2, <3>3, Taking
    <3> QED
      BY <3>4 DEF l, c, e
  <2>10. UNCHANGED owner.got /\ (owner'.reading => IsReady(filter'))
    <3>1. UNCHANGED owner.got /\ owner'.reading = (IsReady(filter') # IsReady(filter))
      BY <2>1 DEF TypedStream
    <3>2. IsReady(filter) => IsReady(filter')
      <4>1. ASSUME IsReady(filter) PROVE filter' = f /\ Len(b) <= Len(f.buffer) /\ f.size = filter.size
        <5>2. filter' = f
          <6> HIDE DEF f
          <6> QED
            BY <2>1, <2>4, <4>1 DEF IsReady, ReadPacketSize
        <5>3. Len(b) <= Len(f.buffer)
          <6>1. Len(b) <= Len(b \o i)
            BY <1>1, Longer
          <6>2. f.buffer = b \o i
            BY <2>4
          <6> HIDE DEF f, b, i
          <6> QED
            BY <6>1, <6>2
        <5> QED
          BY <2>4, <5>2, <5>3
      <4>2. filter.size \in Nat /\ Len(b) \in Nat /\ Len(f.buffer) \in Nat
        BY <1>1, <2>3, <2>4, Fields, LenProperties DEF Filters, Size
      <4> HIDE DEF f
      <4> QED
        BY <4>1, <4>2 DEF IsReady
    <3>3. IsReady(filter) \in BOOLEAN /\ IsReady(filter') \in BOOLEAN
      BY DEF IsReady
    <3> QED
      BY <3>1, <3>2, <3>3
  <2> QED
    BY <1>2, <2>1, <2>2, <2>6, <2>9, <2>10 DEF StreamInv, InTransit, GotInOrder
<1>12. CASE OwnInputReady
  <2>1. UNCHANGED <<sent, peer, wire, socket, filter, told>> /\ ~told /\ owner'.got = owner.got
        /\ owner'.reading = IsReady(filter)
    BY <1>12 DEF OwnInputReady, First, peerVars, TypedStream
  <2> QED
    BY <1>2, <2>1 DEF StreamInv, InTransit, GotInOrder
<1>13. CASE HandleHello \/ HandleData
  <2>1. owner.reading /\ UNCHANGED <<peerVars, wire, told>> /\ \E p : Answer(p)
    BY <1>13 DEF HandleHello, HandleData
  <2>2. (\E p : ReadPacket(p)) /\ socket'.input = i
    BY <2>1 DEF Answer, Write, TypedStream, SocketStates
  <2>3. /\ Whole(filter')
        /\ Transit(3 * Len(owner'.got) + Taken(filter'), filter'.buffer, i, wire, n, broken)
        /\ owner'.got = Append(owner.got, Len(owner.got) + 1) /\ Len(owner.got) < Len(sent)
        /\ owner'.reading => IsReady(filter')
    BY <2>1, <2>2, GotNext
  <2>4. /\ Len(owner'.got) = Len(owner.got) + 1 /\ owner'.got[Len(owner.got) + 1] = Len(owner.got) + 1
        /\ \A j \in 1 .. Len(owner.got) : owner'.got[j] = owner.got[j]
    BY <1>1, <2>3, AppendProperties
  <2>5. GotInOrder'
    BY <1>1, <1>2, <2>1, <2>3, <2>4 DEF GotInOrder, peerVars
  <2> QED
    BY <1>2, <2>1, <2>2, <2>3, <2>5 DEF StreamInv, InTransit, peerVars
<1>14. CASE FilterInputShutdown
  <2>1. /\ UNCHANGED <<sent, peer, wire, socket, owner>> /\ ~told /\ ~owner.reading /\ told' = ~PacketKept(filter)
        /\ filter' = [filter EXCEPT !.shutdown = TRUE, !.size = IF IsReady(filter) THEN @ ELSE 0]
    BY <1>14 DEF FilterInputShutdown, First, peerVars
  <2>2. ~told' => filter'.size = filter.size /\ filter'.buffer = b
    BY <2>1 DEF TypedStream, Filters, PacketKept, IsReady
  <2> QED
    BY <1>2, <2>1, <2>2 DEF StreamInv, InTransit, GotInOrder, Whole, Taken
<1>15. CASE HandleDisconnected
  <2>1. UNCHANGED <<sent, peer, wire, socket, filter, owner>> /\ ~owner.reading /\ told' = TRUE
    BY <1>15 DEF HandleDisconnected, First, peerVars
  <2> QED
    BY <1>2, <2>1 DEF StreamInv, GotInOrder
<1>16. CASE UNCHANGED streamVars
  BY <1>2, <1>16 DEF streamVars, StreamInv, InTransit, GotInOrder
<1> QED
  BY <1>3, <1>4, <1>5, <1>6, <1>7, <1>8, <1>9, <1>10, <1>11, <1>12, <1>13, <1>14, <1>15, <1>16
     DEF StreamNext, Peer, Multiplexer, Loop

(***************************************************************************)
(* PacketStream: the end of the stream                                      *)
(***************************************************************************)
LEMMA Posted ==
    ASSUME NEW q \in Seq(Events), NEW r \in Seq(Events)
    PROVE  /\ \A e : Has(q \o r, e) => Has(q, e) \/ Has(r, e)
           /\ AheadOfEnd(q) => AheadOfEnd(q \o r)
<1>1. /\ Len(q) \in Nat /\ Len(r) \in Nat /\ Len(q \o r) = Len(q) + Len(r)
      /\ \A i \in 1 .. Len(q) : (q \o r)[i] = q[i]
      /\ \A i \in 1 .. Len(r) : (q \o r)[Len(q) + i] = r[i]
  BY Joined
<1>2. ASSUME NEW e, Has(q \o r, e) PROVE Has(q, e) \/ Has(r, e)
  <2>1. PICK i \in 1 .. Len(q) + Len(r) : (q \o r)[i] = e
    BY <1>1, <1>2 DEF Has
  <2>2. CASE i <= Len(q)
    BY <1>1, <2>1, <2>2 DEF Has
  <2>3. CASE i > Len(q)
    <3>1. i - Len(q) \in 1 .. Len(r) /\ Len(q) + (i - Len(q)) = i
      BY <1>1, <2>1, <2>3
    <3> QED
      BY <1>1, <2>1, <3>1 DEF Has
  <2> QED
    BY <1>1, <2>1, <2>2, <2>3
<1>3. ASSUME AheadOfEnd(q) PROVE AheadOfEnd(q \o r)
  <2>1. PICK i \in 1 .. Len(q) : q[i] = Raw("InputReady") /\ \A j \in 1 .. i : q[j] # Raw("InputShutdown")
    BY <1>3 DEF AheadOfEnd
  <2>2. i \in 1 .. Len(q) + Len(r) /\ \A j \in 1 .. i : j \in 1 .. Len(q)
    BY <1>1
  <2> QED
    BY <1>1, <2>1, <2>2 DEF AheadOfEnd
<1> QED
  BY <1>2, <1>3

LEMMA Distinct ==
    /\ \A a, b : Raw(a) # Own(b)
    /\ \A a, b : Raw(a) = Raw(b) \/ Own(a) = Own(b) => a = b
<1>1. \A a : Raw(a).type = a /\ Raw(a).from = "socket" /\ Own(a).type = a /\ Own(a).from = "filter"
  BY DEF Raw, Own
<1>2. "socket" # "filter"
  OBVIOUS
<1> QED
  BY <1>1, <1>2

LEMMA OneEvent == \A e, x : Has(<<e>>, x) => x = e
  BY DEF Has

LEMMA NoEvent == \A x : ~Has(<<>>, x)
  BY DEF Has

(* Input that is announced before the end is posted.                        *)
LEMMA Announced ==
    ASSUME NEW q \in Seq(Events), ~Has(q, Raw("InputShutdown"))
    PROVE  AheadOfEnd(q \o <<Raw("InputReady")>>)
<1> DEFINE e == Raw("InputReady")
<1>1. <<e>> \in Seq(Events) /\ e # Raw("InputShutdown")
  BY Made, Distinct
<1>2. /\ Len(q) \in Nat /\ Len(q \o <<e>>) = Len(q) + 1
      /\ \A i \in 1 .. Len(q) : (q \o <<e>>)[i] = q[i]
      /\ (q \o <<e>>)[Len(q) + 1] = e
  BY <1>1, Joined
<1>3. \A j \in 1 .. Len(q) + 1 : j \in 1 .. Len(q) \/ j = Len(q) + 1
  BY <1>2
<1>4. Len(q) + 1 \in 1 .. Len(q) + 1
  BY <1>2
<1> HIDE DEF e
<1>5. \A j \in 1 .. Len(q) + 1 : (q \o <<e>>)[j] # Raw("InputShutdown")
  BY <1>1, <1>2, <1>3 DEF Has
<1>6. \E i \in 1 .. Len(q \o <<e>>) : (q \o <<e>>)[i] = e /\ \A j \in 1 .. i : (q \o <<e>>)[j] # Raw("InputShutdown")
  BY <1>2, <1>4, <1>5
<1> QED
  BY <1>6 DEF AheadOfEnd, e

(* The first event is taken from the queue.                                 *)
LEMMA Dequeued ==
    ASSUME NEW q \in Seq(Events), q # <<>>
    PROVE  /\ \A e : Has(Tail(q), e) => Has(q, e)
           /\ Has(q, Head(q))
           /\ AheadOfEnd(q) => /\ Head(q) # Raw("InputShutdown")
                               /\ Head(q) # Raw("InputReady") => AheadOfEnd(Tail(q))
<1>1. /\ Len(q) \in Nat /\ Len(q) >= 1 /\ Len(Tail(q)) = Len(q) - 1 /\ Head(q) = q[1]
      /\ \A i \in 1 .. Len(q) - 1 : Tail(q)[i] = q[i + 1]
  BY LenProperties, EmptySeq, HeadTailProperties
<1>2. ASSUME NEW e, Has(Tail(q), e) PROVE Has(q, e)
  <2>1. PICK i \in 1 .. Len(q) - 1 : Tail(q)[i] = e
    BY <1>1, <1>2 DEF Has
  <2>2. i + 1 \in 1 .. Len(q) /\ q[i + 1] = e
    BY <1>1, <2>1
  <2> QED
    BY <2>2 DEF Has
<1>3. Has(q, Head(q))
  <2>1. 1 \in 1 .. Len(q)
    BY <1>1
  <2> QED
    BY <1>1, <2>1 DEF Has
<1>4. ASSUME AheadOfEnd(q)
      PROVE  /\ Head(q) # Raw("InputShutdown")
             /\ Head(q) # Raw("InputReady") => AheadOfEnd(Tail(q))
  <2>1. PICK i \in 1 .. Len(q) : q[i] = Raw("InputReady") /\ \A j \in 1 .. i : q[j] # Raw("InputShutdown")
    BY <1>4 DEF AheadOfEnd
  <2>2. 1 \in 1 .. i
    BY <1>1
  <2>3. ASSUME Head(q) # Raw("InputReady") PROVE AheadOfEnd(Tail(q))
    <3>1. i # 1 /\ i - 1 \in 1 .. Len(q) - 1 /\ (i - 1) + 1 = i
      BY <1>1, <2>1, <2>3
    <3>2. \A j \in 1 .. i - 1 : j \in 1 .. Len(q) - 1 /\ j + 1 \in 1 .. i
      BY <1>1, <3>1
    <3> QED
      BY <1>1, <2>1, <3>1, <3>2 DEF AheadOfEnd
  <2> QED
    BY <1>1, <2>1, <2>2, <2>3
<1> QED
  BY <1>2, <1>3, <1>4

(* When nothing is left, all the packets were read.                         *)
LEMMA NothingLeft ==
    ASSUME TypedStream, StreamInv, ~told, peer = "closed", socket.input = <<>>, wire = <<>>, ~IsReady(filter)
    PROVE  owner.got = sent
<1> DEFINE g == Len(owner.got)
           n == Len(sent)
           l == Len(filter.buffer)
<1>1. g \in Nat /\ n \in Nat /\ l \in Nat /\ sent \in Seq(Nat) /\ owner.got \in Seq(Nat) /\ filter.size \in {0, 2}
  BY Fields, LenProperties DEF Filters, Size
<1>2. GotInOrder /\ Whole(filter)
      /\ Transit(3 * g + Taken(filter), filter.buffer, <<>>, <<>>, n, FALSE)
  BY DEF StreamInv, InTransit
<1>3. 3 * g + Taken(filter) + l + 0 + 0 = 3 * n
  BY <1>2, FollowNone DEF Transit
<1>4. ASSUME filter.size = 0 PROVE g = n
  <2>1. l = 0 /\ Taken(filter) = 0
    BY <1>2, <1>4, FollowNone DEF Whole, Taken
  <2>2. 3 * g + 0 + 0 + 0 + 0 = 3 * n
    BY <1>3, <2>1
  <2> HIDE DEF g, n
  <2> QED
    BY <1>1, <2>2
<1>5. ASSUME filter.size = 2 PROVE g = n
  <2>1. ~(l >= 2) /\ Taken(filter) = 1
    BY <1>5 DEF IsReady, Taken
  <2>2. 3 * g + 1 + l + 0 + 0 = 3 * n
    BY <1>3, <2>1
  <2> HIDE DEF g, n, l
  <2> QED
    BY <1>1, <2>1, <2>2
<1>6. g = n
  BY <1>1, <1>4, <1>5
<1>7. \A i \in 1 .. n : owner.got[i] = sent[i]
  BY <1>2, <1>6 DEF GotInOrder
<1> QED
  BY <1>1, <1>6, <1>7, SeqEqual

LEMMA EndAtFirst == StreamInit => EndInOrder
  BY NoEvent DEF StreamInit, EndInOrder

LEMMA EndKept ==
    ASSUME TypedStream, StreamInv, EndInOrder, [StreamNext]_streamVars
    PROVE  EndInOrder'
<1>1. /\ socket \in SocketStates /\ filter \in Filters /\ events \in Seq(Events) /\ wire \in Seq(Pieces)
      /\ socket.input \in Seq(Pieces) /\ filter.buffer \in Seq(Pieces)
  BY Fields
<1>2. /\ socket.input # <<>> => AheadOfEnd(events)
      /\ ~socket.readable => wire = <<>> /\ peer # "open"
      /\ Has(events, Raw("InputShutdown")) \/ filter.shutdown => ~socket.readable
      /\ filter.shutdown => socket.input = <<>>
      /\ Has(events, Own("InputShutdown")) => filter.shutdown /\ filter.size = 0
      /\ Has(events, Raw("SocketDisconnected")) \/ Has(events, Raw("OutputError")) \/ ~socket.writable
         => peer = "broken"
      /\ told => AllGot
  BY DEF EndInOrder
<1>3. ASSUME events # <<>>, events' = Tail(events)
      PROVE  /\ \A e : Has(events', e) => Has(events, e)
             /\ Has(events, Head(events))
             /\ AheadOfEnd(events) => /\ Head(events) # Raw("InputShutdown")
                                      /\ Head(events) # Raw("InputReady") => AheadOfEnd(events')
  BY <1>1, <1>3, Dequeued
<1>4. CASE Send
  <2>1. UNCHANGED <<peer, socket, filter, events, owner, told>> /\ peer = "open"
    BY <1>4 DEF Send
  <2> QED
    BY <1>2, <2>1 DEF EndInOrder, AllGot
<1>5. CASE Close
  <2>1. UNCHANGED <<sent, wire, socket, filter, events, owner, told>> /\ peer = "open" /\ peer' = "closed"
    BY <1>5 DEF Close
  <2> QED
    BY <1>2, <2>1 DEF EndInOrder, AllGot
<1>6. CASE Break
  <2>1. UNCHANGED <<sent, socket, filter, events, owner, told>> /\ peer = "open" /\ peer' = "broken"
    BY <1>6 DEF Break
  <2> QED
    BY <1>2, <2>1 DEF EndInOrder, AllGot
<1>7. CASE DoRead
  <2>1. /\ UNCHANGED <<sent, peer, filter, owner, told>> /\ ~told /\ socket.readable
        /\ events' = events \o InputReady(socket)
    BY <1>7 DEF DoRead, peerVars
  <2>2. socket'.readable /\ socket'.writable = socket.writable
    BY <1>1, <1>7 DEF DoRead, SocketStates
  <2>3. AheadOfEnd(events')
    <3>1. CASE socket.input = <<>>
      BY <1>1, <1>2, <2>1, <3>1, Announced DEF InputReady
    <3>2. CASE socket.input # <<>>
      <4>1. InputReady(socket) \in Seq(Events)
        BY <1>1, Made
      <4> QED
        BY <1>1, <1>2, <2>1, <3>2, <4>1, Posted
    <3> QED
      BY <3>1, <3>2
  <2>4. \A e : Has(events', e) => Has(events, e) \/ e = Raw("InputReady")
    <3>1. InputReady(socket) \in Seq(Events) /\ \A e : Has(InputReady(socket), e) => e = Raw("InputReady")
      BY <1>1, Made, OneEvent, NoEvent DEF InputReady
    <3> QED
      BY <1>1, <2>1, <3>1, Posted
  <2>5. /\ Raw("InputShutdown") # Raw("InputReady") /\ Own("InputShutdown") # Raw("InputReady")
        /\ Raw("SocketDisconnected") # Raw("InputReady") /\ Raw("OutputError") # Raw("InputReady")
    BY Distinct
  <2>6. ~filter.shutdown /\ ~Has(events', Raw("InputShutdown"))
    BY <1>2, <2>1, <2>4, <2>5
  <2> QED
    BY <1>2, <2>1, <2>2, <2>3, <2>4, <2>5, <2>6 DEF EndInOrder
<1>8. CASE DoReadEnd
  <2>1. /\ UNCHANGED <<sent, peer, wire, filter, owner, told>> /\ wire = <<>> /\ peer # "open" /\ ~told
        /\ events' = Append(events, Raw("InputShutdown"))
    BY <1>8 DEF DoReadEnd, peerVars
  <2>2. socket'.input = socket.input /\ socket'.readable = FALSE /\ socket'.writable = socket.writable
    BY <1>1, <1>8 DEF DoReadEnd, SocketStates
  <2>3. events' = events \o <<Raw("InputShutdown")>> /\ <<Raw("InputShutdown")>> \in Seq(Events)
    BY <1>1, <2>1, Made, AppendIsConcat
  <2>4. /\ \A e : Has(events', e) => Has(events, e) \/ e = Raw("InputShutdown")
        /\ AheadOfEnd(events) => AheadOfEnd(events')
    BY <1>1, <2>3, Posted, OneEvent
  <2>5. /\ Own("InputShutdown") # Raw("InputShutdown")
        /\ Raw("SocketDisconnected") # Raw("InputShutdown") /\ Raw("OutputError") # Raw("InputShutdown")
    BY Distinct
  <2> QED
    BY <1>2, <2>1, <2>2, <2>4, <2>5 DEF EndInOrder
<1>9. CASE DoWrite
  <2>1. /\ UNCHANGED <<sent, wire, filter, events, owner, told>> /\ ~told
        /\ peer' = IF peer = "closed" THEN "broken" ELSE peer
    BY <1>9 DEF DoWrite
  <2>2. /\ socket'.input = socket.input /\ socket'.readable = socket.readable
        /\ socket'.writable = socket.writable
    BY <1>1, <1>9 DEF DoWrite, SocketStates
  <2> QED
    BY <1>2, <2>1, <2>2 DEF EndInOrder
<1>10. CASE Reset
  <2>1. /\ UNCHANGED <<sent, peer, filter, owner, told>> /\ peer = "broken" /\ ~told /\ wire' = <<>>
        /\ events' = Append(events, Raw("SocketDisconnected"))
    BY <1>10 DEF Reset, peerVars
  <2>2. socket'.input = <<>> /\ socket'.readable = FALSE
    BY <1>1, <1>10 DEF Reset, SocketStates
  <2>3. events' = events \o <<Raw("SocketDisconnected")>> /\ <<Raw("SocketDisconnected")>> \in Seq(Events)
    BY <1>1, <2>1, Made, AppendIsConcat
  <2>4. \A e : Has(events', e) => Has(events, e) \/ e = Raw("SocketDisconnected")
    BY <1>1, <2>3, Posted, OneEvent
  <2>5. Own("InputShutdown") # Raw("SocketDisconnected")
    BY Distinct
  <2> QED
    BY <1>2, <2>1, <2>2, <2>4, <2>5 DEF EndInOrder
<1>11. CASE SetJob
  <2>1. UNCHANGED <<sent, peer, wire, filter, events, owner, told>>
    BY <1>11 DEF SetJob, peerVars
  <2>2. /\ socket'.input = socket.input /\ socket'.readable = socket.readable
        /\ socket'.writable = socket.writable
    BY <1>1, <1>11 DEF SetJob, SocketStates
  <2> QED
    BY <1>2, <2>1, <2>2 DEF EndInOrder, AllGot
<1>12. CASE FilterInputReady(socket.input)
  <2> DEFINE f == [filter EXCEPT !.buffer = @ \o socket.input]
  <2>1. /\ UNCHANGED <<sent, peer, wire, told>> /\ ~told /\ events # <<>> /\ events' = Tail(events)
        /\ filter' = ReadPacketSize(f)
    BY <1>12 DEF FilterInputReady, First, peerVars
  <2>2. /\ socket'.input = <<>> /\ socket'.readable = socket.readable
        /\ socket'.writable = socket.writable
    BY <1>1, <1>12 DEF FilterInputReady, Drained, SocketStates
  <2>3. f.shutdown = filter.shutdown /\ f.size = filter.size /\ f.buffer = filter.buffer \o socket.input
    BY <1>1 DEF Filters
  <2>4. filter'.shutdown = filter.shutdown
    <3>1. f \in [buffer : Seq(Pieces), size : {0, Size}, shutdown : BOOLEAN]
      BY <1>1, ConcatProperties DEF Filters
    <3> HIDE DEF f
    <3> QED
      BY <2>1, <2>3, <3>1 DEF ReadPacketSize
  <2>5. filter.shutdown /\ filter.size = 0 => filter'.size = 0
    <3>1. ASSUME filter.shutdown, filter.size = 0 PROVE filter.buffer \o socket.input = <<>>
      <4>1. filter.buffer = <<>> /\ socket.input = <<>>
        BY <1>2, <2>1, <3>1 DEF StreamInv, InTransit, Whole
      <4> QED
        BY <1>1, <4>1, ConcatEmptySeq
    <3> HIDE DEF f
    <3> QED
      BY <2>1, <2>3, <3>1 DEF ReadPacketSize
  <2> QED
    BY <1>2, <1>3, <2>1, <2>2, <2>4, <2>5 DEF EndInOrder
<1>13. CASE OwnInputReady
  <2>1. /\ UNCHANGED <<sent, peer, wire, socket, filter, told>> /\ ~told /\ events # <<>>
        /\ events' = Tail(events) /\ Head(events) = Own("InputReady")
    BY <1>13 DEF OwnInputReady, First, peerVars
  <2>2. Head(events) # Raw("InputReady")
    BY <2>1, Distinct
  <2> QED
    BY <1>2, <1>3, <2>1, <2>2 DEF EndInOrder
<1>14. CASE HandleHello \/ HandleData
  <2>1. owner.reading /\ UNCHANGED <<peerVars, wire, told>> /\ ~told /\ IsReady(filter)
    BY <1>14 DEF HandleHello, HandleData, StreamInv
  <2>2. \E p \in {<<>>, <<Own("InputReady")>>} : Answer(p)
    BY <1>14 DEF HandleHello, HandleData
  <2>3. /\ socket'.input = socket.input /\ socket'.readable = socket.readable
        /\ socket'.writable = socket.writable
    BY <1>1, <2>2 DEF Answer, Write, SocketStates
  <2>4. PICK p \in Seq(Events) :
          /\ ReadPacket(p)
          /\ \A e : Has(p, e) => e = Own("InputReady") \/ (e = Raw("OutputError") /\ ~socket.writable)
    <3>1. PICK q \in {<<>>, <<Own("InputReady")>>} : Answer(q)
      BY <2>2
    <3>2. q \in Seq(Events) /\ \A e : Has(q, e) => e = Own("InputReady")
      BY <3>1, Made, OneEvent, NoEvent
    <3> DEFINE o == IF socket.writable THEN <<>> ELSE <<Raw("OutputError")>>
    <3>3. o \in Seq(Events) /\ \A e : Has(o, e) => e = Raw("OutputError") /\ ~socket.writable
      BY Made, OneEvent, NoEvent
    <3>4. ReadPacket(o \o q) \/ ReadPacket(q)
      BY <3>1 DEF Answer
    <3> HIDE DEF o
    <3>5. o \o q \in Seq(Events) /\ \A e : Has(o \o q, e) => Has(o, e) \/ Has(q, e)
      BY <3>2, <3>3, Posted, ConcatProperties
    <3> QED
      BY <3>2, <3>3, <3>4, <3>5
  <2>5. filter'.shutdown = filter.shutdown /\ filter' = Rest(filter) /\ filter.size # 0
    BY <2>1, <2>4, GotNext DEF ReadPacket, IsReady
  <2> DEFINE o == IF EndsInput(Rest(filter)) THEN <<Own("InputShutdown")>> ELSE <<>>
  <2>6. /\ o \in Seq(Events) /\ events' = (events \o o) \o p
        /\ \A e : Has(o, e) => e = Own("InputShutdown") /\ filter'.shutdown /\ filter'.size = 0
    BY <2>4, <2>5, Made, OneEvent, NoEvent DEF ReadPacket, EndsInput
  <2> HIDE DEF o
  <2>7. /\ \A e : Has(events', e) => Has(events, e) \/ Has(o, e) \/ Has(p, e)
        /\ AheadOfEnd(events) => AheadOfEnd(events')
    <3>1. events \o o \in Seq(Events)
      BY <1>1, <2>6, ConcatProperties
    <3> QED
      BY <1>1, <2>4, <2>6, <3>1, Posted
  <2>8. /\ Has(events', Raw("InputShutdown")) => Has(events, Raw("InputShutdown"))
        /\ Has(events', Raw("SocketDisconnected")) => Has(events, Raw("SocketDisconnected"))
        /\ Has(events', Raw("OutputError")) => Has(events, Raw("OutputError")) \/ ~socket.writable
        /\ Has(events', Own("InputShutdown")) => filter'.shutdown /\ filter'.size = 0
    <3>1. /\ Raw("InputShutdown") \notin {Own("InputShutdown"), Own("InputReady"), Raw("OutputError")}
          /\ Raw("SocketDisconnected") \notin {Own("InputShutdown"), Own("InputReady"), Raw("OutputError")}
          /\ Raw("OutputError") \notin {Own("InputShutdown"), Own("InputReady")}
          /\ Own("InputShutdown") \notin {Own("InputReady"), Raw("OutputError")}
      BY Distinct
    <3>2. ~Has(events, Own("InputShutdown"))
      BY <1>2, <2>5
    <3> QED
      BY <2>4, <2>6, <2>7, <3>1, <3>2
  <2> QED
    BY <1>2, <2>1, <2>3, <2>5, <2>7, <2>8 DEF EndInOrder, peerVars
<1>15. CASE FilterInputShutdown
  <2>1. /\ UNCHANGED <<sent, peer, wire, socket, owner>> /\ told' = ~PacketKept(filter) /\ ~told
        /\ events # <<>> /\ events' = Tail(events) /\ Head(events) = Raw("InputShutdown")
        /\ filter' = [filter EXCEPT !.shutdown = TRUE, !.size = IF IsReady(filter) THEN @ ELSE 0]
    BY <1>15 DEF FilterInputShutdown, First, peerVars
  <2>2. socket.input = <<>> /\ ~socket.readable /\ wire = <<>> /\ peer # "open"
    BY <1>2, <1>3, <2>1
  <2>3. filter'.shutdown /\ (filter.size = 0 => filter'.size = 0)
    BY <1>1, <2>1 DEF Filters
  <2>4. told' => AllGot'
    <3>1. ASSUME told', peer = "closed" PROVE owner.got = sent
      <4>1. ~IsReady(filter)
        BY <2>1, <3>1 DEF PacketKept, IsReady
      <4> QED
        BY <2>1, <2>2, <3>1, <4>1, NothingLeft
    <3>2. peer \in {"open", "closed", "broken"}
      BY DEF TypedStream
    <3> QED
      BY <2>1, <2>2, <3>1, <3>2 DEF AllGot
  <2> QED
    BY <1>2, <1>3, <2>1, <2>2, <2>3, <2>4 DEF EndInOrder
<1>16. CASE HandleDisconnected
  <2>1. PICK event \in {Own("InputShutdown"), Raw("SocketDisconnected"), Raw("OutputError")} : First(event)
    BY <1>16 DEF HandleDisconnected
  <2>2. /\ UNCHANGED <<sent, peer, wire, socket, filter, owner>> /\ told' = TRUE /\ ~told
        /\ events # <<>> /\ events' = Tail(events) /\ Head(events) = event
    BY <1>16, <2>1 DEF HandleDisconnected, First, peerVars
  <2>3. Has(events, event) /\ event # Raw("InputReady")
    BY <1>3, <2>1, <2>2, Distinct
  <2>4. AllGot
    <3>1. CASE event = Own("InputShutdown")
      <4>1. filter.shutdown /\ filter.size = 0 /\ socket.input = <<>> /\ wire = <<>> /\ peer # "open"
        BY <1>2, <2>3, <3>1
      <4>2. ~IsReady(filter) /\ peer \in {"open", "closed", "broken"}
        BY <4>1 DEF IsReady, TypedStream
      <4> QED
        BY <2>2, <4>1, <4>2, NothingLeft DEF AllGot
    <3>2. CASE event \in {Raw("SocketDisconnected"), Raw("OutputError")}
      BY <1>2, <2>3, <3>2 DEF AllGot
    <3> QED
      BY <2>1, <3>1, <3>2
  <2> QED
    BY <1>2, <1>3, <2>2, <2>3, <2>4 DEF EndInOrder, AllGot
<1>17. CASE UNCHANGED streamVars
  BY <1>2, <1>17 DEF streamVars, EndInOrder, AllGot
<1> QED
  BY <1>4, <1>5, <1>6, <1>7, <1>8, <1>9, <1>10, <1>11, <1>12, <1>13, <1>14, <1>15, <1>16, <1>17
     DEF StreamNext, Peer, Multiplexer, Loop

(***************************************************************************)
(* PacketStream: the theorems                                               *)
(***************************************************************************)
StreamIInv == TypedStream /\ ReadsOnce /\ StreamInv /\ EndInOrder

LEMMA StreamIInvKept == StreamIInv /\ [StreamNext]_streamVars => StreamIInv'
<1> SUFFICES ASSUME StreamIInv, [StreamNext]_streamVars PROVE StreamIInv'
  OBVIOUS
<1>1. TypedStream'
  BY TypedNext DEF StreamIInv, StreamInv
<1>2. ReadsOnce'
  BY ReadsOnceNext DEF StreamIInv
<1>3. StreamInv'
  BY StreamKept DEF StreamIInv
<1>4. EndInOrder'
  BY EndKept DEF StreamIInv
<1> QED
  BY <1>1, <1>2, <1>3, <1>4 DEF StreamIInv

(* In every reachable state the parts of a connection agree: types, the      *)
(* order of the pieces, the events of the end (TCPSocket, PacketStreamFilter,*)
(* Client).                                                                 *)
LEMMA StreamInvariant == StreamSpec => []StreamIInv
<1>1. StreamInit => StreamIInv
  BY TypedAtFirst, ReadsOnceAtFirst, StreamAtFirst, EndAtFirst DEF StreamIInv
<1> QED
  BY <1>1, StreamIInvKept, PTL DEF StreamSpec

(* What has been read and not yet taken stays within the high-water mark and *)
(* one more read, whichever of the multiplexer and the loop registers its    *)
(* job first (TCPSocket::doRead, read, write and newJob).                    *)
THEOREM StreamBounded == StreamSpec => []Bounded
<1>1. StreamIInv => Bounded
  BY DEF StreamIInv, TypedStream, SocketStates, ReadsOnce, Bounded
<1> QED
  BY <1>1, StreamInvariant, PTL

(* A client that is told of the end after the peer closed has read every     *)
(* packet that the peer sent (PacketStreamFilter::filterEvent, readPacket).  *)
THEOREM EndComesLast == StreamSpec => []ProcessedFirst
<1>1. StreamIInv => ProcessedFirst
  BY DEF StreamIInv, EndInOrder, AllGot, ProcessedFirst
<1> QED
  BY <1>1, StreamInvariant, PTL

(* Every step of the socket, the filter and the client is a step of the      *)
(* channel or leaves it alone.                                              *)
LEMMA StepOfChannel ==
    ASSUME StreamIInv, StreamIInv', [StreamNext]_streamVars
    PROVE  [Channel!Next]_(Channel!vars)
<1>1. /\ TypedStream /\ StreamInv /\ owner.got \in Seq(Nat) /\ sent \in Seq(Nat) /\ Len(owner.got) \in Nat
      /\ Len(sent) \in Nat
  BY Fields DEF StreamIInv
<1>2. CASE UNCHANGED <<sent, owner, peer, told>>
  BY <1>2 DEF Channel!vars
<1>3. CASE Send
  BY <1>3 DEF Send, Channel!Next, Channel!Send
<1>4. CASE Close \/ Break
  BY <1>4 DEF Close, Break, Channel!Next, Channel!End
<1>5. CASE DoWrite
  <2>1. UNCHANGED <<sent, owner, told>> /\ (peer' = peer \/ (peer = "closed" /\ peer' = "broken"))
    BY <1>5 DEF DoWrite
  <2> QED
    BY <2>1 DEF Channel!Next, Channel!Refuse, Channel!vars
<1>6. CASE FilterInputReady(socket.input) \/ OwnInputReady
  <2>1. UNCHANGED <<sent, peer, told>> /\ owner'.got = owner.got
    BY <1>1, <1>6 DEF FilterInputReady, OwnInputReady, peerVars, TypedStream
  <2> QED
    BY <2>1 DEF Channel!vars
<1>7. CASE HandleHello \/ HandleData
  <2>1. owner.reading /\ UNCHANGED <<sent, peer, told>> /\ ~told /\ \E p : ReadPacket(p)
    BY <1>1, <1>7 DEF HandleHello, HandleData, Answer, peerVars, StreamInv
  <2>2. owner'.got = Append(owner.got, Len(owner.got) + 1) /\ Len(owner.got) < Len(sent)
    BY <1>1, <2>1, GotNext
  <2> DEFINE n == Len(owner.got) + 1
  <2>3. /\ n \in Len(owner.got) + 1 .. Len(sent) /\ n \in 0 .. Len(sent)
        /\ Len(owner'.got) = n /\ owner'.got \in Seq(Nat)
    BY <1>1, <2>2, AppendProperties
  <2>4. \A i \in 1 .. n : owner'.got[i] = i
    BY <2>3 DEF StreamIInv, StreamInv, GotInOrder
  <2>5. /\ SubSeq(sent, 1, n) \in Seq(Nat) /\ Len(SubSeq(sent, 1, n)) = n
        /\ \A i \in 1 .. n : SubSeq(sent, 1, n)[i] = sent[i]
    BY <1>1, <2>3, Cut
  <2>6. \A i \in 1 .. n : i \in 1 .. Len(sent) /\ sent[i] = i
    BY <1>1, <2>3 DEF StreamInv, GotInOrder
  <2>7. owner'.got = SubSeq(sent, 1, n)
    <3> HIDE DEF n
    <3> QED
      BY <2>3, <2>4, <2>5, <2>6, SeqEqual
  <2> QED
    BY <2>1, <2>2, <2>3, <2>7 DEF Channel!Next, Channel!Deliver
<1>8. CASE FilterInputShutdown \/ HandleDisconnected
  <2>1. UNCHANGED <<sent, peer, owner>> /\ ~told /\ told' \in BOOLEAN
    BY <1>8 DEF FilterInputShutdown, HandleDisconnected, First, peerVars, StreamIInv, TypedStream
  <2>2. told' => peer = "broken" \/ (peer = "closed" /\ owner.got = sent)
    BY <2>1 DEF StreamIInv, EndInOrder, AllGot
  <2>3. told \in BOOLEAN
    BY <1>1 DEF TypedStream
  <2> QED
    BY <2>1, <2>2, <2>3 DEF Channel!Next, Channel!Tell, Channel!vars
<1> QED
  BY <1>2, <1>3, <1>4, <1>5, <1>6, <1>7, <1>8
     DEF StreamNext, Peer, Multiplexer, Loop, streamVars, peerVars, DoRead, DoReadEnd, Reset, SetJob

(* Packets reach the client whole, in order and once, and the end after the  *)
(* last of them, through partial reads, a paused socket, jobs registered     *)
(* late, resets and packets that wait for each other (the safety part of     *)
(* Implements: TCPSocket, PacketStreamFilter and Client).                    *)
THEOREM StreamIsChannel == StreamSpec => Channel!Safety
<1>1. StreamInit => Channel!Init
  BY DEF StreamInit, Channel!Init
<1>2. StreamIInv /\ StreamIInv' /\ [StreamNext]_streamVars => [Channel!Next]_(Channel!vars)
  BY StepOfChannel
<1> QED
  BY <1>1, <1>2, StreamInvariant, PTL DEF StreamSpec, Channel!Safety
=============================================================================
