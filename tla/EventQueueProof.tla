-------------------------- MODULE EventQueueProof --------------------------
(***************************************************************************)
(* Proofs about EventQueue, for any number of threads, events and timers:   *)
(* ids are never used twice, countdowns are exact, and the queue implements *)
(* EventDelivery.                                                           *)
(***************************************************************************)
EXTENDS EventQueue, SequenceTheorems, FiniteSetTheorems, TLAPS

(***************************************************************************)
(* Sequences                                                               *)
(***************************************************************************)

LEMMA SetOfSeq ==
    ASSUME NEW S, NEW s \in Seq(S)
    PROVE  /\ ToSet(s) = {s[i] : i \in 1..Len(s)}
           /\ ToSet(s) \subseteq S
           /\ IsInjective(s) <=> \A i, j \in 1..Len(s) : s[i] = s[j] => i = j
<1>1. DOMAIN s = 1..Len(s) /\ \A i \in 1..Len(s) : s[i] \in S
  BY LenProperties, ElementOfSeq
<1> QED
  BY <1>1 DEF ToSet, IsInjective

(* Appending an element that is not there.                                  *)
LEMMA AppendFresh ==
    ASSUME NEW S, NEW s \in Seq(S), NEW e \in S
    PROVE  /\ Append(s, e) \in Seq(S) /\ Len(Append(s, e)) = Len(s) + 1
           /\ ToSet(Append(s, e)) = ToSet(s) \cup {e}
           /\ IsInjective(s) /\ e \notin ToSet(s) => IsInjective(Append(s, e))
<1> DEFINE t == Append(s, e)
<1>1. /\ t \in Seq(S) /\ Len(t) = Len(s) + 1 /\ Len(s) \in Nat
      /\ \A i \in 1..Len(s) : t[i] = s[i]
      /\ t[Len(s) + 1] = e
  BY AppendProperties, LenProperties
<1> HIDE DEF t
<1>2. \A i \in 1..Len(t) : i \in 1..Len(s) \/ i = Len(s) + 1
  BY <1>1
<1>3. \A i \in 1..Len(s) : i \in 1..Len(t)
  BY <1>1
<1>4. ToSet(t) = ToSet(s) \cup {e}
  <2>1. ToSet(t) = {t[i] : i \in 1..Len(t)} /\ ToSet(s) = {s[i] : i \in 1..Len(s)}
    BY <1>1, SetOfSeq
  <2>2. Len(s) + 1 \in 1..Len(t)
    BY <1>1
  <2> QED
    BY <1>1, <1>2, <1>3, <2>1, <2>2
<1>5. ASSUME IsInjective(s), e \notin ToSet(s)
      PROVE  IsInjective(t)
  <2>1. \A i, j \in 1..Len(s) : s[i] = s[j] => i = j
    BY <1>5, SetOfSeq
  <2>2. \A i \in 1..Len(s) : s[i] # e
    BY <1>5, SetOfSeq
  <2> SUFFICES ASSUME NEW i \in 1..Len(t), NEW j \in 1..Len(t), t[i] = t[j]
               PROVE  i = j
    BY <1>1, SetOfSeq
  <2> QED
    BY <1>1, <1>2, <2>1, <2>2
<1> QED
  BY <1>1, <1>4, <1>5 DEF t

(* Taking the first element away.                                           *)
LEMMA TailDistinct ==
    ASSUME NEW S, NEW s \in Seq(S), s # <<>>
    PROVE  /\ Head(s) \in S /\ Head(s) \in ToSet(s)
           /\ Tail(s) \in Seq(S) /\ Len(Tail(s)) = Len(s) - 1
           /\ ToSet(s) = {Head(s)} \cup ToSet(Tail(s))
           /\ IsInjective(s) => IsInjective(Tail(s)) /\ Head(s) \notin ToSet(Tail(s))
<1> DEFINE t == Tail(s)
<1>1. /\ t \in Seq(S) /\ Len(t) = Len(s) - 1 /\ Len(s) \in Nat \ {0}
      /\ \A i \in 1..Len(t) : t[i] = s[i + 1]
      /\ Head(s) = s[1] /\ s[1] \in S
  BY HeadTailProperties, LenProperties, EmptySeq, ElementOfSeq
<1> HIDE DEF t
<1>2. ToSet(t) = {t[i] : i \in 1..Len(t)} /\ ToSet(s) = {s[i] : i \in 1..Len(s)}
  BY <1>1, SetOfSeq
<1>3. \A i \in 1..Len(s) : i = 1 \/ (i - 1 \in 1..Len(t) /\ t[i - 1] = s[i])
  <2> TAKE i \in 1..Len(s)
  <2> SUFFICES ASSUME i # 1 PROVE i - 1 \in 1..Len(t) /\ t[i - 1] = s[i]
    OBVIOUS
  <2>1. i - 1 \in 1..Len(t) /\ (i - 1) + 1 = i
    BY <1>1
  <2> QED
    BY <1>1, <2>1
<1>4. \A i \in 1..Len(t) : i + 1 \in 1..Len(s) /\ i + 1 # 1
  BY <1>1
<1>5. 1 \in 1..Len(s)
  BY <1>1
<1>6. ToSet(s) = {s[1]} \cup ToSet(t)
  <2>1. \A i \in 1..Len(s) : s[i] \in {s[1]} \cup ToSet(t)
    BY <1>2, <1>3
  <2>2. \A i \in 1..Len(t) : t[i] \in ToSet(s)
    BY <1>1, <1>2, <1>4
  <2> QED
    BY <1>2, <1>5, <2>1, <2>2
<1>7. ASSUME IsInjective(s)
      PROVE  IsInjective(t) /\ s[1] \notin ToSet(t)
  <2>1. \A i, j \in 1..Len(s) : s[i] = s[j] => i = j
    BY <1>7, SetOfSeq
  <2>2. \A i, j \in 1..Len(t) : t[i] = t[j] => i = j
    BY <1>1, <1>4, <2>1
  <2>3. \A i \in 1..Len(t) : t[i] # s[1]
    BY <1>1, <1>4, <1>5, <2>1
  <2> QED
    BY <1>1, <1>2, <2>2, <2>3, SetOfSeq
<1> QED
  BY <1>1, <1>2, <1>5, <1>6, <1>7 DEF t

(* Putting an element in front.                                             *)
LEMMA ConsProperties ==
    ASSUME NEW S, NEW s \in Seq(S), NEW e \in S
    PROVE  /\ <<e>> \o s \in Seq(S) /\ <<e>> \o s # <<>>
           /\ Head(<<e>> \o s) = e /\ Tail(<<e>> \o s) = s
<1> DEFINE c == <<e>> \o s
<1>1. <<e>> \in Seq(S) /\ Len(<<e>>) = 1 /\ <<e>>[1] = e
  OBVIOUS
<1>2. /\ c \in Seq(S) /\ Len(c) = 1 + Len(s) /\ Len(s) \in Nat
      /\ \A i \in 1..1 + Len(s) : c[i] = IF i <= 1 THEN <<e>>[i] ELSE s[i - 1]
  BY <1>1, ConcatProperties, LenProperties
<1> HIDE DEF c
<1>3. c # <<>>
  BY <1>2
<1>4. /\ Tail(c) \in Seq(S) /\ Len(Tail(c)) = Len(c) - 1
      /\ \A i \in 1..Len(Tail(c)) : Tail(c)[i] = c[i + 1]
  BY <1>2, <1>3, HeadTailProperties
<1>5. Len(Tail(c)) = Len(s)
  BY <1>2, <1>4
<1>6. \A i \in 1..Len(Tail(c)) : Tail(c)[i] = s[i]
  <2> TAKE i \in 1..Len(Tail(c))
  <2>1. i + 1 \in 1..1 + Len(s) /\ ~(i + 1 <= 1) /\ (i + 1) - 1 = i
    BY <1>2, <1>5
  <2>2. c[i + 1] = s[(i + 1) - 1]
    BY <1>2, <2>1
  <2> QED
    BY <1>4, <2>1, <2>2
<1>7. Tail(c) = s
  BY <1>4, <1>5, <1>6, SeqEqual
<1>8. Head(c) = e
  <2>1. 1 \in 1..1 + Len(s) /\ c[1] = <<e>>[1]
    BY <1>2
  <2> QED
    BY <1>1, <1>2, <2>1
<1> QED
  BY <1>2, <1>3, <1>7, <1>8 DEF c

(***************************************************************************)
(* The queue                                                               *)
(***************************************************************************)

LEMMA QueueType ==
    ASSUME TypeOK
    PROVE  /\ Queued \in Seq(Nat) /\ Len(Queued) \in Nat /\ Len(oldIDs) \in Nat
           /\ Stored \in Seq(Events) /\ Len(Stored) = Len(Queued)
           /\ \A i \in 1..Len(Queued) : Stored[i] = table[Queued[i]]
           /\ Waiting \in Seq(Events)
           /\ taken # None => Queued # <<>> /\ Head(Queued) = taken /\ Tail(Queued) = buffer
           /\ taken = None => Queued = buffer
<1>1. buffer \in Seq(Nat) /\ taken \in Nat \cup {None} /\ oldIDs \in Seq(Nat)
  BY DEF TypeOK
<1>3. taken # None => Queued \in Seq(Nat) /\ Queued # <<>> /\ Head(Queued) = taken /\ Tail(Queued) = buffer
  <2> SUFFICES ASSUME taken # None
               PROVE  /\ <<taken>> \o buffer \in Seq(Nat) /\ <<taken>> \o buffer # <<>>
                      /\ Head(<<taken>> \o buffer) = taken /\ Tail(<<taken>> \o buffer) = buffer
    BY DEF Queued
  <2>1. taken \in Nat
    BY <1>1
  <2> QED
    BY <1>1, <2>1, ConsProperties
<1>4. Queued \in Seq(Nat)
  BY <1>1, <1>3 DEF Queued
<1>5. \A i \in 1..Len(Queued) : Queued[i] \in DOMAIN table /\ table[Queued[i]] \in Events
  <2>1. DOMAIN table = {Queued[i] : i \in 1..Len(Queued)}
    BY <1>4, SetOfSeq DEF TypeOK, IDs
  <2> QED
    BY <2>1 DEF TypeOK
<1>6. Len(Queued) \in Nat /\ Len(oldIDs) \in Nat
  BY <1>1, <1>4, LenProperties
<1>7. /\ Stored \in Seq(Events) /\ Len(Stored) = Len(Queued)
      /\ \A i \in 1..Len(Queued) : Stored[i] = table[Queued[i]]
  <2>1. Stored \in [1..Len(Queued) -> Events]
    BY <1>5 DEF Stored
  <2> QED
    BY <1>6, <2>1 DEF Stored
<1>8. Waiting \in Seq(Events)
  BY <1>7, ConcatProperties DEF Waiting, TypeOK
<1> QED
  BY <1>1, <1>3, <1>4, <1>6, <1>7, <1>8 DEF Queued

LEMMA IntervalSize ==
    ASSUME NEW n \in Nat
    PROVE  Cardinality(0..n - 1) = n
<1>1. 0 \in Int /\ n - 1 \in Int
  OBVIOUS
<1>2. Cardinality(0..n - 1) = IF 0 > n - 1 THEN 0 ELSE (n - 1) - 0 + 1
  BY <1>1, FS_Interval
<1> QED
  BY <1>2

(* saveEvent picks an id that is not in use: the last free one or, when      *)
(* none is free, the number of events in the table.                         *)
LEMMA NewIDUnused ==
    ASSUME TypeOK
    PROVE  NewID \in Nat /\ NewID \notin DOMAIN table
<1>1. CASE oldIDs # <<>>
  <2>1. Len(oldIDs) \in Nat \ {0} /\ oldIDs \in Seq(Nat)
    BY <1>1, EmptySeq DEF TypeOK
  <2>2. oldIDs[Len(oldIDs)] \in Nat /\ oldIDs[Len(oldIDs)] \in ToSet(oldIDs)
    BY <2>1, SetOfSeq, ElementOfSeq
  <2> QED
    BY <1>1, <2>2 DEF NewID, Last, TypeOK, IDs
<1>2. CASE oldIDs = <<>>
  <2>1. ToSet(oldIDs) = {} /\ Len(oldIDs) = 0
    BY <1>2 DEF ToSet
  <2>2. DOMAIN table = 0..Len(Queued) - 1
    BY <2>1, QueueType DEF TypeOK, IDs
  <2>3. Cardinality(0..Len(Queued) - 1) = Len(Queued)
    BY QueueType, IntervalSize
  <2>4. NewID = Len(Queued)
    BY <1>2, <2>2, <2>3 DEF NewID
  <2> QED
    BY <2>2, <2>4, QueueType
<1> QED
  BY <1>1, <1>2

(* The free ids after the last one was handed out.                          *)
LEMMA FrontDistinct ==
    ASSUME NEW S, NEW s \in Seq(S), s # <<>>, IsInjective(s)
    PROVE  /\ Front(s) \in Seq(S) /\ Len(Front(s)) = Len(s) - 1
           /\ IsInjective(Front(s))
           /\ ToSet(s) = ToSet(Front(s)) \cup {Last(s)} /\ Last(s) \notin ToSet(Front(s))
<1> DEFINE f == Front(s)
<1>1. Len(s) \in Nat \ {0} /\ \A i \in 1..Len(s) : s[i] \in S
  BY EmptySeq, ElementOfSeq
<1>2. f \in Seq(S) /\ Len(f) = Len(s) - 1 /\ \A i \in 1..Len(f) : f[i] = s[i]
  <2>1. \A i \in 1..Len(s) - 1 : s[i] \in S
    BY <1>1
  <2>2. /\ SubSeq(s, 1, Len(s) - 1) \in Seq(S)
        /\ Len(SubSeq(s, 1, Len(s) - 1)) = IF 1 <= Len(s) - 1 THEN (Len(s) - 1) - 1 + 1 ELSE 0
        /\ \A i \in 1..(Len(s) - 1) - 1 + 1 : SubSeq(s, 1, Len(s) - 1)[i] = s[1 + i - 1]
    BY <1>1, <2>1, SubSeqProperties
  <2>3. Len(f) = Len(s) - 1
    <3>1. Len(f) = IF 1 <= Len(s) - 1 THEN (Len(s) - 1) - 1 + 1 ELSE 0
      BY <2>2 DEF Front
    <3>2. CASE Len(s) = 1
      BY <3>1, <3>2
    <3>3. CASE Len(s) # 1
      <4> DEFINE n == Len(s)
      <4>1. n \in Nat \ {0} /\ n # 1
        BY <1>1, <3>3
      <4> HIDE DEF n
      <4>2. 1 <= n - 1 /\ (n - 1) - 1 + 1 = n - 1
        BY <4>1
      <4> QED
        BY <3>1, <4>2 DEF n
    <3> QED
      BY <3>2, <3>3
  <2>4. \A i \in 1..Len(s) - 1 : f[i] = s[i]
    <3>1. \A i \in 1..Len(s) - 1 : i \in 1..(Len(s) - 1) - 1 + 1 /\ 1 + i - 1 = i
      BY <1>1
    <3> QED
      BY <2>2, <3>1 DEF Front
  <2> QED
    BY <2>2, <2>3, <2>4 DEF Front
<1> HIDE DEF f
<1>3. \A i, j \in 1..Len(s) : s[i] = s[j] => i = j
  BY SetOfSeq
<1>4. IsInjective(f)
  <2>1. \A i, j \in 1..Len(f) : f[i] = f[j] => i = j
    BY <1>1, <1>2, <1>3
  <2> QED
    BY <1>2, <2>1, SetOfSeq
<1>5. \A i \in 1..Len(s) : i \in 1..Len(f) \/ i = Len(s)
  BY <1>1, <1>2
<1>6. \A i \in 1..Len(f) : i \in 1..Len(s) /\ i # Len(s)
  BY <1>1, <1>2
<1>7. ToSet(f) = {f[i] : i \in 1..Len(f)} /\ ToSet(s) = {s[i] : i \in 1..Len(s)}
  BY <1>2, SetOfSeq
<1>8. Len(s) \in 1..Len(s)
  BY <1>1
<1>9. ToSet(s) = ToSet(f) \cup {s[Len(s)]}
  <2>1. \A i \in 1..Len(s) : s[i] \in ToSet(f) \cup {s[Len(s)]}
    BY <1>2, <1>5, <1>7
  <2>2. \A i \in 1..Len(f) : f[i] \in ToSet(s)
    BY <1>2, <1>6, <1>7
  <2> QED
    BY <1>7, <1>8, <2>1, <2>2
<1>10. s[Len(s)] \notin ToSet(f)
  BY <1>2, <1>3, <1>6, <1>7, <1>8
<1> QED
  BY <1>2, <1>4, <1>9, <1>10 DEF f, Last

(***************************************************************************)
(* Storing and removing an event                                           *)
(***************************************************************************)

LEMMA AppendQueued ==
    ASSUME TypeOK, NEW n \in Nat, buffer' = Append(buffer, n), taken' = taken
    PROVE  buffer' \in Seq(Nat) /\ Queued' = Append(Queued, n)
<1>1. buffer \in Seq(Nat) /\ taken \in Nat \cup {None}
  BY DEF TypeOK
<1>2. buffer' \in Seq(Nat)
  BY <1>1, AppendProperties
<1>3. CASE taken = None
  BY <1>2, <1>3 DEF Queued
<1>4. CASE taken # None
  <2>1. <<taken>> \in Seq(Nat) /\ <<n>> \in Seq(Nat)
    BY <1>1, <1>4
  <2>2. <<taken>> \o buffer \in Seq(Nat)
    BY <1>1, <2>1, ConcatProperties
  <2>3. Append(buffer, n) = buffer \o <<n>>
    BY <1>1, AppendIsConcat
  <2>4. Append(<<taken>> \o buffer, n) = (<<taken>> \o buffer) \o <<n>>
    BY <2>2, AppendIsConcat
  <2>5. (<<taken>> \o buffer) \o <<n>> = <<taken>> \o (buffer \o <<n>>)
    BY <1>1, <2>1, ConcatAssociative
  <2>6. Queued' = <<taken>> \o Append(buffer, n) /\ Queued = <<taken>> \o buffer
    BY <1>4 DEF Queued
  <2> QED
    BY <1>2, <2>3, <2>4, <2>5, <2>6
<1> QED
  BY <1>3, <1>4

LEMMA Storing ==
    ASSUME TypeOK, NEW e \in Events, AddEventToBuffer(e), taken' = taken
    PROVE  /\ buffer' \in Seq(Nat) /\ oldIDs' \in Seq(Nat)
           /\ \A id \in DOMAIN table' : table'[id] \in Events
           /\ IDs'
           /\ Stored' = Append(Stored, e)
<1> DEFINE n == NewID
           A == DOMAIN table
<1>1. n \in Nat /\ n \notin A
  BY NewIDUnused
<1>2. /\ buffer' = Append(buffer, n)
      /\ oldIDs' = IF oldIDs # <<>> THEN Front(oldIDs) ELSE <<>>
      /\ table' = [id \in A \cup {n} |-> IF id = n THEN e ELSE table[id]]
  BY DEF AddEventToBuffer
<1>3. n = IF oldIDs # <<>> THEN Last(oldIDs) ELSE Cardinality(A)
  BY DEF NewID
<1> HIDE DEF n, A
<1>4. /\ IsInjective(oldIDs) /\ IsInjective(Queued) /\ A = ToSet(Queued)
      /\ A \cap ToSet(oldIDs) = {} /\ A \cup ToSet(oldIDs) = 0..Len(oldIDs) + Len(Queued) - 1
      /\ oldIDs \in Seq(Nat) /\ \A id \in A : table[id] \in Events
  BY DEF TypeOK, IDs, A
<1>5. Queued \in Seq(Nat) /\ Len(Queued) \in Nat /\ Len(oldIDs) \in Nat
  BY QueueType
<1>6. buffer' \in Seq(Nat) /\ Queued' = Append(Queued, n)
  BY <1>1, <1>2, AppendQueued
<1>7. DOMAIN table' = A \cup {n} /\ table'[n] = e /\ \A id \in A : table'[id] = table[id]
  BY <1>1, <1>2
<1>8. /\ Queued' \in Seq(Nat) /\ Len(Queued') = Len(Queued) + 1
      /\ ToSet(Queued') = A \cup {n} /\ IsInjective(Queued')
  BY <1>1, <1>4, <1>5, <1>6, AppendFresh
<1>9. /\ oldIDs' \in Seq(Nat) /\ IsInjective(oldIDs')
      /\ (A \cup {n}) \cap ToSet(oldIDs') = {}
      /\ (A \cup {n}) \cup ToSet(oldIDs') = 0..Len(oldIDs') + (Len(Queued) + 1) - 1
  <2>1. CASE oldIDs # <<>>
    <3>1. /\ oldIDs' \in Seq(Nat) /\ Len(oldIDs') = Len(oldIDs) - 1 /\ IsInjective(oldIDs')
          /\ ToSet(oldIDs) = ToSet(oldIDs') \cup {n} /\ n \notin ToSet(oldIDs')
      BY <1>2, <1>3, <1>4, <2>1, FrontDistinct
    <3>2. Len(oldIDs') + (Len(Queued) + 1) - 1 = Len(oldIDs) + Len(Queued) - 1
      BY <1>5, <3>1
    <3> QED
      BY <1>4, <3>1, <3>2
  <2>2. CASE oldIDs = <<>>
    <3>1. oldIDs' = <<>> /\ ToSet(oldIDs) = {} /\ Len(oldIDs) = 0 /\ ToSet(oldIDs') = {}
      BY <1>2, <2>2 DEF ToSet
    <3>2. A = 0..Len(Queued) - 1
      BY <1>4, <1>5, <3>1
    <3>3. n = Len(Queued)
      BY <1>3, <1>5, <2>2, <3>2, IntervalSize
    <3>4. A \cup {n} = 0..(Len(Queued) + 1) - 1
      BY <1>5, <3>2, <3>3
    <3>5. Len(oldIDs') + (Len(Queued) + 1) - 1 = (Len(Queued) + 1) - 1
      BY <1>5, <3>1
    <3>6. IsInjective(oldIDs') /\ oldIDs' \in Seq(Nat)
      BY <3>1 DEF IsInjective
    <3> QED
      BY <3>1, <3>4, <3>5, <3>6
  <2> QED
    BY <2>1, <2>2
<1>10. Stored' = Append(Stored, e)
  <2>1. Stored \in Seq(Events) /\ Len(Stored) = Len(Queued)
        /\ \A i \in 1..Len(Queued) : Stored[i] = table[Queued[i]]
    BY QueueType
  <2>2. \A i \in 1..Len(Queued) : Queued'[i] = Queued[i] /\ Queued[i] \in A
    BY <1>1, <1>4, <1>5, <1>6, AppendProperties, SetOfSeq
  <2>3. Queued'[Len(Queued) + 1] = n
    BY <1>1, <1>5, <1>6, AppendProperties
  <2>4. Stored' = [i \in 1..Len(Queued) + 1 |-> table'[Queued'[i]]]
    BY <1>8 DEF Stored
  <2>5. /\ Append(Stored, e) \in Seq(Events) /\ Len(Append(Stored, e)) = Len(Queued) + 1
        /\ \A i \in 1..Len(Queued) : Append(Stored, e)[i] = Stored[i]
        /\ Append(Stored, e)[Len(Queued) + 1] = e
    BY <2>1, AppendProperties
  <2>6. \A i \in 1..Len(Queued) + 1 : i \in 1..Len(Queued) \/ i = Len(Queued) + 1
    BY <1>5
  <2>7. \A i \in 1..Len(Queued) + 1 : table'[Queued'[i]] = Append(Stored, e)[i]
    BY <1>7, <2>1, <2>2, <2>3, <2>5, <2>6
  <2>8. Append(Stored, e) = [i \in 1..Len(Queued) + 1 |-> Append(Stored, e)[i]]
    BY <2>5, LenProperties
  <2> QED
    BY <2>4, <2>7, <2>8
<1> QED
  BY <1>4, <1>6, <1>7, <1>8, <1>9, <1>10 DEF IDs

LEMMA Removing ==
    ASSUME TypeOK, taken # None, RemoveEvent
    PROVE  /\ taken' = None /\ buffer' = buffer /\ oldIDs' \in Seq(Nat)
           /\ \A id \in DOMAIN table' : table'[id] \in Events
           /\ table[taken] \in Events
           /\ IDs'
           /\ Stored # <<>> /\ Head(Stored) = table[taken] /\ Stored' = Tail(Stored)
<1> DEFINE A == DOMAIN table
<1>1. /\ IsInjective(oldIDs) /\ IsInjective(Queued) /\ A = ToSet(Queued)
      /\ A \cap ToSet(oldIDs) = {} /\ A \cup ToSet(oldIDs) = 0..Len(oldIDs) + Len(Queued) - 1
      /\ oldIDs \in Seq(Nat) /\ taken \in Nat /\ \A id \in A : table[id] \in Events
  BY DEF TypeOK, IDs
<1>2. /\ taken' = None /\ buffer' = buffer /\ oldIDs' = Append(oldIDs, taken)
      /\ table' = [id \in A \ {taken} |-> table[id]]
  BY DEF RemoveEvent
<1> HIDE DEF A
<1>3. /\ Queued \in Seq(Nat) /\ Len(Queued) \in Nat /\ Len(oldIDs) \in Nat
      /\ Queued # <<>> /\ Head(Queued) = taken /\ Tail(Queued) = buffer
  BY QueueType
<1>4. Queued' = Tail(Queued)
  BY <1>2, <1>3 DEF Queued
<1>5. /\ taken \in A /\ Queued' \in Seq(Nat) /\ Len(Queued') = Len(Queued) - 1
      /\ A = {taken} \cup ToSet(Queued') /\ IsInjective(Queued') /\ taken \notin ToSet(Queued')
  BY <1>1, <1>3, <1>4, TailDistinct
<1>6. DOMAIN table' = ToSet(Queued') /\ \A id \in ToSet(Queued') : table'[id] = table[id]
  BY <1>2, <1>5
<1>7. /\ oldIDs' \in Seq(Nat) /\ Len(oldIDs') = Len(oldIDs) + 1
      /\ ToSet(oldIDs') = ToSet(oldIDs) \cup {taken} /\ IsInjective(oldIDs')
  BY <1>1, <1>2, <1>5, AppendFresh
<1>8. Len(oldIDs') + Len(Queued') - 1 = Len(oldIDs) + Len(Queued) - 1
  BY <1>3, <1>5, <1>7
<1>9. IDs'
  BY <1>1, <1>5, <1>6, <1>7, <1>8 DEF IDs
<1>10. Stored # <<>> /\ Head(Stored) = table[taken] /\ Stored' = Tail(Stored)
  <2>1. Stored \in Seq(Events) /\ Len(Stored) = Len(Queued)
        /\ \A i \in 1..Len(Queued) : Stored[i] = table[Queued[i]]
    BY QueueType
  <2>2. Len(Queued) \in Nat \ {0} /\ Queued[1] = taken
    BY <1>3, EmptySeq, HeadTailProperties
  <2>3. Stored # <<>> /\ Head(Stored) = table[taken]
    <3>1. 1 \in 1..Len(Queued) /\ Stored[1] = table[taken]
      BY <2>1, <2>2
    <3>2. Stored # <<>>
      BY <2>1, <2>2
    <3> QED
      BY <2>1, <3>1, <3>2
  <2>4. /\ Tail(Stored) \in Seq(Events) /\ Len(Tail(Stored)) = Len(Queued')
        /\ \A i \in 1..Len(Queued') : Tail(Stored)[i] = Stored[i + 1]
    BY <1>5, <2>1, <2>3, HeadTailProperties
  <2>5. \A i \in 1..Len(Queued') : Queued'[i] = Queued[i + 1] /\ i + 1 \in 1..Len(Queued)
    <3>1. \A i \in 1..Len(Tail(Queued)) : Tail(Queued)[i] = Queued[i + 1]
      BY <1>3, HeadTailProperties
    <3> QED
      BY <1>3, <1>4, <1>5, <3>1
  <2>6. \A i \in 1..Len(Queued') : Queued'[i] \in ToSet(Queued')
    BY <1>5, SetOfSeq
  <2>7. \A i \in 1..Len(Queued') : table'[Queued'[i]] = Tail(Stored)[i]
    BY <1>6, <2>1, <2>4, <2>5, <2>6
  <2>8. Stored' = [i \in 1..Len(Queued') |-> table'[Queued'[i]]]
    BY DEF Stored
  <2>9. Tail(Stored) = [i \in 1..Len(Queued') |-> Tail(Stored)[i]]
    BY <2>4, LenProperties
  <2> QED
    BY <2>3, <2>7, <2>8, <2>9
<1> QED
  BY <1>1, <1>2, <1>5, <1>6, <1>7, <1>9, <1>10

(***************************************************************************)
(* The type invariant                                                      *)
(***************************************************************************)

LEMMA SameStore ==
    ASSUME UNCHANGED <<store, taken>>
    PROVE  Queued' = Queued /\ Stored' = Stored /\ (IDs => IDs')
  BY DEF store, Queued, Stored, IDs

(* The conjuncts about events and locks, and those about timers.            *)
EventTypes ==
    /\ ready \in BOOLEAN /\ pending \in Seq(Events) /\ holder \in Threads \cup {Loop, None}
    /\ posting \in [Threads -> {None} \cup [event : Events, ready : BOOLEAN]]
    /\ buffer \in Seq(Nat) /\ oldIDs \in Seq(Nat) /\ taken \in Nat \cup {None}
    /\ \A id \in DOMAIN table : table[id] \in Events
    /\ returned \in Events \cup {None}
    /\ depth \in 0..MaxDepth /\ adopts \in 0..MaxAdopts

TimerTypes ==
    /\ armed \subseteq Timers /\ left \in [Timers -> Int]
    /\ elapsed \in 0..MaxAge /\ age \in [Timers -> 0..MaxAge]

LEMMA TypeParts == TypeOK <=> EventTypes /\ TimerTypes /\ IDs /\ Locking
  BY DEF TypeOK, EventTypes, TimerTypes

LEMMA InitType == Init => TypeOK
<1> SUFFICES ASSUME Init PROVE TypeOK
  OBVIOUS
<1>1. Queued = <<>> /\ DOMAIN table = {} /\ ToSet(oldIDs) = {} /\ ToSet(Queued) = {}
  BY DEF Init, Queued, ToSet
<1>2. IDs
  <2>1. IsInjective(oldIDs) /\ IsInjective(Queued)
    BY <1>1 DEF Init, IsInjective
  <2>2. Len(oldIDs) + Len(Queued) - 1 = -1
    BY <1>1 DEF Init
  <2> QED
    BY <1>1, <2>1, <2>2 DEF IDs
<1>3. Locking
  BY <1>1, Parameters DEF Init, Locking
<1>4. EventTypes
  <2>1. \A id \in DOMAIN table : table[id] \in Events
    BY <1>1
  <2>2. depth \in 0..MaxDepth /\ adopts \in 0..MaxAdopts
    BY Parameters DEF Init
  <2>3. pending \in Seq(Events) /\ buffer \in Seq(Nat) /\ oldIDs \in Seq(Nat)
    BY DEF Init
  <2> QED
    BY <2>1, <2>2, <2>3 DEF Init, EventTypes
<1>5. TimerTypes
  BY Parameters DEF Init, TimerTypes
<1> QED
  BY <1>2, <1>3, <1>4, <1>5, TypeParts

(* What the actions on timers preserve.                                     *)
LEMMA TimerStep ==
    ASSUME TypeOK,
           Tick \/ CountDown \/ \E t \in Timers : NewTimer(t) \/ DeleteTimer(t) \/ FireTimer(t)
    PROVE  TimerTypes' /\ UNCHANGED <<posts, store, taken, returned, depth, adopts>>
<1> USE Parameters
<1>1. TimerTypes /\ \A t \in Timers : Duration[t] \in Nat
  BY DEF TypeOK, TimerTypes
<1>2. CASE Tick
  <2>1. age' \in [Timers -> 0..MaxAge]
    BY <1>1, <1>2 DEF Tick, TimerTypes
  <2>2. elapsed' \in 0..MaxAge
    BY <1>1, <1>2 DEF Tick, TimerTypes
  <2> QED
    BY <1>1, <1>2, <2>1, <2>2 DEF Tick, TimerTypes
<1>3. CASE CountDown
  BY <1>1, <1>3 DEF CountDown, Remaining, TimerTypes
<1>4. ASSUME NEW t \in Timers, NewTimer(t)
      PROVE  TimerTypes' /\ UNCHANGED <<posts, store, taken, returned, depth, adopts>>
  BY <1>1, <1>4 DEF NewTimer, InitialTime, TimerTypes
<1>5. ASSUME NEW t \in Timers, DeleteTimer(t)
      PROVE  TimerTypes' /\ UNCHANGED <<posts, store, taken, returned, depth, adopts>>
  BY <1>1, <1>5 DEF DeleteTimer, TimerTypes
<1>6. ASSUME NEW t \in Timers, FireTimer(t)
      PROVE  TimerTypes' /\ UNCHANGED <<posts, store, taken, returned, depth, adopts>>
  <2>1. left' \in [Timers -> Int]
    BY <1>1, <1>6 DEF FireTimer, Remaining, TimerTypes
  <2>2. armed' \subseteq Timers /\ elapsed' \in 0..MaxAge /\ age' \in [Timers -> 0..MaxAge]
    BY <1>1, <1>6 DEF FireTimer, TimerTypes
  <2> QED
    BY <1>6, <2>1, <2>2 DEF FireTimer, TimerTypes
<1> QED
  BY <1>2, <1>3, <1>4, <1>5, <1>6

(* One step per action.                                                     *)
LEMMA TypeStep == TypeOK /\ [Next]_vars => TypeOK'
<1> SUFFICES ASSUME TypeOK, [Next]_vars
             PROVE  EventTypes' /\ TimerTypes' /\ IDs' /\ Locking'
  BY DEF TypeOK, EventTypes, TimerTypes
<1> USE Parameters
<1>1. EventTypes /\ TimerTypes /\ IDs /\ Locking
  BY TypeParts
<1>2. ASSUME NEW t \in Threads, NEW e \in Events, AddEvent(t, e)
      PROVE  EventTypes' /\ TimerTypes' /\ IDs' /\ Locking'
  <2>1. UNCHANGED <<store, taken, timers, pending, ready, depth>>
    BY <1>2 DEF AddEvent
  <2>2. posting' = [posting EXCEPT ![t] = [event |-> e, ready |-> ready]] /\ holder = None /\ holder' = t
    BY <1>2 DEF AddEvent, Unlocked
  <2>3. EventTypes'
    BY <1>1, <1>2, <2>2 DEF AddEvent, EventTypes, store
  <2>4. Locking'
    BY <1>1, <2>1, <2>2, SameStore DEF EventTypes, Locking, store
  <2> QED
    BY <1>1, <2>1, <2>3, <2>4, SameStore DEF TimerTypes, timers
<1>3. ASSUME NEW t \in Threads, Push(t)
      PROVE  EventTypes' /\ TimerTypes' /\ IDs' /\ Locking'
  <2>1. /\ posting' = [posting EXCEPT ![t] = None] /\ holder' = None
        /\ UNCHANGED <<ready, taken, returned, depth, timers, adopts>>
    BY <1>3 DEF Push
  <2>2. posting[t] # None /\ posting[t].event \in Events /\ posting[t].ready = ready /\ holder = t
    BY <1>1, <1>3 DEF Push, EventTypes, Locking
  <2>3. \A u \in Threads : u # t => posting[u] = None
    BY <1>1, <2>2 DEF Locking
  <2>4. CASE ready
    <3>1. AddEventToBuffer(posting[t].event) /\ pending' = pending
      BY <1>3, <2>2, <2>4 DEF Push
    <3>2. /\ buffer' \in Seq(Nat) /\ oldIDs' \in Seq(Nat) /\ IDs'
          /\ \A id \in DOMAIN table' : table'[id] \in Events
      BY <2>1, <2>2, <3>1, Storing
    <3>3. EventTypes'
      BY <1>1, <2>1, <3>1, <3>2 DEF EventTypes
    <3>4. Locking'
      BY <1>1, <2>1, <2>2, <2>3, <2>4, <3>1 DEF EventTypes, Locking
    <3> QED
      BY <1>1, <2>1, <3>2, <3>3, <3>4 DEF TimerTypes, timers
  <2>5. CASE ~ready
    <3>1. pending' = Append(pending, posting[t].event) /\ UNCHANGED store
      BY <1>3, <2>2, <2>5 DEF Push
    <3>2. EventTypes'
      BY <1>1, <2>1, <2>2, <3>1 DEF EventTypes, store
    <3>3. Locking'
      BY <1>1, <2>1, <2>2, <2>3, <2>5, <3>1, SameStore DEF EventTypes, Locking, store
    <3> QED
      BY <1>1, <2>1, <3>1, <3>2, <3>3, SameStore DEF TimerTypes, timers
  <2> QED
    BY <1>1, <2>4, <2>5 DEF EventTypes
<1>4. CASE StartLoop
  <2>1. /\ holder = None /\ taken = None /\ ready' = TRUE /\ holder' = Loop /\ depth' = depth + 1 /\ depth < MaxDepth
        /\ UNCHANGED <<pending, posting, store, taken, returned, timers, adopts>>
    BY <1>4 DEF StartLoop
  <2>2. \A t \in Threads : posting[t] = None
    BY <1>1, <2>1 DEF Locking
  <2>3. EventTypes'
    BY <1>1, <2>1 DEF EventTypes, store
  <2>4. Locking'
    BY <2>1, <2>2 DEF Locking
  <2> QED
    BY <1>1, <2>1, <2>3, <2>4, SameStore DEF TimerTypes, timers
<1>5. CASE Drain
  <2>1. /\ holder = Loop /\ pending # <<>> /\ AddEventToBuffer(Head(pending)) /\ pending' = Tail(pending)
        /\ UNCHANGED <<ready, holder, posting, taken, returned, depth, timers, adopts>>
    BY <1>5 DEF Drain
  <2>2. Head(pending) \in Events /\ pending' \in Seq(Events)
    BY <1>1, <2>1, HeadTailProperties DEF EventTypes
  <2>3. /\ buffer' \in Seq(Nat) /\ oldIDs' \in Seq(Nat) /\ IDs'
        /\ \A id \in DOMAIN table' : table'[id] \in Events
    BY <2>1, <2>2, Storing
  <2>4. EventTypes'
    BY <1>1, <2>1, <2>2, <2>3 DEF EventTypes
  <2>5. Locking'
    BY <1>1, <2>1 DEF Locking
  <2> QED
    BY <1>1, <2>1, <2>3, <2>4, <2>5 DEF TimerTypes, timers
<1>6. CASE EndDrain
  <2>1. /\ holder = Loop /\ pending = <<>> /\ holder' = None
        /\ UNCHANGED <<ready, pending, posting, store, taken, returned, depth, timers, adopts>>
    BY <1>6 DEF EndDrain, Drained
  <2>2. EventTypes'
    BY <1>1, <2>1 DEF EventTypes, store
  <2>3. Locking'
    BY <1>1, <2>1, SameStore DEF Locking, store
  <2> QED
    BY <1>1, <2>1, <2>2, <2>3, SameStore DEF TimerTypes, timers
<1>7. CASE TakeID
  <2>1. /\ depth > 0 /\ holder # Loop /\ taken = None /\ buffer # <<>>
        /\ taken' = Head(buffer) /\ buffer' = Tail(buffer)
        /\ UNCHANGED <<posts, table, oldIDs, returned, depth, timers, adopts>>
    BY <1>7 DEF TakeID, Running
  <2>2. /\ buffer \in Seq(Nat) /\ Head(buffer) \in Nat /\ Tail(buffer) \in Seq(Nat)
        /\ <<Head(buffer)>> \o Tail(buffer) = buffer
    BY <1>1, <2>1, HeadTailProperties DEF EventTypes
  <2>3. Queued' = Queued
    BY <2>1, <2>2 DEF Queued
  <2>4. EventTypes'
    BY <1>1, <2>1, <2>2 DEF EventTypes, posts
  <2>5. Locking' /\ IDs'
    BY <1>1, <2>1, <2>3 DEF Locking, IDs, posts
  <2> QED
    BY <1>1, <2>1, <2>4, <2>5 DEF TimerTypes, timers
<1>8. CASE RemoveEvent
  <2>1. /\ taken # None /\ returned' = table[taken]
        /\ depth' = IF table[taken] \in Quit THEN depth - 1 ELSE depth
        /\ UNCHANGED <<posts, buffer, timers, adopts>>
    BY <1>8 DEF RemoveEvent
  <2>2. /\ taken' = None /\ oldIDs' \in Seq(Nat) /\ table[taken] \in Events /\ IDs'
        /\ \A id \in DOMAIN table' : table'[id] \in Events
    BY <1>8, <2>1, Removing
  <2>3. depth > 0 /\ ready
    BY <1>1, <2>1, QueueType DEF Locking
  <2>4. EventTypes'
    BY <1>1, <2>1, <2>2, <2>3 DEF EventTypes, posts
  <2>5. Locking'
    BY <1>1, <2>1, <2>2, <2>3 DEF Locking, posts
  <2> QED
    BY <1>1, <2>1, <2>2, <2>4, <2>5 DEF TimerTypes, timers
<1>9. CASE AdoptBuffer
  <2>1. /\ taken = None /\ buffer' = <<>> /\ table' = <<>> /\ oldIDs' = <<>> /\ adopts < MaxAdopts /\ adopts' = adopts + 1
        /\ UNCHANGED <<posts, taken, returned, depth, timers>>
    BY <1>9 DEF AdoptBuffer
  <2>2. Queued' = <<>> /\ DOMAIN table' = {} /\ ToSet(oldIDs') = {} /\ ToSet(Queued') = {}
    BY <2>1 DEF Queued, ToSet
  <2>3. IDs'
    <3>1. IsInjective(oldIDs') /\ IsInjective(Queued')
      BY <2>1, <2>2 DEF IsInjective
    <3>2. Len(oldIDs') + Len(Queued') - 1 = -1
      BY <2>1, <2>2
    <3> QED
      BY <2>2, <3>1, <3>2 DEF IDs
  <2>4. EventTypes'
    <3>1. \A id \in DOMAIN table' : table'[id] \in Events
      BY <2>2
    <3>2. buffer' \in Seq(Nat) /\ oldIDs' \in Seq(Nat) /\ adopts' \in 0..MaxAdopts
      BY <1>1, <2>1 DEF EventTypes
    <3> QED
      BY <1>1, <2>1, <3>1, <3>2 DEF EventTypes, posts
  <2>5. Locking'
    BY <1>1, <2>1, <2>2 DEF Locking, posts
  <2> QED
    BY <1>1, <2>1, <2>3, <2>4, <2>5 DEF TimerTypes, timers
<1>10. CASE Tick \/ CountDown \/ \E t \in Timers : NewTimer(t) \/ DeleteTimer(t) \/ FireTimer(t)
  <2>1. TimerTypes' /\ UNCHANGED <<posts, store, taken, returned, depth, adopts>>
    BY <1>10, TimerStep
  <2>2. EventTypes' /\ Locking'
    BY <1>1, <2>1, SameStore DEF EventTypes, Locking, posts, store
  <2> QED
    BY <1>1, <2>1, <2>2, SameStore
<1>11. CASE UNCHANGED vars
  <2>1. UNCHANGED <<posts, store, taken, returned, depth, timers, adopts>>
    BY <1>11 DEF vars
  <2>2. EventTypes' /\ Locking'
    BY <1>1, <2>1, SameStore DEF EventTypes, Locking, posts, store
  <2> QED
    BY <1>1, <2>1, <2>2, SameStore DEF TimerTypes, timers
<1> QED
  BY <1>2, <1>3, <1>4, <1>5, <1>6, <1>7, <1>8, <1>9, <1>10, <1>11 DEF Next

(* Every reachable state is well formed, and no id is ever handed out twice: *)
(* saveEvent, removeEvent and adoptBuffer keep the ids in use, the free ids  *)
(* and the buffer apart, under whatever interleaving of the posting threads. *)
THEOREM TypeInvariant == Spec => []TypeOK
  BY InitType, TypeStep, PTL DEF Spec

(***************************************************************************)
(* Timers                                                                  *)
(***************************************************************************)

LEMMA ExactStep == TypeOK /\ TimersExact /\ [Next]_vars => TimersExact'
<1> SUFFICES ASSUME TypeOK, TimersExact, [Next]_vars
             PROVE  \A t \in armed' : left'[t] - elapsed' = Duration[t] - age'[t]
  BY DEF TimersExact, Remaining
<1>1. /\ armed \subseteq Timers /\ left \in [Timers -> Int] /\ elapsed \in Int /\ age \in [Timers -> 0..MaxAge]
      /\ \A t \in Timers : left[t] \in Int /\ age[t] \in Int /\ Duration[t] \in Int
  BY Parameters DEF TypeOK
<1>2. \A t \in armed : left[t] - elapsed = Duration[t] - age[t]
  BY DEF TimersExact, Remaining
<1>3. CASE UNCHANGED timers
  BY <1>2, <1>3 DEF timers
<1>4. CASE Tick
  <2>1. /\ armed' = armed /\ left' = left /\ elapsed' = elapsed + 1
        /\ \A t \in Timers : t \in armed => age'[t] = age[t] + 1
    BY <1>4 DEF Tick
  <2> TAKE t \in armed'
  <2>2. t \in Timers /\ left[t] - elapsed = Duration[t] - age[t] /\ age'[t] = age[t] + 1
    BY <1>1, <1>2, <2>1
  <2> QED
    BY <1>1, <2>1, <2>2
<1>5. CASE CountDown
  BY <1>1, <1>2, <1>5 DEF CountDown, Remaining
<1>6. ASSUME NEW u \in Timers, NewTimer(u)
      PROVE  \A t \in armed' : left'[t] - elapsed' = Duration[t] - age'[t]
  <2>1. /\ left' = [left EXCEPT ![u] = Duration[u] + elapsed] /\ age' = [age EXCEPT ![u] = 0]
        /\ elapsed' = elapsed /\ armed' = armed \cup {u}
    BY <1>6 DEF NewTimer, InitialTime
  <2> TAKE t \in armed'
  <2>2. t \in Timers /\ (t = u \/ t \in armed)
    BY <1>1, <2>1
  <2>3. CASE t = u
    BY <1>1, <2>1, <2>2, <2>3
  <2>4. CASE t # u
    BY <1>1, <1>2, <2>1, <2>2, <2>4
  <2> QED
    BY <2>3, <2>4
<1>7. ASSUME NEW u \in Timers, DeleteTimer(u)
      PROVE  \A t \in armed' : left'[t] - elapsed' = Duration[t] - age'[t]
  BY <1>2, <1>7 DEF DeleteTimer
<1>8. ASSUME NEW u \in Timers, FireTimer(u)
      PROVE  \A t \in armed' : left'[t] - elapsed' = Duration[t] - age'[t]
  <2>1. /\ left' = [t \in Timers |-> IF t = u THEN Duration[u] ELSE IF t \in armed THEN left[t] - elapsed ELSE left[t]]
        /\ elapsed' = 0 /\ age' = [age EXCEPT ![u] = 0] /\ armed' \subseteq armed
    BY <1>8 DEF FireTimer, Remaining
  <2> TAKE t \in armed'
  <2>2. t \in Timers /\ t \in armed
    BY <1>1, <2>1
  <2>3. CASE t = u
    BY <1>1, <2>1, <2>2, <2>3
  <2>4. CASE t # u
    BY <1>1, <1>2, <2>1, <2>2, <2>4
  <2> QED
    BY <2>3, <2>4
<1>9. UNCHANGED timers \/ Tick \/ CountDown \/ \E u \in Timers : NewTimer(u) \/ DeleteTimer(u) \/ FireTimer(u)
  BY DEF Next, vars, AddEvent, Push, StartLoop, Drain, EndDrain, TakeID, RemoveEvent, AdoptBuffer, timers
<1> QED
  BY <1>3, <1>4, <1>5, <1>6, <1>7, <1>8, <1>9

(* No timer fires early, whatever the queue was busy with while it ran:      *)
(* newTimer adds what is on the clock, hasTimerExpired subtracts it from     *)
(* every timer before it resets it.                                         *)
THEOREM TimersInvariant == Spec => []TimersExact
<1>1. Init => TimersExact
  BY DEF Init, TimersExact
<1> QED
  BY <1>1, ExactStep, TypeInvariant, PTL DEF Spec

(***************************************************************************)
(* The queue implements EventDelivery                                      *)
(***************************************************************************)

LEMMA DeliveryInit == Init => Delivery!Init
  BY DEF Init, Delivery!Init, Waiting, Stored, Queued

LEMMA DeliveryStep == TypeOK /\ [Next]_vars => [Delivery!Next]_Delivery!vars
<1> SUFFICES ASSUME TypeOK, [Next]_vars
             PROVE  Delivery!Next \/ (Waiting' = Waiting /\ returned' = returned)
  BY DEF Delivery!vars
<1>1. /\ Queued \in Seq(Nat) /\ Stored \in Seq(Events) /\ Waiting \in Seq(Events) /\ Waiting = Stored \o pending
      /\ pending \in Seq(Events)
  BY QueueType DEF Waiting, TypeOK
<1>2. ASSUME UNCHANGED <<store, taken, pending, returned>>
      PROVE  Waiting' = Waiting /\ returned' = returned
  BY <1>2, SameStore DEF Waiting
<1>3. ASSUME NEW t \in Threads, NEW e \in Events, AddEvent(t, e)
      PROVE  UNCHANGED <<store, taken, pending, returned>>
  BY <1>3 DEF AddEvent
<1>4. ASSUME NEW t \in Threads, Push(t)
      PROVE  Delivery!Next
  <2>1. /\ posting[t].event \in Events /\ posting[t].ready = ready /\ (ready => pending = <<>>)
        /\ taken' = taken /\ returned' = returned
    BY <1>4, Parameters DEF Push, TypeOK, Locking
  <2> DEFINE e == posting[t].event
  <2>2. Waiting' = Append(Waiting, e)
    <3>1. CASE ready
      <4>1. AddEventToBuffer(e) /\ pending' = <<>> /\ pending = <<>>
        BY <1>4, <2>1, <3>1 DEF Push
      <4>2. Stored' = Append(Stored, e)
        BY <2>1, <4>1, Storing
      <4>3. Append(Stored, e) \in Seq(Events)
        BY <1>1, <2>1, AppendProperties
      <4> QED
        BY <1>1, <4>1, <4>2, <4>3, ConcatEmptySeq DEF Waiting
    <3>2. CASE ~ready
      <4>1. pending' = Append(pending, e) /\ UNCHANGED store
        BY <1>4, <2>1, <3>2 DEF Push
      <4>2. Stored' = Stored
        BY <2>1, <4>1, SameStore
      <4>3. Waiting' = Stored \o (pending \o <<e>>)
        BY <1>1, <2>1, <4>1, <4>2, AppendIsConcat DEF Waiting
      <4>4. Stored \o (pending \o <<e>>) = (Stored \o pending) \o <<e>>
        BY <1>1, <2>1, ConcatAssociative
      <4> QED
        BY <1>1, <2>1, <4>3, <4>4, AppendIsConcat
    <3> QED
      BY <3>1, <3>2
  <2> QED
    BY <2>1, <2>2 DEF Delivery!Next, Delivery!AddEvent
<1>5. CASE StartLoop \/ EndDrain
  BY <1>2, <1>5 DEF StartLoop, EndDrain
<1>6. CASE Drain
  <2>1. /\ pending # <<>> /\ AddEventToBuffer(Head(pending)) /\ pending' = Tail(pending)
        /\ taken' = taken /\ returned' = returned
    BY <1>6 DEF Drain
  <2>2. /\ Head(pending) \in Events /\ Tail(pending) \in Seq(Events)
        /\ pending = <<Head(pending)>> \o Tail(pending)
    BY <1>1, <2>1, HeadTailProperties
  <2>3. Stored' = Stored \o <<Head(pending)>>
    BY <1>1, <2>1, <2>2, Storing, AppendIsConcat
  <2>4. (Stored \o <<Head(pending)>>) \o Tail(pending) = Stored \o (<<Head(pending)>> \o Tail(pending))
    BY <1>1, <2>2, ConcatAssociative
  <2> QED
    BY <1>1, <2>1, <2>2, <2>3, <2>4 DEF Waiting
<1>7. CASE TakeID
  <2>1. /\ taken = None /\ buffer # <<>> /\ taken' = Head(buffer) /\ buffer' = Tail(buffer)
        /\ UNCHANGED <<posts, table, returned>>
    BY <1>7 DEF TakeID
  <2>2. buffer \in Seq(Nat) /\ Head(buffer) # None /\ <<Head(buffer)>> \o Tail(buffer) = buffer
    BY <2>1, HeadTailProperties, Parameters DEF TypeOK
  <2>3. Queued' = Queued
    BY <2>1, <2>2 DEF Queued
  <2> QED
    BY <2>1, <2>3 DEF Waiting, Stored, posts
<1>8. CASE RemoveEvent
  <2>1. taken # None /\ returned' = table[taken] /\ pending' = pending
    BY <1>8 DEF RemoveEvent, posts
  <2>2. Stored # <<>> /\ Head(Stored) = table[taken] /\ Stored' = Tail(Stored)
    BY <1>8, <2>1, Removing
  <2>3. /\ Stored \o pending # <<>> /\ Head(Stored \o pending) = Head(Stored)
        /\ Tail(Stored \o pending) = Tail(Stored) \o pending
    BY <1>1, <2>2
  <2> QED
    BY <2>1, <2>2, <2>3 DEF Waiting, Delivery!Next, Delivery!GetEvent
<1>9. CASE AdoptBuffer
  <2>1. /\ holder # Loop /\ taken = None /\ buffer' = <<>> /\ table' = <<>> /\ oldIDs' = <<>>
        /\ UNCHANGED <<posts, taken, returned>>
    BY <1>9 DEF AdoptBuffer
  <2>2. Queued' = <<>> /\ Stored' = <<>>
    BY <2>1 DEF Queued, Stored
  <2>3. CASE ready
    <3>1. pending' = <<>>
      BY <2>1, <2>3 DEF TypeOK, Locking, posts
    <3> QED
      BY <2>1, <2>2, <3>1 DEF Waiting, Delivery!Next, Delivery!AdoptBuffer
  <2>4. CASE ~ready
    <3>1. Queued = <<>>
      BY <2>4 DEF TypeOK, Locking
    <3>2. Stored = <<>>
      BY <3>1 DEF Stored
    <3> QED
      BY <2>1, <2>2, <3>2 DEF Waiting, posts
  <2> QED
    BY <2>3, <2>4 DEF TypeOK
<1>10. CASE Tick \/ CountDown \/ \E t \in Timers : NewTimer(t) \/ DeleteTimer(t) \/ FireTimer(t)
  BY <1>2, <1>10, TimerStep DEF posts
<1>11. CASE UNCHANGED vars
  BY <1>2, <1>11 DEF vars, posts
<1> QED
  BY <1>2, <1>3, <1>4, <1>5, <1>6, <1>7, <1>8, <1>9, <1>10, <1>11 DEF Next

(* The queue implements EventDelivery: every event is returned once and in   *)
(* the order of posting (IEventQueue.h, addEvent and getEvent), across the   *)
(* start of the loop, the reuse of ids and loops inside loops.              *)
THEOREM Implements == Spec => Delivers
  BY DeliveryInit, DeliveryStep, TypeInvariant, PTL DEF Spec, Delivers, Delivery!Spec
=============================================================================
