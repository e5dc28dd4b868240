------------------------ MODULE ClientListenerProof ------------------------
(***************************************************************************)
(* Proofs about ClientListener, for any connections and any limit: who owns *)
(* what, and what is still posted of whom.                                  *)
(*                                                                         *)
(* The invariant is one statement per connection, ConnOK, about its objects *)
(* and the set of its posted events, Said: an event is posted at most once, *)
(* nothing of a proxy comes after its end, and a connection of which        *)
(* anything is left has its socket counted, so its name is not used again.  *)
(***************************************************************************)
EXTENDS ClientListener, SequenceTheorems, FiniteSetTheorems, TLAPS

Names == {"accepted", "refused", "ready", "success", "failure", "gone"}
Messages == Events \cup {Connecting, NextClient}

(***************************************************************************)
(* The queue                                                                *)
(***************************************************************************)
(* An event of a connection is in the queue at most once, and nothing that   *)
(* a proxy says comes after its end.                                        *)
Single(q) == \A i, j \in 1 .. Len(q) : q[i] = q[j] /\ q[i] \in Events => i = j
GoneLast(q) == \A c \in Conns : \A i, j \in 1 .. Len(q) :
    q[i] = <<"gone", c>> /\ q[j] = <<"ready", c>> => j < i

QueueOK(q) == q \in Seq(Messages) /\ Single(q) /\ GoneLast(q)

(* The two events of the listener are no event of a connection.             *)
LEMMA Kinds ==
    /\ \A n \in Names, c \in Conns : <<n, c>> \in Events
    /\ Connecting \notin Events /\ NextClient \notin Events
    /\ Connecting # NextClient
<1>1. \A e \in Events : DOMAIN e = {1, 2}
  BY DEF Events
<1>2. DOMAIN Connecting = {1} /\ DOMAIN NextClient = {1}
  BY DEF Connecting, NextClient
<1>3. Connecting[1] = "connecting" /\ NextClient[1] = "next"
  BY DEF Connecting, NextClient
<1> QED
  BY <1>1, <1>2, <1>3 DEF Events, Names

(* The event handled is gone from the queue, and the others are not.        *)
LEMMA Taken ==
    ASSUME NEW q, QueueOK(q), q # <<>>
    PROVE  /\ QueueOK(Tail(q))
           /\ Head(q) \in Messages /\ Contains(q, Head(q))
           /\ \A e \in Events : Contains(Tail(q), e) <=> Contains(q, e) /\ e # Head(q)
           /\ \A c \in Conns : Head(q) = <<"gone", c>> => ~Contains(q, <<"ready", c>>)
<1>1. /\ Tail(q) \in Seq(Messages) /\ Len(q) \in Nat \ {0} /\ Head(q) = q[1]
      /\ Len(Tail(q)) = Len(q) - 1 /\ Head(q) \in Messages
      /\ \A i \in 1 .. Len(q) - 1 : Tail(q)[i] = q[i + 1]
  <2>1. q \in Seq(Messages)
    BY DEF QueueOK
  <2>2. Len(Tail(q)) = Len(q) - 1 /\ Len(q) \in Nat \ {0}
    BY <2>1, HeadTailProperties, EmptySeq, LenProperties
  <2> QED
    BY <2>1, <2>2, HeadTailProperties
<1>2. Single(Tail(q))
  BY <1>1 DEF Single, QueueOK
<1>3. GoneLast(Tail(q))
  <2> SUFFICES ASSUME NEW c \in Conns, NEW i \in 1 .. Len(q) - 1, NEW j \in 1 .. Len(q) - 1,
                      q[i + 1] = <<"gone", c>>, q[j + 1] = <<"ready", c>>
               PROVE  j < i
    BY <1>1 DEF GoneLast
  <2>1. i + 1 \in 1 .. Len(q) /\ j + 1 \in 1 .. Len(q)
    BY <1>1
  <2> QED
    BY <2>1 DEF GoneLast, QueueOK
<1>4. ASSUME NEW e \in Events
      PROVE  Contains(Tail(q), e) <=> Contains(q, e) /\ e # Head(q)
  <2>1. ASSUME Contains(Tail(q), e) PROVE Contains(q, e) /\ e # Head(q)
    <3>1. PICK i \in 1 .. Len(q) - 1 : q[i + 1] = e
      BY <1>1, <2>1 DEF Contains
    <3>2. i + 1 \in 1 .. Len(q) /\ 1 \in 1 .. Len(q) /\ i + 1 # 1
      BY <1>1
    <3> QED
      BY <1>1, <3>1, <3>2 DEF Contains, Single, QueueOK
  <2>2. ASSUME Contains(q, e), e # Head(q) PROVE Contains(Tail(q), e)
    <3>1. PICK i \in 1 .. Len(q) : q[i] = e
      BY <2>2 DEF Contains
    <3>2. i - 1 \in 1 .. Len(q) - 1 /\ (i - 1) + 1 = i
      BY <1>1, <2>2, <3>1
    <3>3. Tail(q)[i - 1] = e
      BY <1>1, <3>1, <3>2
    <3> QED
      BY <1>1, <3>2, <3>3 DEF Contains
  <2> QED
    BY <2>1, <2>2
<1>5. Contains(q, Head(q))
  BY <1>1 DEF Contains
<1>6. ASSUME NEW c \in Conns, Head(q) = <<"gone", c>>, Contains(q, <<"ready", c>>) PROVE FALSE
  <2>1. PICK j \in 1 .. Len(q) : q[j] = <<"ready", c>>
    BY <1>6 DEF Contains
  <2>2. 1 \in 1 .. Len(q) /\ q[1] = <<"gone", c>>
    BY <1>1, <1>6
  <2>3. j < 1
    BY <2>1, <2>2 DEF GoneLast, QueueOK
  <2> QED
    BY <1>1, <2>3
<1> QED
  BY <1>1, <1>2, <1>3, <1>4, <1>5, <1>6 DEF QueueOK

(* An event posted is in the queue after the others.                        *)
LEMMA Added ==
    ASSUME NEW q, QueueOK(q), NEW x \in Messages, x \in Events => ~Contains(q, x),
           \A c \in Conns : x = <<"ready", c>> => ~Contains(q, <<"gone", c>>)
    PROVE  /\ QueueOK(Append(q, x))
           /\ \A e : Contains(Append(q, x), e) <=> Contains(q, e) \/ e = x
<1>1. /\ Append(q, x) \in Seq(Messages) /\ Len(q) \in Nat
      /\ Len(Append(q, x)) = Len(q) + 1 /\ Append(q, x)[Len(q) + 1] = x
      /\ \A i \in 1 .. Len(q) : Append(q, x)[i] = q[i]
  BY AppendProperties, LenProperties DEF QueueOK
<1>2. Single(Append(q, x))
  <2> SUFFICES ASSUME NEW i \in 1 .. Len(q) + 1, NEW j \in 1 .. Len(q) + 1,
                      Append(q, x)[i] = Append(q, x)[j], Append(q, x)[i] \in Events
               PROVE  i = j
    BY <1>1 DEF Single
  <2>1. CASE i \in 1 .. Len(q) /\ j \in 1 .. Len(q)
    BY <1>1, <2>1 DEF Single, QueueOK
  <2>2. CASE i = Len(q) + 1 /\ j \in 1 .. Len(q)
    BY <1>1, <2>2 DEF Contains
  <2>3. CASE j = Len(q) + 1 /\ i \in 1 .. Len(q)
    BY <1>1, <2>3 DEF Contains
  <2> QED
    BY <1>1, <2>1, <2>2, <2>3
<1>3. GoneLast(Append(q, x))
  <2> SUFFICES ASSUME NEW c \in Conns, NEW i \in 1 .. Len(q) + 1, NEW j \in 1 .. Len(q) + 1,
                      Append(q, x)[i] = <<"gone", c>>, Append(q, x)[j] = <<"ready", c>>
               PROVE  j < i
    BY <1>1 DEF GoneLast
  <2>1. CASE i \in 1 .. Len(q) /\ j \in 1 .. Len(q)
    BY <1>1, <2>1 DEF GoneLast, QueueOK
  <2>2. CASE j = Len(q) + 1 /\ i \in 1 .. Len(q)
    BY <1>1, <2>2 DEF Contains
  <2>3. CASE i = Len(q) + 1 /\ j \in 1 .. Len(q)
    BY <1>1, <2>3
  <2>4. CASE i = Len(q) + 1 /\ j = Len(q) + 1
    BY <1>1, <2>4
  <2> QED
    BY <1>1, <2>1, <2>2, <2>3, <2>4
<1>4. ASSUME NEW e PROVE Contains(Append(q, x), e) <=> Contains(q, e) \/ e = x
  <2>1. ASSUME Contains(Append(q, x), e) PROVE Contains(q, e) \/ e = x
    <3>1. PICK i \in 1 .. Len(q) + 1 : Append(q, x)[i] = e
      BY <1>1, <2>1 DEF Contains
    <3>2. i \in 1 .. Len(q) \/ i = Len(q) + 1
      BY <1>1
    <3> QED
      BY <1>1, <3>1, <3>2 DEF Contains
  <2>2. ASSUME Contains(q, e) PROVE Contains(Append(q, x), e)
    BY <1>1, <2>2 DEF Contains
  <2>3. Contains(Append(q, x), x)
    <3>1. Len(q) + 1 \in 1 .. Len(Append(q, x))
      BY <1>1
    <3> QED
      BY <1>1, <3>1 DEF Contains
  <2> QED
    BY <2>1, <2>2, <2>3
<1> QED
  BY <1>1, <1>2, <1>3, <1>4 DEF QueueOK

(* How many times the Server will ask for a client.                         *)
Announced(q) == {i \in 1 .. Len(q) : q[i] = NextClient}

(* Handling an event takes one announcement away, or none.                  *)
LEMMA CountTaken ==
    ASSUME NEW q \in Seq(Messages), q # <<>>
    PROVE  /\ IsFiniteSet(Announced(q)) /\ IsFiniteSet(Announced(Tail(q)))
           /\ Cardinality(Announced(q)) =
                Cardinality(Announced(Tail(q))) + IF Head(q) = NextClient THEN 1 ELSE 0
<1>1. /\ Tail(q) \in Seq(Messages) /\ Len(q) \in Nat \ {0} /\ Head(q) = q[1]
      /\ Len(Tail(q)) = Len(q) - 1
      /\ \A i \in 1 .. Len(q) - 1 : Tail(q)[i] = q[i + 1]
  BY HeadTailProperties, EmptySeq, LenProperties
<1>2. /\ IsFiniteSet(1 .. Len(q)) /\ IsFiniteSet(1 .. Len(Tail(q)))
  BY <1>1, FS_Interval
<1>3. IsFiniteSet(Announced(q)) /\ IsFiniteSet(Announced(Tail(q)))
  BY <1>2, FS_Subset DEF Announced
<1> DEFINE rest == Announced(q) \ {1}
           f == [i \in Announced(Tail(q)) |-> i + 1]
<1>4. f \in Bijection(Announced(Tail(q)), rest)
  <2>1. f \in [Announced(Tail(q)) -> rest]
    BY <1>1 DEF Announced
  <2>2. \A i, j \in Announced(Tail(q)) : f[i] = f[j] => i = j
    BY <1>1 DEF Announced
  <2>3. ASSUME NEW k \in rest PROVE \E i \in Announced(Tail(q)) : f[i] = k
    <3>1. k - 1 \in Announced(Tail(q)) /\ (k - 1) + 1 = k
      BY <1>1 DEF Announced
    <3> QED
      BY <3>1
  <2> QED
    BY <2>1, <2>2, <2>3 DEF Bijection, Injection, Surjection, IsInjective
<1>5. Cardinality(rest) = Cardinality(Announced(Tail(q)))
  BY <1>3, <1>4, FS_Bijection DEF ExistsBijection
<1>6. 1 \in Announced(q) <=> Head(q) = NextClient
  BY <1>1 DEF Announced
<1>7. Cardinality(rest) = IF 1 \in Announced(q) THEN Cardinality(Announced(q)) - 1
                                                ELSE Cardinality(Announced(q))
  BY <1>3, FS_RemoveElement
<1>8. Cardinality(Announced(q)) \in Nat
  BY <1>3, FS_CardinalityType
<1> QED
  BY <1>3, <1>5, <1>6, <1>7, <1>8

(* Posting an event adds one announcement, or none.                         *)
LEMMA CountAdded ==
    ASSUME NEW q \in Seq(Messages), NEW x \in Messages
    PROVE  /\ IsFiniteSet(Announced(q))
           /\ Cardinality(Announced(Append(q, x))) =
                Cardinality(Announced(q)) + IF x = NextClient THEN 1 ELSE 0
<1>1. /\ Len(q) \in Nat
      /\ Len(Append(q, x)) = Len(q) + 1 /\ Append(q, x)[Len(q) + 1] = x
      /\ \A i \in 1 .. Len(q) : Append(q, x)[i] = q[i]
  BY AppendProperties, LenProperties
<1>2. IsFiniteSet(Announced(q))
  <2>1. IsFiniteSet(1 .. Len(q))
    BY <1>1, FS_Interval
  <2> QED
    BY <2>1, FS_Subset DEF Announced
<1>3. Announced(Append(q, x)) =
        IF x = NextClient THEN Announced(q) \cup {Len(q) + 1} ELSE Announced(q)
  BY <1>1 DEF Announced
<1>4. Len(q) + 1 \notin Announced(q)
  BY <1>1 DEF Announced
<1>5. Cardinality(Announced(q)) \in Nat
  BY <1>2, FS_CardinalityType
<1>6. Cardinality(Announced(q) \cup {Len(q) + 1}) = Cardinality(Announced(q)) + 1
  BY <1>2, <1>4, FS_AddElement
<1> QED
  BY <1>2, <1>3, <1>5, <1>6

(***************************************************************************)
(* What is posted of a connection                                           *)
(***************************************************************************)
Of(q, c) == {n \in Names : Contains(q, <<n, c>>)}
Count(q) == Cardinality(Announced(q))

(* Handling an event of d takes it from what is posted of d.                *)
LEMMA TakenEvent ==
    ASSUME NEW q, QueueOK(q), q # <<>>, NEW n \in Names, NEW d \in Conns, Head(q) = <<n, d>>
    PROVE  /\ QueueOK(Tail(q)) /\ Count(Tail(q)) = Count(q) /\ Count(q) \in Nat
           /\ n \in Of(q, d) /\ Of(Tail(q), d) = Of(q, d) \ {n}
           /\ \A c \in Conns \ {d} : Of(Tail(q), c) = Of(q, c)
           /\ n = "gone" => "ready" \notin Of(q, d)
<1>1. <<n, d>> \in Events /\ <<n, d>> # NextClient
  BY Kinds
<1>2. q \in Seq(Messages)
  BY DEF QueueOK
<1>3. Count(Tail(q)) = Count(q) /\ Count(q) \in Nat
  BY <1>1, <1>2, CountTaken, FS_CardinalityType DEF Count
<1>4. \A m \in Names, c \in Conns : Contains(Tail(q), <<m, c>>) <=> Contains(q, <<m, c>>) /\ <<m, c>> # <<n, d>>
  BY <1>1, Taken, Kinds
<1> QED
  BY <1>3, <1>4, Taken DEF Of, Names

(* Handling an event of the listener leaves the connections' events alone.  *)
LEMMA TakenOther ==
    ASSUME NEW q, QueueOK(q), q # <<>>, Head(q) \in {Connecting, NextClient}
    PROVE  /\ QueueOK(Tail(q)) /\ Count(q) \in Nat /\ Count(Tail(q)) \in Nat
           /\ Count(q) = Count(Tail(q)) + IF Head(q) = NextClient THEN 1 ELSE 0
           /\ \A c \in Conns : Of(Tail(q), c) = Of(q, c)
<1>1. q \in Seq(Messages)
  BY DEF QueueOK
<1>2. /\ Count(q) \in Nat /\ Count(Tail(q)) \in Nat
      /\ Count(q) = Count(Tail(q)) + IF Head(q) = NextClient THEN 1 ELSE 0
  BY <1>1, CountTaken, FS_CardinalityType DEF Count
<1>3. \A m \in Names, c \in Conns : Contains(Tail(q), <<m, c>>) <=> Contains(q, <<m, c>>)
  <2> SUFFICES ASSUME NEW m \in Names, NEW c \in Conns
               PROVE  Contains(Tail(q), <<m, c>>) <=> Contains(q, <<m, c>>)
    OBVIOUS
  <2>1. <<m, c>> \in Events /\ <<m, c>> # Head(q)
    BY Kinds
  <2> QED
    BY <2>1, Taken
<1> QED
  BY <1>2, <1>3, Taken DEF Of

(* Posting an event of d adds it to what is posted of d.                    *)
LEMMA AddedEvent ==
    ASSUME NEW q, QueueOK(q), NEW n \in Names, NEW d \in Conns, n \notin Of(q, d),
           n = "ready" => "gone" \notin Of(q, d)
    PROVE  /\ QueueOK(Post(q, n, d)) /\ Count(Post(q, n, d)) = Count(q) /\ Count(q) \in Nat
           /\ Of(Post(q, n, d), d) = Of(q, d) \cup {n}
           /\ \A c \in Conns \ {d} : Of(Post(q, n, d), c) = Of(q, c)
<1>1. <<n, d>> \in Events /\ <<n, d>> # NextClient /\ <<n, d>> \in Messages
  BY Kinds DEF Messages
<1>2. q \in Seq(Messages)
  BY DEF QueueOK
<1>3. Count(Post(q, n, d)) = Count(q) /\ Count(q) \in Nat
  BY <1>1, <1>2, CountAdded, FS_CardinalityType DEF Count, Post
<1>4. ~Contains(q, <<n, d>>) /\ \A c \in Conns : <<n, d>> = <<"ready", c>> => ~Contains(q, <<"gone", c>>)
  BY DEF Of, Names
<1>5. /\ QueueOK(Post(q, n, d))
      /\ \A e : Contains(Post(q, n, d), e) <=> Contains(q, e) \/ e = <<n, d>>
  BY <1>1, <1>4, Added DEF Post
<1> QED
  BY <1>3, <1>5 DEF Of

(* Posting an event of the listener adds to no connection's events.         *)
LEMMA AddedOther ==
    ASSUME NEW q, QueueOK(q), NEW x \in {Connecting, NextClient}
    PROVE  /\ QueueOK(Append(q, x)) /\ Count(q) \in Nat
           /\ Count(Append(q, x)) = Count(q) + IF x = NextClient THEN 1 ELSE 0
           /\ \A c \in Conns : Of(Append(q, x), c) = Of(q, c)
<1>1. x \in Messages /\ x \notin Events /\ \A n \in Names, c \in Conns : x # <<n, c>>
  BY Kinds DEF Messages
<1>2. q \in Seq(Messages)
  BY DEF QueueOK
<1>3. Count(Append(q, x)) = Count(q) + (IF x = NextClient THEN 1 ELSE 0) /\ Count(q) \in Nat
  BY <1>1, <1>2, CountAdded, FS_CardinalityType DEF Count
<1>4. /\ QueueOK(Append(q, x))
      /\ \A e : Contains(Append(q, x), e) <=> Contains(q, e) \/ e = x
  <2>1. \A c \in Conns : x # <<"ready", c>>
    BY <1>1 DEF Names
  <2> QED
    BY <1>1, <2>1, Added
<1> QED
  BY <1>1, <1>3, <1>4 DEF Of

(* The waiting clients wait once each.                                      *)
Distinct(s) == \A i, j \in 1 .. Len(s) : s[i] = s[j] => i = j

(* Erasing a client takes it and no other from the list.                   *)
LEMMA Erased ==
    ASSUME NEW s \in Seq(Conns), Distinct(s), NEW k \in 1 .. Len(s)
    PROVE  /\ RemoveFirst(s, s[k]) \in Seq(Conns) /\ Distinct(RemoveFirst(s, s[k]))
           /\ Len(RemoveFirst(s, s[k])) = Len(s) - 1
           /\ ToSet(RemoveFirst(s, s[k])) = ToSet(s) \ {s[k]}
<1>1. Len(s) \in Nat /\ \A i \in 1 .. Len(s) : s[i] \in Conns
  BY LenProperties, ElementOfSeq
<1>2. {i \in 1 .. Len(s) : s[i] = s[k]} = {k}
  BY DEF Distinct
<1>3. SelectInSeq(s, LAMBDA v : v = s[k]) = k
  BY <1>1, <1>2 DEF SelectInSeq, Min
<1> DEFINE a == SubSeq(s, 1, k - 1)
           b == SubSeq(s, k + 1, Len(s))
           r == a \o b
<1>4. RemoveFirst(s, s[k]) = r
  BY <1>3 DEF RemoveFirst, RemoveAt
<1>5. a \in Seq(Conns) /\ Len(a) = k - 1 /\ \A i \in 1 .. k - 1 : a[i] = s[i]
  BY <1>1, SubSeqProperties
<1>6. b \in Seq(Conns) /\ Len(b) = Len(s) - k /\ \A i \in 1 .. Len(s) - k : b[i] = s[k + i]
  <2>1. /\ b \in Seq(Conns)
        /\ Len(b) = IF k + 1 <= Len(s) THEN Len(s) - (k + 1) + 1 ELSE 0
        /\ \A i \in 1 .. Len(s) - (k + 1) + 1 : b[i] = s[(k + 1) + i - 1]
    BY <1>1, SubSeqProperties
  <2> QED
    BY <1>1, <2>1
<1>7. /\ r \in Seq(Conns) /\ Len(r) = Len(s) - 1
      /\ \A i \in 1 .. Len(s) - 1 : r[i] = IF i < k THEN s[i] ELSE s[i + 1]
  <2>1. /\ r \in Seq(Conns) /\ Len(r) = Len(a) + Len(b)
        /\ \A i \in 1 .. Len(a) + Len(b) : r[i] = IF i <= Len(a) THEN a[i] ELSE b[i - Len(a)]
    BY <1>5, <1>6, ConcatProperties
  <2> HIDE DEF a, b, r
  <2>2. Len(a) + Len(b) = Len(s) - 1
    BY <1>1, <1>5, <1>6
  <2>3. ASSUME NEW i \in 1 .. Len(s) - 1 PROVE r[i] = IF i < k THEN s[i] ELSE s[i + 1]
    <3>1. r[i] = IF i <= k - 1 THEN a[i] ELSE b[i - (k - 1)]
      BY <1>5, <2>1, <2>2
    <3>2. CASE i < k
      BY <1>1, <1>5, <3>1, <3>2
    <3>3. CASE i >= k
      <4>1. i - (k - 1) \in 1 .. Len(s) - k /\ k + (i - (k - 1)) = i + 1
        BY <1>1, <3>3
      <4>2. b[i - (k - 1)] = s[i + 1]
        BY <1>6, <4>1
      <4> QED
        BY <1>1, <3>1, <3>3, <4>2
    <3> QED
      BY <1>1, <3>2, <3>3
  <2> QED
    BY <2>1, <2>2, <2>3
<1> HIDE DEF r
<1>8. Distinct(r)
  BY <1>1, <1>7 DEF Distinct
<1>9. ToSet(r) = ToSet(s) \ {s[k]}
  <2>1. DOMAIN r = 1 .. Len(s) - 1 /\ DOMAIN s = 1 .. Len(s)
    BY <1>7, LenProperties
  <2>2. ASSUME NEW i \in 1 .. Len(s) - 1 PROVE r[i] \in ToSet(s) \ {s[k]}
    BY <1>1, <1>7, <2>1, SMTT(30) DEF ToSet, Distinct
  <2>3. ASSUME NEW i \in 1 .. Len(s), s[i] # s[k] PROVE s[i] \in ToSet(r)
    <3>1. CASE i < k
      BY <1>1, <1>7, <2>1, <3>1 DEF ToSet
    <3>2. CASE i > k
      <4>1. i - 1 \in 1 .. Len(s) - 1 /\ r[i - 1] = s[i]
        BY <1>1, <1>7, <3>2
      <4> QED
        BY <2>1, <4>1 DEF ToSet
    <3> QED
      BY <1>1, <2>3, <3>1, <3>2
  <2> QED
    BY <2>1, <2>2, <2>3 DEF ToSet
<1> QED
  BY <1>4, <1>7, <1>8, <1>9

(***************************************************************************)
(* The inductive invariant                                                  *)
(***************************************************************************)
TypeOK ==
    /\ sockets \subseteq Conns /\ accepting \subseteq Conns /\ newClients \subseteq Conns
    /\ watching \subseteq Conns /\ timer \subseteq Conns /\ ready \subseteq Conns
    /\ stream \in [Conns -> {"none", "unknown", "proxy"}]
    /\ proxy \in [Conns -> {"none", "unknown", "waiting", "server"}]
    /\ waiting \in Seq(Conns)

Said(c) == Of(queue, c)

(* Before the unknown client exists, one of its stages at a time.           *)
Accepting(c) ==
    /\ c \in accepting => Said(c) = {}
    /\ "accepted" \in Said(c) => Said(c) = {"accepted"}
    /\ "refused" \in Said(c) => Said(c) = {"refused"}
    /\ c \in accepting \/ "accepted" \in Said(c) \/ "refused" \in Said(c) =>
          /\ c \notin newClients \cup watching \cup timer \cup ready
          /\ stream[c] = "none" /\ proxy[c] = "none"

(* The unknown client.                                                      *)
Shaking(c) ==
    /\ c \in watching => /\ c \in newClients /\ c \in timer /\ stream[c] = "unknown"
                         /\ Said(c) = {}
    /\ c \in timer => /\ c \in newClients /\ (c \in watching \/ proxy[c] = "unknown")
                      /\ "success" \notin Said(c)
    /\ c \in ready => /\ proxy[c] = "unknown" /\ c \notin timer
                      /\ "success" \in Said(c) /\ "ready" \notin Said(c)
    /\ stream[c] = "unknown" => c \in newClients /\ "success" \notin Said(c)
    /\ "success" \in Said(c) => c \in ready \/ proxy[c] = "none"
    /\ "failure" \in Said(c) => proxy[c] = "none"

(* The proxy.                                                               *)
Proxied(c) ==
    /\ stream[c] = "proxy" <=> proxy[c] # "none"
    /\ proxy[c] = "unknown" => c \in newClients
    /\ proxy[c] \in {"waiting", "server"} => c \notin newClients
    /\ "ready" \in Said(c) => proxy[c] = "unknown" /\ "success" \notin Said(c)
    /\ "gone" \in Said(c) => proxy[c] # "none"

(* Whatever there is of a connection, its socket is counted.                *)
Counted(c) ==
    c \in accepting \cup newClients \/ stream[c] # "none" \/ Said(c) # {} => c \in sockets

ConnOK(c) == Accepting(c) /\ Shaking(c) /\ Proxied(c) /\ Counted(c)

WaitingOK ==
    /\ Distinct(waiting)
    /\ ToSet(waiting) = {c \in Conns : proxy[c] = "waiting"}
    /\ Len(waiting) <= Count(queue)

IInv == TypeOK /\ QueueOK(queue) /\ (\A c \in Conns : ConnOK(c)) /\ WaitingOK

(* ClientListener::start begins with nothing.                               *)
LEMMA InitOK == Init => IInv
<1> SUFFICES ASSUME Init PROVE IInv
  OBVIOUS
<1>1. queue = <<>> /\ waiting = <<>> /\ Len(<<>>) = 0 /\ <<>> \in Seq(Messages) /\ <<>> \in Seq(Conns)
  BY DEF Init
<1>2. QueueOK(queue) /\ \A c \in Conns : Said(c) = {}
  BY <1>1 DEF QueueOK, Single, GoneLast, Said, Of, Contains
<1>3. Count(queue) = 0
  <2>1. Announced(queue) = {}
    BY <1>1 DEF Announced
  <2> QED
    BY <2>1, FS_EmptySet DEF Count
<1>4. WaitingOK
  BY <1>1, <1>3 DEF Init, WaitingOK, Distinct, ToSet
<1> QED
  BY <1>1, <1>2, <1>4 DEF Init, IInv, TypeOK, ConnOK, Accepting, Shaking, Proxied, Counted

(* The listening socket reports a connection.                               *)
LEMMA ServiceListeningOK == ASSUME IInv, ServiceListening PROVE IInv'
<1>1. QueueOK(queue') /\ Count(queue') = Count(queue) /\ \A c \in Conns : Said(c)' = Said(c)
  BY AddedOther, Kinds DEF ServiceListening, IInv, Said
<1>2. ASSUME NEW c \in Conns PROVE ConnOK(c)'
  BY <1>1 DEF ServiceListening, unknownVars, IInv, ConnOK, Accepting, Shaking, Proxied, Counted
<1> QED
  BY <1>1, <1>2 DEF ServiceListening, unknownVars, IInv, TypeOK, WaitingOK

(* The accept fails and leaves nothing but an event less.                   *)
LEMMA AcceptFailsOK == ASSUME IInv, AcceptFails PROVE IInv'
<1>1. QueueOK(queue') /\ Count(queue') = Count(queue) /\ \A c \in Conns : Said(c)' = Said(c)
  BY TakenOther, Kinds DEF AcceptFails, Handling, IInv, Said
<1>2. ASSUME NEW c \in Conns PROVE ConnOK(c)'
  BY <1>1 DEF AcceptFails, unknownVars, IInv, ConnOK, Accepting, Shaking, Proxied, Counted
<1> QED
  BY <1>1, <1>2 DEF AcceptFails, unknownVars, IInv, TypeOK, WaitingOK

(* A new socket is refused, or begins its handshake with the name unused.   *)
LEMMA ClientConnectingOK == ASSUME IInv, NEW d \in Conns, ClientConnecting(d) PROVE IInv'
<1> USE DEF ClientConnecting, Handling
<1>1. /\ QueueOK(Tail(queue)) /\ Count(Tail(queue)) = Count(queue) /\ Count(queue) \in Nat
      /\ \A c \in Conns : Of(Tail(queue), c) = Said(c)
  BY TakenOther, Kinds DEF IInv, Said
<1>2. /\ Said(d) = {} /\ stream[d] = "none" /\ proxy[d] = "none"
      /\ d \notin accepting /\ d \notin newClients /\ d \notin watching /\ d \notin timer /\ d \notin ready
  BY DEF Fresh, IInv, ConnOK, Counted, Shaking
<1>3. CASE queue' = Tail(queue)
  <2>1. ASSUME NEW c \in Conns PROVE ConnOK(c)'
    BY <1>1, <1>2, <1>3 DEF unknownVars, IInv, ConnOK, Accepting, Shaking, Proxied, Counted, Said
  <2> QED
    BY <1>1, <1>3, <2>1 DEF unknownVars, IInv, TypeOK, WaitingOK
<1>4. CASE queue' = Post(Tail(queue), "accepted", d) /\ sockets' = sockets \cup {d} /\ accepting' = accepting
  <2>1. /\ QueueOK(queue') /\ Count(queue') = Count(queue) /\ Said(d)' = {"accepted"}
        /\ \A c \in Conns \ {d} : Said(c)' = Said(c)
    BY <1>1, <1>2, <1>4, AddedEvent DEF Said, Names
  <2>2. ASSUME NEW c \in Conns PROVE ConnOK(c)'
    BY <1>2, <1>4, <2>1 DEF unknownVars, IInv, ConnOK, Accepting, Shaking, Proxied, Counted
  <2> QED
    BY <1>1, <1>4, <2>1, <2>2 DEF unknownVars, IInv, TypeOK, WaitingOK
<1> QED
  BY <1>3, <1>4

(* The TLS handshake ends with one event.                                   *)
LEMMA ServiceAcceptOK == ASSUME IInv, NEW d \in Conns, ServiceAccept(d) PROVE IInv'
<1>1. Said(d) = {}
  BY DEF ServiceAccept, IInv, ConnOK, Accepting
<1>2. PICK name \in {"accepted", "refused"} : queue' = Post(queue, name, d)
  BY DEF ServiceAccept
<1>3. /\ QueueOK(queue') /\ Count(queue') = Count(queue) /\ Said(d)' = {name}
      /\ \A c \in Conns \ {d} : Said(c)' = Said(c)
  BY <1>1, <1>2, AddedEvent DEF IInv, Said, Names
<1>4. ASSUME NEW c \in Conns PROVE ConnOK(c)'
  BY <1>1, <1>3 DEF ServiceAccept, unknownVars, IInv, ConnOK, Accepting, Shaking, Proxied, Counted
<1> QED
  BY <1>3, <1>4 DEF ServiceAccept, unknownVars, IInv, TypeOK, WaitingOK

(* Nothing else is known of a socket whose TLS handshake failed.            *)
LEMMA DisconnectedOnAcceptOK == ASSUME IInv, NEW d \in Conns, DisconnectedOnAccept(d) PROVE IInv'
<1>1. /\ QueueOK(queue') /\ Count(queue') = Count(queue) /\ "refused" \in Said(d) /\ Said(d)' = Said(d) \ {"refused"}
      /\ \A c \in Conns \ {d} : Said(c)' = Said(c)
  <2>1. queue # <<>> /\ Head(queue) = <<"refused", d>> /\ queue' = Tail(queue) /\ "refused" \in Names
    BY DEF DisconnectedOnAccept, Handling, Names
  <2>2. QueueOK(queue)
    BY DEF IInv
  <2> QED
    BY <2>1, <2>2, TakenEvent DEF Said
<1>2. /\ Said(d)' = {} /\ stream[d] = "none" /\ proxy[d] = "none" /\ d \notin accepting
      /\ d \notin newClients /\ d \notin watching /\ d \notin timer /\ d \notin ready
  BY <1>1 DEF IInv, ConnOK, Accepting
<1>3. ASSUME NEW c \in Conns PROVE ConnOK(c)'
  BY <1>1, <1>2 DEF DisconnectedOnAccept, unknownVars, IInv, ConnOK, Accepting, Shaking, Proxied, Counted
<1> QED
  BY <1>1, <1>3 DEF DisconnectedOnAccept, unknownVars, IInv, TypeOK, WaitingOK

(* The accepted socket becomes an unknown client.                           *)
LEMMA ClientAcceptedOK == ASSUME IInv, NEW d \in Conns, ClientAccepted(d) PROVE IInv'
<1>1. /\ QueueOK(queue') /\ Count(queue') = Count(queue) /\ "accepted" \in Said(d) /\ Said(d)' = Said(d) \ {"accepted"}
      /\ \A c \in Conns \ {d} : Said(c)' = Said(c)
  BY TakenEvent DEF ClientAccepted, Handling, IInv, Said, Names
<1>2. ASSUME NEW c \in Conns PROVE ConnOK(c)'
  BY <1>1 DEF ClientAccepted, IInv, TypeOK, ConnOK, Accepting, Shaking, Proxied, Counted
<1> QED
  BY <1>1, <1>2 DEF ClientAccepted, IInv, TypeOK, WaitingOK

(* The handshake fails, with what is left in the queue of its events.       *)
LEMMA SendFailureOK ==
    ASSUME IInv, NEW d \in Conns, NEW q, SendFailure(d, q), QueueOK(q), Count(q) = Count(queue),
           d \in newClients, proxy[d] \in {"none", "unknown"},
           Of(q, d) \subseteq Said(d) \cap {"success"}, \A c \in Conns \ {d} : Of(q, c) = Said(c)
    PROVE  IInv'
<1>1. /\ QueueOK(queue') /\ Count(queue') = Count(queue) /\ Said(d)' = Of(q, d) \cup {"failure"}
      /\ \A c \in Conns \ {d} : Said(c)' = Said(c)
  BY AddedEvent DEF SendFailure, Said, Names
<1>2. /\ "failure" \in Said(d)' /\ Said(d)' \subseteq {"success", "failure"}
      /\ "success" \in Said(d)' => "success" \in Said(d)
  BY <1>1
<1>3. /\ proxy' = [proxy EXCEPT ![d] = "none"] /\ proxy'[d] = "none"
      /\ \A c \in Conns \ {d} : proxy'[c] = proxy[c] /\ stream'[c] = stream[c]
      /\ stream'[d] = IF stream[d] = "proxy" THEN "none" ELSE stream[d]
      /\ TypeOK'
  BY DEF SendFailure, TimerAfterFailure, IInv, TypeOK
<1>4. ConnOK(d)'
  BY <1>2, <1>3 DEF SendFailure, TimerAfterFailure, IInv, ConnOK, Accepting, Shaking, Proxied, Counted, TypeOK
<1>5. ASSUME NEW c \in Conns \ {d} PROVE ConnOK(c)'
  BY <1>1, <1>3 DEF SendFailure, TimerAfterFailure, IInv, ConnOK, Accepting, Shaking, Proxied, Counted
<1>6. WaitingOK'
  BY <1>1, <1>3 DEF SendFailure, IInv, WaitingOK
<1> QED
  BY <1>1, <1>3, <1>4, <1>5, <1>6 DEF IInv

(* A watched unknown client, or one whose timer is handled, has said nothing. *)
LEMMA BrokenOK ==
    ASSUME IInv, NEW d \in Conns, SendFailure(d, queue), d \in watching \/ (d \in timer /\ queue = <<>>)
    PROVE  IInv'
<1>1. Said(d) = {}
  BY DEF IInv, ConnOK, Shaking, Said, Of, Contains
<1>2. d \in newClients /\ proxy[d] \in {"none", "unknown"}
  BY DEF IInv, TypeOK, ConnOK, Shaking, Proxied
<1> QED
  BY <1>1, <1>2, SendFailureOK DEF IInv, Said

(* A hello is refused, or the new proxy takes the stream over.              *)
LEMMA HandleDataOK == ASSUME IInv, NEW d \in Conns, HandleData(d) PROVE IInv'
<1>1. CASE SendFailure(d, queue)
  <2>1. d \in watching
    BY DEF HandleData
  <2> QED
    BY <1>1, <2>1, BrokenOK
<1>2. CASE ~SendFailure(d, queue)
  <2>1. /\ d \in watching /\ proxy' = [proxy EXCEPT ![d] = "unknown"] /\ stream' = [stream EXCEPT ![d] = "proxy"]
        /\ watching' = watching \ {d} /\ timer' = timer
        /\ UNCHANGED <<armed, queue, sockets, accepting, newClients, ready, waiting>>
    BY <1>2 DEF HandleData, StreamAfterHello, TimerAfterHello
  <2>2. Said(d) = {} /\ proxy[d] = "none" /\ d \in newClients /\ d \in timer
    BY <2>1 DEF IInv, TypeOK, ConnOK, Shaking, Proxied
  <2>3. \A c \in Conns : Said(c)' = Said(c)
    BY <2>1 DEF Said
  <2>4. ASSUME NEW c \in Conns PROVE ConnOK(c)'
    BY <2>1, <2>2, <2>3 DEF IInv, TypeOK, ConnOK, Accepting, Shaking, Proxied, Counted
  <2> QED
    BY <2>1, <2>2, <2>4 DEF IInv, TypeOK, WaitingOK
<1> QED
  BY <1>1, <1>2

(* A proxy is ready once, before it is gone.                                *)
LEMMA ParseHandshakeMessageOK == ASSUME IInv, NEW d \in Conns, ParseHandshakeMessage(d) PROVE IInv'
<1>1. "ready" \notin Said(d) /\ "gone" \notin Said(d) /\ proxy[d] = "unknown" /\ d \notin ready
  BY DEF ParseHandshakeMessage, Posted, Said, Of
<1>2. /\ QueueOK(queue') /\ Count(queue') = Count(queue) /\ Said(d)' = Said(d) \cup {"ready"}
      /\ \A c \in Conns \ {d} : Said(c)' = Said(c)
  BY <1>1, AddedEvent DEF ParseHandshakeMessage, IInv, Said, Names
<1>3. ASSUME NEW c \in Conns PROVE ConnOK(c)'
  BY <1>1, <1>2 DEF ParseHandshakeMessage, unknownVars, IInv, ConnOK, Accepting, Shaking, Proxied, Counted
<1> QED
  BY <1>2, <1>3 DEF ParseHandshakeMessage, unknownVars, IInv, TypeOK, WaitingOK

(* The success of a ready proxy is posted once.                             *)
LEMMA SendSuccessOK == ASSUME IInv, NEW d \in Conns, SendSuccess(d) PROVE IInv'
<1>1. /\ QueueOK(Tail(queue)) /\ Count(Tail(queue)) = Count(queue) /\ "ready" \in Said(d)
      /\ Of(Tail(queue), d) = Said(d) \ {"ready"}
      /\ \A c \in Conns \ {d} : Of(Tail(queue), c) = Said(c)
  BY TakenEvent DEF SendSuccess, Handling, IInv, Said, Names
<1>2. "success" \notin Said(d) /\ proxy[d] = "unknown"
  BY <1>1 DEF IInv, ConnOK, Proxied
<1>3. /\ QueueOK(queue') /\ Count(queue') = Count(queue) /\ Said(d)' = (Said(d) \ {"ready"}) \cup {"success"}
      /\ \A c \in Conns \ {d} : Said(c)' = Said(c)
  BY <1>1, <1>2, AddedEvent DEF SendSuccess, Said, Names
<1>4. ASSUME NEW c \in Conns PROVE ConnOK(c)'
  BY <1>1, <1>2, <1>3 DEF SendSuccess, IInv, ConnOK, Accepting, Shaking, Proxied, Counted
<1> QED
  BY <1>3, <1>4 DEF SendSuccess, IInv, TypeOK, WaitingOK

(* A proxy is gone once.                                                    *)
LEMMA DisconnectOK == ASSUME IInv, NEW d \in Conns, Disconnect(d) PROVE IInv'
<1>1. "gone" \notin Said(d) /\ proxy[d] # "none"
  BY DEF Disconnect, Posted, Said, Of
<1>2. /\ QueueOK(queue') /\ Count(queue') = Count(queue) /\ Said(d)' = Said(d) \cup {"gone"}
      /\ \A c \in Conns \ {d} : Said(c)' = Said(c)
  BY <1>1, AddedEvent DEF Disconnect, IInv, Said, Names
<1>3. ASSUME NEW c \in Conns PROVE ConnOK(c)'
  BY <1>1, <1>2 DEF Disconnect, unknownVars, IInv, ConnOK, Accepting, Shaking, Proxied, Counted
<1> QED
  BY <1>2, <1>3 DEF Disconnect, unknownVars, IInv, TypeOK, WaitingOK

(* When the failure is handled nothing else can come of the connection.     *)
LEMMA UnknownFailureOK == ASSUME IInv, NEW d \in Conns, UnknownFailure(d) PROVE IInv'
<1>1. /\ QueueOK(queue') /\ Count(queue') = Count(queue) /\ "failure" \in Said(d) /\ Said(d)' = Said(d) \ {"failure"}
      /\ \A c \in Conns \ {d} : Said(c)' = Said(c)
  BY TakenEvent DEF UnknownFailure, Handling, IInv, Said, Names
<1>2. /\ proxy[d] = "none" /\ d \notin accepting /\ d \notin watching /\ d \notin timer /\ d \notin ready
      /\ stream[d] \in {"none", "unknown"}
  BY <1>1 DEF IInv, TypeOK, ConnOK, Accepting, Shaking, Proxied
<1>3. CASE d \notin newClients
  <2>1. ASSUME NEW c \in Conns PROVE ConnOK(c)'
    BY <1>1, <1>2, <1>3 DEF UnknownFailure, IInv, ConnOK, Accepting, Shaking, Proxied, Counted
  <2> QED
    BY <1>1, <1>3, <2>1 DEF UnknownFailure, IInv, TypeOK, WaitingOK
<1>4. CASE d \in newClients
  <2>1. /\ newClients' = newClients \ {d} /\ stream' = [stream EXCEPT ![d] = "none"]
        /\ sockets' = IF stream[d] = "unknown" THEN sockets \ {d} ELSE sockets
    BY <1>4 DEF UnknownFailure
  <2>2. stream[d] = "unknown" => Said(d)' = {}
    <3>1. "success" \in Said(d) => stream[d] # "unknown"
      BY DEF IInv, ConnOK, Shaking
    <3>2. "accepted" \notin Said(d) /\ "refused" \notin Said(d) /\ "gone" \notin Said(d) /\ "ready" \notin Said(d)
      BY <1>2, <1>4 DEF IInv, ConnOK, Accepting, Proxied
    <3> QED
      BY <1>1, <3>1, <3>2 DEF Said, Of, Names
  <2>3. ConnOK(d)'
    BY <1>1, <1>2, <1>4, <2>1, <2>2 DEF UnknownFailure, IInv, TypeOK, ConnOK, Accepting, Shaking, Proxied, Counted
  <2>4. ASSUME NEW c \in Conns \ {d} PROVE ConnOK(c)'
    BY <1>1, <2>1 DEF UnknownFailure, IInv, TypeOK, ConnOK, Accepting, Shaking, Proxied, Counted
  <2> QED
    BY <1>1, <2>1, <2>3, <2>4 DEF UnknownFailure, IInv, TypeOK, WaitingOK
<1> QED
  BY <1>3, <1>4

(* The proxy waits with an announcement of its own, unless it is deleted.   *)
LEMMA UnknownSuccessOK == ASSUME IInv, NEW d \in Conns, UnknownSuccess(d) PROVE IInv'
<1>1. /\ QueueOK(Tail(queue)) /\ Count(Tail(queue)) = Count(queue) /\ Count(queue) \in Nat /\ "success" \in Said(d)
      /\ Of(Tail(queue), d) = Said(d) \ {"success"}
      /\ \A c \in Conns \ {d} : Of(Tail(queue), c) = Said(c)
  BY TakenEvent DEF UnknownSuccess, Handling, IInv, Said, Names
<1>2. /\ d \notin accepting /\ d \notin watching /\ d \notin timer /\ stream[d] # "unknown"
      /\ "accepted" \notin Said(d) /\ "refused" \notin Said(d) /\ "ready" \notin Said(d)
      /\ proxy[d] = IF d \in ready THEN "unknown" ELSE "none"
  BY <1>1 DEF IInv, ConnOK, Accepting, Shaking, Proxied
<1>3. CASE d \in ready
  <2>1. /\ proxy' = [proxy EXCEPT ![d] = "waiting"] /\ waiting' = Append(waiting, d)
        /\ queue' = Append(Tail(queue), NextClient)
    BY <1>3 DEF UnknownSuccess, Announce
  <2>2. /\ QueueOK(queue') /\ Count(queue') = Count(queue) + 1 /\ Said(d)' = Said(d) \ {"success"}
        /\ \A c \in Conns \ {d} : Said(c)' = Said(c)
    BY <1>1, <2>1, AddedOther DEF Said
  <2>3. ConnOK(d)'
    BY <1>2, <1>3, <2>1, <2>2 DEF UnknownSuccess, IInv, TypeOK, ConnOK, Accepting, Shaking, Proxied, Counted
  <2>4. ASSUME NEW c \in Conns \ {d} PROVE ConnOK(c)'
    BY <2>1, <2>2 DEF UnknownSuccess, IInv, TypeOK, ConnOK, Accepting, Shaking, Proxied, Counted
  <2>5. WaitingOK'
    <3>1. /\ waiting' \in Seq(Conns) /\ Len(waiting) \in Nat /\ Len(waiting') = Len(waiting) + 1
          /\ waiting'[Len(waiting) + 1] = d /\ \A i \in 1 .. Len(waiting) : waiting'[i] = waiting[i]
          /\ DOMAIN waiting = 1 .. Len(waiting) /\ DOMAIN waiting' = 1 .. Len(waiting) + 1
      BY <2>1, AppendProperties, LenProperties DEF IInv, TypeOK
    <3>2. d \notin ToSet(waiting)
      BY <1>2, <1>3 DEF IInv, WaitingOK
    <3>3. Distinct(waiting')
      BY <3>1, <3>2 DEF Distinct, ToSet, IInv, WaitingOK
    <3>4. ToSet(waiting') = ToSet(waiting) \cup {d}
      BY <3>1 DEF ToSet
    <3> QED
      BY <1>1, <2>1, <2>2, <3>1, <3>3, <3>4 DEF IInv, TypeOK, WaitingOK
  <2> QED
    BY <2>1, <2>2, <2>3, <2>4, <2>5, AppendProperties DEF UnknownSuccess, IInv, TypeOK
<1>4. CASE d \notin ready
  <2>1. /\ queue' = Tail(queue) /\ UNCHANGED <<proxy, waiting>>
    BY <1>4 DEF UnknownSuccess
  <2>2. /\ Said(d)' = Said(d) \ {"success"} /\ \A c \in Conns \ {d} : Said(c)' = Said(c)
    BY <1>1, <2>1 DEF Said
  <2>3. ASSUME NEW c \in Conns PROVE ConnOK(c)'
    BY <1>2, <1>4, <2>1, <2>2 DEF UnknownSuccess, IInv, TypeOK, ConnOK, Accepting, Shaking, Proxied, Counted
  <2> QED
    BY <1>1, <2>1, <2>3 DEF UnknownSuccess, IInv, TypeOK, WaitingOK
<1> QED
  BY <1>3, <1>4

(* What the deleted proxy had posted before is its success at most.         *)
LEMMA ProxyGoneOK == ASSUME IInv, NEW d \in Conns, ProxyGone(d) PROVE IInv'
<1>1. /\ QueueOK(Tail(queue)) /\ Count(Tail(queue)) = Count(queue)
      /\ Of(Tail(queue), d) = Said(d) \ {"gone"} /\ "ready" \notin Said(d)
      /\ \A c \in Conns \ {d} : Of(Tail(queue), c) = Said(c)
  BY TakenEvent DEF ProxyGone, Handling, IInv, Said, Names
<1>2. proxy[d] = "unknown" /\ SendFailure(d, Tail(queue))
  BY DEF ProxyGone
<1>3. /\ d \in newClients /\ "accepted" \notin Said(d) /\ "refused" \notin Said(d)
      /\ "failure" \notin Said(d)
  BY <1>2 DEF IInv, ConnOK, Accepting, Shaking, Proxied
<1>4. Of(Tail(queue), d) \subseteq Said(d) \cap {"success"}
  BY <1>1, <1>3 DEF Said, Of, Names
<1> QED
  BY <1>1, <1>2, <1>3, <1>4, SendFailureOK

(* The client that goes is waiting once and has nothing else posted.        *)
LEMMA WaitingClientGoneOK == ASSUME IInv, NEW d \in Conns, WaitingClientGone(d) PROVE IInv'
<1>1. /\ QueueOK(queue') /\ Count(queue') = Count(queue) /\ Count(queue) \in Nat
      /\ "gone" \in Said(d) /\ Said(d)' = Said(d) \ {"gone"}
      /\ \A c \in Conns \ {d} : Said(c)' = Said(c)
  <2>1. queue # <<>> /\ Head(queue) = <<"gone", d>> /\ queue' = Tail(queue) /\ "gone" \in Names
    BY DEF WaitingClientGone, Handling, Names
  <2>2. QueueOK(queue)
    BY DEF IInv
  <2> QED
    BY <2>1, <2>2, TakenEvent DEF Said
<1>2. proxy[d] = "waiting"
  BY DEF WaitingClientGone
<1>3. /\ d \notin accepting /\ d \notin newClients /\ d \notin watching /\ d \notin timer /\ d \notin ready
      /\ Said(d)' = {}
  <2>1. /\ d \notin accepting /\ d \notin newClients /\ d \notin watching /\ d \notin timer /\ d \notin ready
    BY <1>1, <1>2 DEF IInv, ConnOK, Accepting, Shaking, Proxied
  <2>2. /\ "accepted" \notin Said(d) /\ "refused" \notin Said(d) /\ "ready" \notin Said(d)
        /\ "success" \notin Said(d) /\ "failure" \notin Said(d)
    BY <1>2, <2>1 DEF IInv, ConnOK, Accepting, Shaking, Proxied
  <2> QED
    BY <1>1, <2>1, <2>2 DEF Said, Of, Names
<1>4. ConnOK(d)'
  BY <1>2, <1>3 DEF WaitingClientGone, unknownVars, IInv, TypeOK, ConnOK, Accepting, Shaking, Proxied, Counted
<1>5. ASSUME NEW c \in Conns \ {d} PROVE ConnOK(c)'
  BY <1>1 DEF WaitingClientGone, unknownVars, IInv, TypeOK, ConnOK, Accepting, Shaking, Proxied, Counted
<1>6. PICK k \in 1 .. Len(waiting) : waiting[k] = d
  <2>1. DOMAIN waiting = 1 .. Len(waiting)
    BY LenProperties DEF IInv, TypeOK
  <2> QED
    BY <1>2, <2>1 DEF IInv, WaitingOK, ToSet
<1>7. /\ waiting' \in Seq(Conns) /\ Distinct(waiting') /\ Len(waiting') = Len(waiting) - 1
      /\ ToSet(waiting') = ToSet(waiting) \ {d} /\ Len(waiting) \in Nat
  BY <1>6, Erased, LenProperties DEF WaitingClientGone, WaitingAfterGone, IInv, TypeOK, WaitingOK
<1>8. WaitingOK'
  BY <1>1, <1>7 DEF WaitingClientGone, IInv, TypeOK, WaitingOK
<1> QED
  BY <1>1, <1>4, <1>5, <1>7, <1>8 DEF WaitingClientGone, unknownVars, IInv, TypeOK

(* One announcement less, and one waiting client less if there is any.      *)
LEMMA AdoptNextClientOK == ASSUME IInv, AdoptNextClient PROVE IInv'
<1>1. /\ QueueOK(queue') /\ Count(queue) = Count(queue') + 1 /\ Count(queue') \in Nat
      /\ \A c \in Conns : Said(c)' = Said(c)
  BY TakenOther, Kinds DEF AdoptNextClient, Handling, IInv, Said
<1>2. CASE waiting = <<>>
  <2>1. UNCHANGED <<proxy, waiting>> /\ Len(waiting) = 0
    BY <1>2 DEF AdoptNextClient
  <2>2. ASSUME NEW c \in Conns PROVE ConnOK(c)'
    BY <1>1, <2>1 DEF AdoptNextClient, unknownVars, IInv, ConnOK, Accepting, Shaking, Proxied, Counted
  <2> QED
    BY <1>1, <2>1, <2>2 DEF AdoptNextClient, unknownVars, IInv, TypeOK, WaitingOK
<1>3. CASE waiting # <<>>
  <2>0. PICK d : d = Head(waiting)
    OBVIOUS
  <2>1. /\ proxy' = [proxy EXCEPT ![d] = "server"] /\ waiting' = Tail(waiting)
    BY <1>3, <2>0 DEF AdoptNextClient
  <2>2. /\ waiting' \in Seq(Conns) /\ Len(waiting) \in Nat \ {0} /\ Len(waiting') = Len(waiting) - 1
        /\ d = waiting[1] /\ d \in Conns /\ \A i \in 1 .. Len(waiting) - 1 : waiting'[i] = waiting[i + 1]
        /\ DOMAIN waiting = 1 .. Len(waiting) /\ DOMAIN waiting' = 1 .. Len(waiting) - 1
    <3>1. /\ waiting' \in Seq(Conns) /\ Len(waiting) \in Nat \ {0} /\ Len(waiting') = Len(waiting) - 1
          /\ d = waiting[1] /\ d \in Conns
      BY <1>3, <2>0, <2>1, HeadTailProperties, LenProperties, EmptySeq DEF IInv, TypeOK
    <3> QED
      BY <1>3, <2>1, <3>1, HeadTailProperties, LenProperties DEF IInv, TypeOK
  <2>3. Distinct(waiting')
    BY <2>2 DEF Distinct, IInv, WaitingOK
  <2>4. d \in ToSet(waiting) /\ ToSet(waiting') = ToSet(waiting) \ {d}
    <3>1. ASSUME NEW i \in 1 .. Len(waiting), waiting[i] # d PROVE waiting[i] \in ToSet(waiting')
      <4>1. i - 1 \in 1 .. Len(waiting) - 1 /\ waiting'[i - 1] = waiting[i]
        BY <2>2, <3>1
      <4> QED
        BY <2>2, <4>1 DEF ToSet
    <3>2. ASSUME NEW i \in 1 .. Len(waiting) - 1 PROVE waiting'[i] \in ToSet(waiting) \ {d}
      BY <2>2 DEF ToSet, Distinct, IInv, WaitingOK
    <3>3. ToSet(waiting') = {waiting'[i] : i \in 1 .. Len(waiting) - 1}
      BY <2>2 DEF ToSet
    <3>4. ToSet(waiting) = {waiting[i] : i \in 1 .. Len(waiting)}
      BY <2>2 DEF ToSet
    <3> QED
      BY <2>2, <3>1, <3>2, <3>3, <3>4, SMTT(30)
  <2>5. proxy[d] = "waiting"
    BY <2>4 DEF IInv, WaitingOK
  <2>6. WaitingOK'
    BY <1>1, <2>1, <2>2, <2>3, <2>4 DEF IInv, TypeOK, WaitingOK
  <2>7. /\ UNCHANGED <<sockets, accepting, newClients, watching, timer, ready, stream>>
        /\ proxy' \in [Conns -> {"none", "unknown", "waiting", "server"}] /\ proxy'[d] = "server"
        /\ \A c \in Conns \ {d} : proxy'[c] = proxy[c]
    BY <2>1, <2>2 DEF AdoptNextClient, unknownVars, IInv, TypeOK
  <2>8. ConnOK(d)'
    BY <1>1, <2>2, <2>5, <2>7 DEF IInv, ConnOK, Accepting, Shaking, Proxied, Counted
  <2>9. ASSUME NEW c \in Conns \ {d} PROVE ConnOK(c)'
    BY <1>1, <2>7 DEF IInv, ConnOK, Accepting, Shaking, Proxied, Counted
  <2> QED
    BY <1>1, <2>2, <2>6, <2>7, <2>8, <2>9 DEF IInv, TypeOK
<1> QED
  BY <1>2, <1>3

(* The Server deletes a proxy whose end is handled or will never be.        *)
LEMMA ServerDeletesOK ==
    ASSUME IInv, NEW d \in Conns, ServerDeletes(d), QueueOK(queue'), Count(queue') = Count(queue),
           Said(d)' = Said(d) \ {"gone"}, \A c \in Conns \ {d} : Said(c)' = Said(c)
    PROVE  IInv'
<1>1. proxy[d] = "server"
  BY DEF ServerDeletes
<1>2. ConnOK(d)'
  BY <1>1 DEF ServerDeletes, unknownVars, IInv, TypeOK, ConnOK, Accepting, Shaking, Proxied, Counted
<1>3. ASSUME NEW c \in Conns \ {d} PROVE ConnOK(c)'
  BY DEF ServerDeletes, unknownVars, IInv, TypeOK, ConnOK, Accepting, Shaking, Proxied, Counted
<1>4. WaitingOK'
  BY <1>1 DEF ServerDeletes, IInv, TypeOK, WaitingOK
<1> QED
  BY <1>2, <1>3, <1>4 DEF ServerDeletes, unknownVars, IInv, TypeOK

(* The end of the proxy was its last event.                                 *)
LEMMA ServerClientGoneOK == ASSUME IInv, NEW d \in Conns, ServerClientGone(d) PROVE IInv'
<1>1. /\ QueueOK(queue') /\ Count(queue') = Count(queue) /\ Said(d)' = Said(d) \ {"gone"}
      /\ \A c \in Conns \ {d} : Said(c)' = Said(c)
  BY TakenEvent DEF ServerClientGone, Handling, IInv, Said, Names
<1> QED
  BY <1>1, ServerDeletesOK DEF ServerClientGone

(* With an empty queue nothing of the proxy is posted.                      *)
LEMMA ServerCloseTimeoutOK == ASSUME IInv, NEW d \in Conns, ServerCloseTimeout(d) PROVE IInv'
<1>1. \A c \in Conns : Said(c) = {} /\ Said(c)' = {}
  BY DEF ServerCloseTimeout, Said, Of, Contains
<1> QED
  BY <1>1, ServerDeletesOK DEF ServerCloseTimeout, IInv

(* Every step preserves the invariant.                                      *)
LEMMA StepOK == ASSUME IInv, [Next]_vars PROVE IInv'
<1>1. CASE Dispatch
  BY <1>1, AcceptFailsOK, AdoptNextClientOK, ClientConnectingOK, DisconnectedOnAcceptOK, ClientAcceptedOK,
     SendSuccessOK, UnknownFailureOK, UnknownSuccessOK, ProxyGoneOK, WaitingClientGoneOK, ServerClientGoneOK
  DEF Dispatch
<1>2. CASE ServiceListening
  BY <1>2, ServiceListeningOK
<1>3. ASSUME NEW c \in Conns,
             ServiceAccept(c) \/ HandleData(c) \/ ParseHandshakeMessage(c) \/ Disconnect(c) \/ ServerCloseTimeout(c)
      PROVE  IInv'
  BY <1>3, ServiceAcceptOK, HandleDataOK, ParseHandshakeMessageOK, DisconnectOK, ServerCloseTimeoutOK
<1>4. ASSUME NEW c \in Conns, HandshakeBroken(c) \/ HandleTimeout(c) PROVE IInv'
  BY <1>4, BrokenOK DEF HandshakeBroken, HandleTimeout
<1>5. CASE UNCHANGED vars
  <2>1. ASSUME NEW c \in Conns PROVE ConnOK(c)'
    BY <1>5 DEF vars, IInv, ConnOK, Accepting, Shaking, Proxied, Counted, Said
  <2> QED
    BY <1>5, <2>1 DEF vars, IInv, TypeOK, WaitingOK
<1> QED
  BY <1>1, <1>2, <1>3, <1>4, <1>5 DEF Next, Step

(* The inductive invariant.                                                 *)
THEOREM Invariance == Spec => []IInv
<1>1. IInv /\ [Next]_vars => IInv'
  BY StepOK
<1> QED
  BY <1>1, InitOK, PTL DEF Spec

(* Every variable keeps its type.                                           *)
THEOREM TypeCorrect == Spec => []TypeOK
<1>1. IInv => TypeOK
  BY DEF IInv
<1> QED
  BY <1>1, Invariance, PTL

(* Each socket filter and each proxy has one owner that exists, whatever    *)
(* fails, times out or goes away during the handshake and the hand-over.    *)
THEOREM Owned == Spec => []OneOwner
<1>1. IInv => OneOwner
  BY DEF IInv, TypeOK, WaitingOK, ConnOK, Shaking, Proxied, Counted, OneOwner
<1> QED
  BY <1>1, Invariance, PTL

(* Every client in m_waitingClients has a ClientListenerAccepted event on   *)
(* the way, although clients before it in the queue have gone.              *)
THEOREM Announcement == Spec => []WaitingAnnounced
<1>1. IInv => WaitingAnnounced
  BY DEF IInv, WaitingOK, WaitingAnnounced, Count, Announced
<1> QED
  BY <1>1, Invariance, PTL

(* sendFailure deletes no proxy that still has an event to be handled.      *)
THEOREM NoEventOfTheDead == Spec => []EventsHaveProxy
<1>1. IInv => EventsHaveProxy
  BY DEF IInv, ConnOK, Proxied, EventsHaveProxy, Posted, Said, Of, Names
<1> QED
  BY <1>1, Invariance, PTL
=============================================================================
