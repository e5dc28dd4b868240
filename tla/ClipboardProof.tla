--------------------------- MODULE ClipboardProof ---------------------------
(***************************************************************************)
(* Proofs about Clipboard, for any clients and contents: the owner keeps    *)
(* its copy, a clean screen is current, and what was copied is handed over. *)
(*                                                                         *)
(* Data overtakes nothing but may be overtaken: the invariant follows the   *)
(* last thing on its way to a client (Coming) and the last data on its way  *)
(* from it (Reaching) through the queues and the connection.                *)
(***************************************************************************)
EXTENDS Clipboard, FiniteSetTheorems, SequenceTheorems, TLAPS

Values == Contents \cup {Empty}
Above(n) == {k \in Nat : k > n}
Below(n) == {k \in Nat : k < n}

(* The events a client's server object posts, and the data posted for it.   *)
From(c) == {"grabbed", "changed"} \X {c} \X Nat
Sends(c) == {"send"} \X {c} \X Values
Events(c) == From(c) \cup Sends(c)
QueueEvents == (UNION {Events(c) : c \in Clients}) \cup {Unhandled}

(* What overwrites a client's clipboard.                                    *)
Writes == {<<"grab">>} \cup ({"clip"} \X Values)
DownMessages == Writes \cup {<<"leave">>} \cup ({"enter"} \X Nat)

Clips == {"clip"} \X Values \X Nat
UpMessages == Clips \cup ({"grab"} \X Nat)

Boards == [owner : Screens, seq : Nat, clip : Values, data : Values,
           dirty : [Screens -> BOOLEAN], copy : [Screens -> Values], out : SUBSET Clients]
ClientStates == [content : Values, own : BOOLEAN, sent : Values \cup {Unsent},
                 active : BOOLEAN, seq : Nat, outbox : Seq(Clips)]

NoneOf(s, W) == \A i \in DOMAIN s : s[i] \notin W
LastIs(s, W, e) == \E i \in DOMAIN s : s[i] = e /\ \A j \in DOMAIN s : j > i => s[j] \notin W

Typed ==
    /\ connected \subseteq Clients /\ active \in Screens
    /\ seqNum \in Nat /\ seqNum <= MaxSeq /\ primarySeq \in Nat /\ primarySeq <= seqNum
    /\ board \in Boards /\ board.out = {}
    /\ queue \in Seq(QueueEvents)
    /\ down \in [Clients -> Seq(DownMessages)]
    /\ up \in [Clients -> Seq(UpMessages)]
    /\ client \in [Clients -> ClientStates]
    /\ copied \in [Screens -> Nat]

(* Nothing is left of a client that is not connected.                       *)
Gone(c) ==
    /\ down[c] = <<>> /\ up[c] = <<>> /\ client[c].outbox = <<>>
    /\ copied[c] = NotCopied
    /\ NoneOf(queue, Events(c))
    /\ c # active /\ c # board.owner
Alive == \A c \in Clients \ connected : Gone(c)

(* The owner's flag is clear, and the clipboard is the data it holds unless  *)
(* that is too big.                                                         *)
BoardOK ==
    /\ board.owner # Primary => ~board.dirty[board.owner]
    /\ board.clip \in Big \cup {board.data}
    /\ board.data \notin Big

(* The last thing that overwrites the clipboard of c makes it x.            *)
Unwritten(c) == NoneOf(queue, Sends(c)) /\ NoneOf(down[c], Writes)
Coming(c, x) ==
    \/ LastIs(queue, Sends(c), <<"send", c, x>>)
    \/ NoneOf(queue, Sends(c)) /\ LastIs(down[c], Writes, <<"clip", x>>)
    \/ Unwritten(c) /\ (client[c].content = x \/ client[c].own \/ copied[c] # NotCopied)

PrimaryCurrent ==
    ~board.dirty[Primary] /\ board.owner # Primary =>
        copied[Primary] # NotCopied \/ board.copy[Primary] = board.data
Current(c) == ~board.dirty[c] /\ c # board.owner => Coming(c, board.data)

(* No grab of c that the server has yet to see, or has obeyed, is later     *)
(* than n.                                                                  *)
GrabsUpTo(c, n) ==
    /\ NoneOf(up[c], {"grab"} \X Above(n))
    /\ NoneOf(queue, {"grabbed"} \X {c} \X Above(n))
    /\ board.owner = c => board.seq <= n

(* The sequence numbers a client is told never fall.                        *)
Ordered(s) ==
    \A i, j \in DOMAIN s : i < j /\ s[i][1] = "enter" /\ s[j][1] = "enter" => s[i][2] <= s[j][2]
InOrder(c) ==
    /\ GrabsUpTo(c, client[c].seq)
    /\ client[c].seq <= seqNum
    /\ Ordered(down[c])
    /\ NoneOf(down[c], {"enter"} \X (Above(seqNum) \cup Below(client[c].seq)))

(* The last data that c sent is x, and will not be refused as too old.      *)
Reaching(c, x) ==
    \/ \E n \in Nat :
          /\ GrabsUpTo(c, n)
          /\ \/ LastIs(client[c].outbox, Clips, <<"clip", x, n>>)
             \/ client[c].outbox = <<>> /\ LastIs(up[c], UpMessages, <<"clip", x, n>>)
             \/ /\ client[c].outbox = <<>> /\ up[c] = <<>> /\ board.copy[c] = x
                /\ LastIs(queue, From(c), <<"changed", c, n>>)
    \/ /\ client[c].outbox = <<>> /\ up[c] = <<>> /\ board.copy[c] = x
       /\ NoneOf(queue, From(c))
       /\ board.owner = c => board.clip = x

(* A client that has been left has sent what was copied on it, which is      *)
(* reaching the server unless something is about to overwrite it.           *)
Handed(c) ==
    /\ ~client[c].own => client[c].sent = Unsent
    /\ client[c].own /\ ~client[c].active /\ copied[c] = NotCopied =>
          client[c].content \in Big \cup {client[c].sent}
    /\ client[c].sent # Unsent /\ Unwritten(c) => Reaching(c, client[c].sent)

ClientsOK == \A c \in connected : Current(c) /\ InOrder(c) /\ Handed(c)

IInv == Typed /\ Alive /\ BoardOK /\ PrimaryCurrent /\ ClientsOK

(***************************************************************************)
(* Sequences                                                                *)
(***************************************************************************)
(* A longer sequence.                                                       *)
LEMMA Longer ==
    ASSUME NEW S, NEW s \in Seq(S), NEW x \in S, NEW W
    PROVE  /\ Append(s, x) \in Seq(S) /\ Append(s, x) # <<>>
           /\ NoneOf(Append(s, x), W) <=> NoneOf(s, W) /\ x \notin W
           /\ x \notin W => \A e : LastIs(s, W, e) => LastIs(Append(s, x), W, e)
           /\ LastIs(Append(s, x), W, x)
<1>1. /\ Append(s, x) \in Seq(S) /\ Len(s) \in Nat /\ Append(s, x) # <<>>
      /\ DOMAIN s = 1 .. Len(s) /\ DOMAIN Append(s, x) = 1 .. Len(s) + 1
      /\ \A i \in 1 .. Len(s) : Append(s, x)[i] = s[i]
      /\ Append(s, x)[Len(s) + 1] = x
  BY AppendProperties, LenProperties
<1>2. NoneOf(Append(s, x), W) <=> NoneOf(s, W) /\ x \notin W
  BY <1>1 DEF NoneOf
<1>3. ASSUME x \notin W, NEW e, LastIs(s, W, e) PROVE LastIs(Append(s, x), W, e)
  BY <1>1, <1>3 DEF LastIs
<1>4. LastIs(Append(s, x), W, x)
  <2>1. Len(s) + 1 \in DOMAIN Append(s, x)
    BY <1>1
  <2>2. \A j \in DOMAIN Append(s, x) : ~(j > Len(s) + 1)
    BY <1>1
  <2> QED
    BY <1>1, <2>1, <2>2 DEF LastIs
<1> QED
  BY <1>1, <1>2, <1>3, <1>4

(* What is left of a sequence.                                              *)
LEMMA Shorter ==
    ASSUME NEW S, NEW s \in Seq(S), s # <<>>, NEW W
    PROVE  /\ Tail(s) \in Seq(S) /\ Head(s) \in S
           /\ NoneOf(s, W) <=> Head(s) \notin W /\ NoneOf(Tail(s), W)
           /\ \A e : LastIs(s, W, e) => \/ LastIs(Tail(s), W, e)
                                        \/ NoneOf(Tail(s), W) /\ Head(s) = e
<1>1. /\ Tail(s) \in Seq(S) /\ Len(s) \in Nat \ {0} /\ Head(s) = s[1] /\ Head(s) \in S
      /\ Len(Tail(s)) = Len(s) - 1 /\ DOMAIN s = 1 .. Len(s)
      /\ DOMAIN Tail(s) = 1 .. Len(s) - 1
  BY HeadTailProperties, EmptySeq, LenProperties
<1>2. \A i \in 1 .. Len(s) - 1 : Tail(s)[i] = s[i + 1]
  BY <1>1, HeadTailProperties
<1>3. \A i \in DOMAIN s : i = 1 \/ (i - 1 \in DOMAIN Tail(s) /\ Tail(s)[i - 1] = s[i])
  BY <1>1, <1>2
<1>4. 1 \in DOMAIN s /\ \A i \in DOMAIN Tail(s) : i + 1 \in DOMAIN s /\ Tail(s)[i] = s[i + 1]
  BY <1>1, <1>2
<1>5. NoneOf(s, W) <=> Head(s) \notin W /\ NoneOf(Tail(s), W)
  BY <1>1, <1>3, <1>4 DEF NoneOf
<1>6. ASSUME NEW e, LastIs(s, W, e)
      PROVE  LastIs(Tail(s), W, e) \/ (NoneOf(Tail(s), W) /\ Head(s) = e)
  <2>1. PICK i \in DOMAIN s : s[i] = e /\ \A j \in DOMAIN s : j > i => s[j] \notin W
    BY <1>6 DEF LastIs
  <2>2. CASE i = 1
    <3>1. ASSUME NEW j \in DOMAIN Tail(s) PROVE Tail(s)[j] \notin W
      <4>1. j + 1 \in DOMAIN s /\ j + 1 > i /\ Tail(s)[j] = s[j + 1]
        BY <1>1, <1>4, <2>2
      <4> QED
        BY <2>1, <4>1
    <3> QED
      BY <1>1, <2>1, <2>2, <3>1 DEF NoneOf
  <2>3. CASE i # 1
    <3>1. i - 1 \in DOMAIN Tail(s) /\ Tail(s)[i - 1] = e
      BY <1>3, <2>1, <2>3
    <3>2. ASSUME NEW j \in DOMAIN Tail(s), j > i - 1 PROVE Tail(s)[j] \notin W
      <4>1. j + 1 \in DOMAIN s /\ j + 1 > i /\ Tail(s)[j] = s[j + 1]
        BY <1>1, <1>4, <3>2
      <4> QED
        BY <2>1, <4>1
    <3> QED
      BY <3>1, <3>2 DEF LastIs
  <2> QED
    BY <2>2, <2>3
<1> QED
  BY <1>1, <1>5, <1>6

(* Nothing is in an empty sequence.                                         *)
LEMMA Nothing == \A W : NoneOf(<<>>, W) /\ \A e : ~LastIs(<<>>, W, e)
BY DEF NoneOf, LastIs

(* Less is in a smaller set.                                                *)
LEMMA Fewer ==
    ASSUME NEW s, NEW W, NEW V \in SUBSET W, NoneOf(s, W)
    PROVE  NoneOf(s, V)
BY DEF NoneOf

(* Of the events of c, their number is left; the others stay.               *)
LEMMA Forgotten ==
    ASSUME NEW c \in Clients, NEW s \in Seq(QueueEvents),
           NEW t, t = [i \in DOMAIN s |-> IF s[i][2] = c THEN Unhandled ELSE s[i]]
    PROVE  /\ t \in Seq(QueueEvents)
           /\ NoneOf(t, Events(c))
           /\ \A W : Unhandled \notin W /\ NoneOf(s, W) => NoneOf(t, W)
           /\ \A d \in Clients \ {c} : \A W \in SUBSET Events(d) :
                 /\ \A e \in Events(d) : LastIs(s, W, e) => LastIs(t, W, e)
                 /\ NoneOf(t, W) => NoneOf(s, W)
<1>1. DOMAIN s = 1 .. Len(s) /\ Len(s) \in Nat /\ \A i \in 1 .. Len(s) : s[i] \in QueueEvents
  BY LenProperties, ElementOfSeq
<1>2. t \in Seq(QueueEvents)
  <2>1. \A i \in 1 .. Len(s) : t[i] \in QueueEvents
    BY <1>1 DEF QueueEvents
  <2> QED
    BY <1>1, <2>1
<1>3. Unhandled \notin Events(c) /\ \A e \in Events(c) : e[2] = c
  BY DEF Unhandled, Events, From, Sends
<1>4. NoneOf(t, Events(c))
  BY <1>1, <1>3 DEF NoneOf
<1>5. ASSUME NEW W, Unhandled \notin W, NoneOf(s, W) PROVE NoneOf(t, W)
  BY <1>5 DEF NoneOf
<1>6. ASSUME NEW d \in Clients \ {c}
      PROVE  Unhandled \notin Events(d) /\ \A e \in Events(d) : e[2] = d
  BY DEF Unhandled, Events, From, Sends
<1>7. ASSUME NEW d \in Clients \ {c}, NEW W \in SUBSET Events(d), NEW e \in Events(d),
             LastIs(s, W, e)
      PROVE  LastIs(t, W, e)
  <2>1. PICK i \in DOMAIN s : s[i] = e /\ \A j \in DOMAIN s : j > i => s[j] \notin W
    BY <1>7 DEF LastIs
  <2>2. DOMAIN t = DOMAIN s /\ t[i] = e
    BY <1>6, <2>1
  <2>3. ASSUME NEW j \in DOMAIN s, j > i PROVE t[j] \notin W
    BY <1>6, <2>1, <2>3
  <2> QED
    BY <2>2, <2>3 DEF LastIs
<1>8. ASSUME NEW d \in Clients \ {c}, NEW W \in SUBSET Events(d), NoneOf(t, W)
      PROVE  NoneOf(s, W)
  <2>1. DOMAIN t = DOMAIN s
    OBVIOUS
  <2>2. ASSUME NEW i \in DOMAIN s, s[i] \in W PROVE FALSE
    <3>1. s[i][2] # c
      BY <1>6, <2>2
    <3>2. t[i] = s[i]
      BY <3>1
    <3> QED
      BY <1>8, <2>1, <2>2, <3>2 DEF NoneOf
  <2> QED
    BY <2>2 DEF NoneOf
<1> QED
  BY <1>2, <1>4, <1>5, <1>7, <1>8

(***************************************************************************)
(* The server's board                                                       *)
(***************************************************************************)
(* A screen that is sent the clipboard is clean, and any other as it was.    *)
LEMMA SetClipboardIs ==
    ASSUME NEW b \in Boards, b.out = {}, NEW s \in Screens, NEW r, r = SetClipboard(b, s)
    PROVE  /\ r \in Boards
           /\ r.owner = b.owner /\ r.seq = b.seq /\ r.clip = b.clip /\ r.data = b.data
           /\ \A t \in Screens : r.dirty[t] = (b.dirty[t] /\ t # s)
           /\ \A t \in Screens : r.copy[t] = IF t = s /\ b.dirty[s] THEN b.clip ELSE b.copy[t]
           /\ r.out = IF b.dirty[s] THEN {s} \ {Primary} ELSE {}
<1>1. /\ b.dirty \in [Screens -> BOOLEAN] /\ b.copy \in [Screens -> Values] /\ b.clip \in Values
      /\ {s} \ {Primary} \subseteq Clients
  BY DEF Boards, Screens
<1>2. CASE b.dirty[s]
  <2>1. r = [b EXCEPT !.dirty[s] = FALSE, !.copy[s] = b.clip, !.out = {s} \ {Primary}]
    BY <1>2 DEF SetClipboard
  <2>2. /\ r.dirty = [b.dirty EXCEPT ![s] = FALSE] /\ r.copy = [b.copy EXCEPT ![s] = b.clip]
        /\ r.out = {s} \ {Primary}
        /\ r.owner = b.owner /\ r.seq = b.seq /\ r.clip = b.clip /\ r.data = b.data
    BY <2>1 DEF Boards
  <2>3. r.dirty \in [Screens -> BOOLEAN] /\ r.copy \in [Screens -> Values]
    BY <1>1, <2>2
  <2>4. r \in Boards
    BY <1>1, <2>1, <2>2, <2>3 DEF Boards
  <2>5. \A t \in Screens : r.dirty[t] = (b.dirty[t] /\ t # s)
    BY <1>1, <2>2
  <2>6. \A t \in Screens : r.copy[t] = IF t = s THEN b.clip ELSE b.copy[t]
    BY <1>1, <2>2
  <2> QED
    BY <1>2, <2>2, <2>4, <2>5, <2>6
<1>3. CASE ~b.dirty[s]
  <2>1. r = b
    BY <1>3 DEF SetClipboard
  <2>2. \A t \in Screens : b.dirty[t] = (b.dirty[t] /\ t # s)
    BY <1>1, <1>3
  <2> QED
    BY <1>3, <2>1, <2>2
<1> QED
  BY <1>2, <1>3

(* Data is taken over from the owner only, and nobody but the active screen  *)
(* has it then.                                                             *)
LEMMA OnClipboardChangedIs ==
    ASSUME NEW b \in Boards, b.out = {}, NEW sender \in Screens, NEW n \in Nat,
           active \in Screens, NEW r, r = OnClipboardChanged(b, sender, n)
    PROVE  LET got == b.copy[sender]
           IN  /\ r \in Boards /\ r.owner = b.owner /\ r.seq = b.seq
               /\ \/ r = b /\ (n < b.seq \/ sender # b.owner)
                  \/ /\ sender = b.owner /\ got \in Big \cup {b.data}
                     /\ r.clip = got
                     /\ r.data = b.data /\ r.dirty = b.dirty /\ r.copy = b.copy /\ r.out = {}
                  \/ /\ sender = b.owner /\ got \notin Big
                     /\ r.clip = got /\ r.data = got
                     /\ \A t \in Screens : r.dirty[t] = (t # sender /\ t # active)
                     /\ \A t \in Screens : r.copy[t] = IF t = active THEN got ELSE b.copy[t]
                     /\ r.out = {active} \ {Primary, sender}
<1> DEFINE got == b.copy[sender]
           new == [b EXCEPT !.clip = got, !.data = got, !.dirty = [s \in Screens |-> s # sender]]
<1>1. got \in Values /\ [s \in Screens |-> s # sender] \in [Screens -> BOOLEAN]
  BY DEF Boards
<1>2. CASE n < b.seq \/ sender # b.owner
  <2>1. r = b
    BY <1>2 DEF OnClipboardChanged
  <2> QED
    BY <1>2, <2>1
<1>3. CASE ~(n < b.seq \/ sender # b.owner) /\ got \in Big \cup {b.data}
  <2>1. r = [b EXCEPT !.clip = got]
    BY <1>3 DEF OnClipboardChanged
  <2>2. r \in Boards
    BY <1>1, <2>1 DEF Boards
  <2>3. /\ r.owner = b.owner /\ r.seq = b.seq /\ r.clip = got /\ r.data = b.data
        /\ r.dirty = b.dirty /\ r.copy = b.copy /\ r.out = b.out
    BY <2>1 DEF Boards
  <2> QED
    BY <1>3, <2>2, <2>3
<1>4. CASE ~(n < b.seq \/ sender # b.owner) /\ got \notin Big \cup {b.data}
  <2>1. r = SetClipboard(new, active)
    BY <1>4 DEF OnClipboardChanged
  <2>2. new \in Boards
    BY <1>1 DEF Boards
  <2>3. /\ new.owner = b.owner /\ new.seq = b.seq /\ new.clip = got /\ new.data = got
        /\ new.dirty = [s \in Screens |-> s # sender] /\ new.copy = b.copy /\ new.out = {}
    BY DEF Boards
  <2>4. \A t \in Screens : new.dirty[t] = (t # sender)
    BY <2>3
  <2> HIDE DEF new
  <2>5. /\ r \in Boards
        /\ r.owner = new.owner /\ r.seq = new.seq /\ r.clip = new.clip /\ r.data = new.data
        /\ \A t \in Screens : r.dirty[t] = (new.dirty[t] /\ t # active)
        /\ \A t \in Screens : r.copy[t] = IF t = active /\ new.dirty[active] THEN new.clip ELSE new.copy[t]
        /\ r.out = IF new.dirty[active] THEN {active} \ {Primary} ELSE {}
    BY <2>1, <2>2, <2>3, SetClipboardIs
  <2>6. \A t \in Screens : r.dirty[t] = (t # sender /\ t # active)
    BY <2>4, <2>5
  <2>7. \A t \in Screens : r.copy[t] = IF t = active THEN got ELSE b.copy[t]
    BY <2>3, <2>4, <2>5
  <2>8. r.out = {active} \ {Primary, sender}
    BY <2>4, <2>5
  <2> QED
    BY <1>4, <2>3, <2>5, <2>6, <2>7, <2>8
<1> QED
  BY <1>2, <1>3, <1>4

(* Data for at most one client is posted.                                   *)
LEMMA Posted ==
    ASSUME NEW b \in Boards, NEW q \in Seq(QueueEvents), Update(b, q),
           NEW to, b.out = {to} \ {Primary}
    PROVE  /\ board' \in Boards /\ board'.out = {}
           /\ board'.owner = b.owner /\ board'.seq = b.seq /\ board'.clip = b.clip
           /\ board'.data = b.data /\ board'.dirty = b.dirty /\ board'.copy = b.copy
           /\ queue' = IF to = Primary THEN q ELSE Append(q, <<"send", to, b.clip>>)
<1>1. board' = [b EXCEPT !.out = {}] /\ queue' = q \o SetToSeq({<<"send", c, b.clip>> : c \in b.out})
  BY DEF Update
<1>2. /\ board' \in Boards /\ board'.out = {}
      /\ board'.owner = b.owner /\ board'.seq = b.seq /\ board'.clip = b.clip
      /\ board'.data = b.data /\ board'.dirty = b.dirty /\ board'.copy = b.copy
  BY <1>1 DEF Boards
<1>3. CASE to = Primary
  <2> DEFINE S == {<<"send", c, b.clip>> : c \in b.out}
  <2>1. S = {} /\ Cardinality(S) = 0
    BY <1>3, FS_EmptySet
  <2> DEFINE Orders == {f \in [1 .. 0 -> S] : IsInjective(f)}
  <2>2. SetToSeq(S) = CHOOSE f \in [1 .. 0 -> S] : IsInjective(f)
    BY <2>1 DEF SetToSeq
  <2>3. <<>> \in [1 .. 0 -> S] /\ IsInjective(<<>>)
    BY DEF IsInjective
  <2>4. SetToSeq(S) \in [1 .. 0 -> S]
    BY <2>2, <2>3
  <2>5. SetToSeq(S) = <<>>
    BY <2>4
  <2> QED
    BY <1>1, <1>2, <1>3, <2>5, ConcatEmptySeq
<1>4. CASE to # Primary
  <2> DEFINE e == <<"send", to, b.clip>>
             S == {<<"send", c, b.clip>> : c \in b.out}
  <2>1. S = {e} /\ Cardinality(S) = 1
    <3>1. b.out = {to}
      BY <1>4
    <3>2. S = {e}
      BY <3>1
    <3>3. Cardinality({e}) = 1
      BY FS_Singleton
    <3> QED
      BY <3>2, <3>3
  <2>2. SetToSeq(S) = CHOOSE f \in [1 .. 1 -> S] : IsInjective(f)
    BY <2>1 DEF SetToSeq
  <2>3. [i \in 1 .. 1 |-> e] \in [1 .. 1 -> S] /\ IsInjective([i \in 1 .. 1 |-> e])
    BY <2>1 DEF IsInjective
  <2>4. SetToSeq(S) \in [1 .. 1 -> S]
    BY <2>2, <2>3
  <2>5. SetToSeq(S) = <<e>>
    BY <2>1, <2>4
  <2>6. e \in QueueEvents
    <3>1. to \in Clients /\ b.clip \in Values
      BY <1>4 DEF Boards
    <3>2. e \in Events(to)
      BY <3>1 DEF Events, Sends
    <3> QED
      BY <3>1, <3>2 DEF QueueEvents
  <2>7. q \o <<e>> = Append(q, e)
    BY <2>6, AppendIsConcat
  <2> QED
    BY <1>1, <1>2, <1>4, <2>5, <2>7
<1> QED
  BY <1>3, <1>4

(* A grab empties the clipboard for everybody but the grabber, unless the     *)
(* primary grabs while a client is active: that client is sent what it has.  *)
LEMMA GrabbedIs ==
    ASSUME Typed, NEW d \in Screens, NEW n \in Nat, NEW r, r = Grabbed(d, n)
    PROVE  /\ r \in Boards /\ r.owner = d /\ r.seq = n
           /\ r.clip \in Big \cup {r.data} /\ r.data \notin Big
           /\ \E to \in {Primary, active} :
                 /\ r.out = {to} \ {Primary}
                 /\ to # Primary => d = Primary /\ r.clip = r.data
                 /\ \A t \in Screens : r.dirty[t] = (t # d /\ (t # to \/ to = Primary))
                 /\ \A t \in Clients : t # to => r.copy[t] = board.copy[t]
<1> DEFINE b == [board EXCEPT !.owner = d, !.seq = n, !.clip = Empty, !.data = Empty,
                              !.dirty = GrabbedDirty(d),
                              !.copy[Primary] = IF d = Primary THEN @ ELSE Empty]
<1>1. /\ board \in Boards /\ board.out = {} /\ active \in Screens
      /\ Empty \in Values /\ Empty \notin Big /\ Primary \in Screens /\ Primary \notin Clients
  BY Parameters DEF Typed, Values, Screens
<1>2. /\ b.owner = d /\ b.seq = n /\ b.clip = Empty /\ b.data = Empty /\ b.out = {}
      /\ b.dirty = [t \in Screens |-> t # d]
      /\ b.copy = [board.copy EXCEPT ![Primary] = IF d = Primary THEN @ ELSE Empty]
  BY <1>1 DEF Boards, GrabbedDirty
<1>3. b \in Boards
  <2>1. b.copy \in [Screens -> Values] /\ b.dirty \in [Screens -> BOOLEAN]
    BY <1>1, <1>2 DEF Boards
  <2> QED
    BY <1>1, <1>2, <2>1 DEF Boards, GrabbedDirty
<1>4. \A t \in Clients : b.copy[t] = board.copy[t]
  BY <1>1, <1>2 DEF Boards, Screens
<1>5. \A t \in Screens : b.dirty[t] = (t # d)
  BY <1>2
<1>6. r = IF d = Primary /\ active # Primary THEN OnClipboardChanged(b, Primary, n) ELSE b
  BY DEF Grabbed
<1> HIDE DEF b
<1>7. CASE ~(d = Primary /\ active # Primary)
  <2>1. r = b
    BY <1>6, <1>7
  <2>2. /\ r.out = {Primary} \ {Primary}
        /\ \A t \in Screens : r.dirty[t] = (t # d)
        /\ \A t \in Clients : r.copy[t] = board.copy[t]
    BY <1>2, <1>4, <1>5, <2>1
  <2> QED
    BY <1>1, <1>2, <1>3, <2>1, <2>2
<1>8. CASE d = Primary /\ active # Primary
  <2> DEFINE got == b.copy[Primary]
  <2>1. r = OnClipboardChanged(b, Primary, n)
    BY <1>6, <1>8
  <2>2. /\ r \in Boards /\ r.owner = b.owner /\ r.seq = b.seq
        /\ \/ r = b /\ (n < b.seq \/ Primary # b.owner)
           \/ /\ Primary = b.owner /\ got \in Big \cup {b.data}
              /\ r.clip = got
              /\ r.data = b.data /\ r.dirty = b.dirty /\ r.copy = b.copy /\ r.out = {}
           \/ /\ Primary = b.owner /\ got \notin Big
              /\ r.clip = got /\ r.data = got
              /\ \A t \in Screens : r.dirty[t] = (t # Primary /\ t # active)
              /\ \A t \in Screens : r.copy[t] = IF t = active THEN got ELSE b.copy[t]
              /\ r.out = {active} \ {Primary, Primary}
    <3>1. b \in Boards /\ b.out = {} /\ Primary \in Screens /\ active \in Screens
      BY <1>1, <1>2, <1>3
    <3> QED
      BY <2>1, <3>1, OnClipboardChangedIs
  <2>3. ~(n < b.seq \/ Primary # b.owner)
    BY <1>2, <1>8
  <2>4. CASE /\ got \in Big \cup {b.data} /\ r.clip = got
             /\ r.data = b.data /\ r.dirty = b.dirty /\ r.copy = b.copy /\ r.out = {}
    <3>1. /\ r.out = {Primary} \ {Primary}
          /\ \A t \in Screens : r.dirty[t] = (t # d)
          /\ \A t \in Clients : r.copy[t] = board.copy[t]
      BY <1>4, <1>5, <2>4
    <3> QED
      BY <1>1, <1>2, <2>2, <2>4, <3>1
  <2>5. CASE /\ got \notin Big /\ r.clip = got /\ r.data = got
             /\ \A t \in Screens : r.dirty[t] = (t # Primary /\ t # active)
             /\ \A t \in Screens : r.copy[t] = IF t = active THEN got ELSE b.copy[t]
             /\ r.out = {active} \ {Primary, Primary}
    <3>1. /\ r.out = {active} \ {Primary} /\ r.clip = r.data
          /\ \A t \in Screens : r.dirty[t] = (t # d /\ t # active)
          /\ \A t \in Clients : t # active => r.copy[t] = board.copy[t]
      BY <1>4, <1>8, <2>5 DEF Screens
    <3> QED
      BY <1>2, <1>8, <2>2, <2>5, <3>1
  <2> QED
    BY <2>2, <2>3, <2>4, <2>5
<1> QED
  BY <1>7, <1>8

(* Switching to s posts the clipboard for s if its copy is not current.      *)
LEMMA SwitchedIs ==
    ASSUME Typed, BoardOK, NEW s \in Screens,
           NEW r, r = IF AfterLeave.clip \in Big THEN AfterLeave ELSE SetClipboard(AfterLeave, s)
    PROVE  /\ r \in Boards /\ r.owner = board.owner /\ r.seq = board.seq
           /\ r.clip \in Big \cup {r.data} /\ r.data \notin Big
           /\ r.owner # Primary => r.clip = board.clip /\ ~r.dirty[r.owner]
           /\ \/ r.dirty[Primary] \/ r.owner = Primary \/ r.copy[Primary] = r.data
              \/ ~board.dirty[Primary] /\ r.copy[Primary] = board.copy[Primary] /\ r.data = board.data
           /\ \E to \in {Primary, s} :
                 /\ r.out = {to} \ {Primary}
                 /\ to # Primary => r.clip = r.data
                 /\ \A t \in Clients : ~r.dirty[t] /\ t # to => ~board.dirty[t] /\ r.data = board.data
                 /\ \A t \in Clients : t # to => r.copy[t] = board.copy[t]
<1> DEFINE a == AfterLeave
<1>1. /\ board \in Boards /\ board.out = {} /\ active \in Screens
      /\ Primary \in Screens /\ Primary \notin Clients /\ Clients \subseteq Screens
  BY Parameters DEF Typed, Screens
<1>2. /\ a \in Boards /\ a.owner = board.owner /\ a.seq = board.seq /\ a.out = {}
      /\ a.clip \in Big \cup {a.data} /\ a.data \notin Big
      /\ \A t \in Screens : a.copy[t] = board.copy[t]
      /\ a = board \/ board.owner = Primary
      /\ \A t \in Screens : ~a.dirty[t] => t = Primary \/ (~board.dirty[t] /\ a.data = board.data)
  <2>1. CASE active = Primary /\ board.owner = Primary
    <3> DEFINE got == board.copy[Primary]
    <3>1. a = OnClipboardChanged(board, Primary, board.seq)
      BY <2>1 DEF AfterLeave
    <3>2. board.seq \in Nat
      BY <1>1 DEF Boards
    <3> HIDE DEF a
    <3>3. /\ a \in Boards /\ a.owner = board.owner /\ a.seq = board.seq
          /\ \/ a = board /\ (board.seq < board.seq \/ Primary # board.owner)
             \/ /\ Primary = board.owner /\ got \in Big \cup {board.data}
                /\ a.clip = got
                /\ a.data = board.data /\ a.dirty = board.dirty /\ a.copy = board.copy /\ a.out = {}
             \/ /\ Primary = board.owner /\ got \notin Big
                /\ a.clip = got /\ a.data = got
                /\ \A t \in Screens : a.dirty[t] = (t # Primary /\ t # active)
                /\ \A t \in Screens : a.copy[t] = IF t = active THEN got ELSE board.copy[t]
                /\ a.out = {active} \ {Primary, Primary}
      BY <1>1, <3>1, <3>2, OnClipboardChangedIs
    <3> QED
      BY <1>1, <2>1, <3>2, <3>3 DEF BoardOK
  <2>2. CASE ~(active = Primary /\ board.owner = Primary)
    <3>1. a = board
      BY <2>2 DEF AfterLeave
    <3> QED
      BY <1>1, <3>1 DEF BoardOK
  <2> QED
    BY <2>1, <2>2
<1>3. r = IF a.clip \in Big THEN a ELSE SetClipboard(a, s)
  OBVIOUS
<1> HIDE DEF a
<1>4. CASE a.clip \in Big
  <2>1. r = a
    BY <1>3, <1>4
  <2>2. /\ r.out = {Primary} \ {Primary}
        /\ \A t \in Clients : ~r.dirty[t] => ~board.dirty[t] /\ r.data = board.data
        /\ \A t \in Clients : r.copy[t] = board.copy[t]
    BY <1>1, <1>2, <2>1
  <2>3. /\ r.owner # Primary => r.clip = board.clip /\ ~r.dirty[r.owner]
        /\ \/ r.dirty[Primary] \/ r.owner = Primary
           \/ ~board.dirty[Primary] /\ r.copy[Primary] = board.copy[Primary] /\ r.data = board.data
    BY <1>1, <1>2, <2>1 DEF BoardOK
  <2> QED
    BY <1>2, <2>1, <2>2, <2>3
<1>5. CASE a.clip \notin Big
  <2>1. /\ r \in Boards
        /\ r.owner = a.owner /\ r.seq = a.seq /\ r.clip = a.clip /\ r.data = a.data
        /\ \A t \in Screens : r.dirty[t] = (a.dirty[t] /\ t # s)
        /\ \A t \in Screens : r.copy[t] = IF t = s /\ a.dirty[s] THEN a.clip ELSE a.copy[t]
        /\ r.out = IF a.dirty[s] THEN {s} \ {Primary} ELSE {}
    <3>1. r = SetClipboard(a, s) /\ a \in Boards /\ a.out = {}
      BY <1>2, <1>3, <1>5
    <3> QED
      BY <3>1, SetClipboardIs
  <2>2. /\ r.owner # Primary => r.clip = board.clip /\ ~r.dirty[r.owner]
        /\ \/ r.dirty[Primary] \/ r.owner = Primary \/ r.copy[Primary] = r.data
           \/ ~board.dirty[Primary] /\ r.copy[Primary] = board.copy[Primary] /\ r.data = board.data
    <3>1. board.owner \in Screens
      BY <1>1 DEF Boards
    <3> QED
      BY <1>1, <1>2, <1>5, <2>1, <3>1 DEF BoardOK
  <2>3. CASE a.dirty[s]
    <3>1. /\ r.out = {s} \ {Primary} /\ r.clip = r.data
          /\ \A t \in Clients : ~r.dirty[t] /\ t # s => ~board.dirty[t] /\ r.data = board.data
          /\ \A t \in Clients : t # s => r.copy[t] = board.copy[t]
      BY <1>1, <1>2, <1>5, <2>1, <2>3
    <3> QED
      BY <1>2, <2>1, <2>2, <3>1
  <2>4. CASE ~a.dirty[s]
    <3>1. /\ r.out = {Primary} \ {Primary}
          /\ \A t \in Clients : ~r.dirty[t] => ~board.dirty[t] /\ r.data = board.data
          /\ \A t \in Clients : r.copy[t] = board.copy[t]
      BY <1>1, <1>2, <2>1, <2>4
    <3> QED
      BY <1>2, <2>1, <2>2, <3>1
  <2> QED
    BY <2>3, <2>4
<1> QED
  BY <1>4, <1>5

(***************************************************************************)
(* The server's steps                                                       *)
(***************************************************************************)
(* What is posted for a client is the last thing that is sent to it, and     *)
(* nothing to any other set of events.                                      *)
LEMMA PostedIs ==
    ASSUME NEW b \in Boards, NEW q \in Seq(QueueEvents), Update(b, q),
           NEW to, b.out = {to} \ {Primary}
    PROVE  /\ queue' \in Seq(QueueEvents)
           /\ \A W : to = Primary \/ <<"send", to, b.clip>> \notin W =>
                 /\ NoneOf(queue', W) <=> NoneOf(q, W)
                 /\ \A e : LastIs(q, W, e) => LastIs(queue', W, e)
           /\ to # Primary => /\ to \in Clients
                              /\ LastIs(queue', Sends(to), <<"send", to, b.clip>>)
                              /\ ~NoneOf(queue', Sends(to))
<1>1. queue' = IF to = Primary THEN q ELSE Append(q, <<"send", to, b.clip>>)
  BY Posted
<1>2. CASE to = Primary
  BY <1>1, <1>2
<1>3. CASE to # Primary
  <2> DEFINE e == <<"send", to, b.clip>>
  <2>1. to \in Clients /\ b.clip \in Values
    BY <1>3 DEF Boards
  <2>2. e \in Sends(to) /\ e \in QueueEvents
    BY <2>1 DEF Sends, QueueEvents, Events
  <2>3. queue' = Append(q, e)
    BY <1>1, <1>3
  <2> HIDE DEF e
  <2>4. queue' \in Seq(QueueEvents) /\ LastIs(queue', Sends(to), e) /\ ~NoneOf(queue', Sends(to))
    BY <2>2, <2>3, Longer
  <2>5. \A W : e \notin W => /\ NoneOf(queue', W) <=> NoneOf(q, W)
                             /\ \A f : LastIs(q, W, f) => LastIs(queue', W, f)
    BY <2>2, <2>3, Longer
  <2> QED
    BY <1>3, <2>1, <2>4, <2>5 DEF e
<1> QED
  BY <1>2, <1>3

(* Data is reaching the server as before, if the step touches nothing of it. *)
LEMMA ReachingKept ==
    ASSUME NEW c \in Clients, NEW x, Reaching(c, x),
           client'[c].outbox = client[c].outbox, up'[c] = up[c], board'.copy[c] = board.copy[c],
           \A n \in Nat : GrabsUpTo(c, n) => GrabsUpTo(c, n)',
           \A n \in Nat : LastIs(queue, From(c), <<"changed", c, n>>) =>
                             LastIs(queue', From(c), <<"changed", c, n>>),
           NoneOf(queue, From(c)) /\ (board.owner = c => board.clip = x) =>
               NoneOf(queue', From(c)) /\ (board'.owner = c => board'.clip = x)
    PROVE  Reaching(c, x)'
BY DEF Reaching

(* A grab the server obeys.                                                 *)
LEMMA GrabStep ==
    ASSUME IInv, NEW d \in connected \cup {Primary}, NEW n \in Nat, NEW q \in Seq(QueueEvents),
           \A W : NoneOf(queue, W) => NoneOf(q, W),
           \A c \in Clients : NoneOf(q, Sends(c)) => NoneOf(queue, Sends(c)),
           \A c \in Clients : \A k \in Nat :
               LastIs(queue, From(c), <<"changed", c, k>>) => LastIs(q, From(c), <<"changed", c, k>>),
           d # Primary => /\ ~NoneOf(queue, From(d))
                          /\ \A m \in Nat : n > m => ~NoneOf(queue, {"grabbed"} \X {d} \X Above(m)),
           Update(Grabbed(d, n), q), SendGrab(d),
           copied' \in [Screens -> Nat], \A c \in Clients : copied'[c] = copied[c],
           UNCHANGED <<cursorVars, up, client>>
    PROVE  IInv'
<1> DEFINE r == Grabbed(d, n)
<1>1. /\ Typed /\ Alive /\ BoardOK /\ d \in Screens /\ connected \subseteq Clients
      /\ Primary \notin Clients
      /\ connected' = connected /\ active' = active /\ seqNum' = seqNum /\ primarySeq' = primarySeq
      /\ up' = up /\ client' = client
  BY Parameters DEF IInv, Typed, Screens, cursorVars
<1>2. /\ r \in Boards /\ r.owner = d /\ r.seq = n
      /\ r.clip \in Big \cup {r.data} /\ r.data \notin Big
  BY <1>1, GrabbedIs
<1>3. PICK to \in {Primary, active} :
         /\ r.out = {to} \ {Primary}
         /\ to # Primary => d = Primary /\ r.clip = r.data
         /\ \A t \in Screens : r.dirty[t] = (t # d /\ (t # to \/ to = Primary))
         /\ \A t \in Clients : t # to => r.copy[t] = board.copy[t]
  BY <1>1, GrabbedIs
<1>4. /\ board' \in Boards /\ board'.out = {}
      /\ board'.owner = d /\ board'.seq = n /\ board'.clip = r.clip
      /\ board'.data = r.data /\ board'.dirty = r.dirty /\ board'.copy = r.copy
  <2>1. Update(r, q)
    OBVIOUS
  <2> HIDE DEF r
  <2> QED
    BY <1>2, <1>3, <2>1, Posted
<1>5. /\ queue' \in Seq(QueueEvents)
      /\ \A W : to = Primary \/ <<"send", to, r.clip>> \notin W =>
            /\ NoneOf(queue', W) <=> NoneOf(q, W)
            /\ \A e : LastIs(q, W, e) => LastIs(queue', W, e)
      /\ to # Primary => /\ to \in Clients
                         /\ LastIs(queue', Sends(to), <<"send", to, r.clip>>)
                         /\ ~NoneOf(queue', Sends(to))
  <2>1. Update(r, q)
    OBVIOUS
  <2> HIDE DEF r
  <2> QED
    BY <1>2, <1>3, <2>1, PostedIs
<1> HIDE DEF r
<1>6. to # Primary => to \in connected
  BY <1>1, <1>3, <1>5 DEF Alive, Gone
<1>7. \A c \in Clients : down'[c] = IF c \in connected \ {d} THEN Append(down[c], <<"grab">>) ELSE down[c]
  BY DEF SendGrab
<1>8. /\ down' \in [Clients -> Seq(DownMessages)] /\ <<"grab">> \in DownMessages
      /\ \A c \in Clients : down[c] \in Seq(DownMessages)
  <2>1. <<"grab">> \in DownMessages /\ down \in [Clients -> Seq(DownMessages)]
    BY <1>1 DEF DownMessages, Writes, Typed
  <2>2. \A c \in Clients : Append(down[c], <<"grab">>) \in Seq(DownMessages)
    BY <2>1, AppendProperties
  <2> QED
    BY <2>1, <2>2 DEF SendGrab
<1>9. Typed'
  BY <1>1, <1>4, <1>5, <1>8 DEF Typed
<1>10. BoardOK'
  <2>1. board'.owner # Primary => ~board'.dirty[board'.owner]
    BY <1>1, <1>3, <1>4
  <2> QED
    BY <1>2, <1>4, <2>1 DEF BoardOK
<1>11. PrimaryCurrent'
  BY <1>3, <1>4 DEF PrimaryCurrent, Screens
<1>12. ASSUME NEW c \in Clients \ connected PROVE Gone(c)'
  <2>1. Gone(c) /\ c # d /\ c # to
    BY <1>1, <1>6, <1>12 DEF Alive
  <2>2. to = Primary \/ <<"send", to, r.clip>> \notin Events(c)
    BY <2>1 DEF Events, From, Sends
  <2>3. NoneOf(queue', Events(c))
    BY <1>5, <2>1, <2>2 DEF Gone
  <2> QED
    BY <1>1, <1>4, <1>7, <2>1, <2>3 DEF Gone
<1>13. Alive'
  BY <1>1, <1>12 DEF Alive
<1>14. ASSUME NEW c \in connected PROVE Current(c)' /\ InOrder(c)' /\ Handed(c)'
  <2>1. c \in Clients /\ c # Primary /\ Current(c) /\ InOrder(c) /\ Handed(c)
    BY <1>1 DEF IInv, ClientsOK
  <2>2. Current(c)'
    <3> SUFFICES ASSUME ~board'.dirty[c], c # board'.owner PROVE Coming(c, board.data)'
      BY DEF Current
    <3>1. c = to /\ to # Primary
      BY <1>3, <1>4, <2>1 DEF Screens
    <3> QED
      BY <1>3, <1>4, <1>5, <3>1 DEF Coming
  <2>3. \A W : W \cap Sends(to) = {} /\ NoneOf(queue, W) => NoneOf(queue', W)
    <3>1. to # Primary => <<"send", to, r.clip>> \in Sends(to)
      BY <1>2, <1>5 DEF Sends, Boards
    <3> QED
      BY <1>5, <3>1
  <2>4. \A m : ({"grabbed"} \X {c} \X Above(m)) \cap Sends(to) = {}
    BY DEF Sends
  <2>5. ASSUME NEW m \in Nat, GrabsUpTo(c, m) PROVE GrabsUpTo(c, m)'
    <3>1. NoneOf(queue', {"grabbed"} \X {c} \X Above(m))
      BY <2>3, <2>4, <2>5 DEF GrabsUpTo
    <3>2. ASSUME c = d PROVE n <= m
      BY <2>1, <2>5, <3>2 DEF GrabsUpTo
    <3> QED
      BY <1>1, <1>4, <2>5, <3>1, <3>2 DEF GrabsUpTo
  <2>6. InOrder(c)'
    <3>1. GrabsUpTo(c, client[c].seq)' /\ client[c].seq \in Nat
      BY <1>1, <2>1, <2>5 DEF InOrder, Typed, ClientStates
    <3>2. CASE c = d
      BY <1>1, <1>7, <2>1, <3>1, <3>2 DEF InOrder
    <3>3. CASE c # d
      <4> DEFINE W == {"enter"} \X (Above(seqNum) \cup Below(client[c].seq))
      <4>1. down'[c] = Append(down[c], <<"grab">>) /\ down[c] \in Seq(DownMessages)
        BY <1>7, <1>8, <2>1, <3>3
      <4>2. <<"grab">> \notin W
        OBVIOUS
      <4>3. NoneOf(down[c], W)
        BY <2>1 DEF InOrder
      <4>4. NoneOf(down'[c], W)
        <5> HIDE DEF W
        <5> QED
          BY <1>8, <4>1, <4>2, <4>3, Longer
      <4>5. Ordered(down'[c])
        <5>1. /\ DOMAIN down[c] = 1 .. Len(down[c]) /\ Len(down[c]) \in Nat
              /\ DOMAIN down'[c] = 1 .. Len(down[c]) + 1
              /\ \A i \in 1 .. Len(down[c]) : down'[c][i] = down[c][i]
              /\ down'[c][Len(down[c]) + 1] = <<"grab">>
          BY <1>8, <4>1, AppendProperties, LenProperties
        <5>2. Ordered(down[c])
          BY <2>1 DEF InOrder
        <5> QED
          BY <5>1, <5>2, SMTT(30) DEF Ordered
      <4> QED
        BY <1>1, <2>1, <3>1, <4>4, <4>5 DEF InOrder
    <3> QED
      BY <3>2, <3>3
  <2>7. Handed(c)'
    <3>1. ASSUME client[c].sent # Unsent, Unwritten(c)' PROVE Reaching(c, client[c].sent)'
      <4>1. c = d
        <5> SUFFICES ASSUME c # d PROVE FALSE
          OBVIOUS
        <5>1. down'[c] = Append(down[c], <<"grab">>) /\ down[c] \in Seq(DownMessages)
          BY <1>7, <1>8, <2>1
        <5>2. <<"grab">> \in Writes
          BY DEF Writes
        <5>3. ~NoneOf(down'[c], Writes)
          BY <1>8, <5>1, <5>2, Longer
        <5> QED
          BY <3>1, <5>3 DEF Unwritten
      <4>2. to = Primary
        BY <1>3, <2>1, <4>1
      <4>3. NoneOf(q, Sends(c)) /\ ~NoneOf(queue, From(c)) /\ down'[c] = down[c]
        BY <1>5, <1>7, <2>1, <3>1, <4>1, <4>2 DEF Unwritten
      <4>4. Reaching(c, client[c].sent)
        BY <2>1, <3>1, <4>3 DEF Handed, Unwritten
      <4>5. \A k \in Nat : LastIs(queue, From(c), <<"changed", c, k>>) =>
                           LastIs(queue', From(c), <<"changed", c, k>>)
        BY <1>5, <2>1, <4>2
      <4>6. board'.copy[c] = board.copy[c]
        BY <1>3, <1>4, <2>1, <4>2
      <4> QED
        BY <1>1, <2>1, <2>5, <4>3, <4>4, <4>5, <4>6, ReachingKept
    <3> QED
      BY <1>1, <2>1, <3>1 DEF Handed
  <2> QED
    BY <2>2, <2>6, <2>7
<1> QED
  BY <1>1, <1>9, <1>10, <1>11, <1>13, <1>14 DEF IInv, ClientsOK

(* The first event is of a client that is connected, or nobody's.            *)
LEMMA FirstEvent ==
    ASSUME Typed, Alive, queue # <<>>, NEW e, e = Head(queue)
    PROVE  /\ Tail(queue) \in Seq(QueueEvents)
           /\ e = Unhandled \/ (e[2] \in connected /\ e \in Events(e[2]))
           /\ e[1] \in {"grabbed", "changed"} <=> e \in From(e[2])
           /\ e[1] = "send" <=> e \in Sends(e[2])
<1>1. Tail(queue) \in Seq(QueueEvents) /\ e \in QueueEvents /\ connected \subseteq Clients
  <2>1. queue \in Seq(QueueEvents) /\ connected \subseteq Clients
    BY DEF Typed
  <2>2. Tail(queue) \in Seq(QueueEvents) /\ Head(queue) \in QueueEvents
    BY <2>1, HeadTailProperties
  <2> QED
    BY <2>1, <2>2
<1>2. e = Unhandled \/ \E c \in Clients : e \in Events(c)
  BY <1>1 DEF QueueEvents
<1>3. ASSUME NEW c \in Clients, e \in Events(c) PROVE e[2] = c /\ c \in connected
  <2>1. e[2] = c
    BY <1>3 DEF Events, From, Sends
  <2>2. ~NoneOf(queue, Events(c))
    BY <1>3, Shorter DEF Typed
  <2> QED
    BY <1>3, <2>1, <2>2 DEF Alive, Gone
<1>4. /\ e[1] \in {"grabbed", "changed"} <=> e \in From(e[2])
      /\ e[1] = "send" <=> e \in Sends(e[2])
  BY <1>2 DEF Unhandled, Events, From, Sends
<1>5. e = Unhandled \/ (e[2] \in connected /\ e \in Events(e[2]))
  <2>1. ASSUME NEW c \in Clients, e \in Events(c) PROVE e[2] \in connected /\ e \in Events(e[2])
    <3>1. e[2] = c /\ c \in connected
      BY <1>3, <2>1
    <3> QED
      BY <2>1, <3>1
  <2> QED
    BY <1>2, <2>1
<1> QED
  BY <1>1, <1>4, <1>5

(* What the rest of the queue has in common with the queue.                  *)
LEMMA Rest ==
    ASSUME Typed, queue # <<>>, NEW W
    PROVE  /\ NoneOf(queue, W) <=> Head(queue) \notin W /\ NoneOf(Tail(queue), W)
           /\ \A e : LastIs(queue, W, e) => \/ LastIs(Tail(queue), W, e)
                                            \/ NoneOf(Tail(queue), W) /\ Head(queue) = e
BY Shorter DEF Typed

(* An event that changes nothing.                                           *)
LEMMA DropStep ==
    ASSUME IInv, queue # <<>>, queue' = Tail(queue), \A c \in Clients : Head(queue) \notin Sends(c),
           \A c \in connected, n \in Nat :
               Head(queue) = <<"changed", c, n>> => n < board.seq \/ c # board.owner,
           UNCHANGED <<cursorVars, board, down, up, client, copied>>
    PROVE  IInv'
<1> DEFINE h == Head(queue)
<1>1. /\ Typed /\ Alive /\ BoardOK /\ PrimaryCurrent /\ connected \subseteq Clients
      /\ connected' = connected /\ active' = active /\ seqNum' = seqNum /\ primarySeq' = primarySeq
      /\ board' = board /\ down' = down /\ up' = up /\ client' = client /\ copied' = copied
  BY DEF IInv, Typed, cursorVars
<1>2. /\ queue' \in Seq(QueueEvents)
      /\ \A W : NoneOf(queue, W) => NoneOf(queue', W)
      /\ \A W : h \notin W /\ NoneOf(queue', W) => NoneOf(queue, W)
      /\ \A W : \A e : LastIs(queue, W, e) => LastIs(queue', W, e) \/ (NoneOf(queue', W) /\ h = e)
  <2>1. Tail(queue) \in Seq(QueueEvents)
    BY <1>1, FirstEvent
  <2> QED
    BY <1>1, <2>1, Rest
<1>3. Typed' /\ BoardOK' /\ PrimaryCurrent'
  BY <1>1, <1>2 DEF Typed, BoardOK, PrimaryCurrent
<1>4. Alive'
  BY <1>1, <1>2 DEF Alive, Gone
<1> HIDE DEF h
<1>5. ASSUME NEW c \in connected PROVE Current(c)' /\ InOrder(c)' /\ Handed(c)'
  <2>1. c \in Clients /\ Current(c) /\ InOrder(c) /\ Handed(c)
    BY <1>1 DEF IInv, ClientsOK
  <2>2. h \notin Sends(c) /\ \A x \in Values : <<"send", c, x>> \in Sends(c)
    BY <2>1 DEF h, Sends
  <2>3. board.data \in Values
    BY <1>1 DEF Typed, Boards
  <2>4. Current(c)'
    <3>1. Coming(c, board.data) => Coming(c, board.data)'
      BY <1>1, <1>2, <2>2, <2>3 DEF Coming, Unwritten
    <3> QED
      BY <1>1, <2>1, <3>1 DEF Current
  <2>5. ASSUME NEW m \in Nat, GrabsUpTo(c, m) PROVE GrabsUpTo(c, m)'
    BY <1>1, <1>2, <2>5 DEF GrabsUpTo
  <2>6. InOrder(c)'
    <3>1. client[c].seq \in Nat
      BY <1>1, <2>1 DEF Typed, ClientStates
    <3>2. GrabsUpTo(c, client[c].seq)'
      BY <1>1, <2>1, <2>5, <3>1 DEF InOrder
    <3> QED
      BY <1>1, <2>1, <3>2 DEF InOrder
  <2>7. ASSUME NEW x, Reaching(c, x) PROVE Reaching(c, x)'
    <3>1. CASE \E n \in Nat : /\ GrabsUpTo(c, n)
                              /\ client[c].outbox = <<>> /\ up[c] = <<>> /\ board.copy[c] = x
                              /\ h = <<"changed", c, n>> /\ NoneOf(queue', From(c))
      <4>1. PICK n \in Nat : /\ GrabsUpTo(c, n)
                             /\ client[c].outbox = <<>> /\ up[c] = <<>> /\ board.copy[c] = x
                             /\ h = <<"changed", c, n>> /\ NoneOf(queue', From(c))
        BY <3>1
      <4>2. board.owner # c
        <5>1. n < board.seq \/ c # board.owner
          BY <4>1 DEF h
        <5>2. board.seq \in Nat
          BY <1>1 DEF Typed, Boards
        <5> QED
          BY <4>1, <5>1, <5>2 DEF GrabsUpTo
      <4> QED
        BY <1>1, <4>1, <4>2 DEF Reaching
    <3>2. CASE ~\E n \in Nat : /\ GrabsUpTo(c, n)
                               /\ client[c].outbox = <<>> /\ up[c] = <<>> /\ board.copy[c] = x
                               /\ h = <<"changed", c, n>> /\ NoneOf(queue', From(c))
      BY <1>1, <1>2, <2>5, <2>7, <3>2 DEF Reaching
    <3> QED
      BY <3>1, <3>2
  <2>8. Handed(c)'
    <3>1. Unwritten(c)' => Unwritten(c)
      BY <1>1, <1>2, <2>2 DEF Unwritten
    <3>2. client[c].sent # Unsent /\ Unwritten(c)' => Reaching(c, client[c].sent)'
      BY <2>1, <2>7, <3>1 DEF Handed
    <3> QED
      BY <1>1, <2>1, <3>2 DEF Handed
  <2> QED
    BY <2>4, <2>6, <2>8
<1> QED
  BY <1>1, <1>3, <1>4, <1>5 DEF IInv, ClientsOK

(* New data of the owner's, which is the data of what was sent last.         *)
LEMMA ChangedStep ==
    ASSUME IInv, queue # <<>>, NEW d, NEW n, Head(queue) = <<"changed", d, n>>,
           Update(OnClipboardChanged(board, d, n), Tail(queue)),
           UNCHANGED <<cursorVars, down, up, client, copied>>
    PROVE  IInv'
<1> DEFINE r == OnClipboardChanged(board, d, n)
           q == Tail(queue)
           got == board.copy[d]
<1>1. /\ Typed /\ Alive /\ BoardOK /\ PrimaryCurrent /\ connected \subseteq Clients
      /\ board \in Boards /\ board.out = {} /\ active \in Screens /\ Primary \notin Clients
      /\ connected' = connected /\ active' = active /\ seqNum' = seqNum /\ primarySeq' = primarySeq
      /\ down' = down /\ up' = up /\ client' = client /\ copied' = copied
  BY Parameters DEF IInv, Typed, cursorVars
<1>2. d \in connected /\ n \in Nat /\ d \in Screens /\ d # Primary /\ q \in Seq(QueueEvents)
  <2>1. Head(queue) # Unhandled /\ Head(queue)[2] = d /\ Head(queue)[1] = "changed"
        /\ Head(queue)[3] = n
    BY DEF Unhandled
  <2>2. d \in connected /\ Head(queue) \in From(d) /\ q \in Seq(QueueEvents)
    <3>1. /\ Tail(queue) \in Seq(QueueEvents)
          /\ Head(queue) = Unhandled \/ (Head(queue)[2] \in connected /\ Head(queue) \in Events(Head(queue)[2]))
          /\ Head(queue)[1] \in {"grabbed", "changed"} <=> Head(queue) \in From(Head(queue)[2])
      BY <1>1, FirstEvent
    <3> QED
      BY <2>1, <3>1
  <2> QED
    BY <1>1, <2>1, <2>2 DEF From, Screens
<1>3. /\ r \in Boards /\ r.owner = board.owner /\ r.seq = board.seq
      /\ \/ r = board /\ (n < board.seq \/ d # board.owner)
         \/ /\ d = board.owner /\ got \in Big \cup {board.data}
            /\ r.clip = got
            /\ r.data = board.data /\ r.dirty = board.dirty /\ r.copy = board.copy /\ r.out = {}
         \/ /\ d = board.owner /\ got \notin Big
            /\ r.clip = got /\ r.data = got
            /\ \A t \in Screens : r.dirty[t] = (t # d /\ t # active)
            /\ \A t \in Screens : r.copy[t] = IF t = active THEN got ELSE board.copy[t]
            /\ r.out = {active} \ {Primary, d}
  BY <1>1, <1>2, OnClipboardChangedIs
<1>4. Update(r, q)
  OBVIOUS
<1> HIDE DEF r
<1>5. CASE r = board /\ (n < board.seq \/ d # board.owner)
  <2>1. r.out = {Primary} \ {Primary}
    BY <1>1, <1>5
  <2>2. board' \in Boards /\ board'.out = {} /\ queue' = q
        /\ board'.owner = r.owner /\ board'.seq = r.seq /\ board'.clip = r.clip
        /\ board'.data = r.data /\ board'.dirty = r.dirty /\ board'.copy = r.copy
    BY <1>2, <1>3, <1>4, <2>1, Posted
  <2>3. board' = board
    <3>1. board' = [r EXCEPT !.out = {}]
      BY <1>4 DEF Update
    <3> QED
      BY <1>1, <1>5, <3>1 DEF Boards
  <2>4. \A c \in Clients : Head(queue) \notin Sends(c)
    BY DEF Sends
  <2>5. \A c \in connected, m \in Nat :
           Head(queue) = <<"changed", c, m>> => m < board.seq \/ c # board.owner
    BY <1>5
  <2> QED
    BY <1>1, <2>2, <2>3, <2>4, <2>5, DropStep
<1>6. CASE d = board.owner /\ ~(r = board /\ (n < board.seq \/ d # board.owner))
  <2>1. \E to \in {Primary, active} :
          /\ r.out = {to} \ {Primary} /\ to # d
          /\ r.clip = got /\ (r.clip = r.data \/ to = Primary)
          /\ r.clip \in Big \cup {r.data} /\ r.data \notin Big
          /\ ~r.dirty[d]
          /\ \A c \in Clients : ~r.dirty[c] =>
                (~board.dirty[c] /\ r.data = board.data) \/ (c = to /\ to # Primary) \/ c = d
          /\ \A c \in Clients : c # to => r.copy[c] = board.copy[c]
          /\ ~r.dirty[Primary] => \/ r.copy[Primary] = r.data
                                  \/ /\ ~board.dirty[Primary] /\ r.data = board.data
                                     /\ r.copy[Primary] = board.copy[Primary]
    <3>1. CASE /\ got \in Big \cup {board.data}
               /\ r.clip = got
               /\ r.data = board.data /\ r.dirty = board.dirty /\ r.copy = board.copy /\ r.out = {}
      <4>1. r.out = {Primary} \ {Primary} /\ ~r.dirty[d]
        BY <1>1, <1>2, <1>6, <3>1 DEF BoardOK
      <4> QED
        BY <1>1, <1>2, <3>1, <4>1 DEF BoardOK
    <3>2. CASE /\ got \notin Big
               /\ r.clip = got /\ r.data = got
               /\ \A t \in Screens : r.dirty[t] = (t # d /\ t # active)
               /\ \A t \in Screens : r.copy[t] = IF t = active THEN got ELSE board.copy[t]
               /\ r.out = {active} \ {Primary, d}
      <4>1. CASE active = d \/ active = Primary
        <5>1. r.out = {Primary} \ {Primary} /\ Primary # d /\ ~r.dirty[d]
          BY <1>2, <3>2, <4>1
        <5>2. \A c \in Clients : r.copy[c] = board.copy[c]
          BY <1>1, <3>2, <4>1 DEF Screens
        <5>3. \A c \in Clients : ~r.dirty[c] => c = d
          BY <1>1, <3>2, <4>1 DEF Screens
        <5>4. ~r.dirty[Primary] => r.copy[Primary] = r.data
          BY <1>2, <3>2 DEF Screens
        <5> QED
          BY <3>2, <5>1, <5>2, <5>3, <5>4
      <4>2. CASE active # d /\ active # Primary
        <5>1. r.out = {active} \ {Primary} /\ ~r.dirty[d]
          BY <1>2, <3>2, <4>2
        <5>2. \A c \in Clients : c # active => r.copy[c] = board.copy[c]
          BY <1>1, <3>2 DEF Screens
        <5>3. \A c \in Clients : ~r.dirty[c] => c = d \/ c = active
          BY <1>1, <3>2 DEF Screens
        <5>4. ~r.dirty[Primary] => r.copy[Primary] = r.data
          BY <1>2, <3>2 DEF Screens
        <5> QED
          BY <3>2, <4>2, <5>1, <5>2, <5>3, <5>4
      <4> QED
        BY <4>1, <4>2
    <3> QED
      BY <1>3, <1>6, <3>1, <3>2
  <2>2. PICK to \in {Primary, active} :
          /\ r.out = {to} \ {Primary} /\ to # d
          /\ r.clip = got /\ (r.clip = r.data \/ to = Primary)
          /\ r.clip \in Big \cup {r.data} /\ r.data \notin Big
          /\ ~r.dirty[d]
          /\ \A c \in Clients : ~r.dirty[c] =>
                (~board.dirty[c] /\ r.data = board.data) \/ (c = to /\ to # Primary) \/ c = d
          /\ \A c \in Clients : c # to => r.copy[c] = board.copy[c]
          /\ ~r.dirty[Primary] => \/ r.copy[Primary] = r.data
                                  \/ /\ ~board.dirty[Primary] /\ r.data = board.data
                                     /\ r.copy[Primary] = board.copy[Primary]
    BY <2>1
  <2>3. /\ board' \in Boards /\ board'.out = {}
        /\ board'.owner = d /\ board'.seq = board.seq /\ board'.clip = r.clip
        /\ board'.data = r.data /\ board'.dirty = r.dirty /\ board'.copy = r.copy
    BY <1>2, <1>3, <1>4, <1>6, <2>2, Posted
  <2>4. /\ queue' \in Seq(QueueEvents)
        /\ \A W : to = Primary \/ <<"send", to, r.clip>> \notin W =>
              /\ NoneOf(queue', W) <=> NoneOf(q, W)
              /\ \A e : LastIs(q, W, e) => LastIs(queue', W, e)
        /\ to # Primary => /\ to \in Clients
                           /\ LastIs(queue', Sends(to), <<"send", to, r.clip>>)
                           /\ ~NoneOf(queue', Sends(to))
    BY <1>2, <1>3, <1>4, <2>2, PostedIs
  <2>5. to # Primary => to \in connected
    BY <1>1, <2>2, <2>4 DEF Alive, Gone
  <2>6. Typed'
    BY <1>1, <2>3, <2>4 DEF Typed
  <2>7. BoardOK' /\ PrimaryCurrent'
    BY <1>1, <1>6, <2>2, <2>3 DEF BoardOK, PrimaryCurrent
  <2>8. \A W : NoneOf(queue, W) => NoneOf(q, W)
    BY <1>1, Rest
  <2>9. Alive'
    <3>1. ASSUME NEW c \in Clients \ connected PROVE Gone(c)'
      <4>1. Gone(c) /\ c # d /\ c # to
        BY <1>1, <1>2, <2>5, <3>1 DEF Alive
      <4>2. to = Primary \/ <<"send", to, r.clip>> \notin Events(c)
        BY <4>1 DEF Events, From, Sends
      <4>3. NoneOf(queue', Events(c))
        BY <2>4, <2>8, <4>1, <4>2 DEF Gone
      <4> QED
        BY <1>1, <2>3, <4>1, <4>3 DEF Gone
    <3> QED
      BY <1>1, <3>1 DEF Alive
  <2>10. ASSUME NEW c \in connected PROVE Current(c)' /\ InOrder(c)' /\ Handed(c)'
    <3>1. c \in Clients /\ c # Primary /\ Current(c) /\ InOrder(c) /\ Handed(c)
      BY <1>1 DEF IInv, ClientsOK
    <3>2. /\ Head(queue) \notin Sends(c) /\ \A x \in Values : <<"send", c, x>> \in Sends(c)
          /\ to # c => <<"send", to, r.clip>> \notin Sends(c)
      BY DEF Sends
    <3>3. \A m : Head(queue) \notin {"grabbed"} \X {c} \X Above(m)
                 /\ <<"send", to, r.clip>> \notin {"grabbed"} \X {c} \X Above(m)
      OBVIOUS
    <3>4. <<"send", to, r.clip>> \notin From(c)
      BY DEF From
    <3>5. Current(c)'
      <4> SUFFICES ASSUME ~board'.dirty[c], c # board'.owner PROVE Coming(c, board.data)'
        BY DEF Current
      <4>1. CASE c = to
        <5>1. r.clip = r.data /\ to # Primary
          BY <2>2, <3>1, <4>1
        <5> QED
          BY <2>3, <2>4, <4>1, <5>1 DEF Coming
      <4>2. CASE c # to
        <5>1. ~board.dirty[c] /\ board'.data = board.data /\ c # board.owner
          BY <1>6, <2>2, <2>3, <3>1, <4>2
        <5>2. Coming(c, board.data) /\ board.data \in Values
          BY <1>1, <3>1, <5>1 DEF Current, Boards
        <5>3. /\ LastIs(queue, Sends(c), <<"send", c, board.data>>) =>
                    LastIs(queue', Sends(c), <<"send", c, board.data>>)
              /\ NoneOf(queue, Sends(c)) => NoneOf(queue', Sends(c))
          BY <1>1, <2>4, <2>8, <3>2, <4>2, <5>2, Rest
        <5> QED
          BY <1>1, <5>1, <5>2, <5>3 DEF Coming, Unwritten
      <4> QED
        BY <4>1, <4>2
    <3>6. ASSUME NEW m \in Nat, GrabsUpTo(c, m) PROVE GrabsUpTo(c, m)'
      BY <1>1, <1>6, <2>3, <2>4, <2>8, <3>3, <3>6 DEF GrabsUpTo
    <3>7. InOrder(c)'
      <4>1. client[c].seq \in Nat
        BY <1>1, <3>1 DEF Typed, ClientStates
      <4> QED
        BY <1>1, <3>1, <3>6, <4>1 DEF InOrder
    <3>8. ASSUME client[c].sent # Unsent, Unwritten(c)' PROVE Reaching(c, client[c].sent)'
      <4>1. c # to
        BY <2>4, <3>1, <3>8 DEF Unwritten
      <4>2. NoneOf(queue, Sends(c)) /\ NoneOf(down[c], Writes)
        BY <1>1, <2>4, <3>2, <3>8, <4>1, Rest DEF Unwritten
      <4>3. Reaching(c, client[c].sent) /\ board'.copy[c] = board.copy[c]
        BY <2>2, <2>3, <3>1, <3>8, <4>1, <4>2 DEF Handed, Unwritten
      <4>4. NoneOf(queue, From(c)) => NoneOf(queue', From(c)) /\ c # d
        <5>1. Head(queue) = <<"changed", c, n>> => Head(queue) \in From(c)
          BY <1>2 DEF From
        <5> QED
          BY <1>1, <2>4, <2>8, <3>4, <5>1, Rest
      <4>5. ASSUME NEW k \in Nat, LastIs(queue, From(c), <<"changed", c, k>>)
            PROVE  \/ LastIs(queue', From(c), <<"changed", c, k>>)
                   \/ NoneOf(queue', From(c)) /\ c = d
        <5>1. \/ LastIs(q, From(c), <<"changed", c, k>>)
              \/ NoneOf(q, From(c)) /\ Head(queue) = <<"changed", c, k>>
          BY <1>1, <4>5, Rest
        <5>2. Head(queue) = <<"changed", c, k>> => c = d
          OBVIOUS
        <5> QED
          BY <2>4, <3>4, <5>1, <5>2
      <4>6. c = d => board'.clip = board'.copy[c]
        BY <2>2, <2>3, <3>1
      <4> QED
        BY <1>1, <1>6, <2>3, <3>6, <4>3, <4>4, <4>5, <4>6 DEF Reaching
    <3>9. Handed(c)'
      BY <1>1, <3>1, <3>8 DEF Handed
    <3> QED
      BY <3>5, <3>7, <3>9
  <2> QED
    BY <1>1, <2>6, <2>7, <2>9, <2>10 DEF IInv, ClientsOK
<1> QED
  BY <1>3, <1>5, <1>6

(* The data posted for a client is written to its connection.               *)
LEMMA SendStep ==
    ASSUME IInv, queue # <<>>, NEW d, NEW x, Head(queue) = <<"send", d, x>>,
           queue' = Tail(queue), down' = [down EXCEPT ![d] = Append(@, <<"clip", x>>)],
           UNCHANGED <<cursorVars, board, up, client, copied>>
    PROVE  IInv'
<1> DEFINE m == <<"clip", x>>
<1>1. /\ Typed /\ Alive /\ BoardOK /\ PrimaryCurrent /\ connected \subseteq Clients
      /\ connected' = connected /\ active' = active /\ seqNum' = seqNum /\ primarySeq' = primarySeq
      /\ board' = board /\ up' = up /\ client' = client /\ copied' = copied
      /\ down \in [Clients -> Seq(DownMessages)]
  BY DEF IInv, Typed, cursorVars
<1>2. d \in connected /\ x \in Values /\ queue' \in Seq(QueueEvents)
  <2>1. Head(queue)[2] = d /\ Head(queue)[1] = "send" /\ Head(queue)[3] = x
        /\ Head(queue) # Unhandled
    BY DEF Unhandled
  <2>2. d \in connected /\ Head(queue) \in Sends(d) /\ Tail(queue) \in Seq(QueueEvents)
    BY <1>1, <2>1, FirstEvent
  <2> QED
    BY <2>1, <2>2 DEF Sends
<1>3. /\ \A W : NoneOf(queue, W) => NoneOf(queue', W)
      /\ \A W : Head(queue) \notin W /\ NoneOf(queue', W) => NoneOf(queue, W)
      /\ \A W : \A e : LastIs(queue, W, e) =>
            LastIs(queue', W, e) \/ (NoneOf(queue', W) /\ Head(queue) = e)
  BY <1>1, Rest
<1>4. m \in Writes /\ m \in DownMessages /\ m[1] # "enter"
  BY <1>2 DEF Writes, DownMessages
<1>5. /\ down' \in [Clients -> Seq(DownMessages)]
      /\ down'[d] = Append(down[d], m)
      /\ \A c \in Clients : c # d => down'[c] = down[c]
  <2>1. down[d] \in Seq(DownMessages) /\ d \in Clients
    BY <1>1, <1>2
  <2>2. Append(down[d], m) \in Seq(DownMessages)
    BY <1>4, <2>1, AppendProperties
  <2> QED
    BY <1>1, <2>1, <2>2
<1> HIDE DEF m
<1>6. Typed' /\ BoardOK' /\ PrimaryCurrent'
  BY <1>1, <1>2, <1>5 DEF Typed, BoardOK, PrimaryCurrent
<1>7. Alive'
  BY <1>1, <1>2, <1>3, <1>5 DEF Alive, Gone
<1>8. ASSUME NEW c \in connected PROVE Current(c)' /\ InOrder(c)' /\ Handed(c)'
  <2>1. c \in Clients /\ Current(c) /\ InOrder(c) /\ Handed(c) /\ down[c] \in Seq(DownMessages)
    BY <1>1 DEF IInv, ClientsOK
  <2>2. board.data \in Values /\ client[c].seq \in Nat
    BY <1>1, <2>1 DEF Typed, Boards, ClientStates
  <2>3. Head(queue) \notin From(c)
    BY DEF From
  <2>4. Current(c)'
    <3> SUFFICES ASSUME Coming(c, board.data) PROVE Coming(c, board.data)'
      BY <1>1, <2>1 DEF Current
    <3>1. CASE c = d
      <4>1. Head(queue) \in Sends(c)
        BY <1>2, <3>1 DEF Sends
      <4>2. LastIs(queue, Sends(c), <<"send", c, board.data>>)
        BY <1>1, <4>1, Rest DEF Coming, Unwritten
      <4>3. CASE LastIs(queue', Sends(c), <<"send", c, board.data>>)
        BY <1>1, <4>3 DEF Coming
      <4>4. CASE NoneOf(queue', Sends(c)) /\ Head(queue) = <<"send", c, board.data>>
        <5>1. m = <<"clip", board.data>>
          BY <4>4 DEF m
        <5>2. LastIs(down'[c], Writes, m)
          BY <1>4, <1>5, <2>1, <3>1, Longer
        <5> QED
          BY <1>1, <4>4, <5>1, <5>2 DEF Coming
      <4> QED
        BY <1>3, <4>2, <4>3, <4>4
    <3>2. CASE c # d
      <4>1. Head(queue) # <<"send", c, board.data>>
        BY <3>2
      <4> QED
        BY <1>1, <1>3, <1>5, <2>1, <3>2, <4>1 DEF Coming, Unwritten
    <3> QED
      BY <3>1, <3>2
  <2>5. ASSUME NEW n \in Nat, GrabsUpTo(c, n) PROVE GrabsUpTo(c, n)'
    BY <1>1, <1>3, <2>5 DEF GrabsUpTo
  <2>6. InOrder(c)'
    <3>1. CASE c = d
      <4> DEFINE W == {"enter"} \X (Above(seqNum) \cup Below(client[c].seq))
      <4>1. m \notin W /\ NoneOf(down[c], W)
        BY <1>4, <2>1 DEF InOrder
      <4>2. NoneOf(down'[c], W)
        <5> HIDE DEF W
        <5> QED
          BY <1>4, <1>5, <2>1, <3>1, <4>1, Longer, SMTT(30)
      <4>3. Ordered(down'[c])
        <5>1. /\ DOMAIN down[c] = 1 .. Len(down[c]) /\ Len(down[c]) \in Nat
              /\ DOMAIN down'[c] = 1 .. Len(down[c]) + 1
              /\ \A i \in 1 .. Len(down[c]) : down'[c][i] = down[c][i]
              /\ down'[c][Len(down[c]) + 1] = m
          BY <1>4, <1>5, <2>1, <3>1, AppendProperties, LenProperties
        <5>2. Ordered(down[c])
          BY <2>1 DEF InOrder
        <5> QED
          BY <1>4, <5>1, <5>2 DEF Ordered
      <4> QED
        BY <1>1, <2>1, <2>2, <2>5, <4>2, <4>3 DEF InOrder
    <3>2. CASE c # d
      BY <1>1, <1>5, <2>1, <2>2, <2>5, <3>2 DEF InOrder
    <3> QED
      BY <3>1, <3>2
  <2>7. ASSUME client[c].sent # Unsent, Unwritten(c)' PROVE Reaching(c, client[c].sent)'
    <3>1. c # d
      <4>1. c = d => ~NoneOf(down'[c], Writes)
        BY <1>4, <1>5, <2>1, Longer
      <4> QED
        BY <2>7, <4>1 DEF Unwritten
    <3>2. Head(queue) \notin Sends(c)
      BY <3>1 DEF Sends
    <3>3. Unwritten(c)
      BY <1>3, <1>5, <2>1, <2>7, <3>1, <3>2 DEF Unwritten
    <3>4. Reaching(c, client[c].sent)
      BY <2>1, <2>7, <3>3 DEF Handed
    <3>5. \A n \in Nat : LastIs(queue, From(c), <<"changed", c, n>>) =>
                            LastIs(queue', From(c), <<"changed", c, n>>)
      BY <1>3
    <3> QED
      BY <1>1, <1>3, <2>1, <2>5, <3>4, <3>5, ReachingKept
  <2>8. Handed(c)'
    BY <1>1, <2>1, <2>7 DEF Handed
  <2> QED
    BY <2>4, <2>6, <2>8
<1> QED
  BY <1>1, <1>6, <1>7, <1>8 DEF IInv, ClientsOK

(* Whichever event is dispatched (Server's handlers, ClipboardChunk::send).  *)
LEMMA DispatchKeeps == IInv /\ Dispatch => IInv'
<1> SUFFICES ASSUME IInv, Dispatch PROVE IInv'
  OBVIOUS
<1> DEFINE e == Head(queue)
<1>1. /\ Typed /\ Alive /\ queue # <<>>
      /\ UNCHANGED <<cursorVars, up, client, copied>>
  BY DEF IInv, Dispatch
<1>2. /\ Tail(queue) \in Seq(QueueEvents)
      /\ e = Unhandled \/ (e[2] \in connected /\ e \in Events(e[2]))
      /\ e[1] \in {"grabbed", "changed"} <=> e \in From(e[2])
      /\ e[1] = "send" <=> e \in Sends(e[2])
  BY <1>1, FirstEvent
<1>3. CASE /\ e[1] = "grabbed" /\ ~Ignored(e[2], e[3])
           /\ Update(Grabbed(e[2], e[3]), Tail(queue))
           /\ SendGrab(e[2])
  <2> DEFINE d == e[2]
             n == e[3]
             q == Tail(queue)
  <2>1. e \in From(d) /\ d \in connected /\ n \in Nat /\ e = <<"grabbed", d, n>>
    BY <1>2, <1>3 DEF From, Unhandled
  <2>2. /\ \A c \in Clients : e \notin Sends(c)
        /\ \A c, k : e # <<"changed", c, k>>
    BY <2>1 DEF Sends
  <2>3. \A W : NoneOf(queue, W) => NoneOf(q, W)
    BY <1>1, Rest
  <2>4. \A c \in Clients : NoneOf(q, Sends(c)) => NoneOf(queue, Sends(c))
    BY <1>1, <2>2, Rest
  <2>5. \A c \in Clients : \A k \in Nat :
           LastIs(queue, From(c), <<"changed", c, k>>) => LastIs(q, From(c), <<"changed", c, k>>)
    BY <1>1, <2>2, Rest
  <2>6. ~NoneOf(queue, From(d))
    BY <1>1, <2>1, Rest
  <2>7. ASSUME NEW m \in Nat, n > m PROVE ~NoneOf(queue, {"grabbed"} \X {d} \X Above(m))
    <3>1. e \in {"grabbed"} \X {d} \X Above(m)
      BY <2>1, <2>7 DEF Above
    <3> QED
      BY <1>1, <3>1, Rest
  <2>8. copied' = copied /\ copied \in [Screens -> Nat]
    BY <1>1 DEF Typed
  <2>9. Update(Grabbed(d, n), q) /\ SendGrab(d) /\ q \in Seq(QueueEvents)
    BY <1>2, <1>3
  <2> HIDE DEF d, n, q, e
  <2> QED
    BY <1>1, <2>1, <2>3, <2>4, <2>5, <2>6, <2>7, <2>8, <2>9, GrabStep
<1>4. CASE /\ e[1] = "grabbed" \/ e = Unhandled
           /\ queue' = Tail(queue) /\ UNCHANGED <<board, down>>
  <2>1. e[1] = "grabbed" \/ e[1] = "unhandled"
    BY <1>4 DEF Unhandled
  <2>2. /\ \A c \in Clients : e \notin Sends(c)
        /\ \A c \in connected, n \in Nat : e # <<"changed", c, n>>
    BY <2>1 DEF Sends
  <2> QED
    BY <1>1, <1>4, <2>2, DropStep
<1>5. CASE /\ e[1] = "changed"
           /\ Update(OnClipboardChanged(board, e[2], e[3]), Tail(queue))
           /\ UNCHANGED down
  <2>1. e = <<"changed", e[2], e[3]>>
    BY <1>2, <1>5 DEF From, Unhandled
  <2> QED
    BY <1>1, <1>5, <2>1, ChangedStep
<1>6. CASE /\ e[1] = "send"
           /\ queue' = Tail(queue)
           /\ down' = [down EXCEPT ![e[2]] = Append(@, <<"clip", e[3]>>)]
           /\ UNCHANGED board
  <2>1. e = <<"send", e[2], e[3]>>
    BY <1>2, <1>6 DEF Sends
  <2> QED
    BY <1>1, <1>6, <2>1, SendStep
<1> QED
  BY <1>3, <1>4, <1>5, <1>6 DEF Dispatch

(* A grab of the primary screen is obeyed.                                   *)
LEMMA PrimaryGrabbedKeeps == IInv /\ PrimaryGrabbed => IInv'
<1> SUFFICES ASSUME IInv, PrimaryGrabbed PROVE IInv'
  OBVIOUS
<1>1. /\ Typed /\ Primary \notin Clients /\ Primary \in Screens /\ Clients \subseteq Screens
      /\ Update(Grabbed(Primary, copied[Primary]), queue) /\ SendGrab(Primary)
      /\ UNCHANGED <<cursorVars, up, client>>
  BY Parameters DEF IInv, PrimaryGrabbed, Screens
<1>2. copied[Primary] \in Nat /\ queue \in Seq(QueueEvents) /\ copied \in [Screens -> Nat]
  BY <1>1 DEF Typed
<1>3. NotCopied \in Nat
  BY Parameters DEF NotCopied
<1>4. copied' \in [Screens -> Nat] /\ \A c \in Clients : copied'[c] = copied[c]
  BY <1>1, <1>2, <1>3 DEF PrimaryGrabbed
<1> QED
  BY <1>1, <1>2, <1>4, GrabStep

(* A sequence none of whose elements is in the set of its elements.          *)
LEMMA NothingLeft ==
    ASSUME NEW S, NEW s \in Seq(S), NoneOf(s, S)
    PROVE  s = <<>>
<1>1. DOMAIN s = 1 .. Len(s) /\ Len(s) \in Nat /\ \A i \in 1 .. Len(s) : s[i] \in S
  BY LenProperties, ElementOfSeq
<1>2. ~(1 \in DOMAIN s)
  BY <1>1 DEF NoneOf
<1>3. Len(s) = 0
  BY <1>1, <1>2
<1> QED
  BY <1>3, EmptySeq

(* A message becomes an event, and its data is kept with the client's.       *)
LEMMA ServerReceiveKeeps == ASSUME NEW d \in Clients PROVE IInv /\ ServerReceive(d) => IInv'
<1> SUFFICES ASSUME IInv, ServerReceive(d) PROVE IInv'
  OBVIOUS
<1> DEFINE m == Head(up[d])
           e == IF m[1] = "grab" THEN <<"grabbed", d, m[2]>> ELSE <<"changed", d, m[3]>>
<1>1. /\ Typed /\ Alive /\ BoardOK /\ PrimaryCurrent /\ connected \subseteq Clients
      /\ connected' = connected /\ active' = active /\ seqNum' = seqNum /\ primarySeq' = primarySeq
      /\ down' = down /\ client' = client /\ copied' = copied
      /\ queue \in Seq(QueueEvents) /\ up \in [Clients -> Seq(UpMessages)]
      /\ board \in Boards /\ Primary \notin Clients
  BY Parameters DEF IInv, Typed, cursorVars, ServerReceive
<1>2. /\ up[d] # <<>> /\ up' = [up EXCEPT ![d] = Tail(@)] /\ up[d] \in Seq(UpMessages)
      /\ Tail(up[d]) \in Seq(UpMessages) /\ m \in UpMessages
  BY <1>1, HeadTailProperties DEF ServerReceive
<1>3. /\ up' \in [Clients -> Seq(UpMessages)]
      /\ up'[d] = Tail(up[d]) /\ \A c \in Clients : c # d => up'[c] = up[c]
  BY <1>1, <1>2
<1>4. d \in connected
  BY <1>1, <1>2 DEF Alive, Gone
<1>5. /\ e \in From(d) /\ e \in QueueEvents
      /\ m[1] # "grab" => m[1] = "clip" /\ m[2] \in Values /\ m[3] \in Nat
      /\ m[1] = "grab" => m = <<"grab", m[2]>> /\ m[2] \in Nat
      /\ queue' = Append(queue, e)
  <2>1. /\ m[1] # "grab" => m[1] = "clip" /\ m[2] \in Values /\ m[3] \in Nat
        /\ m[1] = "grab" => m = <<"grab", m[2]>> /\ m[2] \in Nat
    BY <1>2 DEF UpMessages, Clips
  <2>2. e \in From(d)
    BY <2>1 DEF From
  <2>3. queue' = Append(queue, e)
    BY DEF ServerReceive
  <2> QED
    BY <2>1, <2>2, <2>3 DEF QueueEvents, Events
<1>6. /\ board' \in Boards /\ board'.out = board.out
      /\ board'.owner = board.owner /\ board'.seq = board.seq /\ board'.clip = board.clip
      /\ board'.data = board.data /\ board'.dirty = board.dirty
      /\ \A s \in Screens : s # d => board'.copy[s] = board.copy[s]
      /\ m[1] # "grab" => board'.copy[d] = m[2]
  <2>1. CASE m[1] = "grab"
    BY <1>1, <2>1 DEF ServerReceive
  <2>2. CASE m[1] # "grab"
    <3>1. board' = [board EXCEPT !.copy[d] = m[2]] /\ m[2] \in Values /\ d \in Screens
      BY <1>5, <2>2 DEF ServerReceive, Screens
    <3>2. /\ board'.copy = [board.copy EXCEPT ![d] = m[2]] /\ board.copy \in [Screens -> Values]
          /\ board'.out = board.out
          /\ board'.owner = board.owner /\ board'.seq = board.seq /\ board'.clip = board.clip
          /\ board'.data = board.data /\ board'.dirty = board.dirty
      BY <1>1, <3>1 DEF Boards
    <3>3. board'.copy \in [Screens -> Values]
      BY <3>1, <3>2
    <3>4. board' \in Boards
      BY <1>1, <3>1, <3>2, <3>3 DEF Boards
    <3> QED
      BY <3>1, <3>2, <3>4
  <2> QED
    BY <2>1, <2>2
<1> HIDE DEF m, e
<1>7. /\ queue' \in Seq(QueueEvents)
      /\ \A W : NoneOf(queue', W) <=> NoneOf(queue, W) /\ e \notin W
      /\ \A W : e \notin W => \A f : LastIs(queue, W, f) => LastIs(queue', W, f)
      /\ \A W : LastIs(queue', W, e)
  BY <1>1, <1>5, Longer
<1>8. Typed' /\ BoardOK' /\ PrimaryCurrent'
  <2>1. Primary \in Screens /\ Primary # d
    BY <1>1 DEF Screens
  <2> QED
    BY <1>1, <1>3, <1>6, <1>7, <2>1 DEF Typed, BoardOK, PrimaryCurrent
<1>9. Alive'
  <2>1. ASSUME NEW c \in Clients \ connected PROVE Gone(c)'
    <3>1. Gone(c) /\ c # d
      BY <1>1, <1>4, <2>1 DEF Alive
    <3>2. e \notin Events(c)
      BY <1>5, <3>1 DEF Events, From, Sends
    <3> QED
      BY <1>1, <1>3, <1>6, <1>7, <3>1, <3>2 DEF Gone
  <2> QED
    BY <1>1, <2>1 DEF Alive
<1>10. ASSUME NEW c \in connected PROVE Current(c)' /\ InOrder(c)' /\ Handed(c)'
  <2>1. c \in Clients /\ c \in Screens /\ Current(c) /\ InOrder(c) /\ Handed(c)
    BY <1>1 DEF IInv, ClientsOK, Screens
  <2>2. e \notin Sends(c)
    BY <1>5 DEF From, Sends
  <2>3. Current(c)'
    <3>1. Coming(c, board.data) => Coming(c, board.data)'
      BY <1>1, <1>6, <1>7, <2>2 DEF Coming, Unwritten
    <3> QED
      BY <1>1, <1>6, <2>1, <3>1 DEF Current
  <2>4. ASSUME NEW n \in Nat, GrabsUpTo(c, n) PROVE GrabsUpTo(c, n)'
    <3>1. NoneOf(up'[c], {"grab"} \X Above(n))
      BY <1>2, <1>3, <2>1, <2>4, Shorter DEF GrabsUpTo
    <3>2. e \notin {"grabbed"} \X {c} \X Above(n)
      <4> SUFFICES ASSUME e \in {"grabbed"} \X {c} \X Above(n) PROVE FALSE
        OBVIOUS
      <4>1. c = d /\ m = <<"grab", m[2]>> /\ m[2] \in Above(n)
        BY <1>5 DEF e
      <4>2. m \in {"grab"} \X Above(n)
        BY <4>1
      <4>3. ~NoneOf(up[c], {"grab"} \X Above(n))
        BY <1>2, <4>1, <4>2, Shorter DEF m
      <4> QED
        BY <2>4, <4>3 DEF GrabsUpTo
    <3> QED
      BY <1>6, <1>7, <2>4, <3>1, <3>2 DEF GrabsUpTo
  <2>5. InOrder(c)'
    <3>1. client[c].seq \in Nat
      BY <1>1, <2>1 DEF Typed, ClientStates
    <3> QED
      BY <1>1, <2>1, <2>4, <3>1 DEF InOrder
  <2>6. ASSUME NEW x, Reaching(c, x) PROVE Reaching(c, x)'
    <3>1. CASE c # d
      <4>1. e \notin From(c)
        BY <1>5, <3>1 DEF From
      <4> QED
        BY <1>1, <1>3, <1>6, <1>7, <2>1, <2>4, <2>6, <3>1, <4>1, ReachingKept
    <3>2. CASE c = d
      <4>1. PICK n \in Nat :
               /\ GrabsUpTo(c, n)
               /\ \/ LastIs(client[c].outbox, Clips, <<"clip", x, n>>)
                  \/ client[c].outbox = <<>> /\ LastIs(up[c], UpMessages, <<"clip", x, n>>)
        BY <1>2, <2>6, <3>2 DEF Reaching
      <4>2. CASE LastIs(client[c].outbox, Clips, <<"clip", x, n>>)
        BY <1>1, <2>4, <4>1, <4>2 DEF Reaching
      <4>3. CASE client[c].outbox = <<>> /\ LastIs(Tail(up[c]), UpMessages, <<"clip", x, n>>)
        BY <1>1, <1>3, <2>4, <3>2, <4>1, <4>3 DEF Reaching
      <4>4. CASE /\ client[c].outbox = <<>>
                 /\ NoneOf(Tail(up[c]), UpMessages) /\ m = <<"clip", x, n>>
        <5>1. up'[c] = <<>>
          BY <1>2, <1>3, <3>2, <4>4, NothingLeft
        <5>2. board'.copy[c] = x
          BY <1>6, <3>2, <4>4
        <5>3. LastIs(queue', From(c), <<"changed", c, n>>)
          <6>1. e = <<"changed", c, n>>
            BY <3>2, <4>4 DEF e
          <6> QED
            BY <1>7, <6>1
        <5> QED
          BY <1>1, <2>4, <4>1, <4>4, <5>1, <5>2, <5>3 DEF Reaching
      <4>5. LastIs(up[c], UpMessages, <<"clip", x, n>>) =>
               \/ LastIs(Tail(up[c]), UpMessages, <<"clip", x, n>>)
               \/ NoneOf(Tail(up[c]), UpMessages) /\ m = <<"clip", x, n>>
        BY <1>2, <3>2, Shorter DEF m
      <4> QED
        BY <4>1, <4>2, <4>3, <4>4, <4>5
    <3> QED
      BY <3>1, <3>2
  <2>7. Handed(c)'
    <3>1. Unwritten(c)' => Unwritten(c)
      BY <1>1, <1>7 DEF Unwritten
    <3>2. ASSUME client[c].sent # Unsent, Unwritten(c)' PROVE Reaching(c, client[c].sent)'
      <4>1. PICK x : x = client[c].sent
        OBVIOUS
      <4>2. Reaching(c, x)
        BY <2>1, <3>1, <3>2, <4>1 DEF Handed
      <4>3. Reaching(c, x)' /\ client'[c].sent = x
        BY <1>1, <2>6, <4>1, <4>2
      <4> QED
        BY <4>3 DEF Reaching
    <3> QED
      BY <1>1, <2>1, <3>2 DEF Handed
  <2> QED
    BY <2>3, <2>5, <2>7
<1> QED
  BY <1>1, <1>8, <1>9, <1>10 DEF IInv, ClientsOK

(* The screen that is entered is sent the clipboard, unless it has it.       *)
LEMMA SwitchScreenKeeps == ASSUME NEW s \in Screens PROVE IInv /\ SwitchScreen(s) => IInv'
<1> SUFFICES ASSUME IInv, SwitchScreen(s) PROVE IInv'
  OBVIOUS
<1> DEFINE r == IF AfterLeave.clip \in Big THEN AfterLeave ELSE SetClipboard(AfterLeave, s)
           leave == <<"leave">>
           enter == <<"enter", seqNum + 1>>
<1>1. /\ Typed /\ Alive /\ BoardOK /\ PrimaryCurrent /\ connected \subseteq Clients
      /\ connected' = connected /\ up' = up /\ client' = client /\ copied' = copied
      /\ queue \in Seq(QueueEvents) /\ down \in [Clients -> Seq(DownMessages)]
      /\ board \in Boards /\ Primary \notin Clients
      /\ s \in connected \cup {Primary} /\ s # active
      /\ seqNum \in Nat /\ seqNum < MaxSeq /\ active' = s /\ seqNum' = seqNum + 1
      /\ primarySeq' = IF s = Primary THEN seqNum + 1 ELSE primarySeq
  BY Parameters DEF IInv, Typed, SwitchScreen
<1>2. Update(r, queue)
  BY DEF SwitchScreen
<1>3. \A c \in Clients : down'[c] = CASE c = active -> Append(down[c], leave)
                                       [] c = s      -> Append(down[c], enter)
                                       [] OTHER      -> down[c]
  BY DEF SwitchScreen
<1>4. /\ leave \in DownMessages /\ enter \in DownMessages
      /\ leave \notin Writes /\ enter \notin Writes
      /\ leave[1] # "enter" /\ enter[1] = "enter" /\ enter[2] = seqNum + 1
  BY <1>1 DEF DownMessages, Writes
<1>15. r = IF AfterLeave.clip \in Big THEN AfterLeave ELSE SetClipboard(AfterLeave, s)
  OBVIOUS
<1> HIDE DEF r, leave, enter
<1>5. /\ r \in Boards /\ r.owner = board.owner /\ r.seq = board.seq
      /\ r.clip \in Big \cup {r.data} /\ r.data \notin Big
      /\ r.owner # Primary => r.clip = board.clip /\ ~r.dirty[r.owner]
      /\ \/ r.dirty[Primary] \/ r.owner = Primary \/ r.copy[Primary] = r.data
         \/ ~board.dirty[Primary] /\ r.copy[Primary] = board.copy[Primary] /\ r.data = board.data
  BY <1>1, <1>15, SwitchedIs
<1>6. PICK to \in {Primary, s} :
         /\ r.out = {to} \ {Primary}
         /\ to # Primary => r.clip = r.data
         /\ \A t \in Clients : ~r.dirty[t] /\ t # to => ~board.dirty[t] /\ r.data = board.data
         /\ \A t \in Clients : t # to => r.copy[t] = board.copy[t]
  <2>1. s \in Screens /\ Typed /\ BoardOK
    BY <1>1
  <2> QED
    BY <1>15, <2>1, SwitchedIs
<1>7. /\ board' \in Boards /\ board'.out = {}
      /\ board'.owner = r.owner /\ board'.seq = r.seq /\ board'.clip = r.clip
      /\ board'.data = r.data /\ board'.dirty = r.dirty /\ board'.copy = r.copy
  BY <1>1, <1>2, <1>5, <1>6, Posted
<1>8. /\ queue' \in Seq(QueueEvents)
      /\ \A W : to = Primary \/ <<"send", to, r.clip>> \notin W =>
            /\ NoneOf(queue', W) <=> NoneOf(queue, W)
            /\ \A e : LastIs(queue, W, e) => LastIs(queue', W, e)
      /\ to # Primary => /\ to \in Clients
                         /\ LastIs(queue', Sends(to), <<"send", to, r.clip>>)
                         /\ ~NoneOf(queue', Sends(to))
  BY <1>1, <1>2, <1>5, <1>6, PostedIs
<1>9. to # Primary => to = s /\ to \in connected
  BY <1>1, <1>6
<1>10. \A c \in Clients : /\ down'[c] \in Seq(DownMessages)
                          /\ NoneOf(down'[c], Writes) <=> NoneOf(down[c], Writes)
                          /\ \A e : LastIs(down[c], Writes, e) => LastIs(down'[c], Writes, e)
  <2> SUFFICES ASSUME NEW c \in Clients
               PROVE  /\ down'[c] \in Seq(DownMessages)
                      /\ NoneOf(down'[c], Writes) <=> NoneOf(down[c], Writes)
                      /\ \A e : LastIs(down[c], Writes, e) => LastIs(down'[c], Writes, e)
    OBVIOUS
  <2>1. down[c] \in Seq(DownMessages)
    BY <1>1
  <2>2. CASE c = active
    <3>1. down'[c] = Append(down[c], leave)
      BY <1>1, <1>3, <2>2
    <3> QED
      BY <1>4, <2>1, <3>1, Longer
  <2>3. CASE c # active /\ c = s
    <3>1. down'[c] = Append(down[c], enter)
      BY <1>3, <2>3
    <3> QED
      BY <1>4, <2>1, <3>1, Longer
  <2>4. CASE c # active /\ c # s
    BY <1>3, <2>1, <2>4
  <2> QED
    BY <2>2, <2>3, <2>4
<1>11. Typed'
  <2>1. down' \in [Clients -> Seq(DownMessages)]
    BY <1>10 DEF SwitchScreen
  <2>2. /\ seqNum' \in Nat /\ seqNum' <= MaxSeq /\ primarySeq' \in Nat /\ primarySeq' <= seqNum'
    BY <1>1, Parameters DEF Typed
  <2> QED
    BY <1>1, <1>7, <1>8, <2>1, <2>2 DEF Typed
<1>12. BoardOK' /\ PrimaryCurrent'
  BY <1>1, <1>5, <1>7 DEF BoardOK, PrimaryCurrent
<1>13. Alive'
  <2>1. ASSUME NEW c \in Clients \ connected PROVE Gone(c)'
    <3>1. Gone(c) /\ c # to /\ c # s /\ c # active
      BY <1>1, <1>9, <2>1 DEF Alive, Gone
    <3>2. to = Primary \/ <<"send", to, r.clip>> \notin Events(c)
      BY <3>1 DEF Events, From, Sends
    <3>3. down'[c] = down[c]
      BY <1>3, <3>1
    <3> QED
      BY <1>1, <1>5, <1>7, <1>8, <3>1, <3>2, <3>3 DEF Gone
  <2> QED
    BY <1>1, <2>1 DEF Alive
<1>14. ASSUME NEW c \in connected PROVE Current(c)' /\ InOrder(c)' /\ Handed(c)'
  <2>1. c \in Clients /\ c # Primary /\ Current(c) /\ InOrder(c) /\ Handed(c)
    BY <1>1 DEF IInv, ClientsOK
  <2>2. client[c].seq \in Nat /\ down[c] \in Seq(DownMessages)
    BY <1>1, <2>1 DEF Typed, ClientStates
  <2>3. to # c => <<"send", to, r.clip>> \notin Sends(c)
    BY DEF Sends
  <2>4. Current(c)'
    <3> SUFFICES ASSUME ~board'.dirty[c], c # board'.owner PROVE Coming(c, board.data)'
      BY DEF Current
    <3>1. CASE c = to
      BY <1>6, <1>7, <1>8, <2>1, <3>1 DEF Coming
    <3>2. CASE c # to
      <4>1. ~board.dirty[c] /\ board'.data = board.data /\ Coming(c, board.data)
        BY <1>5, <1>6, <1>7, <2>1, <3>2 DEF Current
      <4> QED
        BY <1>1, <1>8, <1>10, <2>1, <2>3, <3>2, <4>1 DEF Coming, Unwritten
    <3> QED
      BY <3>1, <3>2
  <2>5. ASSUME NEW n \in Nat, GrabsUpTo(c, n) PROVE GrabsUpTo(c, n)'
    <3>1. <<"send", to, r.clip>> \notin {"grabbed"} \X {c} \X Above(n)
      OBVIOUS
    <3> QED
      BY <1>1, <1>5, <1>7, <1>8, <2>5, <3>1 DEF GrabsUpTo
  <2>6. InOrder(c)'
    <3>1. /\ Ordered(down[c])
          /\ \A i \in DOMAIN down[c] : down[c][i] \notin {"enter"} \X (Above(seqNum) \cup Below(client[c].seq))
          /\ client[c].seq <= seqNum
      BY <2>1 DEF InOrder, NoneOf
    <3>2. /\ DOMAIN down[c] = 1 .. Len(down[c]) /\ Len(down[c]) \in Nat
          /\ \A i \in DOMAIN down[c] : down[c][i] \in DownMessages
      BY <2>2, LenProperties, ElementOfSeq
    <3>3. \A i \in DOMAIN down[c] : down[c][i][1] = "enter" =>
             down[c][i][2] \in Nat /\ down[c][i][2] <= seqNum /\ client[c].seq <= down[c][i][2]
             /\ down[c][i] = <<"enter", down[c][i][2]>>
      <4> SUFFICES ASSUME NEW i \in DOMAIN down[c], down[c][i][1] = "enter"
                   PROVE  down[c][i][2] \in Nat /\ down[c][i][2] <= seqNum
                          /\ client[c].seq <= down[c][i][2]
                          /\ down[c][i] = <<"enter", down[c][i][2]>>
        OBVIOUS
      <4>1. down[c][i][2] \in Nat /\ down[c][i] = <<"enter", down[c][i][2]>>
        BY <3>2 DEF DownMessages, Writes
      <4>2. down[c][i][2] \notin Above(seqNum) \cup Below(client[c].seq)
        BY <3>1, <4>1
      <4> QED
        BY <1>1, <2>2, <4>1, <4>2 DEF Above, Below
    <3>4. ASSUME NEW m \in DownMessages, down'[c] = Append(down[c], m),
                 m[1] = "enter" => m = enter
          PROVE  Ordered(down'[c])
                 /\ NoneOf(down'[c], {"enter"} \X (Above(seqNum') \cup Below(client[c].seq)))
      <4>1. /\ DOMAIN down'[c] = 1 .. Len(down[c]) + 1
            /\ \A i \in 1 .. Len(down[c]) : down'[c][i] = down[c][i]
            /\ down'[c][Len(down[c]) + 1] = m
        BY <2>2, <3>2, <3>4, AppendProperties
      <4>2. Ordered(down'[c])
        BY <1>1, <1>4, <3>1, <3>2, <3>3, <3>4, <4>1 DEF Ordered
      <4>3. ASSUME NEW i \in DOMAIN down'[c]
            PROVE  down'[c][i] \notin {"enter"} \X (Above(seqNum') \cup Below(client[c].seq))
        <5>1. CASE i = Len(down[c]) + 1
          BY <1>1, <1>4, <2>2, <3>1, <3>4, <4>1, <5>1 DEF Above, Below
        <5>2. CASE i # Len(down[c]) + 1
          <6>1. i \in DOMAIN down[c] /\ down'[c][i] = down[c][i]
            BY <3>2, <4>1, <5>2
          <6> QED
            BY <1>1, <2>2, <3>3, <6>1 DEF Above, Below
        <5> QED
          BY <5>1, <5>2
      <4> QED
        BY <4>2, <4>3 DEF NoneOf
    <3>5. Ordered(down'[c])
          /\ NoneOf(down'[c], {"enter"} \X (Above(seqNum') \cup Below(client[c].seq)))
      <4>1. CASE c = active
        <5>1. down'[c] = Append(down[c], leave)
          BY <1>1, <1>3, <2>1, <4>1
        <5> QED
          BY <1>4, <3>4, <5>1
      <4>2. CASE c # active /\ c = s
        <5>1. down'[c] = Append(down[c], enter)
          BY <1>3, <2>1, <4>2
        <5> QED
          BY <1>4, <3>4, <5>1
      <4>3. CASE c # active /\ c # s
        <5>1. down'[c] = down[c]
          BY <1>3, <2>1, <4>3
        <5>2. \A i \in DOMAIN down[c] :
                 down[c][i] \notin {"enter"} \X (Above(seqNum') \cup Below(client[c].seq))
          BY <1>1, <2>2, <3>3 DEF Above, Below
        <5> QED
          BY <3>1, <5>1, <5>2 DEF NoneOf
      <4> QED
        BY <4>1, <4>2, <4>3
    <3> QED
      BY <1>1, <2>1, <2>2, <2>5, <3>1, <3>5 DEF InOrder
  <2>7. ASSUME client[c].sent # Unsent, Unwritten(c)' PROVE Reaching(c, client[c].sent)'
    <3>1. c # to
      BY <1>8, <2>1, <2>7 DEF Unwritten
    <3>2. Unwritten(c)
      BY <1>8, <1>10, <2>1, <2>3, <2>7, <3>1 DEF Unwritten
    <3>3. Reaching(c, client[c].sent)
      BY <2>1, <2>7, <3>2 DEF Handed
    <3>4. <<"send", to, r.clip>> \notin From(c)
      BY DEF From
    <3>5. board'.copy[c] = board.copy[c] /\ (board'.owner = c => board'.clip = board.clip)
          /\ board'.owner = board.owner
      BY <1>5, <1>6, <1>7, <2>1, <3>1
    <3> QED
      BY <1>1, <1>8, <2>1, <2>5, <3>3, <3>4, <3>5, ReachingKept
  <2>8. Handed(c)'
    BY <1>1, <2>1, <2>7 DEF Handed
  <2> QED
    BY <2>4, <2>6, <2>8
<1> QED
  BY <1>1, <1>11, <1>12, <1>13, <1>14 DEF IInv, ClientsOK

(***************************************************************************)
(* The clients' steps                                                       *)
(***************************************************************************)
(* A client nothing of which changes.                                       *)
LEMMA Untouched ==
    ASSUME Typed, NEW c \in connected, Current(c), InOrder(c), Handed(c),
           client'[c] = client[c], up'[c] = up[c], down'[c] = down[c], copied'[c] = copied[c],
           board'.owner = board.owner, board'.seq = board.seq, board'.clip = board.clip,
           board'.data = board.data, board'.dirty[c] = board.dirty[c],
           board'.copy[c] = board.copy[c], queue' = queue, seqNum' = seqNum
    PROVE  Current(c)' /\ InOrder(c)' /\ Handed(c)'
<1>1. Current(c)'
  BY DEF Current, Coming, Unwritten
<1>2. InOrder(c)'
  BY DEF InOrder, GrabsUpTo
<1>3. Handed(c)'
  BY DEF Handed, Reaching, GrabsUpTo, Unwritten
<1> QED
  BY <1>1, <1>2, <1>3

(* Data is sent unless it is too big or was sent before.                    *)
LEMMA SendClipboardIs ==
    ASSUME NEW k \in ClientStates, NEW r, r = SendClipboard(k)
    PROVE  /\ r \in ClientStates
           /\ r.content = k.content /\ r.own = k.own /\ r.active = k.active /\ r.seq = k.seq
           /\ r.content \in Big \cup {r.sent}
           /\ \/ r = k
              \/ LastIs(r.outbox, Clips, <<"clip", r.sent, r.seq>>)
<1>1. CASE k.content \in Big \cup {k.sent}
  BY <1>1 DEF SendClipboard
<1>2. CASE k.content \notin Big \cup {k.sent}
  <2> DEFINE m == <<"clip", k.content, k.seq>>
  <2>1. r = [k EXCEPT !.sent = k.content, !.outbox = Append(k.outbox, m)]
    BY <1>2 DEF SendClipboard
  <2>2. m \in Clips /\ k.outbox \in Seq(Clips)
    BY DEF Clips, ClientStates
  <2> HIDE DEF m
  <2>3. Append(k.outbox, m) \in Seq(Clips) /\ LastIs(Append(k.outbox, m), Clips, m)
    BY <2>2, Longer
  <2>4. /\ r.sent = k.content /\ r.outbox = Append(k.outbox, m)
        /\ r.content = k.content /\ r.own = k.own /\ r.active = k.active /\ r.seq = k.seq
    BY <2>1 DEF ClientStates
  <2>5. r \in ClientStates
    BY <2>1, <2>3 DEF ClientStates
  <2> QED
    BY <2>3, <2>4, <2>5 DEF m
<1> QED
  BY <1>1, <1>2

(* A user's copy makes the client the owner of it, and it is sent afterwards *)
(* if the client has been left.                                             *)
LEMMA ClientGrabbedKeeps == ASSUME NEW d \in Clients PROVE IInv /\ ClientGrabbed(d) => IInv'
<1> SUFFICES ASSUME IInv, ClientGrabbed(d) PROVE IInv'
  OBVIOUS
<1> DEFINE k == [client[d] EXCEPT !.own = TRUE, !.sent = Unsent]
           m == <<"grab", client[d].seq>>
<1>1. /\ Typed /\ Alive /\ BoardOK /\ PrimaryCurrent /\ connected \subseteq Clients
      /\ connected' = connected /\ active' = active /\ seqNum' = seqNum /\ primarySeq' = primarySeq
      /\ board' = board /\ queue' = queue /\ down' = down
      /\ up \in [Clients -> Seq(UpMessages)] /\ client \in [Clients -> ClientStates]
      /\ copied \in [Screens -> Nat] /\ d \in Screens /\ d # Primary /\ NotCopied \in Nat
      /\ Clients \subseteq Screens
  <2>1. NotCopied \in Nat
    BY Parameters DEF NotCopied
  <2>2. d \in Screens /\ d # Primary /\ Clients \subseteq Screens
    BY Parameters DEF Screens
  <2> QED
    BY <2>1, <2>2 DEF IInv, Typed, cursorVars, ClientGrabbed
<1>2. d \in connected
  BY <1>1 DEF ClientGrabbed, Alive, Gone
<1>3. /\ k \in ClientStates /\ k.own /\ k.sent = Unsent /\ k.active = client[d].active
      /\ k.content = client[d].content /\ k.seq = client[d].seq /\ client[d].seq \in Nat
  BY <1>1 DEF ClientStates
<1>4. /\ client'[d] = IF k.active THEN k ELSE SendClipboard(k)
      /\ \A c \in Clients : c # d => client'[c] = client[c]
      /\ client' = [client EXCEPT ![d] = IF k.active THEN k ELSE SendClipboard(k)]
  BY <1>1 DEF ClientGrabbed, SentAfterGrab
<1>5. m \in UpMessages /\ up[d] \in Seq(UpMessages) /\ up' = [up EXCEPT ![d] = Append(@, m)]
  BY <1>1, <1>3 DEF UpMessages, ClientGrabbed
<1> HIDE DEF k, m
<1>6. /\ client'[d] \in ClientStates /\ client'[d].own
      /\ client'[d].content = client[d].content /\ client'[d].seq = client[d].seq
      /\ client'[d].active \/ client'[d].content \in Big \cup {client'[d].sent}
      /\ \/ client'[d].sent = Unsent
         \/ LastIs(client'[d].outbox, Clips, <<"clip", client'[d].sent, client'[d].seq>>)
  <2>1. CASE k.active
    BY <1>3, <1>4, <2>1
  <2>2. CASE ~k.active
    <3>1. client'[d] = SendClipboard(k)
      BY <1>4, <2>2
    <3> QED
      BY <1>3, <3>1, SendClipboardIs
  <2> QED
    BY <2>1, <2>2
<1>7. client' \in [Clients -> ClientStates]
  BY <1>1, <1>4, <1>6
<1>8. up' \in [Clients -> Seq(UpMessages)] /\ up'[d] = Append(up[d], m)
      /\ \A c \in Clients : c # d => up'[c] = up[c]
  <2>1. Append(up[d], m) \in Seq(UpMessages)
    BY <1>5, AppendProperties
  <2> QED
    BY <1>1, <1>5, <2>1
<1>9. copied' \in [Screens -> Nat] /\ \A s \in Screens : s # d => copied'[s] = copied[s]
  BY <1>1 DEF ClientGrabbed
<1>10. Typed' /\ BoardOK' /\ PrimaryCurrent'
  <2>1. Primary \in Screens
    BY DEF Screens
  <2> QED
    BY <1>1, <1>7, <1>8, <1>9, <2>1 DEF Typed, BoardOK, PrimaryCurrent
<1>11. Alive'
  BY <1>1, <1>2, <1>4, <1>8, <1>9 DEF Alive, Gone
<1>12. ASSUME NEW c \in connected PROVE Current(c)' /\ InOrder(c)' /\ Handed(c)'
  <2>1. c \in Clients /\ Current(c) /\ InOrder(c) /\ Handed(c)
    BY <1>1 DEF IInv, ClientsOK
  <2>2. CASE c # d
    BY <1>1, <1>4, <1>8, <1>9, <2>1, <2>2, Untouched
  <2>3. CASE c = d
    <3>1. Current(c)'
      BY <1>1, <1>6, <2>1, <2>3 DEF Current, Coming, Unwritten
    <3>2. GrabsUpTo(c, client[c].seq)'
      <4>1. m \notin {"grab"} \X Above(client[c].seq)
        BY <1>3, <2>3 DEF m, Above
      <4>2. NoneOf(up'[c], {"grab"} \X Above(client[c].seq))
        BY <1>5, <1>8, <2>1, <2>3, <4>1, Longer DEF InOrder, GrabsUpTo
      <4> QED
        BY <1>1, <1>6, <2>1, <2>3, <4>2 DEF InOrder, GrabsUpTo
    <3>3. InOrder(c)'
      BY <1>1, <1>6, <2>1, <2>3, <3>2 DEF InOrder
    <3>4. client'[c].sent # Unsent => Reaching(c, client[c].sent)'
      <4>1. client'[c].seq \in Nat
        BY <1>3, <1>6, <2>3
      <4> QED
        BY <1>6, <2>3, <3>2, <4>1 DEF Reaching
    <3>5. Handed(c)'
      BY <1>6, <2>3, <3>4 DEF Handed
    <3> QED
      BY <3>1, <3>3, <3>5
  <2> QED
    BY <2>2, <2>3
<1> QED
  BY <1>1, <1>10, <1>11, <1>12 DEF IInv, ClientsOK

(* What is sent goes to the connection in order.                            *)
LEMMA ClientSendKeeps == ASSUME NEW d \in Clients PROVE IInv /\ ClientSend(d) => IInv'
<1> SUFFICES ASSUME IInv, ClientSend(d) PROVE IInv'
  OBVIOUS
<1> DEFINE box == client[d].outbox
           m == Head(box)
<1>1. /\ Typed /\ Alive /\ BoardOK /\ PrimaryCurrent /\ connected \subseteq Clients
      /\ connected' = connected /\ active' = active /\ seqNum' = seqNum /\ primarySeq' = primarySeq
      /\ board' = board /\ queue' = queue /\ down' = down /\ copied' = copied
      /\ up \in [Clients -> Seq(UpMessages)] /\ client \in [Clients -> ClientStates]
  BY DEF IInv, Typed, cursorVars, ClientSend
<1>2. /\ box # <<>> /\ box \in Seq(Clips)
      /\ client' = [client EXCEPT ![d].outbox = Tail(box)]
      /\ up' = [up EXCEPT ![d] = Append(@, m)] /\ up[d] \in Seq(UpMessages)
  BY <1>1 DEF ClientSend, ClientStates
<1>3. d \in connected
  BY <1>1, <1>2 DEF Alive, Gone
<1> HIDE DEF box, m
<1>4. Tail(box) \in Seq(Clips) /\ m \in Clips /\ m \in UpMessages
  <2>1. Tail(box) \in Seq(Clips) /\ m \in Clips
    BY <1>2, HeadTailProperties DEF m
  <2> QED
    BY <2>1 DEF UpMessages
<1>5. /\ client'[d].outbox = Tail(box)
      /\ client'[d].content = client[d].content /\ client'[d].own = client[d].own
      /\ client'[d].sent = client[d].sent /\ client'[d].active = client[d].active
      /\ client'[d].seq = client[d].seq
      /\ \A c \in Clients : c # d => client'[c] = client[c]
  BY <1>1, <1>2 DEF ClientStates
<1>6. client' \in [Clients -> ClientStates]
  <2>1. [client[d] EXCEPT !.outbox = Tail(box)] \in ClientStates
    BY <1>1, <1>4 DEF ClientStates
  <2> QED
    BY <1>1, <1>2, <2>1
<1>7. up' \in [Clients -> Seq(UpMessages)] /\ up'[d] = Append(up[d], m)
      /\ \A c \in Clients : c # d => up'[c] = up[c]
  <2>1. Append(up[d], m) \in Seq(UpMessages)
    BY <1>2, <1>4, AppendProperties
  <2> QED
    BY <1>1, <1>2, <2>1
<1>8. Typed' /\ BoardOK' /\ PrimaryCurrent'
  BY <1>1, <1>6, <1>7 DEF Typed, BoardOK, PrimaryCurrent
<1>9. Alive'
  BY <1>1, <1>3, <1>5, <1>7 DEF Alive, Gone
<1>10. ASSUME NEW c \in connected PROVE Current(c)' /\ InOrder(c)' /\ Handed(c)'
  <2>1. c \in Clients /\ Current(c) /\ InOrder(c) /\ Handed(c)
    BY <1>1 DEF IInv, ClientsOK
  <2>2. CASE c # d
    BY <1>1, <1>5, <1>7, <2>1, <2>2, Untouched
  <2>3. CASE c = d
    <3>1. Current(c)'
      BY <1>1, <1>5, <2>1, <2>3 DEF Current, Coming, Unwritten
    <3>2. ASSUME NEW n \in Nat, GrabsUpTo(c, n) PROVE GrabsUpTo(c, n)'
      <4>1. m \notin {"grab"} \X Above(n)
        BY <1>4 DEF Clips
      <4>2. NoneOf(up'[c], {"grab"} \X Above(n))
        BY <1>2, <1>4, <1>7, <2>3, <3>2, <4>1, Longer DEF GrabsUpTo
      <4> QED
        BY <1>1, <3>2, <4>2 DEF GrabsUpTo
    <3>3. InOrder(c)'
      <4>1. client[c].seq \in Nat
        BY <1>1, <2>1 DEF ClientStates
      <4> QED
        BY <1>1, <1>5, <2>1, <2>3, <3>2, <4>1 DEF InOrder
    <3>4. ASSUME NEW x, Reaching(c, x) PROVE Reaching(c, x)'
      <4>1. PICK n \in Nat : GrabsUpTo(c, n) /\ LastIs(box, Clips, <<"clip", x, n>>)
        BY <1>2, <2>3, <3>4 DEF Reaching, box
      <4>2. GrabsUpTo(c, n)'
        BY <3>2, <4>1
      <4>3. CASE LastIs(Tail(box), Clips, <<"clip", x, n>>)
        BY <1>5, <2>3, <4>2, <4>3 DEF Reaching
      <4>4. CASE NoneOf(Tail(box), Clips) /\ m = <<"clip", x, n>>
        <5>1. client'[c].outbox = <<>>
          BY <1>4, <1>5, <2>3, <4>4, NothingLeft
        <5>2. LastIs(up'[c], UpMessages, <<"clip", x, n>>)
          BY <1>2, <1>4, <1>7, <2>3, <4>4, Longer
        <5> QED
          BY <4>2, <5>1, <5>2 DEF Reaching
      <4> QED
        BY <1>2, <4>1, <4>3, <4>4, Shorter DEF m
    <3>5. ASSUME client'[c].sent # Unsent, Unwritten(c)' PROVE Reaching(c, client[c].sent)'
      <4>1. PICK x : x = client[c].sent
        OBVIOUS
      <4>2. Reaching(c, x)
        BY <1>1, <1>5, <2>1, <2>3, <3>5, <4>1 DEF Handed, Unwritten
      <4>3. Reaching(c, x)' /\ client'[c].sent = x
        BY <1>5, <2>3, <3>4, <4>1, <4>2
      <4> QED
        BY <4>3 DEF Reaching
    <3>6. Handed(c)'
      BY <1>1, <1>5, <2>1, <2>3, <3>5 DEF Handed
    <3> QED
      BY <3>1, <3>3, <3>6
  <2> QED
    BY <2>2, <2>3
<1> QED
  BY <1>1, <1>8, <1>9, <1>10 DEF IInv, ClientsOK

(* A message changes the client's clipboard, or whether it is active.        *)
LEMMA ClientReceiveKeeps == ASSUME NEW d \in Clients PROVE IInv /\ ClientReceive(d) => IInv'
<1> SUFFICES ASSUME IInv, ClientReceive(d) PROVE IInv'
  OBVIOUS
<1> DEFINE k == client[d]
           m == Head(down[d])
           r == Receive(k, m)
<1>1. /\ Typed /\ Alive /\ BoardOK /\ PrimaryCurrent /\ connected \subseteq Clients
      /\ connected' = connected /\ active' = active /\ seqNum' = seqNum /\ primarySeq' = primarySeq
      /\ board' = board /\ queue' = queue /\ up' = up /\ copied' = copied
      /\ down \in [Clients -> Seq(DownMessages)] /\ client \in [Clients -> ClientStates]
      /\ board.data \in Values /\ seqNum \in Nat
  BY DEF IInv, Typed, cursorVars, ClientReceive, Boards
<1>2. /\ down[d] # <<>> /\ down[d] \in Seq(DownMessages)
      /\ down' = [down EXCEPT ![d] = Tail(@)] /\ client' = [client EXCEPT ![d] = r]
  BY <1>1 DEF ClientReceive
<1>3. d \in connected /\ Current(d) /\ InOrder(d) /\ Handed(d)
  <2>1. d \in connected
    BY <1>1, <1>2 DEF Alive, Gone
  <2> QED
    BY <2>1 DEF IInv, ClientsOK
<1>4. Tail(down[d]) \in Seq(DownMessages) /\ m \in DownMessages /\ k \in ClientStates
  BY <1>1, <1>2, HeadTailProperties
<1> HIDE DEF r
<1>5. /\ r \in ClientStates
      /\ \/ /\ m[1] = "enter" /\ m = <<"enter", m[2]>> /\ m[2] \in Nat
            /\ r.content = k.content /\ r.own = k.own /\ r.sent = k.sent
            /\ r.active /\ r.seq = m[2] /\ r.outbox = k.outbox
         \/ /\ m[1] = "leave"
            /\ r.content = k.content /\ r.own = k.own /\ ~r.active /\ r.seq = k.seq
            /\ r.own => r.content \in Big \cup {r.sent}
            /\ \/ r.sent = k.sent /\ r.outbox = k.outbox
               \/ r.own /\ LastIs(r.outbox, Clips, <<"clip", r.sent, r.seq>>)
         \/ /\ m \in Writes /\ ~r.own /\ r.sent = Unsent /\ r.seq = k.seq /\ r.outbox = k.outbox
            /\ m[1] = "clip" => r.content = m[2]
  <2>1. CASE m[1] = "enter"
    <3>1. r = [k EXCEPT !.active = TRUE, !.seq = m[2]]
      BY <2>1 DEF r, Receive
    <3>2. m = <<"enter", m[2]>> /\ m[2] \in Nat
      BY <1>4, <2>1 DEF DownMessages, Writes
    <3> QED
      BY <1>4, <2>1, <3>1, <3>2 DEF ClientStates
  <2>2. CASE m[1] = "leave"
    <3> DEFINE l == [k EXCEPT !.active = FALSE]
    <3>1. r = IF l.own THEN SendClipboard(l) ELSE l
      BY <2>2 DEF r, Receive
    <3>2. /\ l \in ClientStates /\ l.content = k.content /\ l.own = k.own /\ ~l.active
          /\ l.seq = k.seq /\ l.sent = k.sent /\ l.outbox = k.outbox
      BY <1>4 DEF ClientStates
    <3> HIDE DEF l
    <3>3. CASE l.own
      <4>1. r = SendClipboard(l)
        BY <3>1, <3>3
      <4> QED
        BY <2>2, <3>2, <3>3, <4>1, SendClipboardIs
    <3>4. CASE ~l.own
      BY <2>2, <3>1, <3>2, <3>4
    <3> QED
      BY <3>3, <3>4
  <2>3. CASE m[1] = "grab"
    <3>1. r = [k EXCEPT !.content = Empty, !.own = FALSE, !.sent = Unsent]
      BY <2>3 DEF r, Receive, Overwritten
    <3>2. m \in Writes
      BY <1>4, <2>3 DEF DownMessages
    <3> QED
      BY <1>4, <2>3, <3>1, <3>2 DEF ClientStates, Values
  <2>4. CASE m[1] = "clip"
    <3>1. r = [k EXCEPT !.content = m[2], !.own = FALSE, !.sent = Unsent]
      BY <2>4 DEF r, Receive, Overwritten
    <3>2. m \in Writes /\ m[2] \in Values
      BY <1>4, <2>4 DEF DownMessages, Writes
    <3> QED
      BY <1>4, <3>1, <3>2 DEF ClientStates
  <2> QED
    BY <1>4, <2>1, <2>2, <2>3, <2>4 DEF DownMessages, Writes
<1>6. /\ client' \in [Clients -> ClientStates] /\ client'[d] = r
      /\ \A c \in Clients : c # d => client'[c] = client[c]
  BY <1>1, <1>2, <1>5
<1>7. /\ down' \in [Clients -> Seq(DownMessages)] /\ down'[d] = Tail(down[d])
      /\ \A c \in Clients : c # d => down'[c] = down[c]
  BY <1>1, <1>2, <1>4
<1>8. Typed' /\ BoardOK' /\ PrimaryCurrent'
  BY <1>1, <1>6, <1>7 DEF Typed, BoardOK, PrimaryCurrent
<1>9. Alive'
  BY <1>1, <1>3, <1>6, <1>7 DEF Alive, Gone
<1>10. \A W : /\ NoneOf(down[d], W) <=> m \notin W /\ NoneOf(down'[d], W)
              /\ \A e : LastIs(down[d], W, e) => \/ LastIs(down'[d], W, e)
                                                 \/ NoneOf(down'[d], W) /\ m = e
  BY <1>2, <1>7, Shorter
<1> HIDE DEF m
<1>11. Current(d)'
  <2> SUFFICES ASSUME Coming(d, board.data) PROVE Coming(d, board.data)'
    BY <1>1, <1>3 DEF Current
  <2>1. CASE LastIs(queue, Sends(d), <<"send", d, board.data>>)
    BY <1>1, <2>1 DEF Coming
  <2>2. CASE NoneOf(queue, Sends(d)) /\ m \notin Writes
    <3>1. <<"clip", board.data>> \in Writes
      BY <1>1 DEF Writes
    <3>2. r.content = k.content /\ r.own = k.own
      BY <1>5, <2>2
    <3>3. \/ LastIs(down'[d], Writes, <<"clip", board.data>>)
          \/ NoneOf(down'[d], Writes) /\ (k.content = board.data \/ k.own \/ copied[d] # NotCopied)
          \/ LastIs(queue', Sends(d), <<"send", d, board.data>>)
      BY <1>1, <1>10, <2>2, <3>1 DEF Coming, Unwritten
    <3> QED
      BY <1>1, <1>6, <2>2, <3>2, <3>3 DEF Coming, Unwritten
  <2>3. CASE NoneOf(queue, Sends(d)) /\ m \in Writes
    <3>1. CASE LastIs(down'[d], Writes, <<"clip", board.data>>)
      BY <1>1, <2>3, <3>1 DEF Coming
    <3>2. CASE NoneOf(down'[d], Writes) /\ m = <<"clip", board.data>>
      <4>1. r.content = board.data
        BY <1>5, <3>2
      <4> QED
        BY <1>1, <1>6, <2>3, <3>2, <4>1 DEF Coming, Unwritten
    <3>3. CASE LastIs(queue', Sends(d), <<"send", d, board.data>>)
      BY <1>1, <3>3 DEF Coming
    <3> QED
      BY <1>1, <1>10, <2>3, <3>1, <3>2, <3>3 DEF Coming, Unwritten
  <2> QED
    BY <2>1, <2>2, <2>3 DEF Coming, Unwritten
<1>12. \A n : GrabsUpTo(d, n)' <=> GrabsUpTo(d, n)
  BY <1>1 DEF GrabsUpTo
<1>13. Ordered(down'[d])
  <2>1. /\ DOMAIN down[d] = 1 .. Len(down[d]) /\ Len(down[d]) \in Nat \ {0}
        /\ DOMAIN down'[d] = 1 .. Len(down[d]) - 1
        /\ \A i \in 1 .. Len(down[d]) - 1 : down'[d][i] = down[d][i + 1]
    BY <1>2, <1>4, <1>7, HeadTailProperties, LenProperties, EmptySeq
  <2>2. Ordered(down[d])
    BY <1>3 DEF InOrder
  <2> SUFFICES ASSUME NEW i \in DOMAIN down'[d], NEW j \in DOMAIN down'[d], i < j,
                      down'[d][i][1] = "enter", down'[d][j][1] = "enter"
               PROVE  down'[d][i][2] <= down'[d][j][2]
    BY DEF Ordered
  <2>3. /\ i + 1 \in DOMAIN down[d] /\ j + 1 \in DOMAIN down[d] /\ i + 1 < j + 1
        /\ down'[d][i] = down[d][i + 1] /\ down'[d][j] = down[d][j + 1]
    BY <2>1
  <2> QED
    BY <2>2, <2>3 DEF Ordered
<1>14. InOrder(d)'
  <2>1. k.seq \in Nat
    BY <1>4 DEF ClientStates
  <2>2. CASE r.seq = k.seq
    <3>1. GrabsUpTo(d, client[d].seq)'
      BY <1>1, <1>3, <1>6, <2>2 DEF InOrder, GrabsUpTo
    <3>2. NoneOf(down'[d], {"enter"} \X (Above(seqNum) \cup Below(client[d].seq)))
      BY <1>3, <1>10 DEF InOrder
    <3> QED
      BY <1>1, <1>3, <1>6, <1>13, <2>2, <3>1, <3>2 DEF InOrder
  <2>3. CASE m[1] = "enter" /\ m = <<"enter", m[2]>> /\ m[2] \in Nat /\ r.seq = m[2]
    <3> DEFINE n == m[2]
    <3>1. NoneOf(down[d], {"enter"} \X (Above(seqNum) \cup Below(k.seq)))
      BY <1>3 DEF InOrder
    <3>2. m \notin {"enter"} \X (Above(seqNum) \cup Below(k.seq))
      BY <1>10, <3>1
    <3>3. n <= seqNum /\ k.seq <= n
      <4>1. n \notin Above(seqNum) /\ n \notin Below(k.seq)
        BY <2>3, <3>2
      <4> QED
        BY <1>1, <2>1, <2>3, <4>1 DEF Above, Below
    <3>4. GrabsUpTo(d, client[d].seq)'
      <4>1. GrabsUpTo(d, k.seq) /\ board.seq \in Nat
        BY <1>1, <1>3 DEF InOrder, Typed, Boards
      <4>2. Above(n) \subseteq Above(k.seq)
        BY <2>1, <2>3, <3>3 DEF Above
      <4>3. /\ NoneOf(up[d], {"grab"} \X Above(n))
            /\ NoneOf(queue, {"grabbed"} \X {d} \X Above(n))
        BY <4>1, <4>2, Fewer DEF GrabsUpTo, NoneOf
      <4>4. board.owner = d => board.seq <= n
        BY <2>1, <2>3, <3>3, <4>1 DEF GrabsUpTo
      <4> QED
        BY <1>1, <1>6, <2>3, <4>3, <4>4 DEF GrabsUpTo
    <3>5. NoneOf(down'[d], {"enter"} \X (Above(seqNum) \cup Below(n)))
      <4>1. /\ DOMAIN down[d] = 1 .. Len(down[d]) /\ Len(down[d]) \in Nat \ {0}
            /\ DOMAIN down'[d] = 1 .. Len(down[d]) - 1 /\ m = down[d][1]
            /\ \A i \in 1 .. Len(down[d]) - 1 : down'[d][i] = down[d][i + 1]
        BY <1>2, <1>4, <1>7, HeadTailProperties, LenProperties, EmptySeq DEF m
      <4> SUFFICES ASSUME NEW i \in DOMAIN down'[d],
                          down'[d][i] \in {"enter"} \X (Above(seqNum) \cup Below(n))
                   PROVE  FALSE
        BY DEF NoneOf
      <4>2. /\ i + 1 \in DOMAIN down[d] /\ 1 < i + 1 /\ 1 \in DOMAIN down[d]
            /\ down'[d][i] = down[d][i + 1]
        BY <4>1
      <4>3. down[d][i + 1][1] = "enter" /\ down[d][i + 1][2] \in Above(seqNum) \cup Below(n)
        BY <4>2
      <4>4. n <= down[d][i + 1][2]
        BY <1>3, <2>3, <4>1, <4>2, <4>3 DEF InOrder, Ordered
      <4>5. down[d][i + 1] \notin {"enter"} \X (Above(seqNum) \cup Below(k.seq))
        BY <3>1, <4>2 DEF NoneOf
      <4>6. down[d][i + 1][2] \in Above(seqNum)
        BY <2>3, <4>3, <4>4 DEF Above, Below
      <4> QED
        BY <4>2, <4>5, <4>6
    <3> QED
      BY <1>1, <1>6, <1>13, <2>3, <3>3, <3>4, <3>5 DEF InOrder
  <2> QED
    BY <1>5, <2>2, <2>3
<1>15. ASSUME r.own, r.sent # Unsent, Unwritten(d)' PROVE Reaching(d, client[d].sent)'
  <2>1. CASE r.sent = k.sent /\ r.outbox = k.outbox
    <3>1. m \notin Writes
      <4>1. m[1] = "enter" \/ m[1] = "leave"
        BY <1>5, <1>15
      <4>2. \A w \in Writes : w[1] = "grab" \/ w[1] = "clip"
        BY DEF Writes
      <4> QED
        BY <4>1, <4>2
    <3>2. Unwritten(d)
      BY <1>1, <1>10, <1>15, <3>1 DEF Unwritten
    <3>3. PICK x : x = client[d].sent
      OBVIOUS
    <3>4. Reaching(d, x)
      BY <1>3, <1>15, <2>1, <3>2, <3>3 DEF Handed
    <3>5. Reaching(d, x)' /\ client'[d].sent = x
      <4>1. client'[d].outbox = client[d].outbox /\ up'[d] = up[d] /\ client'[d].sent = x
        BY <1>1, <1>6, <2>1, <3>3
      <4> QED
        BY <1>1, <1>12, <3>4, <4>1, ReachingKept
    <3> QED
      BY <3>5 DEF Reaching
  <2>2. CASE r.seq = k.seq /\ LastIs(r.outbox, Clips, <<"clip", r.sent, r.seq>>)
    <3>1. PICK n \in Nat : n = r.seq
      BY <1>5 DEF ClientStates
    <3>2. GrabsUpTo(d, n)
      BY <1>3, <2>2, <3>1 DEF InOrder
    <3>3. GrabsUpTo(d, n)'
      BY <1>12, <3>2
    <3>4. LastIs(client'[d].outbox, Clips, <<"clip", client'[d].sent, n>>)
      BY <1>6, <2>2, <3>1
    <3> QED
      BY <3>3, <3>4 DEF Reaching
  <2> QED
    BY <1>5, <1>15, <2>1, <2>2
<1>16. Handed(d)'
  <2>1. ~r.own => r.sent = Unsent
    BY <1>3, <1>5 DEF Handed
  <2>2. r.own /\ ~r.active => r.content \in Big \cup {r.sent}
    BY <1>5
  <2> QED
    BY <1>1, <1>6, <1>15, <2>1, <2>2 DEF Handed
<1>17. ASSUME NEW c \in connected PROVE Current(c)' /\ InOrder(c)' /\ Handed(c)'
  <2>1. c \in Clients /\ Current(c) /\ InOrder(c) /\ Handed(c)
    BY <1>1 DEF IInv, ClientsOK
  <2>2. CASE c # d
    BY <1>1, <1>6, <1>7, <2>1, <2>2, Untouched
  <2> QED
    BY <1>11, <1>14, <1>16, <2>2
<1> QED
  BY <1>1, <1>8, <1>9, <1>17 DEF IInv, ClientsOK

(***************************************************************************)
(* Users and connections                                                   *)
(***************************************************************************)
(* A user's copy is followed by a grab (the platform's ClipboardGrabbed).    *)
LEMMA CopyKeeps == ASSUME NEW s \in Screens PROVE IInv /\ Copy(s) => IInv'
<1> SUFFICES ASSUME IInv, Copy(s) PROVE IInv'
  OBVIOUS
<1>1. /\ Typed /\ Alive /\ BoardOK /\ PrimaryCurrent /\ connected \subseteq Clients
      /\ connected' = connected /\ active' = active /\ seqNum' = seqNum /\ primarySeq' = primarySeq
      /\ queue' = queue /\ up' = up /\ down' = down
      /\ client \in [Clients -> ClientStates] /\ copied \in [Screens -> Nat] /\ board \in Boards
      /\ s \in connected \cup {Primary}
  BY DEF IInv, Typed, cursorVars, Copy
<1>2. /\ Primary \notin Clients /\ Primary \in Screens /\ Clients \subseteq Screens
      /\ Contents \subseteq Values
  BY Parameters DEF Screens, Values
<1>3. GrabSeq(s) \in Nat /\ GrabSeq(s) # NotCopied
  BY <1>1, Parameters DEF Typed, GrabSeq, NotCopied
<1>4. /\ copied' \in [Screens -> Nat] /\ copied'[s] # NotCopied
      /\ \A t \in Screens : t # s => copied'[t] = copied[t]
  BY <1>1, <1>3 DEF Copy
<1>5. PICK x \in Contents :
         IF s = Primary
         THEN board' = [board EXCEPT !.copy[s] = x] /\ UNCHANGED client
         ELSE client' = [client EXCEPT ![s].content = x] /\ UNCHANGED board
  BY DEF Copy
<1>6. /\ board' \in Boards /\ board'.out = board.out
      /\ board'.owner = board.owner /\ board'.seq = board.seq /\ board'.clip = board.clip
      /\ board'.data = board.data /\ board'.dirty = board.dirty
      /\ \A t \in Screens : (t = Primary /\ t = s) \/ board'.copy[t] = board.copy[t]
  <2>1. CASE s = Primary
    <3>1. board' = [board EXCEPT !.copy[s] = x] /\ x \in Values
      BY <1>2, <1>5, <2>1
    <3>2. /\ board'.copy = [board.copy EXCEPT ![s] = x] /\ board.copy \in [Screens -> Values]
          /\ board'.out = board.out
          /\ board'.owner = board.owner /\ board'.seq = board.seq /\ board'.clip = board.clip
          /\ board'.data = board.data /\ board'.dirty = board.dirty
      BY <1>1, <3>1 DEF Boards
    <3>3. board'.copy \in [Screens -> Values]
      BY <3>1, <3>2
    <3>4. board' \in Boards
      BY <1>1, <3>1, <3>2, <3>3 DEF Boards
    <3> QED
      BY <2>1, <3>2, <3>4
  <2>2. CASE s # Primary
    BY <1>1, <1>5, <2>2
  <2> QED
    BY <2>1, <2>2
<1>7. /\ client' \in [Clients -> ClientStates]
      /\ \A c \in Clients : /\ client'[c].own = client[c].own /\ client'[c].sent = client[c].sent
                            /\ client'[c].active = client[c].active
                            /\ client'[c].seq = client[c].seq /\ client'[c].outbox = client[c].outbox
                            /\ c # s => client'[c] = client[c]
  <2>1. CASE s = Primary
    BY <1>1, <1>5, <2>1
  <2>2. CASE s # Primary
    <3>1. client' = [client EXCEPT ![s].content = x] /\ x \in Values /\ s \in Clients
      BY <1>1, <1>2, <1>5, <2>2
    <3>2. [client[s] EXCEPT !.content = x] \in ClientStates
      BY <1>1, <3>1 DEF ClientStates
    <3>3. \A c \in Clients : /\ client'[c].own = client[c].own /\ client'[c].sent = client[c].sent
                            /\ client'[c].active = client[c].active
                            /\ client'[c].seq = client[c].seq /\ client'[c].outbox = client[c].outbox
                            /\ c # s => client'[c] = client[c]
      BY <1>1, <3>1 DEF ClientStates
    <3> QED
      BY <1>1, <3>1, <3>2, <3>3
  <2> QED
    BY <2>1, <2>2
<1>8. Typed'
  BY <1>1, <1>4, <1>6, <1>7 DEF Typed
<1>9. BoardOK'
  BY <1>1, <1>6 DEF BoardOK
<1>10. PrimaryCurrent'
  BY <1>1, <1>2, <1>4, <1>6 DEF PrimaryCurrent
<1>11. Alive'
  BY <1>1, <1>2, <1>4, <1>6, <1>7 DEF Alive, Gone
<1>12. ASSUME NEW c \in connected PROVE Current(c)' /\ InOrder(c)' /\ Handed(c)'
  <2>1. /\ c \in Clients /\ c \in Screens /\ c # Primary
        /\ Current(c) /\ InOrder(c) /\ Handed(c)
        /\ board'.copy[c] = board.copy[c]
    BY <1>1, <1>2, <1>6 DEF IInv, ClientsOK
  <2>2. CASE c # s
    BY <1>1, <1>4, <1>6, <1>7, <2>1, <2>2, Untouched
  <2>3. CASE c = s
    <3>1. Current(c)'
      BY <1>1, <1>4, <1>6, <2>1, <2>3 DEF Current, Coming, Unwritten
    <3>2. InOrder(c)'
      BY <1>1, <1>6, <1>7, <2>1 DEF InOrder, GrabsUpTo
    <3>3. ASSUME client[c].sent # Unsent, Unwritten(c) PROVE Reaching(c, client[c].sent)'
      BY <1>1, <1>6, <1>7, <2>1, <3>3 DEF Handed, Reaching, GrabsUpTo
    <3>4. Handed(c)'
      BY <1>1, <1>4, <1>7, <2>1, <2>3, <3>3 DEF Handed, Unwritten
    <3> QED
      BY <3>1, <3>2, <3>4
  <2> QED
    BY <2>2, <2>3
<1> QED
  BY <1>1, <1>8, <1>9, <1>10, <1>11, <1>12 DEF IInv, ClientsOK

(* All that was on its way to or from a lost client is forgotten.            *)
LEMMA DisconnectKeeps == ASSUME NEW d \in Clients PROVE IInv /\ Disconnect(d) => IInv'
<1> SUFFICES ASSUME IInv, Disconnect(d) PROVE IInv'
  OBVIOUS
<1>1. /\ Typed /\ Alive /\ BoardOK /\ PrimaryCurrent /\ connected \subseteq Clients
      /\ connected' = connected \ {d} /\ d \in connected /\ seqNum' = seqNum
      /\ queue \in Seq(QueueEvents) /\ up \in [Clients -> Seq(UpMessages)]
      /\ down \in [Clients -> Seq(DownMessages)]
      /\ client \in [Clients -> ClientStates] /\ copied \in [Screens -> Nat] /\ board \in Boards
  BY DEF IInv, Typed, Disconnect
<1>2. Primary \notin Clients /\ Primary \in Screens /\ Clients \subseteq Screens /\ NotCopied \in Nat
  <2>1. NotCopied \in Nat
    BY Parameters DEF NotCopied
  <2> QED
    BY <2>1, Parameters DEF Screens
<1>3. /\ active' = IF active = d THEN Primary ELSE active
      /\ primarySeq' = IF active = d THEN seqNum ELSE primarySeq
  BY DEF Disconnect, ForceLeaveClient
<1>4. /\ board' = [board EXCEPT !.owner = IF board.owner = d THEN Primary ELSE board.owner]
      /\ down' = [down EXCEPT ![d] = <<>>] /\ up' = [up EXCEPT ![d] = <<>>]
      /\ client' = [client EXCEPT ![d].outbox = <<>>]
      /\ copied' = [copied EXCEPT ![d] = NotCopied]
  BY DEF Disconnect, OwnerAfterRemoval
<1>5. /\ board' \in Boards /\ board'.out = board.out
      /\ board'.owner = IF board.owner = d THEN Primary ELSE board.owner
      /\ board'.seq = board.seq /\ board'.clip = board.clip /\ board'.data = board.data
      /\ board'.dirty = board.dirty /\ board'.copy = board.copy
  BY <1>1, <1>2, <1>4 DEF Boards
<1>6. /\ <<>> \in Seq(DownMessages) /\ <<>> \in Seq(UpMessages) /\ <<>> \in Seq(Clips)
      /\ down' \in [Clients -> Seq(DownMessages)] /\ up' \in [Clients -> Seq(UpMessages)]
      /\ copied' \in [Screens -> Nat]
      /\ down'[d] = <<>> /\ up'[d] = <<>> /\ copied'[d] = NotCopied
      /\ \A c \in Clients : c # d => down'[c] = down[c] /\ up'[c] = up[c]
      /\ \A s \in Screens : s # d => copied'[s] = copied[s]
  BY <1>1, <1>2, <1>4, EmptySeq
<1>7. /\ client' \in [Clients -> ClientStates] /\ client'[d].outbox = <<>>
      /\ \A c \in Clients : c # d => client'[c] = client[c]
  <2>1. [client[d] EXCEPT !.outbox = <<>>] \in ClientStates
    <3>1. \A o \in Seq(Clips) : [client[d] EXCEPT !.outbox = o] \in ClientStates
      BY <1>1 DEF ClientStates
    <3> QED
      BY <1>6, <3>1
  <2>2. \A c \in Clients : c # d => client'[c] = client[c]
    BY <1>1, <1>4
  <2>3. client'[d].outbox = <<>>
    BY <1>1, <1>4 DEF ClientStates
  <2> QED
    BY <1>1, <1>4, <2>1, <2>2, <2>3
<1>8. /\ queue' \in Seq(QueueEvents)
      /\ NoneOf(queue', Events(d))
      /\ \A W : Unhandled \notin W /\ NoneOf(queue, W) => NoneOf(queue', W)
      /\ \A c \in Clients \ {d} : \A W \in SUBSET Events(c) :
            /\ \A e \in Events(c) : LastIs(queue, W, e) => LastIs(queue', W, e)
            /\ NoneOf(queue', W) => NoneOf(queue, W)
  <2>1. queue' = [i \in DOMAIN queue |-> IF queue[i][2] = d THEN Unhandled ELSE queue[i]]
    BY DEF Disconnect
  <2> QED
    BY <1>1, <2>1, Forgotten
<1>9. Typed'
  BY <1>1, <1>2, <1>3, <1>5, <1>6, <1>7, <1>8 DEF Typed
<1>10. BoardOK' /\ PrimaryCurrent'
  BY <1>1, <1>2, <1>5, <1>6 DEF BoardOK, PrimaryCurrent
<1>11. \A c \in Clients : Unhandled \notin Events(c)
  BY DEF Unhandled, Events, From, Sends
<1>12. Alive'
  <2>1. ASSUME NEW c \in Clients \ connected' PROVE Gone(c)'
    <3>1. CASE c = d
      BY <1>1, <1>2, <1>3, <1>5, <1>6, <1>7, <1>8, <3>1 DEF Gone
    <3>2. CASE c # d
      <4>1. Gone(c)
        BY <1>1, <2>1, <3>2 DEF Alive
      <4> QED
        BY <1>2, <1>3, <1>5, <1>6, <1>7, <1>8, <1>11, <2>1, <3>2, <4>1 DEF Gone
    <3> QED
      BY <3>1, <3>2
  <2> QED
    BY <2>1 DEF Alive
<1>13. ASSUME NEW c \in connected' PROVE Current(c)' /\ InOrder(c)' /\ Handed(c)'
  <2>1. /\ c \in Clients /\ c \in Screens /\ c # d /\ Current(c) /\ InOrder(c) /\ Handed(c)
        /\ client'[c] = client[c] /\ up'[c] = up[c] /\ down'[c] = down[c] /\ copied'[c] = copied[c]
        /\ board'.owner = c <=> board.owner = c
    BY <1>1, <1>2, <1>5, <1>6, <1>7 DEF IInv, ClientsOK
  <2>2. /\ Sends(c) \in SUBSET Events(c) /\ From(c) \in SUBSET Events(c)
        /\ <<"send", c, board.data>> \in Events(c)
        /\ \A n \in Nat : <<"changed", c, n>> \in Events(c)
    BY <1>1, <2>1 DEF Events, Sends, From, Boards
  <2>3. /\ Unhandled \notin Sends(c) /\ Unhandled \notin From(c)
        /\ \A n : Unhandled \notin {"grabbed"} \X {c} \X Above(n)
    BY DEF Unhandled, Sends, From
  <2>4. Current(c)'
    <3>1. Coming(c, board.data) => Coming(c, board.data)'
      BY <1>5, <1>8, <2>1, <2>2, <2>3 DEF Coming, Unwritten
    <3> QED
      BY <1>5, <2>1, <3>1 DEF Current
  <2>5. ASSUME NEW n \in Nat, GrabsUpTo(c, n) PROVE GrabsUpTo(c, n)'
    BY <1>5, <1>8, <2>1, <2>3, <2>5 DEF GrabsUpTo
  <2>6. InOrder(c)'
    <3>1. client[c].seq \in Nat
      BY <1>1, <2>1 DEF ClientStates
    <3> QED
      BY <1>1, <2>1, <2>5, <3>1 DEF InOrder
  <2>7. ASSUME client[c].sent # Unsent, Unwritten(c)' PROVE Reaching(c, client[c].sent)'
    <3>1. Unwritten(c)
      BY <1>8, <2>1, <2>2, <2>7 DEF Unwritten
    <3>2. PICK x : x = client[c].sent
      OBVIOUS
    <3>3. Reaching(c, x)
      BY <2>1, <2>7, <3>1, <3>2 DEF Handed
    <3>4. \A n \in Nat : LastIs(queue, From(c), <<"changed", c, n>>) =>
                            LastIs(queue', From(c), <<"changed", c, n>>)
      BY <1>8, <2>1, <2>2
    <3>5. NoneOf(queue, From(c)) => NoneOf(queue', From(c))
      BY <1>8, <2>3
    <3>6. Reaching(c, x)' /\ client'[c].sent = x
      BY <1>5, <2>1, <2>5, <3>2, <3>3, <3>4, <3>5, ReachingKept
    <3> QED
      BY <3>6 DEF Reaching
  <2>8. Handed(c)'
    BY <2>1, <2>7 DEF Handed
  <2> QED
    BY <2>4, <2>6, <2>8
<1> QED
  BY <1>9, <1>10, <1>12, <1>13 DEF IInv, ClientsOK

(* A new client has nothing, and is sent the clipboard when it is entered.   *)
LEMMA ConnectKeeps == ASSUME NEW d \in Clients PROVE IInv /\ Connect(d) => IInv'
<1> SUFFICES ASSUME IInv, Connect(d) PROVE IInv'
  OBVIOUS
<1>1. /\ Typed /\ Alive /\ BoardOK /\ PrimaryCurrent /\ connected \subseteq Clients
      /\ connected' = connected \cup {d} /\ d \notin connected
      /\ active' = active /\ seqNum' = seqNum /\ primarySeq' = primarySeq
      /\ queue' = queue /\ up' = up /\ down' = down /\ copied' = copied
      /\ client \in [Clients -> ClientStates] /\ board \in Boards
      /\ seqNum \in Nat
  BY DEF IInv, Typed, Connect
<1>2. Primary \notin Clients /\ Primary \in Screens /\ Clients \subseteq Screens /\ Empty \in Values
  BY Parameters DEF Screens, Values
<1>3. Gone(d)
  BY <1>1 DEF Alive
<1>4. /\ client' = [client EXCEPT ![d] = Connected(@)]
      /\ board' = [board EXCEPT !.dirty[d] = TRUE, !.copy[d] = Empty]
  BY DEF Connect
<1>5. /\ board'.dirty = [board.dirty EXCEPT ![d] = TRUE]
      /\ board'.copy = [board.copy EXCEPT ![d] = Empty]
      /\ board'.owner = board.owner /\ board'.seq = board.seq /\ board'.clip = board.clip
      /\ board'.data = board.data /\ board'.out = board.out
      /\ board.dirty \in [Screens -> BOOLEAN] /\ board.copy \in [Screens -> Values]
  BY <1>1, <1>4 DEF Boards
<1>6. board' \in Boards
  <2>1. board'.dirty \in [Screens -> BOOLEAN] /\ board'.copy \in [Screens -> Values]
    BY <1>2, <1>5
  <2> QED
    BY <1>1, <1>4, <1>5, <2>1 DEF Boards
<1>7. \A s \in Screens : s # d => board'.dirty[s] = board.dirty[s] /\ board'.copy[s] = board.copy[s]
  BY <1>5
<1>8. Connected(client[d]) \in ClientStates
  BY <1>1, <1>2 DEF Connected, ClientStates
<1>9. /\ client' \in [Clients -> ClientStates]
      /\ \A c \in Clients : c # d => client'[c] = client[c]
      /\ ~client'[d].own /\ client'[d].sent = Unsent /\ client'[d].seq = 0
      /\ client'[d].outbox = <<>>
  <2>1. client' \in [Clients -> ClientStates] /\ client'[d] = Connected(client[d])
    BY <1>1, <1>4, <1>8
  <2>2. \A c \in Clients : c # d => client'[c] = client[c]
    BY <1>1, <1>4
  <2> QED
    BY <1>1, <1>3, <2>1, <2>2 DEF Connected, ClientStates, Gone
<1>10. Typed'
  BY <1>1, <1>6, <1>5, <1>9 DEF Typed
<1>11. BoardOK' /\ PrimaryCurrent'
  <2>1. board.owner # d /\ board.owner \in Screens /\ d # Primary
    BY <1>1, <1>2, <1>3 DEF Gone, Boards
  <2> QED
    BY <1>1, <1>2, <1>5, <1>7, <2>1 DEF BoardOK, PrimaryCurrent
<1>12. Alive'
  <2>1. ASSUME NEW c \in Clients \ connected' PROVE Gone(c)'
    <3>1. Gone(c) /\ c # d
      BY <1>1, <2>1 DEF Alive
    <3> QED
      BY <1>1, <1>5, <1>9, <3>1 DEF Gone
  <2> QED
    BY <2>1 DEF Alive
<1>13. ASSUME NEW c \in connected' PROVE Current(c)' /\ InOrder(c)' /\ Handed(c)'
  <2>1. CASE c # d
    <3>1. c \in connected /\ c \in Clients /\ Current(c) /\ InOrder(c) /\ Handed(c)
      BY <1>1, <2>1 DEF IInv, ClientsOK
    <3> QED
      BY <1>1, <1>2, <1>5, <1>7, <1>9, <2>1, <3>1, Untouched
  <2>2. CASE c = d
    <3>1. Current(c)'
      BY <1>2, <1>5, <2>2 DEF Current
    <3>2. NoneOf(queue', Events(d)) /\ {"grabbed"} \X {d} \X Above(0) \subseteq Events(d)
      BY <1>1, <1>3 DEF Gone, Events, From, Above
    <3>3. NoneOf(queue', {"grabbed"} \X {d} \X Above(0))
      BY <3>2 DEF NoneOf
    <3>4. InOrder(c)'
      <4>1. up'[d] = <<>> /\ down'[d] = <<>> /\ board'.owner # d
        BY <1>1, <1>3, <1>5 DEF Gone
      <4>2. GrabsUpTo(c, client[c].seq)'
        BY <1>9, <2>2, <3>3, <4>1, Nothing DEF GrabsUpTo
      <4>3. Ordered(down'[c])
        BY <2>2, <4>1 DEF Ordered
      <4>4. NoneOf(down'[c], {"enter"} \X (Above(seqNum') \cup Below(client'[c].seq)))
        BY <2>2, <4>1, Nothing
      <4>5. client'[c].seq <= seqNum'
        BY <1>1, <1>9, <2>2
      <4> QED
        BY <4>2, <4>3, <4>4, <4>5 DEF InOrder
    <3>5. Handed(c)'
      BY <1>9, <2>2 DEF Handed
    <3> QED
      BY <3>1, <3>4, <3>5
  <2> QED
    BY <2>1, <2>2
<1> QED
  BY <1>10, <1>11, <1>12, <1>13 DEF IInv, ClientsOK

(***************************************************************************)
(* The theorems                                                             *)
(***************************************************************************)
(* At the start there is nothing anywhere.                                  *)
LEMMA Start == Init => IInv
<1> SUFFICES ASSUME Init PROVE IInv
  OBVIOUS
<1>1. /\ Primary \notin Clients /\ Primary \in Screens /\ Clients \subseteq Screens
      /\ Empty \in Values /\ Empty \notin Big /\ NotCopied \in Nat /\ MaxSeq \in Nat
  <2>1. NotCopied \in Nat
    BY Parameters DEF NotCopied
  <2> QED
    BY <2>1, Parameters DEF Screens, Values
<1>2. <<>> \in Seq(QueueEvents) /\ <<>> \in Seq(DownMessages) /\ <<>> \in Seq(UpMessages)
      /\ <<>> \in Seq(Clips)
  BY EmptySeq
<1>3. board \in Boards
  BY <1>1 DEF Init, Boards
<1>4. client \in [Clients -> ClientStates]
  BY <1>1, <1>2 DEF Init, ClientStates
<1>5. Typed
  <2>1. copied \in [Screens -> Nat] /\ down \in [Clients -> Seq(DownMessages)]
        /\ up \in [Clients -> Seq(UpMessages)]
    BY <1>1, <1>2 DEF Init
  <2>2. connected \subseteq Clients /\ active \in Screens /\ queue \in Seq(QueueEvents)
        /\ board.out = {}
    BY <1>1, <1>2 DEF Init
  <2>3. seqNum \in Nat /\ seqNum <= MaxSeq /\ primarySeq \in Nat /\ primarySeq <= seqNum
    BY <1>1 DEF Init
  <2> QED
    BY <1>3, <1>4, <2>1, <2>2, <2>3 DEF Typed
<1>6. Alive /\ BoardOK /\ PrimaryCurrent
  BY <1>1 DEF Init, Alive, BoardOK, PrimaryCurrent
<1>7. ASSUME NEW c \in connected PROVE Current(c) /\ InOrder(c) /\ Handed(c)
  <2>1. /\ c \in Clients /\ c \in Screens /\ c # Primary /\ up[c] = <<>> /\ down[c] = <<>>
        /\ queue = <<>> /\ board.dirty[c] /\ board.owner = Primary
        /\ client[c].seq = 0 /\ ~client[c].own /\ client[c].sent = Unsent /\ seqNum = 0
    BY <1>1 DEF Init
  <2>2. InOrder(c)
    BY <2>1, Nothing DEF InOrder, GrabsUpTo, Ordered
  <2> QED
    BY <2>1, <2>2 DEF Current, Handed
<1> QED
  BY <1>5, <1>6, <1>7 DEF IInv, ClientsOK

(* Every step keeps the invariant.                                           *)
LEMMA Step == IInv /\ [Next]_vars => IInv'
<1> SUFFICES ASSUME IInv, [Next]_vars PROVE IInv'
  OBVIOUS
<1>1. CASE Dispatch
  BY <1>1, DispatchKeeps
<1>2. CASE PrimaryGrabbed
  BY <1>2, PrimaryGrabbedKeeps
<1>3. ASSUME NEW s \in Screens, Copy(s) PROVE IInv'
  BY <1>3, CopyKeeps
<1>4. ASSUME NEW s \in Screens, SwitchScreen(s) PROVE IInv'
  BY <1>4, SwitchScreenKeeps
<1>5. ASSUME NEW c \in Clients, ServerReceive(c) PROVE IInv'
  BY <1>5, ServerReceiveKeeps
<1>6. ASSUME NEW c \in Clients, ClientGrabbed(c) PROVE IInv'
  BY <1>6, ClientGrabbedKeeps
<1>7. ASSUME NEW c \in Clients, ClientReceive(c) PROVE IInv'
  BY <1>7, ClientReceiveKeeps
<1>8. ASSUME NEW c \in Clients, ClientSend(c) PROVE IInv'
  BY <1>8, ClientSendKeeps
<1>9. ASSUME NEW c \in Clients, Disconnect(c) PROVE IInv'
  BY <1>9, DisconnectKeeps
<1>10. ASSUME NEW c \in Clients, Connect(c) PROVE IInv'
  BY <1>10, ConnectKeeps
<1>11. CASE UNCHANGED vars
  <2>1. Typed' /\ Alive' /\ BoardOK' /\ PrimaryCurrent'
    BY <1>11 DEF vars, IInv, Typed, Alive, Gone, BoardOK, PrimaryCurrent
  <2>2. \A c \in connected : Current(c)' /\ InOrder(c)' /\ Handed(c)'
    BY <1>11, Untouched DEF vars, IInv, ClientsOK
  <2>3. connected' = connected
    BY <1>11 DEF vars
  <2> QED
    BY <2>1, <2>2, <2>3 DEF IInv, ClientsOK
<1> QED
  BY <1>1, <1>2, <1>3, <1>4, <1>5, <1>6, <1>7, <1>8, <1>9, <1>10, <1>11 DEF Next

(* The invariant holds in every state the program reaches.                  *)
LEMMA Invariance == Spec => []IInv
BY Start, Step, PTL DEF Spec

(* Whoever copied last keeps the copy until it is handed over: the owner is  *)
(* connected, and never marked as one to send the clipboard to              *)
(* (Server::onClipboardChanged, removeClient).                              *)
THEOREM TheOwnerKeepsIt == Spec => []OwnerKept
<1>1. IInv => OwnerKept
  <2> SUFFICES ASSUME IInv, board.owner # Primary
               PROVE  board.owner \in connected /\ ~board.dirty[board.owner]
    BY DEF OwnerKept
  <2>1. board.owner \in Clients
    BY DEF IInv, Typed, Boards, Screens
  <2> QED
    BY <2>1 DEF IInv, BoardOK, Alive, Gone
<1> QED
  BY <1>1, Invariance, PTL

(* A screen that is not sent the clipboard when it is entered has it, when   *)
(* nothing is on its way any more (Server::switchScreen, setClipboard of    *)
(* the client proxies).                                                     *)
THEOREM CleanScreensAreCurrent == Spec => []CleanIsCurrent
<1>1. IInv => CleanIsCurrent
  <2> SUFFICES ASSUME IInv, Quiet, board.clip \notin Big, NEW s \in connected \cup {Primary},
                      ~board.dirty[s], ~Owns(s)
               PROVE  Local(s) = board.clip
    BY DEF CleanIsCurrent
  <2>1. board.clip = board.data /\ Primary \in Screens
    BY DEF IInv, BoardOK, Screens
  <2>2. CASE s = Primary
    <3>1. copied[Primary] = NotCopied /\ board.owner # Primary
      BY <2>1, <2>2 DEF Quiet, Owns
    <3> QED
      BY <2>1, <2>2, <3>1 DEF IInv, PrimaryCurrent, Local
  <2>3. CASE s # Primary
    <3>1. s \in connected /\ s \in Clients /\ s \in Screens
      BY <2>3 DEF IInv, Typed, Screens
    <3>2. /\ s # board.owner /\ ~client[s].own /\ copied[s] = NotCopied
          /\ queue = <<>> /\ down[s] = <<>>
      BY <3>1 DEF Owns, Quiet
    <3>3. Coming(s, board.data)
      BY <3>1, <3>2 DEF IInv, ClientsOK, Current
    <3>4. client[s].content = board.data
      BY <3>2, <3>3, Nothing DEF Coming, Unwritten
    <3> QED
      BY <2>1, <2>3, <3>4 DEF Local
  <2> QED
    BY <2>2, <2>3
<1> QED
  BY <1>1, Invariance, PTL

(* What was copied on the client that owns the clipboard has reached the     *)
(* server once the client has been left and nothing is on its way            *)
(* (Client::sendClipboard, Server::onClipboardChanged).                     *)
THEOREM CopiesAreShared == Spec => []Shared
<1>1. IInv => Shared
  <2> SUFFICES ASSUME IInv, Quiet, NEW c \in connected,
                      board.owner = c, client[c].own, ~client[c].active,
                      client[c].content \notin Big
               PROVE  board.clip = client[c].content
    BY DEF Shared
  <2>1. /\ c \in Clients /\ c \in Screens /\ Handed(c) /\ client[c] \in ClientStates
    BY DEF IInv, ClientsOK, Typed, Screens
  <2>2. /\ queue = <<>> /\ down[c] = <<>> /\ up[c] = <<>> /\ client[c].outbox = <<>>
        /\ copied[c] = NotCopied
    BY <2>1 DEF Quiet
  <2>3. client[c].sent = client[c].content
    BY <2>1, <2>2 DEF Handed
  <2>4. client[c].sent # Unsent
    <3>1. client[c].content \in Contents \cup {Empty}
      BY <2>1 DEF ClientStates, Values
    <3> QED
      BY <2>3, <3>1, Parameters
  <2>5. Unwritten(c)
    BY <2>2, Nothing DEF Unwritten
  <2>6. Reaching(c, client[c].sent)
    BY <2>1, <2>4, <2>5 DEF Handed
  <2> QED
    BY <2>2, <2>3, <2>6, Nothing DEF Reaching
<1> QED
  BY <1>1, Invariance, PTL
=============================================================================
