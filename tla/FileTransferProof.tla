------------------------- MODULE FileTransferProof -------------------------
(***************************************************************************)
(* Proofs about FileTransfer, for any files, names, drags and limits: what  *)
(* is stored is one whole file, nothing that is stored is replaced, and the *)
(* files of a drag that meets no trouble get their own names.               *)
(*                                                                         *)
(* The data of a file are numbered on the wire without a gap: each follows  *)
(* its predecessor or its file's start (Follows), and this holds between    *)
(* the sender and the last message (SenderAhead), and between what the      *)
(* receiver has and the first (ReceiverBehind).  A lost connection empties   *)
(* the wire, and the next one begins between two drags.                     *)
(*                                                                         *)
(* Names are paired with files by position: Trail says that the messages on *)
(* the wire lead from the position of the receiver to that of the sender.   *)
(***************************************************************************)
EXTENDS FileTransfer, FiniteSetTheorems, SequenceTheorems, TLAPS

IsSequence(s) == \E S : s \in Seq(S)

(* b can be the message, or the datum to be sent, after a.                  *)
Starts(a, of, at) == a.type = "start" /\ a.of = of /\ at = 1
Continues(a, of, at) == a.type = "data" /\ a.of = of /\ at = a.at + 1
Follows(a, of, at) == Starts(a, of, at) \/ Continues(a, of, at)

Shapes ==
    /\ IsSequence(wire) /\ IsSequence(receiver.buffer)
    /\ DOMAIN receiver = DOMAIN Fresh
    /\ DOMAIN sender = DOMAIN Idle /\ sender.pos \in Nat
    /\ receiver.active \in BOOLEAN

WireNumbered == \A i \in 1 .. Len(wire) - 1 :
    wire[i + 1].type = "data" => Follows(wire[i], wire[i + 1].of, wire[i + 1].at)

SenderAhead == sender.open =>
    IF wire # <<>>
    THEN Follows(wire[Len(wire)], File, sender.pos + 1)
    ELSE receiver.active => receiver.start.of = File /\ Len(receiver.buffer) = sender.pos

ReceiverBehind == receiver.active /\ wire # <<>> /\ wire[1].type = "data" =>
    wire[1].of = receiver.start.of /\ wire[1].at = Len(receiver.buffer) + 1

(* A file begins where none is begun: behind an end or an announcement.      *)
Between(m) == m.type \in {"end", "dragInfo"}

Separated ==
    /\ \A i \in 1 .. Len(wire) - 1 : wire[i + 1].type = "start" => Between(wire[i])
    /\ ~sender.open => IF wire # <<>> THEN Between(wire[Len(wire)]) ELSE ~receiver.active
    /\ wire # <<>> /\ wire[1].type = "start" => ~receiver.active

Disconnected == ~connected => wire = <<>> /\ ~receiver.active

Assembled == receiver.active \/ receiver.target # None =>
    /\ \A i \in DOMAIN receiver.buffer : receiver.buffer[i] = <<receiver.start.of, i>>
    /\ receiver.active => receiver.expected = receiver.start.size
    /\ receiver.target # None => ~receiver.active /\ Len(receiver.buffer) = receiver.start.size

IInv ==
    /\ Shapes /\ WireNumbered /\ SenderAhead /\ ReceiverBehind /\ Separated /\ Disconnected /\ Assembled
    /\ Intact

(***************************************************************************)
(* Sequences of anything                                                    *)
(***************************************************************************)
(* What Len and the indices of a sequence are.                              *)
LEMMA SequenceIs ==
    ASSUME NEW s, IsSequence(s)
    PROVE  /\ Len(s) \in Nat /\ DOMAIN s = 1 .. Len(s)
           /\ s = <<>> <=> Len(s) = 0
<1>1. PICK S : s \in Seq(S)
  BY DEF IsSequence
<1> QED
  BY <1>1, LenProperties, EmptySeq

(* Appending leaves what there is in place (Emit, and a chunk that arrives). *)
LEMMA AppendIs ==
    ASSUME NEW s, IsSequence(s), NEW e
    PROVE  /\ IsSequence(Append(s, e)) /\ Append(s, e) # <<>>
           /\ Len(Append(s, e)) = Len(s) + 1 /\ Append(s, e)[Len(s) + 1] = e
           /\ \A i \in 1 .. Len(s) : Append(s, e)[i] = s[i]
<1>1. PICK S : s \in Seq(S)
  BY DEF IsSequence
<1>2. s \in Seq(S \union {e}) /\ e \in S \union {e}
  BY <1>1, SeqMonotonic
<1>3. Append(s, e) \in Seq(S \union {e})
  BY <1>2
<1> QED
  BY <1>2, <1>3, AppendProperties, SequenceIs DEF IsSequence

(* The rest of a sequence (Receive).                                        *)
LEMMA TailIs ==
    ASSUME NEW s, IsSequence(s), s # <<>>
    PROVE  /\ IsSequence(Tail(s)) /\ Head(s) = s[1]
           /\ Len(Tail(s)) = Len(s) - 1 /\ Len(s) \in Nat \ {0}
           /\ \A i \in 1 .. Len(s) - 1 : Tail(s)[i] = s[i + 1]
<1>1. PICK S : s \in Seq(S)
  BY DEF IsSequence
<1>2. Tail(s) \in Seq(S) /\ Head(s) = s[1] /\ Len(Tail(s)) = Len(s) - 1
  BY <1>1, HeadTailProperties
<1>3. \A i \in 1 .. Len(Tail(s)) : Tail(s)[i] = s[i + 1]
  BY <1>1, HeadTailProperties
<1> QED
  BY <1>2, <1>3, SequenceIs DEF IsSequence

(* The empty sequence, of the wire and of the buffer.                      *)
LEMMA EmptyIs == IsSequence(<<>>) /\ Len(<<>>) = 0
<1>1. <<>> \in Seq({})
  OBVIOUS
<1> QED
  BY <1>1 DEF IsSequence

(***************************************************************************)
(* The wire                                                                 *)
(***************************************************************************)
WireInv == WireNumbered /\ SenderAhead /\ ReceiverBehind /\ Separated /\ Disconnected

(* Sending a message that is right for the sender keeps the wire in order.   *)
LEMMA Emission ==
    ASSUME IInv, NEW m, Emit(m), UNCHANGED <<connected, receiver>>,
           m.type = "data" => sender.open /\ m.of = File /\ m.at = sender.pos + 1,
           m.type = "start" => ~sender.open,
           IF sender'.open THEN Follows(m, File', sender'.pos + 1) ELSE Between(m)
    PROVE  IsSequence(wire') /\ WireInv'
<1> USE DEF IInv, Shapes
<1>1. CASE ~connected
  BY <1>1 DEF Emit, WireInv, WireNumbered, SenderAhead, ReceiverBehind, Separated, Disconnected
<1>2. CASE connected
  <2>1. wire' = Append(wire, m)
    BY <1>2 DEF Emit
  <2>2. /\ IsSequence(wire') /\ wire' # <<>> /\ Len(wire) \in Nat
        /\ Len(wire') = Len(wire) + 1 /\ wire'[Len(wire) + 1] = m
        /\ \A i \in 1 .. Len(wire) : wire'[i] = wire[i]
        /\ wire = <<>> <=> Len(wire) = 0
    BY <2>1, AppendIs, SequenceIs
  <2>3. WireNumbered'
    <3> SUFFICES ASSUME NEW i \in 1 .. Len(wire') - 1, wire'[i + 1].type = "data"
                 PROVE  Follows(wire'[i], wire'[i + 1].of, wire'[i + 1].at)
      BY DEF WireNumbered, Follows, Starts, Continues
    <3>1. CASE i = Len(wire)
      <4>1. wire # <<>> /\ wire'[i + 1] = m /\ wire'[i] = wire[Len(wire)]
        BY <2>2, <3>1
      <4> QED
        BY <4>1 DEF SenderAhead, File
    <3>2. CASE i < Len(wire)
      <4>1. i \in 1 .. Len(wire) - 1 /\ wire'[i] = wire[i] /\ wire'[i + 1] = wire[i + 1]
        BY <2>2, <3>2
      <4> QED
        BY <4>1 DEF WireNumbered
    <3> QED
      BY <2>2, <3>1, <3>2
  <2>4. SenderAhead'
    BY <2>2 DEF SenderAhead, Follows, Starts, Continues
  <2>5. ReceiverBehind'
    <3>1. CASE wire = <<>>
      BY <2>2, <3>1 DEF ReceiverBehind, SenderAhead
    <3>2. CASE wire # <<>>
      <4>1. wire'[1] = wire[1]
        BY <2>2, <3>2
      <4> QED
        BY <3>2, <4>1 DEF ReceiverBehind
    <3> QED
      BY <3>1, <3>2
  <2>6. Separated'
    <3>1. ASSUME NEW i \in 1 .. Len(wire') - 1, wire'[i + 1].type = "start"
          PROVE  Between(wire'[i])
      <4>1. CASE i = Len(wire)
        <5>1. wire # <<>> /\ wire'[i + 1] = m /\ wire'[i] = wire[Len(wire)]
          BY <2>2, <4>1
        <5> QED
          BY <3>1, <5>1 DEF Separated
      <4>2. CASE i < Len(wire)
        <5>1. i \in 1 .. Len(wire) - 1 /\ wire'[i] = wire[i] /\ wire'[i + 1] = wire[i + 1]
          BY <2>2, <4>2
        <5> QED
          BY <3>1, <5>1 DEF Separated
      <4> QED
        BY <2>2, <4>1, <4>2
    <3>2. ~sender'.open => Between(wire'[Len(wire')])
      BY <2>2
    <3>3. wire'[1].type = "start" => ~receiver'.active
      <4>1. CASE wire = <<>>
        BY <2>2, <4>1 DEF Separated
      <4>2. CASE wire # <<>>
        <5>1. wire'[1] = wire[1]
          BY <2>2, <4>2
        <5> QED
          BY <4>2, <5>1 DEF Separated
      <4> QED
        BY <4>1, <4>2
    <3> QED
      BY <2>2, <3>1, <3>2, <3>3 DEF Separated, Between
  <2> QED
    BY <1>2, <2>2, <2>3, <2>4, <2>5, <2>6 DEF WireInv, Disconnected
<1> QED
  BY <1>1, <1>2

(* What a receiver r has got to with message h.                             *)
Reached(h, r) ==
    \/ h.type = "start" /\ h.of = r.start.of /\ Len(r.buffer) = 0
    \/ h.type = "data" /\ h.of = r.start.of /\ h.at = Len(r.buffer)

(* Receiving a message keeps the wire in order, if the receiver has then     *)
(* got to that message or gives up.                                         *)
LEMMA Reception ==
    ASSUME IInv, wire # <<>>, wire' = Tail(wire), UNCHANGED <<sender, connected>>,
           IsSequence(receiver'.buffer), receiver'.active => Reached(wire[1], receiver')
    PROVE  IsSequence(wire') /\ WireInv'
<1> USE DEF IInv, Shapes
<1>1. /\ IsSequence(wire') /\ Len(wire) \in Nat \ {0} /\ Len(wire') = Len(wire) - 1
      /\ \A i \in 1 .. Len(wire) - 1 : wire'[i] = wire[i + 1]
  BY TailIs
<1>2. wire' = <<>> <=> Len(wire') = 0
  BY <1>1, SequenceIs
<1>3. Len(receiver'.buffer) \in Nat
  BY SequenceIs
<1>4. WireNumbered'
  <2> SUFFICES ASSUME NEW i \in 1 .. Len(wire') - 1, wire'[i + 1].type = "data"
               PROVE  Follows(wire'[i], wire'[i + 1].of, wire'[i + 1].at)
    BY DEF WireNumbered, Follows, Starts, Continues
  <2>1. i + 1 \in 1 .. Len(wire) - 1 /\ wire'[i] = wire[i + 1] /\ wire'[i + 1] = wire[i + 2]
    BY <1>1
  <2> QED
    BY <2>1 DEF WireNumbered
<1>5. SenderAhead'
  <2>1. CASE wire' # <<>>
    <3>1. wire'[Len(wire')] = wire[Len(wire)]
      BY <1>1, <1>2, <2>1
    <3> QED
      BY <2>1, <3>1 DEF SenderAhead, Follows, Starts, Continues, File
  <2>2. CASE wire' = <<>>
    <3> SUFFICES ASSUME sender.open, receiver'.active
                 PROVE  receiver'.start.of = File /\ Len(receiver'.buffer) = sender.pos
      BY <2>2 DEF SenderAhead, File
    <3>1. Len(wire) = 1 /\ Follows(wire[1], File, sender.pos + 1)
      BY <1>1, <1>2, <2>2 DEF SenderAhead, File
    <3> QED
      BY <1>3, <3>1 DEF Follows, Starts, Continues, Reached
  <2> QED
    BY <2>1, <2>2
<1>6. ReceiverBehind'
  <2> SUFFICES ASSUME receiver'.active, wire' # <<>>, wire'[1].type = "data"
               PROVE  wire'[1].of = receiver'.start.of /\ wire'[1].at = Len(receiver'.buffer) + 1
    BY DEF ReceiverBehind
  <2>1. 1 \in 1 .. Len(wire) - 1 /\ wire'[1] = wire[2]
    BY <1>1, <1>2
  <2>2. Follows(wire[1], wire[2].of, wire[2].at)
    BY <2>1 DEF WireNumbered
  <2> QED
    BY <1>3, <2>1, <2>2 DEF Follows, Starts, Continues, Reached
<1>7. Separated'
  <2>1. Between(wire[1]) => ~receiver'.active
    BY DEF Between, Reached
  <2>2. ASSUME NEW i \in 1 .. Len(wire') - 1, wire'[i + 1].type = "start"
        PROVE  Between(wire'[i])
    <3>1. i + 1 \in 1 .. Len(wire) - 1 /\ wire'[i] = wire[i + 1] /\ wire'[i + 1] = wire[i + 2]
      BY <1>1
    <3> QED
      BY <2>2, <3>1 DEF Separated
  <2>3. ~sender'.open => IF wire' # <<>> THEN Between(wire'[Len(wire')]) ELSE ~receiver'.active
    <3>1. CASE wire' # <<>>
      <4>1. wire'[Len(wire')] = wire[Len(wire)]
        BY <1>1, <1>2, <3>1
      <4> QED
        BY <3>1, <4>1 DEF Separated
    <3>2. CASE wire' = <<>>
      <4>1. wire[Len(wire)] = wire[1]
        BY <1>1, <1>2, <3>2
      <4> QED
        BY <2>1, <3>2, <4>1 DEF Separated
    <3> QED
      BY <3>1, <3>2
  <2>4. wire' # <<>> /\ wire'[1].type = "start" => ~receiver'.active
    <3> SUFFICES ASSUME wire' # <<>>, wire'[1].type = "start" PROVE ~receiver'.active
      OBVIOUS
    <3>1. 1 \in 1 .. Len(wire) - 1 /\ wire'[1] = wire[2]
      BY <1>1, <1>2
    <3> QED
      BY <2>1, <3>1 DEF Separated
  <2> QED
    BY <2>2, <2>3, <2>4 DEF Separated, Between
<1>8. Disconnected'
  BY DEF Disconnected
<1> QED
  BY <1>1, <1>4, <1>5, <1>6, <1>7, <1>8 DEF WireInv

(***************************************************************************)
(* The steps                                                                *)
(***************************************************************************)
(* A step of the server leaves what the client has as it is.                *)
LEMMA SenderStep ==
    ASSUME IInv, UNCHANGED clientVars, IsSequence(wire'), WireInv',
           DOMAIN sender' = DOMAIN Idle, sender'.pos \in Nat
    PROVE  IInv'
BY DEF IInv, Shapes, Assembled, Intact, WireInv, clientVars

(* A step of the client that takes a message stores nothing yet.            *)
LEMMA ReceiverStep ==
    ASSUME IInv, wire # <<>>, wire' = Tail(wire), UNCHANGED <<sender, connected, drop>>,
           IsSequence(receiver'.buffer), DOMAIN receiver' = DOMAIN Fresh, receiver'.active \in BOOLEAN,
           receiver'.active => Reached(wire[1], receiver'), Assembled'
    PROVE  IInv'
<1>1. IsSequence(wire') /\ WireInv'
  BY Reception
<1> QED
  BY <1>1 DEF IInv, Shapes, Intact, WireInv

(* There is nothing on the way and nothing stored at the start (Init).     *)
LEMMA Starting == Init => IInv
<1> SUFFICES ASSUME Init PROVE IInv
  OBVIOUS
<1> USE DEF Init, Fresh, Idle
<1>1. Shapes
  BY EmptyIs DEF Shapes
<1>2. WireNumbered
  BY EmptyIs DEF WireNumbered
<1>3. SenderAhead /\ ReceiverBehind /\ Separated /\ Disconnected /\ Assembled
  BY EmptyIs DEF SenderAhead, ReceiverBehind, Separated, Disconnected, Assembled
<1>4. Intact
  BY DEF Intact
<1> QED
  BY <1>1, <1>2, <1>3, <1>4 DEF IInv

(* An announcement (FileTransferOutbound::sendPaths).                      *)
LEMMA SendPathsStep == ASSUME IInv, SendPaths PROVE IInv'
<1>1. PICK paths \in Selections :
        LET good == inspectAll(paths)
            entries == SubSeq(good, 1, IF Len(good) > SendCount THEN SendCount ELSE Len(good))
        IN /\ sender' = [Idle EXCEPT !.left = entries]
           /\ Emit([type |-> "dragInfo", drag |-> drags + 1, names |-> [i \in DOMAIN entries |-> Name[entries[i]]]])
  BY DEF SendPaths
<1>2. PICK left, names :
        /\ sender' = [Idle EXCEPT !.left = left]
        /\ Emit([type |-> "dragInfo", drag |-> drags + 1, names |-> names])
  BY <1>1
<1>3. DOMAIN sender' = DOMAIN Idle /\ sender'.pos = 0 /\ ~sender'.open
  BY <1>2 DEF Idle
<1>4. UNCHANGED <<connected, clientVars>>
  BY DEF SendPaths
<1> DEFINE m == [type |-> "dragInfo", drag |-> drags + 1, names |-> names]
<1>5. Emit(m) /\ m.type = "dragInfo"
  BY <1>2
<1> HIDE DEF m
<1>6. IsSequence(wire') /\ WireInv'
  BY <1>3, <1>4, <1>5, Emission DEF clientVars, Between
<1> QED
  BY <1>3, <1>4, <1>6, SenderStep

(* A file's start, or a file that is passed over.                          *)
LEMMA OpenStep == ASSUME IInv, Open PROVE IInv'
<1> DEFINE m == [type |-> "start", of |-> File, size |-> disk[File].size]
<1>1. UNCHANGED <<connected, clientVars>> /\ ~sender.open
  BY DEF Open
<1>2. CASE disk[File].there
  <2>1. Emit(m) /\ m.type = "start" /\ m.of = File
    BY <1>2 DEF Open
  <2>2. sender' = [sender EXCEPT !.open = TRUE, !.size = disk[File].size, !.pos = 0]
    BY <1>2 DEF Open
  <2>3. /\ DOMAIN sender' = DOMAIN Idle /\ sender'.pos = 0 /\ sender'.open
        /\ sender'.left = sender.left
    BY <2>2 DEF IInv, Shapes, Idle
  <2>4. File' = File
    BY <2>3 DEF File
  <2> HIDE DEF m
  <2>5. Follows(m, File', sender'.pos + 1)
    BY <2>1, <2>3, <2>4 DEF Follows, Starts
  <2>6. IsSequence(wire') /\ WireInv'
    BY <1>1, <2>1, <2>3, <2>5, Emission DEF clientVars
  <2> QED
    BY <1>1, <2>3, <2>6, SenderStep
<1>3. CASE ~disk[File].there
  <2>1. sender' = [sender EXCEPT !.left = Tail(@)] /\ wire' = wire
    BY <1>3 DEF Open
  <2>2. DOMAIN sender' = DOMAIN Idle /\ sender'.pos = sender.pos /\ ~sender'.open
    BY <1>1, <2>1 DEF IInv, Shapes, Idle
  <2>3. WireInv' /\ IsSequence(wire') /\ sender'.pos \in Nat
    BY <1>1, <2>1, <2>2
    DEF IInv, Shapes, WireInv, WireNumbered, SenderAhead, ReceiverBehind, Separated, Disconnected, clientVars
  <2> QED
    BY <1>1, <2>2, <2>3, SenderStep
<1> QED
  BY <1>2, <1>3

(* A chunk carries the number that is next.                                *)
LEMMA ReadChunkStep == ASSUME IInv, ReadChunk PROVE IInv'
<1> DEFINE m == [type |-> "data", of |-> File, at |-> sender.pos + 1]
<1>1. UNCHANGED <<connected, clientVars>>
  BY DEF ReadChunk
<1>2. /\ Emit(m) /\ m.type = "data" /\ m.of = File /\ m.at = sender.pos + 1
      /\ sender.open /\ sender' = [sender EXCEPT !.pos = @ + 1]
  BY DEF ReadChunk
<1>3. /\ DOMAIN sender' = DOMAIN Idle /\ sender'.pos = sender.pos + 1 /\ sender.pos \in Nat
      /\ sender'.left = sender.left /\ sender'.open
  BY <1>2 DEF IInv, Shapes, Idle
<1> HIDE DEF m
<1>4. Follows(m, File', sender'.pos + 1)
  BY <1>2, <1>3 DEF Follows, Continues, File
<1>5. IsSequence(wire') /\ WireInv'
  BY <1>1, <1>2, <1>3, <1>4, Emission DEF clientVars
<1> QED
  BY <1>1, <1>3, <1>5, SenderStep

(* An end, after which nothing is being sent.                              *)
LEMMA EndStep == ASSUME IInv, End PROVE IInv'
<1> DEFINE m == [type |-> "end"]
<1>1. UNCHANGED <<connected, clientVars>>
  BY DEF End
<1>2. Emit(m) /\ m.type = "end" /\ sender' = [Idle EXCEPT !.left = Tail(sender.left)]
  BY DEF End
<1>3. DOMAIN sender' = DOMAIN Idle /\ sender'.pos = 0 /\ ~sender'.open
  BY <1>2 DEF Idle
<1> HIDE DEF m
<1>4. IsSequence(wire') /\ WireInv'
  BY <1>1, <1>2, <1>3, Emission DEF clientVars, Between
<1> QED
  BY <1>1, <1>3, <1>4, SenderStep

(* A message that is taken is the first of the wire, and nothing is waiting  *)
(* to be published meanwhile (Receive).                                     *)
LEMMA Taken ==
    ASSUME IInv, NEW type, Receive(type)
    PROVE  /\ wire # <<>> /\ wire' = Tail(wire) /\ Head(wire) = wire[1] /\ wire[1].type = type
           /\ receiver.target = None
BY TailIs DEF Receive, IInv, Shapes

(* A receiver that has given up waits for the next start.                   *)
LEMMA GivingUp ==
    ASSUME IInv, wire # <<>>, wire' = Tail(wire), UNCHANGED <<sender, connected, drop>>,
           DOMAIN receiver' = DOMAIN Fresh, receiver'.active = FALSE, receiver'.buffer = <<>>,
           receiver'.target = None
    PROVE  IInv'
<1>1. IsSequence(receiver'.buffer) /\ Assembled'
  BY EmptyIs DEF Assembled
<1> QED
  BY <1>1, ReceiverStep

(* A chunk that is refused (FileChunk::assemble's errors).                 *)
LEMMA RefuseStep ==
    ASSUME IInv, Refuse, wire # <<>>, wire' = Tail(wire), UNCHANGED <<sender, connected, drop>>,
           receiver.target = None
    PROVE  IInv'
<1>1. /\ DOMAIN receiver' = DOMAIN Fresh /\ receiver'.active = FALSE
      /\ receiver'.buffer = <<>> /\ receiver'.target = None
  BY DEF Refuse, IInv, Shapes, Fresh
<1> QED
  BY <1>1, GivingUp

(* An announcement drops what was being received.                          *)
LEMMA OnDragInfoStep == ASSUME IInv, OnDragInfo PROVE IInv'
<1>1. wire # <<>> /\ wire' = Tail(wire)
  BY Taken DEF OnDragInfo
<1>2. PICK accepted : receiver' = [Reset(Head(wire)) EXCEPT !.accepted = accepted]
  BY DEF OnDragInfo
<1>3. /\ DOMAIN receiver' = DOMAIN Fresh /\ receiver'.active = FALSE
      /\ receiver'.buffer = <<>> /\ receiver'.target = None
  BY <1>2 DEF Reset, Fresh
<1> QED
  BY <1>1, <1>3, GivingUp DEF OnDragInfo

(* A start is refused in the middle of a file, and begins one otherwise.   *)
LEMMA OnStartStep == ASSUME IInv, OnStart PROVE IInv'
<1>1. /\ wire # <<>> /\ wire' = Tail(wire) /\ Head(wire) = wire[1] /\ wire[1].type = "start"
      /\ receiver.target = None
  BY Taken DEF OnStart
<1>2. CASE receiver.active \/ Head(wire).size > MaxFileSize
  BY <1>1, <1>2, RefuseStep DEF OnStart
<1>3. CASE ~(receiver.active \/ Head(wire).size > MaxFileSize)
  <2>1. receiver' = [receiver EXCEPT !.active = TRUE, !.expected = Head(wire).size,
                                     !.start = Head(wire), !.buffer = <<>>]
    BY <1>3 DEF OnStart
  <2>2. /\ DOMAIN receiver' = DOMAIN Fresh /\ receiver'.active = TRUE /\ receiver'.expected = wire[1].size
        /\ receiver'.start = wire[1] /\ receiver'.buffer = <<>> /\ receiver'.target = None
    BY <1>1, <2>1 DEF IInv, Shapes, Fresh
  <2>3. Assembled'
    BY <2>2 DEF Assembled
  <2>4. IsSequence(receiver'.buffer) /\ Reached(wire[1], receiver')
    BY <1>1, <2>2, EmptyIs DEF Reached
  <2> QED
    BY <1>1, <2>2, <2>3, <2>4, ReceiverStep DEF OnStart
<1> QED
  BY <1>2, <1>3

(* A datum that is taken is the next one of the file that has begun.       *)
LEMMA OnDataStep == ASSUME IInv, OnData PROVE IInv'
<1>1. /\ wire # <<>> /\ wire' = Tail(wire) /\ Head(wire) = wire[1] /\ wire[1].type = "data"
      /\ receiver.target = None
  BY Taken DEF OnData
<1>2. CASE ~receiver.active \/ Len(receiver.buffer) >= receiver.expected
  BY <1>1, <1>2, RefuseStep DEF OnData
<1>3. CASE ~(~receiver.active \/ Len(receiver.buffer) >= receiver.expected)
  <2> DEFINE block == <<Head(wire).of, Head(wire).at>>
  <2>1. receiver' = [receiver EXCEPT !.buffer = Append(@, <<Head(wire).of, Head(wire).at>>)]
    BY <1>3 DEF OnData
  <2>2. /\ DOMAIN receiver' = DOMAIN Fresh /\ receiver'.active = TRUE /\ receiver'.expected = receiver.expected
        /\ receiver'.start = receiver.start /\ receiver'.buffer = Append(receiver.buffer, block)
        /\ receiver'.target = None
    BY <1>1, <1>3, <2>1 DEF IInv, Shapes, Fresh
  <2>3. wire[1].of = receiver.start.of /\ wire[1].at = Len(receiver.buffer) + 1
    BY <1>1, <1>3 DEF IInv, ReceiverBehind
  <2>4. block = <<receiver.start.of, Len(receiver.buffer) + 1>>
    BY <1>1, <2>3
  <2> HIDE DEF block
  <2>5. /\ IsSequence(receiver'.buffer) /\ Len(receiver.buffer) \in Nat
        /\ Len(receiver'.buffer) = Len(receiver.buffer) + 1
        /\ DOMAIN receiver'.buffer = 1 .. Len(receiver.buffer) + 1
        /\ DOMAIN receiver.buffer = 1 .. Len(receiver.buffer)
        /\ receiver'.buffer[Len(receiver.buffer) + 1] = block
        /\ \A i \in 1 .. Len(receiver.buffer) : receiver'.buffer[i] = receiver.buffer[i]
    <3>1. IsSequence(receiver.buffer)
      BY DEF IInv, Shapes
    <3> QED
      BY <2>2, <3>1, AppendIs, SequenceIs
  <2>6. \A i \in DOMAIN receiver'.buffer : receiver'.buffer[i] = <<receiver.start.of, i>>
    <3> SUFFICES ASSUME NEW i \in 1 .. Len(receiver.buffer) + 1
                 PROVE  receiver'.buffer[i] = <<receiver.start.of, i>>
      BY <2>5
    <3>1. CASE i = Len(receiver.buffer) + 1
      BY <2>4, <2>5, <3>1
    <3>2. CASE i # Len(receiver.buffer) + 1
      <4>1. i \in DOMAIN receiver.buffer /\ receiver'.buffer[i] = receiver.buffer[i]
        BY <2>5, <3>2
      <4> QED
        BY <1>3, <4>1 DEF IInv, Assembled
    <3> QED
      BY <3>1, <3>2
  <2>7. Assembled'
    BY <1>3, <2>2, <2>6 DEF Assembled, IInv
  <2>8. Reached(wire[1], receiver')
    BY <1>1, <2>2, <2>3, <2>5 DEF Reached
  <2> QED
    BY <1>1, <2>2, <2>5, <2>7, <2>8, ReceiverStep DEF OnData
<1> QED
  BY <1>2, <1>3

(* An end is refused when the declared size is not reached.                *)
LEMMA OnBadEndStep == ASSUME IInv, OnBadEnd PROVE IInv'
<1>1. wire # <<>> /\ wire' = Tail(wire) /\ receiver.target = None
  BY Taken DEF OnBadEnd
<1> QED
  BY <1>1, RefuseStep DEF OnBadEnd

(* An end that is taken leaves a whole file to be published.               *)
LEMMA OnEndStep == ASSUME IInv, OnEnd PROVE IInv'
<1>1. wire # <<>> /\ wire' = Tail(wire) /\ receiver.target = None
  BY Taken DEF OnEnd
<1> DEFINE r == [receiver EXCEPT !.active = FALSE]
<1>2. receiver.active /\ Len(receiver.buffer) = receiver.expected
  BY DEF OnEnd, Complete
<1>3. /\ DOMAIN r = DOMAIN Fresh /\ r.active = FALSE /\ r.target = None
      /\ r.buffer = receiver.buffer /\ r.start = receiver.start
  BY <1>1 DEF IInv, Shapes, Fresh
<1>4. /\ DOMAIN NextName(r) = DOMAIN Fresh /\ NextName(r).active = FALSE /\ NextName(r).target = None
      /\ NextName(r).buffer = receiver.buffer /\ NextName(r).start = receiver.start
  BY <1>3 DEF NextName, Fresh
<1>5. CASE receiver' = [r EXCEPT !.buffer = <<>>] \/ receiver' = [NextName(r) EXCEPT !.buffer = <<>>]
  <2>1. /\ DOMAIN receiver' = DOMAIN Fresh /\ receiver'.active = FALSE
        /\ receiver'.buffer = <<>> /\ receiver'.target = None
    BY <1>3, <1>4, <1>5 DEF Fresh
  <2> QED
    BY <1>1, <2>1, GivingUp DEF OnEnd
<1>6. ASSUME NEW target, receiver' = [NextName(r) EXCEPT !.target = target]
      PROVE  IInv'
  <2>1. /\ DOMAIN receiver' = DOMAIN Fresh /\ receiver'.active = FALSE
        /\ receiver'.buffer = receiver.buffer /\ receiver'.start = receiver.start
    BY <1>4, <1>6 DEF Fresh
  <2>2. Assembled'
    BY <1>2, <2>1 DEF IInv, Assembled
  <2>3. IsSequence(receiver'.buffer)
    BY <2>1 DEF IInv, Shapes
  <2> QED
    BY <1>1, <2>1, <2>2, <2>3, ReceiverStep DEF OnEnd
<1>7. \/ receiver' = [r EXCEPT !.buffer = <<>>]
      \/ receiver' = [NextName(r) EXCEPT !.buffer = <<>>]
      \/ \E target : receiver' = [NextName(r) EXCEPT !.target = target]
  BY DEF OnEnd
<1> QED
  BY <1>5, <1>6, <1>7

(***************************************************************************)
(* The drop directory                                                       *)
(***************************************************************************)
(* A new file leaves the others in place (publishStagedFile, and another     *)
(* program's).                                                              *)
LEMMA DropGrows ==
    ASSUME NEW t, t \notin DOMAIN drop, NEW content, drop' = Filed(t, content)
    PROVE  /\ DOMAIN drop' = DOMAIN drop \union {t} /\ drop'[t] = content
           /\ \A u \in DOMAIN drop : drop'[u] = drop[u]
BY DEF Filed

(* Nothing but Publish and Create changes the drop directory.               *)
LEMMA DropChanges ==
    ASSUME [Next]_vars, drop' # drop
    PROVE  Publish \/ Create
BY DEF Next, Send, Handle, SendPaths, Open, ReadChunk, End, OnDragInfo, OnStart, OnData, OnBadEnd, OnEnd,
       Change, Disconnect, Reconnect, clientVars, vars

(* For any files, limits and faults, no file of the drop directory is        *)
(* replaced (FileTransferReceiver.cpp, publishStagedFile: "without replacing *)
(* anything").                                                              *)
THEOREM NeverReplaced == Spec => NoOverwrite
<1> DEFINE Kept == \A t \in DOMAIN drop : t \in DOMAIN drop' /\ drop'[t] = drop[t]
<1>1. ASSUME Publish PROVE Kept
  <2>1. CASE drop' = drop
    BY <2>1
  <2>2. CASE drop' # drop
    <3>1. receiver.target \notin DOMAIN drop /\ drop' = Filed(receiver.target, Content)
      BY <1>1, <2>2 DEF Publish, Published
    <3> QED
      BY <3>1, DropGrows
  <2> QED
    BY <2>1, <2>2
<1>2. ASSUME Create PROVE Kept
  <2>1. PICK t \in Targets \ DOMAIN drop : drop' = Filed(t, Local)
    BY <1>2 DEF Create
  <2> QED
    BY <2>1, DropGrows
<1>3. [Next]_vars => [Kept]_vars
  <2> SUFFICES ASSUME [Next]_vars PROVE Kept
    OBVIOUS
  <2>1. CASE drop' = drop
    BY <2>1
  <2>2. CASE drop' # drop
    BY <1>1, <1>2, <2>2, DropChanges
  <2> QED
    BY <2>1, <2>2
<1> QED
  BY <1>3, PTL DEF Spec, NoOverwrite

(* What is published is the file that has been received.                   *)
LEMMA PublishStep == ASSUME IInv, Publish PROVE IInv'
<1>1. /\ receiver.target # None /\ ~receiver.active
      /\ Len(receiver.buffer) = receiver.start.size
      /\ \A i \in DOMAIN receiver.buffer : receiver.buffer[i] = <<receiver.start.of, i>>
  BY DEF Publish, IInv, Assembled
<1> DEFINE done == [receiver EXCEPT !.buffer = <<>>, !.target = None]
<1> DEFINE stored == [done EXCEPT !.written = Append(@, receiver.target), !.total = @ + Len(receiver.buffer)]
<1>2. receiver' = done \/ receiver' = stored
  BY DEF Publish
<1>3. /\ DOMAIN done = DOMAIN Fresh /\ done.active = receiver.active
      /\ done.buffer = <<>> /\ done.target = None
  BY DEF IInv, Shapes, Fresh
<1>4. /\ DOMAIN receiver' = DOMAIN Fresh /\ receiver'.active = receiver.active
      /\ receiver'.buffer = <<>> /\ receiver'.target = None
  BY <1>2, <1>3 DEF Fresh
<1>5. UNCHANGED <<sender, connected, wire>>
  BY DEF Publish
<1>6. Shapes'
  BY <1>4, <1>5, EmptyIs DEF IInv, Shapes, Fresh, Idle
<1>7. WireNumbered' /\ SenderAhead' /\ ReceiverBehind' /\ Separated' /\ Disconnected' /\ Assembled'
  BY <1>1, <1>4, <1>5
  DEF IInv, File, WireNumbered, SenderAhead, ReceiverBehind, Separated, Disconnected, Assembled, Follows, Starts, Continues
<1>8. Intact'
  <2>1. CASE drop' = drop
    BY <2>1 DEF IInv, Intact
  <2>2. CASE drop' # drop
    <3>1. receiver.target \notin DOMAIN drop /\ drop' = Filed(receiver.target, Content)
      BY <2>2 DEF Publish, Published
    <3>2. /\ DOMAIN drop' = DOMAIN drop \union {receiver.target} /\ drop'[receiver.target] = Content
          /\ \A u \in DOMAIN drop : drop'[u] = drop[u]
      BY <3>1, DropGrows
    <3>3. /\ Content.of = receiver.start.of /\ Content.size = receiver.start.size
          /\ Content.blocks = receiver.buffer
      BY DEF Content
    <3> QED
      BY <1>1, <3>2, <3>3 DEF IInv, Intact
  <2> QED
    BY <2>1, <2>2
<1> QED
  BY <1>6, <1>7, <1>8 DEF IInv

(* Another program's file is none of the server's.                         *)
LEMMA CreateStep == ASSUME IInv, Create PROVE IInv'
<1>1. UNCHANGED <<sender, connected, wire, receiver>>
  BY DEF Create
<1>2. Intact'
  <2>1. PICK t \in Targets \ DOMAIN drop : drop' = Filed(t, Local)
    BY DEF Create
  <2>2. /\ DOMAIN drop' = DOMAIN drop \union {t} /\ drop'[t] = Local
        /\ \A u \in DOMAIN drop : drop'[u] = drop[u]
    BY <2>1, DropGrows
  <2> QED
    BY <2>2 DEF IInv, Intact
<1> QED
  BY <1>1, <1>2
  DEF IInv, Shapes, File, WireNumbered, SenderAhead, ReceiverBehind, Separated, Disconnected, Assembled

(* A lost connection leaves nothing on the way and no file half received.  *)
LEMMA DisconnectStep == ASSUME IInv, Disconnect PROVE IInv'
<1>1. /\ connected' = FALSE /\ wire' = <<>> /\ receiver' = Fresh
      /\ UNCHANGED <<sender, drop>>
  BY DEF Disconnect
<1>2. /\ receiver'.active = FALSE /\ receiver'.buffer = <<>> /\ receiver'.target = None
      /\ DOMAIN receiver' = DOMAIN Fresh
  BY <1>1 DEF Fresh
<1>3. Shapes'
  BY <1>1, <1>2, EmptyIs DEF IInv, Shapes
<1>4. WireNumbered'
  BY <1>1, EmptyIs DEF WireNumbered
<1>5. SenderAhead' /\ ReceiverBehind' /\ Separated' /\ Disconnected' /\ Assembled' /\ Intact'
  BY <1>1, <1>2, EmptyIs DEF IInv, File, SenderAhead, ReceiverBehind, Separated, Disconnected, Assembled, Intact
<1> QED
  BY <1>3, <1>4, <1>5 DEF IInv

(* The files of the server change, or the client is back, or nothing happens. *)
LEMMA OtherStep ==
    ASSUME IInv, Change \/ Reconnect \/ UNCHANGED vars
    PROVE  IInv'
<1>1. UNCHANGED <<sender, wire, receiver, drop>> /\ (connected' \/ connected' = connected)
  BY DEF Change, Reconnect, clientVars, vars
<1> QED
  BY <1>1
  DEF IInv, Shapes, File, WireNumbered, SenderAhead, ReceiverBehind, Separated, Disconnected, Assembled, Intact

(* The invariant is inductive.                                              *)
LEMMA Invariance == Spec => []IInv
<1>1. IInv /\ [Next]_vars => IInv'
  <2> SUFFICES ASSUME IInv, [Next]_vars PROVE IInv'
    OBVIOUS
  <2>1. CASE SendPaths
    BY <2>1, SendPathsStep
  <2>2. CASE Send
    BY <2>2, OpenStep, ReadChunkStep, EndStep DEF Send
  <2>3. CASE Handle
    BY <2>3, OnDragInfoStep, OnStartStep, OnDataStep, OnBadEndStep, OnEndStep, PublishStep DEF Handle
  <2>4. CASE Create
    BY <2>4, CreateStep
  <2>5. CASE Disconnect
    BY <2>5, DisconnectStep
  <2>6. CASE Change \/ Reconnect \/ UNCHANGED vars
    BY <2>6, OtherStep
  <2> QED
    BY <2>1, <2>2, <2>3, <2>4, <2>5, <2>6 DEF Next
<1> QED
  BY Starting, <1>1, PTL DEF Spec

(* For any files, limits and faults, what is stored is one file of the        *)
(* server, whole and in order (FileTransferReceiver and FileChunk::assemble), *)
(* although files change while they are sent and connections break.          *)
THEOREM Whole == Spec => []Intact
<1>1. IInv => Intact
  BY DEF IInv
<1> QED
  BY Invariance, <1>1, PTL

(* For any files, limits and faults, no file begins at the client before the *)
(* one before it has ended (FileTransferSender.cpp: "Every started file must *)
(* be closed with an end chunk").                                           *)
THEOREM NeverRestarted == Spec => []NoRestart
<1>1. IInv => NoRestart
  BY TailIs DEF IInv, Shapes, Separated, NoRestart
<1> QED
  BY Invariance, <1>1, PTL

(***************************************************************************)
(* Names and files.  A drag none of whose transfers went missing pairs them *)
(* by their positions; the trail says which position each message on the    *)
(* wire is at, from the receiver's to the sender's.                         *)
(***************************************************************************)
Untroubled(d) == d \in DOMAIN trouble /\ "transfer" \notin trouble[d]

(* A position: a drag, the names it announced, and how many files have ended. *)
Point(a) == a.drag \in 0 .. drags /\ IsSequence(a.names) /\ a.ended \in Nat

(* Message m leads from a to b.                                             *)
Announces(a, m, b) == b.drag = m.drag /\ a.drag < b.drag /\ b.names = m.names /\ b.ended = 0

Pairs(a, m, b) ==
    /\ b.names = a.names
    /\ m.type = "start" => a.ended < Len(a.names) /\ a.names[a.ended + 1] = Name[m.of]
    /\ b.ended = IF m.type = "end" THEN a.ended + 1 ELSE a.ended

Leads(a, m, b) ==
    IF m.type = "dragInfo" THEN Announces(a, m, b)
    ELSE b.drag = a.drag /\ (Untroubled(a.drag) => Pairs(a, m, b))

AtReceiver(a) ==
    /\ a.drag = receiver.drag
    /\ Untroubled(a.drag) => a.names = receiver.accepted /\ a.ended = receiver.next

AtSender(b) == Untroubled(b.drag) \/ Untroubled(drags) =>
    /\ b.drag = drags /\ Len(b.names) = b.ended + Len(sender.left)
    /\ \A j \in 1 .. Len(sender.left) : b.names[b.ended + j] = Name[sender.left[j]]

IsTrail(points) ==
    /\ IsSequence(points) /\ Len(points) = Len(wire) + 1
    /\ \A i \in 1 .. Len(points) : Point(points[i])
    /\ \A i \in 1 .. Len(wire) : Leads(points[i], wire[i], points[i + 1])
    /\ AtReceiver(points[1]) /\ AtSender(points[Len(wire) + 1])

Trail == \E points : IsTrail(points)

Records ==
    /\ DOMAIN trouble = 1 .. MaxDrags /\ DOMAIN offered = 1 .. MaxDrags
    /\ drags \in 0 .. MaxDrags /\ IsSequence(sender.left) /\ (sender.open => sender.left # <<>>)
    /\ IsSequence(receiver.written) /\ receiver.next \in Nat

(* A server that has lost its client sends the rest of a drag to nobody.     *)
Unheard == ~connected => ~Untroubled(drags)

OwnNames == Untroubled(receiver.drag) =>
    /\ receiver.active =>
        /\ receiver.next < Len(receiver.accepted)
        /\ receiver.accepted[receiver.next + 1] = Name[receiver.start.of]
    /\ receiver.target # None => receiver.target[1] = Name[receiver.start.of]
    /\ \A i \in 1 .. Len(receiver.written) :
        /\ receiver.written[i] \in DOMAIN drop
        /\ receiver.written[i][1] = Name[drop[receiver.written[i]].of]

(* Each file that is stored, or about to be, has taken a name.              *)
Counted == Untroubled(receiver.drag) =>
    /\ receiver.next <= Len(receiver.accepted) /\ Len(receiver.written) <= receiver.next
    /\ receiver.target # None => Len(receiver.written) < receiver.next

Offers == \A d \in DOMAIN offered : Untroubled(d) =>
    /\ receiver.drag < d => offered[d] = 0
    /\ d = receiver.drag =>
        \/ offered[d] = 0
        \/ offered[d] = 1 /\ receiver.target = None /\ Len(receiver.written) = Len(receiver.accepted)

PInv == Records /\ Unheard /\ OwnNames /\ Counted /\ Offers /\ Trail

(* Trouble is never forgotten.                                              *)
Remembered == DOMAIN trouble' = DOMAIN trouble /\ \A d : Untroubled(d)' => Untroubled(d)

(* What a mark does to a drag.                                              *)
LEMMA Marked ==
    ASSUME NEW d, NEW kind, Mark(d, kind)
    PROVE  Remembered /\ (kind = "transfer" => ~Untroubled(d)')
BY DEF Mark, Remembered, Untroubled

(* A step that marks nothing remembers.                                     *)
LEMMA Unmarked == ASSUME UNCHANGED trouble PROVE Remembered
BY DEF Remembered, Untroubled

(* Trouble can only loosen what leads from one position to the next.        *)
LEMMA LeadsOn ==
    ASSUME Remembered, NEW a, NEW m, NEW b, Leads(a, m, b), NEW i, m = wire'[i]
    PROVE  Leads(a, wire[i], b)'
BY DEF Remembered, Leads, Announces, Pairs

(* The trail stays when nothing is sent or received.                        *)
LEMMA TrailStays ==
    ASSUME NEW points, IsTrail(points), Remembered, wire' = wire, drags \in Nat, drags' \in Nat, drags <= drags',
           AtReceiver(points[1])', AtSender(points[Len(wire) + 1])'
    PROVE  Trail'
<1>1. ASSUME NEW i \in 1 .. Len(wire') PROVE Leads(points[i], wire[i], points[i + 1])'
  <2>1. Leads(points[i], wire[i], points[i + 1]) /\ wire[i] = wire'[i]
    BY DEF IsTrail
  <2> QED
    BY <2>1, LeadsOn
<1>2. \A i \in 1 .. Len(points) : Point(points[i])'
  BY DEF IsTrail, Point
<1>3. IsTrail(points)'
  BY <1>1, <1>2 DEF IsTrail
<1> QED
  BY <1>3 DEF Trail

(* A message that is sent leads to one more position.                       *)
LEMMA TrailExtended ==
    ASSUME NEW points, IsTrail(points), Remembered, IsSequence(wire), NEW m, wire' = Append(wire, m),
           UNCHANGED receiver, drags \in Nat, drags' \in Nat, drags <= drags',
           NEW b, Point(b)', Leads(points[Len(wire) + 1], m, b), AtSender(b)'
    PROVE  Trail'
<1> DEFINE longer == Append(points, b)
<1>1. /\ Len(wire) \in Nat /\ Len(wire') = Len(wire) + 1 /\ wire'[Len(wire) + 1] = m
      /\ \A i \in 1 .. Len(wire) : wire'[i] = wire[i]
  BY AppendIs, SequenceIs
<1>2. IsSequence(points) /\ Len(points) = Len(wire) + 1
  BY DEF IsTrail
<1>3. /\ IsSequence(longer) /\ Len(longer) = Len(wire) + 2 /\ longer[Len(wire) + 2] = b
      /\ \A i \in 1 .. Len(wire) + 1 : longer[i] = points[i]
  BY <1>1, <1>2, AppendIs
<1> HIDE DEF longer
<1>4. ASSUME NEW i \in 1 .. Len(longer) PROVE Point(longer[i])'
  <2>1. CASE i = Len(wire) + 2
    <3>1. longer[i] = b
      BY <1>3, <2>1
    <3> QED
      BY <3>1 DEF Point
  <2>2. CASE i \in 1 .. Len(wire) + 1
    <3>1. longer[i] = points[i] /\ Point(points[i])
      BY <1>2, <1>3, <2>2 DEF IsTrail
    <3> QED
      BY <3>1 DEF Point
  <2> QED
    BY <1>1, <1>3, <2>1, <2>2
<1>5. ASSUME NEW i \in 1 .. Len(wire') PROVE Leads(longer[i], wire[i], longer[i + 1])'
  <2>1. CASE i = Len(wire) + 1
    <3>1. longer[i] = points[Len(wire) + 1] /\ wire'[i] = m /\ longer[i + 1] = b
      BY <1>1, <1>3, <2>1
    <3>2. Leads(longer[i], m, longer[i + 1])
      BY <3>1
    <3> QED
      BY <3>1, <3>2, LeadsOn
  <2>2. CASE i \in 1 .. Len(wire)
    <3>1. longer[i] = points[i] /\ wire'[i] = wire[i] /\ longer[i + 1] = points[i + 1]
      BY <1>1, <1>3, <2>2
    <3>2. Leads(longer[i], wire[i], longer[i + 1])
      BY <2>2, <3>1 DEF IsTrail
    <3> QED
      BY <3>1, <3>2, LeadsOn
  <2> QED
    BY <1>1, <2>1, <2>2
<1>6. longer[1] = points[1]
  BY <1>1, <1>3
<1>7. AtReceiver(longer[1])'
  BY <1>6 DEF IsTrail, AtReceiver, Remembered
<1>8. AtSender(longer[Len(wire) + 1])'
  <2>1. longer[Len(wire') + 1] = b
    BY <1>1, <1>3
  <2> QED
    BY <2>1 DEF AtSender
<1>9. Len(longer) = Len(wire') + 1
  BY <1>1, <1>3
<1>10. IsTrail(longer)'
  BY <1>3, <1>4, <1>5, <1>7, <1>8, <1>9 DEF IsTrail
<1> QED
  BY <1>10 DEF Trail

(* A message that is received leaves the rest of the trail.                 *)
LEMMA TrailShortened ==
    ASSUME NEW points, IsTrail(points), Remembered, IsSequence(wire), wire # <<>>, wire' = Tail(wire),
           UNCHANGED <<sender, drags>>, AtReceiver(points[2])'
    PROVE  Trail'
<1> DEFINE rest == Tail(points)
<1>1. /\ Len(wire) \in Nat \ {0} /\ Len(wire') = Len(wire) - 1
      /\ \A i \in 1 .. Len(wire) - 1 : wire'[i] = wire[i + 1]
  BY TailIs
<1>2. IsSequence(points) /\ Len(points) = Len(wire) + 1 /\ points # <<>>
  BY <1>1, SequenceIs DEF IsTrail
<1>3. /\ IsSequence(rest) /\ Len(rest) = Len(wire)
      /\ \A i \in 1 .. Len(wire) : rest[i] = points[i + 1]
  BY <1>1, <1>2, TailIs
<1> HIDE DEF rest
<1>4. \A i \in 1 .. Len(rest) : Point(rest[i])'
  BY <1>1, <1>2, <1>3 DEF IsTrail, Point
<1>5. ASSUME NEW i \in 1 .. Len(wire') PROVE Leads(rest[i], wire[i], rest[i + 1])'
  <2>1. /\ i + 1 \in 1 .. Len(wire) /\ rest[i] = points[i + 1] /\ wire'[i] = wire[i + 1]
        /\ rest[i + 1] = points[(i + 1) + 1]
    BY <1>1, <1>3
  <2>2. Leads(rest[i], wire[i + 1], rest[i + 1])
    BY <2>1 DEF IsTrail
  <2> QED
    BY <2>1, <2>2, LeadsOn
<1>6. rest[1] = points[2] /\ rest[Len(wire') + 1] = points[Len(wire) + 1]
  BY <1>1, <1>3
<1>7. AtSender(rest[Len(wire) + 1])'
  BY <1>6 DEF IsTrail, AtSender, Remembered
<1>8. AtReceiver(rest[1])'
  BY <1>6 DEF AtReceiver
<1>9. Len(rest) = Len(wire') + 1
  BY <1>1, <1>3
<1>10. IsTrail(rest)'
  BY <1>3, <1>4, <1>5, <1>7, <1>8, <1>9 DEF IsTrail
<1> QED
  BY <1>10 DEF Trail

(* A step of the server leaves what is said of the client.                  *)
LEMMA ClientKept ==
    ASSUME PInv, Remembered, UNCHANGED clientVars
    PROVE  OwnNames' /\ Counted' /\ Offers'
BY DEF PInv, Remembered, clientVars, OwnNames, Counted, Offers

(* A sequence that is written as a function of 1 .. n.                      *)
LEMMA FunctionIs ==
    ASSUME NEW s, NEW n \in Nat, s = [k \in 1 .. n |-> s[k]]
    PROVE  IsSequence(s) /\ Len(s) = n
<1>1. s \in [1 .. n -> {s[k] : k \in 1 .. n}]
  OBVIOUS
<1>2. s \in Seq({s[k] : k \in 1 .. n})
  BY <1>1
<1>3. Len(s) \in Nat /\ 1 .. Len(s) = 1 .. n
  BY <1>1, <1>2, LenProperties
<1> QED
  BY <1>2, <1>3, SMTT(30) DEF IsSequence

(* The paths that can be sent are a sequence (FileTransferSource::inspectAll). *)
LEMMA Inspected ==
    ASSUME NEW paths \in Selections
    PROVE  IsSequence(inspectAll(paths))
<1> DEFINE good == {i \in DOMAIN paths : disk[paths[i]].there /\ disk[paths[i]].size <= MaxFileSize}
<1> DEFINE rank(i) == Cardinality({j \in good : j <= i})
<1>1. paths \in Seq(Paths)
  BY Parameters
<1>2. DOMAIN paths = 1 .. Len(paths) /\ Len(paths) \in Nat
  BY <1>1, LenProperties
<1>3. IsFiniteSet(good)
  <2>1. good \subseteq 1 .. Len(paths) /\ IsFiniteSet(1 .. Len(paths))
    BY <1>2, FS_Interval
  <2> QED
    BY <2>1, FS_Subset
<1>4. Cardinality(good) \in Nat
  BY <1>3, FS_CardinalityType
<1>5. inspectAll(paths) = [k \in 1 .. Cardinality(good) |-> paths[CHOOSE i \in good : rank(i) = k]]
  BY DEF inspectAll
<1> HIDE DEF good, rank
<1>6. inspectAll(paths) = [k \in 1 .. Cardinality(good) |-> inspectAll(paths)[k]]
  BY <1>5
<1> QED
  BY <1>4, <1>6, FunctionIs

(* What is left of the selection, at most as many files as are allowed.     *)
LEMMA Trimmed ==
    ASSUME NEW s, IsSequence(s)
    PROVE  IsSequence(SubSeq(s, 1, IF Len(s) > SendCount THEN SendCount ELSE Len(s)))
<1> DEFINE n == IF Len(s) > SendCount THEN SendCount ELSE Len(s)
<1>1. PICK S : s \in Seq(S)
  BY DEF IsSequence
<1>2. SendCount \in Nat /\ Len(s) \in Nat
  BY Parameters, SequenceIs
<1>3. n \in Int /\ n <= Len(s)
  BY <1>2
<1>4. \A i \in 1 .. n : s[i] \in S
  BY <1>1, <1>2, <1>3, ElementOfSeq
<1> HIDE DEF n
<1>5. SubSeq(s, 1, n) \in Seq(S)
  BY <1>3, <1>4, SubSeqProperties
<1> QED
  BY <1>5 DEF IsSequence, n

(* A drag begins behind the drags before it.                                *)
LEMMA SendPathsPairing == ASSUME IInv, PInv, SendPaths PROVE PInv'
<1>1. PICK paths \in Selections :
        LET good == inspectAll(paths)
            entries == SubSeq(good, 1, IF Len(good) > SendCount THEN SendCount ELSE Len(good))
        IN /\ sender' = [Idle EXCEPT !.left = entries]
           /\ drags' = drags + 1
           /\ Emit([type |-> "dragInfo", drag |-> drags + 1, names |-> [i \in DOMAIN entries |-> Name[entries[i]]]])
           /\ IF connected THEN UNCHANGED trouble ELSE Mark(drags + 1, "transfer")
  BY DEF SendPaths
<1>2. PICK entries :
        /\ entries = SubSeq(inspectAll(paths), 1, IF Len(inspectAll(paths)) > SendCount THEN SendCount ELSE Len(inspectAll(paths)))
        /\ sender' = [Idle EXCEPT !.left = entries]
        /\ Emit([type |-> "dragInfo", drag |-> drags + 1, names |-> [i \in DOMAIN entries |-> Name[entries[i]]]])
  BY <1>1
<1>3. IsSequence(entries)
  BY <1>2, Inspected, Trimmed
<1>4. Len(entries) \in Nat /\ DOMAIN entries = 1 .. Len(entries)
  BY <1>3, SequenceIs
<1>5. sender'.left = entries /\ sender'.open = FALSE
  BY <1>2 DEF Idle
<1>6. PICK d : d = drags + 1
  OBVIOUS
<1>7. drags' = d /\ d \in 0 .. MaxDrags /\ drags \in 0 .. MaxDrags /\ drags < d
  <2>1. drags' = d
    BY <1>1, <1>6
  <2>2. drags \in 0 .. MaxDrags /\ drags < MaxDrags
    BY DEF PInv, Records, SendPaths
  <2> QED
    BY <1>6, <2>1, <2>2, Parameters
<1>8. PICK names : names = [i \in DOMAIN entries |-> Name[entries[i]]]
  OBVIOUS
<1>9. IsSequence(names) /\ Len(names) = Len(entries)
  <2>1. names = [i \in 1 .. Len(entries) |-> names[i]]
    BY <1>4, <1>8
  <2> QED
    BY <1>4, <2>1, FunctionIs
<1>10. \A j \in 1 .. Len(entries) : names[j] = Name[entries[j]]
  BY <1>4, <1>8
<1>11. PICK m : m = [type |-> "dragInfo", drag |-> d, names |-> names]
  OBVIOUS
<1>12. m.type = "dragInfo" /\ m.drag = d /\ m.names = names /\ Emit(m)
  BY <1>2, <1>6, <1>8, <1>11
<1>13. UNCHANGED <<connected, clientVars>>
  BY DEF SendPaths
<1>14. PICK points : IsTrail(points)
  BY DEF PInv, Trail
<1>15. Remembered
  BY <1>1, <1>6, Marked, Unmarked
<1>16. ~connected => ~Untroubled(d)'
  BY <1>1, <1>6, Marked
<1>17. Trail'
  <2>1. CASE connected
    <3>1. PICK b : b = [drag |-> d, names |-> names, ended |-> 0]
      OBVIOUS
    <3>2. b.drag = d /\ b.names = names /\ b.ended = 0 /\ Point(b)'
      BY <1>7, <1>9, <3>1 DEF Point
    <3>3. Leads(points[Len(wire) + 1], m, b)
      <4>1. Point(points[Len(wire) + 1])
        <5>1. Len(wire) + 1 \in 1 .. Len(points)
          BY <1>14, SequenceIs DEF IInv, Shapes, IsTrail
        <5> QED
          BY <1>14, <5>1 DEF IsTrail
      <4> QED
        BY <1>7, <1>12, <3>2, <4>1 DEF Leads, Announces, Point
    <3>4. AtSender(b)'
      BY <1>4, <1>5, <1>7, <1>9, <1>10, <3>2 DEF AtSender
    <3>5. wire' = Append(wire, m)
      BY <1>12, <2>1 DEF Emit
    <3> QED
      BY <1>7, <1>13, <1>14, <1>15, <3>2, <3>3, <3>4, <3>5, TrailExtended DEF IInv, Shapes, clientVars
  <2>2. CASE ~connected
    <3>1. wire' = wire
      BY <1>12, <2>2 DEF Emit
    <3>2. Point(points[Len(wire) + 1])
      <4>1. Len(wire) + 1 \in 1 .. Len(points)
        BY <1>14, SequenceIs DEF IInv, Shapes, IsTrail
      <4> QED
        BY <1>14, <4>1 DEF IsTrail
    <3>3. AtSender(points[Len(wire) + 1])
      BY <1>14 DEF IsTrail
    <3>4. ~Untroubled(points[Len(wire) + 1].drag)
      BY <2>2, <3>3 DEF AtSender, PInv, Unheard
    <3>5. AtSender(points[Len(wire) + 1])'
      BY <1>7, <1>15, <1>16, <2>2, <3>1, <3>4 DEF AtSender, Remembered, Untroubled, Point
    <3>6. AtReceiver(points[1])'
      BY <1>13, <1>14, <1>15 DEF IsTrail, AtReceiver, Remembered, clientVars
    <3> QED
      BY <1>7, <1>14, <1>15, <3>1, <3>5, <3>6, TrailStays
  <2> QED
    BY <2>1, <2>2
<1>18. Records'
  BY <1>3, <1>5, <1>7, <1>13, <1>15 DEF PInv, Records, Remembered, clientVars
<1>19. Unheard'
  BY <1>7, <1>13, <1>16 DEF Unheard, Untroubled
<1> QED
  BY <1>13, <1>15, <1>17, <1>18, <1>19, ClientKept DEF PInv

(* The position behind the last message.                                    *)
LEMMA LastPoint ==
    ASSUME IInv, NEW points, IsTrail(points)
    PROVE  Point(points[Len(wire) + 1]) /\ AtSender(points[Len(wire) + 1])
<1>1. Len(wire) + 1 \in 1 .. Len(points)
  BY SequenceIs DEF IInv, Shapes, IsTrail
<1> QED
  BY <1>1 DEF IsTrail

(* A server without a client has nothing to pair.                           *)
LEMMA NobodyListens ==
    ASSUME IInv, PInv, Remembered, ~connected, wire' = wire, UNCHANGED <<drags, receiver>>,
           NEW points, IsTrail(points)
    PROVE  Trail'
<1>1. /\ Point(points[Len(wire) + 1]) /\ AtSender(points[Len(wire) + 1])
      /\ ~Untroubled(drags) /\ drags \in Nat
  BY LastPoint DEF PInv, Unheard, Records
<1>2. ~Untroubled(points[Len(wire) + 1].drag)
  BY <1>1 DEF AtSender
<1>3. AtSender(points[Len(wire) + 1])' /\ AtReceiver(points[1])'
  BY <1>1, <1>2 DEF AtSender, IsTrail, AtReceiver, Remembered, Untroubled
<1> QED
  BY <1>1, <1>3, TrailStays

(* Sending a message that leads to where the sender is then keeps the pairs. *)
LEMMA SendingPairs ==
    ASSUME IInv, PInv, NEW m, Emit(m), UNCHANGED <<clientVars, connected, drags, trouble>>,
           IsSequence(sender'.left), sender'.open => sender'.left # <<>>,
           NEW points, IsTrail(points), NEW b, Point(b), Leads(points[Len(wire) + 1], m, b), AtSender(b)'
    PROVE  PInv'
<1>1. Remembered
  BY Unmarked
<1>2. drags \in Nat /\ Point(b)'
  BY DEF PInv, Records, Point
<1>3. Trail'
  <2>1. CASE connected
    <3>1. wire' = Append(wire, m) /\ UNCHANGED receiver
      BY <2>1 DEF Emit, clientVars
    <3> QED
      BY <1>1, <1>2, <3>1, TrailExtended DEF IInv, Shapes
  <2>2. CASE ~connected
    <3>1. wire' = wire /\ UNCHANGED <<drags, receiver>>
      BY <2>2 DEF Emit, clientVars
    <3> QED
      BY <1>1, <2>2, <3>1, NobodyListens
  <2> QED
    BY <2>1, <2>2
<1>4. Records'
  BY DEF PInv, Records, clientVars
<1>5. Unheard'
  BY DEF PInv, Unheard, Untroubled
<1> QED
  BY <1>1, <1>3, <1>4, <1>5, ClientKept DEF PInv

(* A file that is opened has the name that is next; one that is passed over  *)
(* is trouble.                                                              *)
LEMMA OpenPairing == ASSUME IInv, PInv, Open PROVE PInv'
<1>1. PICK points : IsTrail(points)
  BY DEF PInv, Trail
<1>2. PICK b : b = points[Len(wire) + 1]
  OBVIOUS
<1>3. Point(b) /\ AtSender(b)
  BY <1>1, <1>2, LastPoint
<1>4. UNCHANGED <<clientVars, connected, drags>> /\ sender.left # <<>> /\ ~sender.open
  BY DEF Open
<1>5. /\ IsSequence(sender.left) /\ Len(sender.left) \in Nat \ {0} /\ Head(sender.left) = sender.left[1]
      /\ IsSequence(Tail(sender.left))
  BY <1>4, TailIs DEF PInv, Records
<1>6. CASE disk[File].there
  <2>1. PICK m : m = [type |-> "start", of |-> File, size |-> disk[File].size]
    OBVIOUS
  <2>2. Emit(m) /\ m.type = "start" /\ m.of = sender.left[1] /\ UNCHANGED trouble
    BY <1>5, <1>6, <2>1 DEF Open, File
  <2>3. sender'.left = sender.left
    BY <1>6 DEF Open, IInv, Shapes, Idle
  <2>4. Leads(b, m, b)
    <3> SUFFICES ASSUME Untroubled(b.drag) PROVE Pairs(b, m, b)
      BY <2>2 DEF Leads
    <3>1. /\ Len(b.names) = b.ended + Len(sender.left) /\ b.ended \in Nat
          /\ \A j \in 1 .. Len(sender.left) : b.names[b.ended + j] = Name[sender.left[j]]
      BY <1>3 DEF AtSender, Point
    <3>2. b.ended < Len(b.names) /\ b.names[b.ended + 1] = Name[sender.left[1]]
      BY <1>5, <3>1
    <3> QED
      BY <2>2, <3>2 DEF Pairs
  <2>5. AtSender(b)'
    BY <1>3, <1>4, <2>2, <2>3 DEF AtSender, Untroubled
  <2> QED
    BY <1>1, <1>2, <1>3, <1>4, <1>5, <2>2, <2>3, <2>4, <2>5, SendingPairs
<1>7. CASE ~disk[File].there
  <2>1. PICK d : d = drags
    OBVIOUS
  <2>2. /\ Mark(d, "transfer") /\ UNCHANGED wire
        /\ sender'.left = Tail(sender.left) /\ sender'.open = FALSE
    BY <1>4, <1>7, <2>1 DEF Open, IInv, Shapes, Idle
  <2>3. Remembered /\ ~Untroubled(d)'
    BY <2>2, Marked
  <2>4. ~Untroubled(drags)'
    BY <1>4, <2>1, <2>3 DEF Untroubled
  <2>5. AtSender(b)'
    <3> SUFFICES ASSUME Untroubled(b.drag)' PROVE FALSE
      BY <1>3, <1>4, <2>4 DEF AtSender
    <3>1. b.drag = drags
      BY <1>3, <2>3 DEF AtSender, Remembered
    <3> QED
      BY <1>4, <2>4, <3>1 DEF Untroubled
  <2>6. AtReceiver(points[1])'
    BY <1>1, <1>4, <2>3 DEF IsTrail, AtReceiver, Remembered, clientVars
  <2>7. AtSender(points[Len(wire) + 1])'
    BY <1>2, <2>2, <2>5 DEF AtSender
  <2>8. Trail'
    BY <1>1, <1>4, <2>2, <2>3, <2>6, <2>7, TrailStays DEF PInv, Records
  <2>9. Records'
    BY <1>4, <1>5, <2>2, <2>3 DEF PInv, Records, Remembered, clientVars
  <2>10. Unheard'
    BY <2>4 DEF Unheard
  <2> QED
    BY <1>4, <2>3, <2>8, <2>9, <2>10, ClientKept DEF PInv
<1> QED
  BY <1>6, <1>7

(* A chunk is of the file that has begun.                                   *)
LEMMA ReadChunkPairing == ASSUME IInv, PInv, ReadChunk PROVE PInv'
<1>1. PICK points : IsTrail(points)
  BY DEF PInv, Trail
<1>2. PICK b : b = points[Len(wire) + 1]
  OBVIOUS
<1>3. Point(b) /\ AtSender(b)
  BY <1>1, <1>2, LastPoint
<1>4. PICK m : m = [type |-> "data", of |-> File, at |-> sender.pos + 1]
  OBVIOUS
<1>5. Emit(m) /\ m.type = "data" /\ UNCHANGED <<clientVars, connected, drags, trouble>>
  BY <1>4 DEF ReadChunk
<1>6. sender'.left = sender.left /\ sender'.open = sender.open
  BY DEF ReadChunk, IInv, Shapes, Idle
<1>7. Leads(b, m, b)
  BY <1>5 DEF Leads, Pairs
<1>8. AtSender(b)'
  BY <1>3, <1>5, <1>6 DEF AtSender, Untroubled
<1>9. IsSequence(sender'.left) /\ (sender'.open => sender'.left # <<>>)
  BY <1>6 DEF PInv, Records
<1> QED
  BY <1>1, <1>2, <1>3, <1>5, <1>7, <1>8, <1>9, SendingPairs

(* An end takes the name of its file.                                       *)
LEMMA EndPairing == ASSUME IInv, PInv, End PROVE PInv'
<1>1. PICK points : IsTrail(points)
  BY DEF PInv, Trail
<1>2. PICK a : a = points[Len(wire) + 1]
  OBVIOUS
<1>3. Point(a) /\ AtSender(a)
  BY <1>1, <1>2, LastPoint
<1>4. PICK b : b = [drag |-> a.drag, names |-> a.names, ended |-> a.ended + 1]
  OBVIOUS
<1>5. b.drag = a.drag /\ b.names = a.names /\ b.ended = a.ended + 1 /\ a.ended \in Nat /\ Point(b)
  BY <1>3, <1>4 DEF Point
<1>6. PICK m : m = [type |-> "end"]
  OBVIOUS
<1>7. Emit(m) /\ m.type = "end" /\ UNCHANGED <<clientVars, connected, drags, trouble>>
  BY <1>6 DEF End
<1>8. sender.left # <<>> /\ IsSequence(sender.left)
  BY DEF End, PInv, Records
<1>9. sender'.left = Tail(sender.left) /\ sender'.open = FALSE
  BY DEF End, Idle
<1>10. /\ IsSequence(sender'.left) /\ Len(sender'.left) = Len(sender.left) - 1 /\ Len(sender.left) \in Nat \ {0}
       /\ \A j \in 1 .. Len(sender.left) - 1 : sender'.left[j] = sender.left[j + 1]
  BY <1>8, <1>9, TailIs
<1>11. Leads(a, m, b)
  BY <1>5, <1>7 DEF Leads, Pairs
<1>12. AtSender(b)'
  <2> SUFFICES ASSUME Untroubled(b.drag)' \/ Untroubled(drags)'
               PROVE  /\ b.drag = drags' /\ Len(b.names) = b.ended + Len(sender'.left)
                      /\ \A j \in 1 .. Len(sender'.left) : b.names[b.ended + j] = Name[sender'.left[j]]
    BY <1>3, <1>5, <1>7 DEF AtSender
  <2>1. Untroubled(a.drag) \/ Untroubled(drags)
    BY <1>5, <1>7 DEF Untroubled
  <2>2. /\ a.drag = drags /\ Len(a.names) = a.ended + Len(sender.left)
        /\ \A j \in 1 .. Len(sender.left) : a.names[a.ended + j] = Name[sender.left[j]]
    BY <1>3, <2>1 DEF AtSender
  <2>3. PICK n \in Nat : n = Len(sender'.left)
    BY <1>10
  <2>4. Len(sender.left) = n + 1
    BY <1>10, <2>3
  <2>5. ASSUME NEW j \in 1 .. n
        PROVE  b.names[b.ended + j] = Name[sender'.left[j]]
    <3>1. j + 1 \in 1 .. n + 1 /\ b.ended + j = a.ended + (j + 1)
      BY <1>5
    <3>2. sender'.left[j] = sender.left[j + 1]
      BY <1>10, <2>4
    <3> QED
      BY <1>5, <2>2, <2>4, <3>1, <3>2
  <2>6. Len(b.names) = b.ended + n
    <3>1. Len(a.names) = a.ended + (n + 1)
      BY <2>2, <2>4
    <3>2. a.ended + (n + 1) = b.ended + n
      BY <1>5
    <3> QED
      BY <1>5, <3>1, <3>2
  <2> QED
    BY <1>5, <1>7, <2>2, <2>3, <2>5, <2>6
<1> QED
  BY <1>1, <1>2, <1>5, <1>7, <1>9, <1>10, <1>11, <1>12, SendingPairs

(* The positions before and behind the first message.                       *)
LEMMA FirstPoints ==
    ASSUME IInv, wire # <<>>, NEW points, IsTrail(points)
    PROVE  /\ Point(points[1]) /\ Point(points[2]) /\ AtReceiver(points[1])
           /\ Leads(points[1], wire[1], points[2])
<1>1. Len(wire) \in Nat \ {0} /\ Len(points) = Len(wire) + 1
  BY TailIs DEF IInv, Shapes, IsTrail
<1>2. 1 \in 1 .. Len(points) /\ 2 \in 1 .. Len(points) /\ 1 \in 1 .. Len(wire)
  BY <1>1
<1>3. points[1 + 1] = points[2]
  OBVIOUS
<1> QED
  BY <1>2, <1>3 DEF IsTrail

(* A step of the client leaves what is said of the server.                  *)
LEMMA ServerKept ==
    ASSUME PInv, Remembered, UNCHANGED <<sender, connected, drags>>,
           DOMAIN offered' = DOMAIN offered, IsSequence(receiver'.written), receiver'.next \in Nat
    PROVE  Records' /\ Unheard'
BY DEF PInv, Records, Unheard, Remembered

(* Nothing is promised of a drag in trouble.                                *)
LEMMA TroubledReceiver ==
    ASSUME PInv, Remembered, receiver'.drag = receiver.drag, ~Untroubled(receiver.drag)',
           DOMAIN offered' = DOMAIN offered,
           \A d \in DOMAIN offered : d # receiver.drag => offered'[d] = offered[d]
    PROVE  OwnNames' /\ Counted' /\ Offers'
<1>1. OwnNames' /\ Counted'
  BY DEF OwnNames, Counted
<1>2. ASSUME NEW d \in DOMAIN offered', Untroubled(d)', receiver'.drag < d \/ d = receiver'.drag
      PROVE  offered'[d] = 0 /\ d # receiver'.drag
  <2>1. d # receiver.drag
    BY <1>2 DEF Untroubled
  <2> QED
    BY <1>2, <2>1 DEF PInv, Offers, Remembered
<1> QED
  BY <1>1, <1>2 DEF Offers

(* A chunk that is refused is trouble for its drag.                         *)
LEMMA RefusePairing ==
    ASSUME IInv, PInv, Refuse, wire # <<>>, wire' = Tail(wire), wire[1].type # "dragInfo",
           UNCHANGED <<sender, connected, offered, drags>>
    PROVE  PInv'
<1>1. PICK points : IsTrail(points)
  BY DEF PInv, Trail
<1>2. PICK d : d = receiver.drag
  OBVIOUS
<1>3. Mark(d, "transfer")
  BY <1>2 DEF Refuse
<1>4. Remembered /\ ~Untroubled(d)'
  BY <1>3, Marked
<1>5. receiver'.drag = receiver.drag /\ receiver'.written = receiver.written /\ receiver'.next = receiver.next
  BY DEF Refuse, IInv, Shapes, Fresh
<1>6. ~Untroubled(receiver.drag)'
  BY <1>2, <1>4, <1>5 DEF Untroubled
<1>7. OwnNames' /\ Counted' /\ Offers'
  BY <1>4, <1>5, <1>6, TroubledReceiver
<1>8. points[2].drag = d
  BY <1>1, <1>2, FirstPoints DEF Leads, AtReceiver
<1>9. AtReceiver(points[2])'
  BY <1>2, <1>4, <1>5, <1>8 DEF AtReceiver, Untroubled
<1>10. Trail'
  BY <1>1, <1>4, <1>9, TrailShortened DEF IInv, Shapes
<1>11. Records' /\ Unheard'
  BY <1>4, <1>5, ServerKept DEF PInv, Records
<1> QED
  BY <1>7, <1>10, <1>11 DEF PInv

(* What a drag announces is what the client accepts, or there is trouble.    *)
LEMMA OnDragInfoPairing == ASSUME IInv, PInv, OnDragInfo PROVE PInv'
<1>1. wire # <<>> /\ wire' = Tail(wire) /\ Head(wire) = wire[1] /\ wire[1].type = "dragInfo"
  BY Taken DEF OnDragInfo
<1>2. PICK points : IsTrail(points)
  BY DEF PInv, Trail
<1>3. PICK b : b = points[2]
  OBVIOUS
<1>4. /\ Point(b) /\ b.drag = wire[1].drag /\ receiver.drag < b.drag /\ b.names = wire[1].names /\ b.ended = 0
      /\ receiver.drag \in Nat /\ b.drag \in Nat
  BY <1>1, <1>2, <1>3, FirstPoints DEF Leads, Announces, AtReceiver, Point
<1> DEFINE safe == SelectSeq(wire[1].names, LAMBDA n : n \notin Unsafe)
<1> DEFINE tooMany == Len(wire[1].names) > MaxFileCount
<1>5. /\ receiver' = [Reset(wire[1]) EXCEPT !.accepted = IF tooMany THEN @ ELSE @ \o safe]
      /\ IF tooMany \/ safe # wire[1].names THEN Mark(wire[1].drag, "transfer") ELSE UNCHANGED trouble
      /\ UNCHANGED <<sender, connected, drop, offered, drags>>
  BY <1>1 DEF OnDragInfo
<1> HIDE DEF safe, tooMany
<1>6. /\ receiver'.drag = b.drag /\ receiver'.written = <<>> /\ receiver'.next = 0
      /\ receiver'.active = FALSE /\ receiver'.target = None
      /\ receiver'.accepted = IF tooMany THEN <<>> ELSE <<>> \o safe
  BY <1>4, <1>5 DEF Reset, Fresh
<1>7. Remembered /\ (Untroubled(b.drag)' => ~tooMany /\ safe = wire[1].names)
  BY <1>4, <1>5, Marked, Unmarked
<1>8. Untroubled(b.drag)' => receiver'.accepted = b.names /\ IsSequence(b.names)
  <2> SUFFICES ASSUME Untroubled(b.drag)'
               PROVE  receiver'.accepted = b.names /\ IsSequence(b.names)
    OBVIOUS
  <2>1. IsSequence(b.names) /\ receiver'.accepted = <<>> \o b.names
    BY <1>4, <1>6, <1>7 DEF Point
  <2>2. PICK S : b.names \in Seq(S)
    BY <2>1 DEF IsSequence
  <2> QED
    BY <2>1, <2>2, ConcatEmptySeq
<1>9. AtReceiver(b)'
  BY <1>4, <1>6, <1>8 DEF AtReceiver
<1>10. Trail'
  <2>1. AtReceiver(points[2])'
    BY <1>3, <1>9 DEF AtReceiver
  <2> QED
    BY <1>1, <1>2, <1>5, <1>7, <2>1, TrailShortened DEF IInv, Shapes
<1>11. Records' /\ Unheard'
  BY <1>5, <1>6, <1>7, EmptyIs, ServerKept
<1>12. OwnNames'
  BY <1>6, EmptyIs DEF OwnNames
<1>13. Counted'
  <2> SUFFICES ASSUME Untroubled(receiver.drag)'
               PROVE  0 <= Len(receiver'.accepted)
    BY <1>6, EmptyIs DEF Counted
  <2>1. Untroubled(b.drag)'
    BY <1>6 DEF Untroubled
  <2> QED
    BY <1>8, <2>1, SequenceIs
<1>14. Offers'
  <2> SUFFICES ASSUME NEW d \in DOMAIN offered, Untroubled(d)', b.drag <= d
               PROVE  offered[d] = 0
    BY <1>4, <1>5, <1>6 DEF Offers, PInv, Records
  <2>1. Untroubled(d) /\ receiver.drag < d
    BY <1>4, <1>7 DEF Remembered, PInv, Records
  <2> QED
    BY <2>1 DEF PInv, Offers
<1> QED
  BY <1>10, <1>11, <1>12, <1>13, <1>14 DEF PInv

(* What the client finds behind the message it takes.                       *)
LEMMA NextPair ==
    ASSUME IInv, wire # <<>>, wire[1].type # "dragInfo", NEW points, IsTrail(points)
    PROVE  /\ points[2].drag = receiver.drag
           /\ Untroubled(receiver.drag) =>
                /\ points[2].names = receiver.accepted
                /\ points[2].ended = IF wire[1].type = "end" THEN receiver.next + 1 ELSE receiver.next
                /\ wire[1].type = "start" =>
                     /\ receiver.next < Len(receiver.accepted)
                     /\ receiver.accepted[receiver.next + 1] = Name[wire[1].of]
BY FirstPoints DEF Leads, Pairs, AtReceiver

(* A client that goes on as the message says stays on the trail.            *)
LEMMA Following ==
    ASSUME IInv, PInv, Remembered, wire # <<>>, wire' = Tail(wire), wire[1].type # "dragInfo",
           UNCHANGED <<sender, drags>>, receiver'.drag = receiver.drag,
           Untroubled(receiver.drag) =>
                /\ receiver'.accepted = receiver.accepted
                /\ receiver'.next = IF wire[1].type = "end" THEN receiver.next + 1 ELSE receiver.next
    PROVE  Trail'
<1>1. PICK points : IsTrail(points)
  BY DEF PInv, Trail
<1>2. PICK b : b = points[2]
  OBVIOUS
<1>3. b.drag = receiver.drag
  BY <1>1, <1>2, NextPair
<1>4. ASSUME Untroubled(b.drag)' PROVE b.names = receiver'.accepted /\ b.ended = receiver'.next
  <2>1. Untroubled(receiver.drag)
    BY <1>3, <1>4 DEF Remembered
  <2> QED
    BY <1>1, <1>2, <2>1, NextPair
<1>5. AtReceiver(points[2])'
  BY <1>2, <1>3, <1>4 DEF AtReceiver
<1> QED
  BY <1>1, <1>5, TrailShortened DEF IInv, Shapes

(* A client that is not in trouble knows the names of its drag.             *)
LEMMA AcceptedIs ==
    ASSUME IInv, PInv, Untroubled(receiver.drag)
    PROVE  Len(receiver.accepted) \in Nat /\ receiver.next \in Nat /\ Len(receiver.written) \in Nat
<1>1. PICK points : IsTrail(points)
  BY DEF PInv, Trail
<1>2. 1 \in 1 .. Len(points)
  BY <1>1, SequenceIs DEF IInv, Shapes, IsTrail
<1>3. Point(points[1]) /\ points[1].names = receiver.accepted
  BY <1>1, <1>2 DEF IsTrail, AtReceiver
<1> QED
  BY <1>3, SequenceIs DEF Point, PInv, Records

(* A file begins with the name that is next.                                *)
LEMMA OnStartPairing == ASSUME IInv, PInv, OnStart PROVE PInv'
<1>1. /\ wire # <<>> /\ wire' = Tail(wire) /\ Head(wire) = wire[1] /\ wire[1].type = "start"
      /\ receiver.target = None /\ UNCHANGED <<sender, connected, drop, offered, drags>>
  BY Taken DEF OnStart
<1>2. CASE receiver.active \/ Head(wire).size > MaxFileSize
  BY <1>1, <1>2, RefusePairing DEF OnStart
<1>3. CASE ~(receiver.active \/ Head(wire).size > MaxFileSize)
  <2>1. /\ receiver' = [receiver EXCEPT !.active = TRUE, !.expected = wire[1].size,
                                        !.start = wire[1], !.buffer = <<>>]
        /\ UNCHANGED trouble
    BY <1>1, <1>3 DEF OnStart
  <2>2. /\ receiver'.drag = receiver.drag /\ receiver'.accepted = receiver.accepted
        /\ receiver'.written = receiver.written /\ receiver'.next = receiver.next
        /\ receiver'.start = wire[1] /\ receiver'.target = None
    BY <1>1, <2>1 DEF IInv, Shapes, Fresh
  <2>3. Remembered
    BY <2>1, Unmarked
  <2>4. Trail'
    BY <1>1, <2>2, <2>3, Following
  <2>5. Records' /\ Unheard'
    BY <1>1, <2>2, <2>3, ServerKept DEF PInv, Records
  <2>6. Untroubled(receiver.drag) =>
          /\ receiver.next < Len(receiver.accepted)
          /\ receiver.accepted[receiver.next + 1] = Name[wire[1].of]
    BY <1>1, NextPair DEF PInv, Trail
  <2>7. OwnNames'
    BY <1>1, <2>1, <2>2, <2>6 DEF PInv, OwnNames, Untroubled
  <2>8. Counted' /\ Offers'
    BY <1>1, <2>1, <2>2 DEF PInv, Counted, Offers, Untroubled
  <2> QED
    BY <2>4, <2>5, <2>7, <2>8 DEF PInv
<1> QED
  BY <1>2, <1>3

(* A chunk is one more of the file that has begun.                          *)
LEMMA OnDataPairing == ASSUME IInv, PInv, OnData PROVE PInv'
<1>1. /\ wire # <<>> /\ wire' = Tail(wire) /\ wire[1].type = "data"
      /\ receiver.target = None /\ UNCHANGED <<sender, connected, drop, offered, drags>>
  BY Taken DEF OnData
<1>2. CASE ~receiver.active \/ Len(receiver.buffer) >= receiver.expected
  BY <1>1, <1>2, RefusePairing DEF OnData
<1>3. CASE ~(~receiver.active \/ Len(receiver.buffer) >= receiver.expected)
  <2>1. /\ receiver' = [receiver EXCEPT !.buffer = Append(@, <<Head(wire).of, Head(wire).at>>)]
        /\ UNCHANGED trouble
    BY <1>3 DEF OnData
  <2>2. /\ receiver'.drag = receiver.drag /\ receiver'.accepted = receiver.accepted
        /\ receiver'.written = receiver.written /\ receiver'.next = receiver.next
        /\ receiver'.start = receiver.start /\ receiver'.active = receiver.active
        /\ receiver'.target = receiver.target
    BY <2>1 DEF IInv, Shapes, Fresh
  <2>3. Remembered
    BY <2>1, Unmarked
  <2>4. Trail'
    BY <1>1, <2>2, <2>3, Following
  <2>5. Records' /\ Unheard'
    BY <1>1, <2>2, <2>3, ServerKept DEF PInv, Records
  <2>6. OwnNames' /\ Counted' /\ Offers'
    BY <1>1, <2>1, <2>2 DEF PInv, OwnNames, Counted, Offers, Untroubled
  <2> QED
    BY <2>4, <2>5, <2>6 DEF PInv
<1> QED
  BY <1>2, <1>3

(* An end that is refused is trouble.                                       *)
LEMMA OnBadEndPairing == ASSUME IInv, PInv, OnBadEnd PROVE PInv'
<1>1. wire # <<>> /\ wire' = Tail(wire) /\ wire[1].type = "end"
  BY Taken DEF OnBadEnd
<1> QED
  BY <1>1, RefusePairing DEF OnBadEnd

(* A set of numbers that is not empty has a least one.                      *)
LEMMA Least ==
    ASSUME NEW T \in SUBSET Nat, T # {}
    PROVE  \E m \in T : \A k \in T : m <= k
<1> DEFINE U == {1 .. m : m \in T}
<1>1. U \in SUBSET FiniteSubsetsOf(Nat) /\ U # {}
  <2>1. ASSUME NEW m \in T PROVE 1 .. m \in FiniteSubsetsOf(Nat)
    <3>1. m \in Int /\ IsFiniteSet(1 .. m)
      BY FS_Interval
    <3> QED
      BY <3>1 DEF FiniteSubsetsOf
  <2> QED
    BY <2>1
<1>2. PICK u \in U : \A w \in U : ~(<<w, u>> \in StrictSubsetOrdering(Nat))
  BY <1>1, FS_StrictSubsetOrderingWellFounded, WFMin, Zenon
<1>3. PICK m \in T : u = 1 .. m
  OBVIOUS
<1>4. ASSUME NEW k \in T, k < m PROVE FALSE
  <2>1. 1 .. k \in U /\ 1 .. k \subseteq 1 .. m /\ m \in 1 .. m /\ m \notin 1 .. k /\ m \in Nat
    BY <1>4
  <2>2. <<1 .. k, 1 .. m>> \in StrictSubsetOrdering(Nat)
    BY <2>1 DEF StrictSubsetOrdering
  <2> QED
    BY <1>2, <1>3, <2>1, <2>2
<1> QED
  BY <1>4

(* A variant of a name that is free is a variant of that name               *)
(* (uniqueTargetPath).                                                      *)
LEMMA Variant ==
    ASSUME NEW name, FreeTargets(name) # {}
    PROVE  UniqueTarget(name)[1] = name
<1> DEFINE numbers == {t[2] : t \in FreeTargets(name)}
<1>1. \A t \in FreeTargets(name) : t[2] \in Nat /\ t[1] = name
  BY Parameters DEF FreeTargets, Targets
<1>2. PICK m \in numbers : \A k \in numbers : m <= k
  BY <1>1, Least
<1>3. PICK t \in FreeTargets(name) : m = t[2]
  OBVIOUS
<1>4. \A u \in FreeTargets(name) : t[2] <= u[2]
  BY <1>2, <1>3
<1>5. UniqueTarget(name) \in FreeTargets(name)
  BY <1>4 DEF UniqueTarget
<1> QED
  BY <1>1, <1>5

(* An offer is of the receiver's drag, once as many files are stored as      *)
(* names were accepted (ServerProxy::fileChunk).                            *)
LEMMA Offered ==
    ASSUME NEW r, Offer(r)
    PROVE  /\ DOMAIN offered' = DOMAIN offered
           /\ \A d \in DOMAIN offered : d # r.drag => offered'[d] = offered[d]
           /\ Len(r.written) # Len(r.accepted) => offered' = offered
           /\ r.drag \in DOMAIN offered => offered'[r.drag] \in {offered[r.drag], offered[r.drag] + 1}
BY DEF Offer

(* An end takes a name, whether the file can be stored or not.              *)
LEMMA OnEndPairing == ASSUME IInv, PInv, OnEnd PROVE PInv'
<1>1. /\ wire # <<>> /\ wire' = Tail(wire) /\ wire[1].type = "end" /\ receiver.target = None
      /\ receiver.active /\ UNCHANGED <<sender, connected, drop, drags>>
  BY Taken DEF OnEnd, Complete
<1> DEFINE r == [receiver EXCEPT !.active = FALSE]
<1> DEFINE name == receiver.accepted[receiver.next + 1]
<1> DEFINE discards(s) == receiver' = [s EXCEPT !.buffer = <<>>] /\ Offer(s) /\ Mark(s.drag, "write")
<1>2. /\ r.drag = receiver.drag /\ r.accepted = receiver.accepted /\ r.written = receiver.written
      /\ r.next = receiver.next /\ r.start = receiver.start /\ r.target = None /\ DOMAIN r = DOMAIN Fresh
  BY <1>1 DEF IInv, Shapes, Fresh
<1>3. /\ NextName(r).drag = receiver.drag /\ NextName(r).accepted = receiver.accepted
      /\ NextName(r).written = receiver.written /\ NextName(r).next = receiver.next + 1
      /\ NextName(r).start = receiver.start /\ NextName(r).target = None /\ DOMAIN NextName(r) = DOMAIN Fresh
      /\ NextName(r).active = FALSE
  BY <1>2 DEF NextName, Fresh
<1>4. \/ receiver.next >= Len(receiver.accepted) /\ discards(r)
      \/ ~(receiver.next >= Len(receiver.accepted)) /\ discards(NextName(r))
      \/ /\ ~(receiver.next >= Len(receiver.accepted)) /\ FreeTargets(name) # {}
         /\ receiver' = [NextName(r) EXCEPT !.target = UniqueTarget(name)]
         /\ UNCHANGED <<trouble, offered>>
  BY <1>2 DEF OnEnd
<1>5. /\ receiver'.drag = receiver.drag /\ receiver'.accepted = receiver.accepted
      /\ receiver'.written = receiver.written /\ receiver'.start = receiver.start
      /\ receiver'.active = FALSE
      /\ receiver'.next \in {receiver.next, receiver.next + 1}
  BY <1>2, <1>3, <1>4 DEF Fresh
<1>6. PICK d : d = receiver.drag
  OBVIOUS
<1>7. UNCHANGED trouble \/ Mark(d, "write")
  BY <1>2, <1>3, <1>4, <1>6
<1>8. Remembered
  BY <1>7, Marked, Unmarked
<1>9. /\ DOMAIN offered' = DOMAIN offered
      /\ \A e \in DOMAIN offered : e # receiver.drag => offered'[e] = offered[e]
  BY <1>2, <1>3, <1>4, Offered
<1>10. Records' /\ Unheard'
  <2>1. IsSequence(receiver'.written) /\ receiver'.next \in Nat
    BY <1>5 DEF PInv, Records
  <2> QED
    BY <1>1, <1>8, <1>9, <2>1, ServerKept
<1>11. ASSUME Untroubled(receiver.drag)
       PROVE  /\ receiver'.next = receiver.next + 1 /\ UNCHANGED offered
              /\ receiver'.target # None => receiver'.target[1] = Name[receiver.start.of]
              /\ receiver.next < Len(receiver.accepted) /\ Len(receiver.written) <= receiver.next
              /\ receiver.next \in Nat /\ Len(receiver.accepted) \in Nat /\ Len(receiver.written) \in Nat
  <2>1. /\ receiver.next < Len(receiver.accepted) /\ name = Name[receiver.start.of]
        /\ Len(receiver.written) <= receiver.next
    BY <1>1, <1>11 DEF PInv, OwnNames, Counted
  <2>2. Len(receiver.accepted) \in Nat /\ receiver.next \in Nat /\ Len(receiver.written) \in Nat
    BY <1>11, AcceptedIs
  <2>3. ~(receiver.next >= Len(receiver.accepted)) /\ Len(receiver.written) # Len(receiver.accepted)
    BY <2>1, <2>2
  <2>4. CASE discards(NextName(r))
    <3>1. receiver'.next = receiver.next + 1 /\ receiver'.target = None
      BY <1>3, <2>4 DEF Fresh
    <3>2. UNCHANGED offered
      BY <1>3, <2>3, <2>4, Offered
    <3> QED
      BY <2>1, <2>2, <3>1, <3>2
  <2>5. CASE /\ FreeTargets(name) # {} /\ receiver' = [NextName(r) EXCEPT !.target = UniqueTarget(name)]
             /\ UNCHANGED <<trouble, offered>>
    <3>1. receiver'.next = receiver.next + 1 /\ receiver'.target = UniqueTarget(name)
      BY <1>3, <2>5 DEF Fresh
    <3>2. UniqueTarget(name)[1] = name
      BY <2>5, Variant
    <3> QED
      BY <2>1, <2>2, <2>5, <3>1, <3>2
  <2> QED
    BY <1>4, <2>3, <2>4, <2>5
<1>12. Trail'
  BY <1>1, <1>5, <1>8, <1>11, Following
<1>13. CASE Untroubled(receiver.drag)
  <2> USE <1>13
  <2>1. OwnNames'
    BY <1>1, <1>5, <1>11 DEF PInv, OwnNames
  <2>2. Counted'
    BY <1>5, <1>11 DEF Counted
  <2>3. Offers'
    <3> SUFFICES ASSUME NEW e \in DOMAIN offered, Untroubled(e)'
                 PROVE  receiver.drag < e \/ e = receiver.drag => offered[e] = 0
      BY <1>5, <1>11 DEF Offers
    <3>1. Untroubled(e)
      BY <1>8 DEF Remembered
    <3> QED
      BY <1>11, <3>1 DEF PInv, Offers
  <2> QED
    BY <1>10, <1>12, <2>1, <2>2, <2>3 DEF PInv
<1>14. CASE ~Untroubled(receiver.drag)
  <2>1. ~Untroubled(receiver.drag)'
    BY <1>5, <1>6, <1>8, <1>14 DEF Remembered, Untroubled
  <2> QED
    BY <1>5, <1>8, <1>9, <1>10, <1>12, <2>1, TroubledReceiver DEF PInv
<1> QED
  BY <1>13, <1>14

(* A file is stored under the name it has taken, and the last one leads to   *)
(* the offer.                                                               *)
LEMMA PublishPairing == ASSUME IInv, PInv, Publish PROVE PInv'
<1>1. UNCHANGED <<disk, sender, connected, wire, drags>> /\ receiver.target # None
  BY DEF Publish
<1> DEFINE done == [receiver EXCEPT !.buffer = <<>>, !.target = None]
<1> DEFINE stored == [done EXCEPT !.written = Append(@, receiver.target), !.total = @ + Len(receiver.buffer)]
<1>2. /\ done.drag = receiver.drag /\ done.accepted = receiver.accepted /\ done.written = receiver.written
      /\ done.next = receiver.next /\ done.start = receiver.start /\ done.target = None
      /\ done.active = receiver.active /\ DOMAIN done = DOMAIN Fresh
  BY DEF IInv, Shapes, Fresh
<1>3. /\ stored.drag = receiver.drag /\ stored.accepted = receiver.accepted
      /\ stored.written = Append(receiver.written, receiver.target)
      /\ stored.next = receiver.next /\ stored.start = receiver.start /\ stored.target = None
      /\ stored.active = receiver.active
  BY <1>2 DEF Fresh
<1>4. \/ /\ receiver.target \notin DOMAIN drop /\ drop' = Filed(receiver.target, Content)
         /\ receiver' = stored /\ Offer(stored) /\ UNCHANGED trouble
      \/ receiver' = done /\ Offer(done) /\ Mark(receiver.drag, "write") /\ UNCHANGED drop
  BY DEF Publish, Published
<1> HIDE DEF done, stored
<1>5. /\ receiver'.drag = receiver.drag /\ receiver'.accepted = receiver.accepted
      /\ receiver'.next = receiver.next /\ receiver'.start = receiver.start
      /\ receiver'.active = FALSE /\ receiver'.target = None
  BY <1>1, <1>2, <1>3, <1>4 DEF IInv, Assembled
<1>6. PICK d : d = receiver.drag
  OBVIOUS
<1>7. Remembered
  BY <1>4, <1>6, Marked, Unmarked
<1>8. /\ IsSequence(receiver.written) /\ IsSequence(Append(receiver.written, receiver.target))
      /\ Len(receiver.written) \in Nat
      /\ Len(Append(receiver.written, receiver.target)) = Len(receiver.written) + 1
      /\ Append(receiver.written, receiver.target)[Len(receiver.written) + 1] = receiver.target
      /\ \A i \in 1 .. Len(receiver.written) :
            Append(receiver.written, receiver.target)[i] = receiver.written[i]
  BY AppendIs, SequenceIs DEF PInv, Records
<1>9. /\ DOMAIN offered' = DOMAIN offered
      /\ \A e \in DOMAIN offered : e # receiver.drag => offered'[e] = offered[e]
  BY <1>2, <1>3, <1>4, Offered
<1>10. Records' /\ Unheard'
  <2>1. IsSequence(receiver'.written) /\ receiver'.next \in Nat
    BY <1>2, <1>3, <1>4, <1>5, <1>8 DEF PInv, Records
  <2> QED
    BY <1>1, <1>7, <1>9, <2>1, ServerKept
<1>11. Trail'
  <2>1. PICK points : IsTrail(points)
    BY DEF PInv, Trail
  <2>2. AtReceiver(points[1])'
    BY <1>5, <1>7, <2>1 DEF IsTrail, AtReceiver, Remembered
  <2>3. AtSender(points[Len(wire) + 1])'
    BY <1>1, <1>7, <2>1 DEF IsTrail, AtSender, Remembered
  <2> QED
    BY <1>1, <1>7, <2>1, <2>2, <2>3, TrailStays DEF PInv, Records
<1>12. CASE ~Untroubled(receiver.drag)
  <2>1. ~Untroubled(receiver.drag)'
    BY <1>5, <1>6, <1>7, <1>12 DEF Remembered, Untroubled
  <2> QED
    BY <1>5, <1>7, <1>9, <1>10, <1>11, <2>1, TroubledReceiver DEF PInv
<1>13. CASE Untroubled(receiver.drag)
  <2>1. /\ receiver.target[1] = Name[receiver.start.of]
        /\ receiver.next <= Len(receiver.accepted) /\ Len(receiver.written) < receiver.next
        /\ Len(receiver.accepted) \in Nat /\ receiver.next \in Nat /\ receiver.drag \in DOMAIN offered
        /\ \A i \in 1 .. Len(receiver.written) :
              /\ receiver.written[i] \in DOMAIN drop
              /\ receiver.written[i][1] = Name[drop[receiver.written[i]].of]
    BY <1>1, <1>13, AcceptedIs DEF PInv, OwnNames, Counted, Records, Untroubled
  <2>2. \A e \in DOMAIN offered : Untroubled(e)' /\ (receiver.drag < e \/ e = receiver.drag) => offered[e] = 0
    BY <1>1, <1>7 DEF Remembered, PInv, Offers
  <2>3. CASE /\ receiver.target \notin DOMAIN drop /\ drop' = Filed(receiver.target, Content)
             /\ receiver' = stored /\ Offer(stored) /\ UNCHANGED trouble
    <3>1. receiver'.written = Append(receiver.written, receiver.target)
      BY <1>3, <2>3
    <3>2. /\ DOMAIN drop' = DOMAIN drop \union {receiver.target} /\ drop'[receiver.target] = Content
          /\ \A u \in DOMAIN drop : drop'[u] = drop[u]
      BY <2>3, DropGrows
    <3>3. Content.of = receiver.start.of
      BY DEF Content
    <3>4. ASSUME NEW i \in 1 .. Len(receiver'.written)
          PROVE  /\ receiver'.written[i] \in DOMAIN drop'
                 /\ receiver'.written[i][1] = Name[drop'[receiver'.written[i]].of]
      <4>1. CASE i = Len(receiver.written) + 1
        <5>1. receiver'.written[i] = receiver.target
          BY <1>8, <3>1, <4>1
        <5> QED
          BY <2>1, <3>2, <3>3, <5>1
      <4>2. CASE i \in 1 .. Len(receiver.written)
        <5>1. receiver'.written[i] = receiver.written[i]
          BY <1>8, <3>1, <4>2
        <5> QED
          BY <2>1, <3>2, <4>2, <5>1
      <4> QED
        BY <1>8, <3>1, <4>1, <4>2
    <3>5. OwnNames'
      BY <1>5, <3>4 DEF OwnNames
    <3>6. Counted'
      BY <1>5, <1>8, <2>1, <3>1 DEF Counted
    <3>7. offered'[receiver.drag] \in {offered[receiver.drag], offered[receiver.drag] + 1}
      BY <1>3, <2>1, <2>3, Offered
    <3>8. Len(stored.written) # Len(stored.accepted) => offered' = offered
      BY <2>3, Offered
    <3>9. ASSUME NEW e \in DOMAIN offered, Untroubled(e)', receiver.drag < e \/ e = receiver.drag
          PROVE  \/ offered'[e] = 0
                 \/ e = receiver.drag /\ offered'[e] = 1 /\ Len(receiver'.written) = Len(receiver'.accepted)
      <4>1. offered[e] = 0
        BY <2>2, <3>9
      <4>2. CASE e # receiver.drag
        BY <1>9, <4>1, <4>2
      <4>3. CASE e = receiver.drag
        BY <2>3, <3>7, <3>8, <4>1, <4>3
      <4> QED
        BY <4>2, <4>3
    <3>10. Offers'
      BY <1>5, <1>9, <2>2, <3>9 DEF Offers
    <3> QED
      BY <1>10, <1>11, <3>5, <3>6, <3>10 DEF PInv
  <2>4. CASE receiver' = done /\ Offer(done) /\ UNCHANGED drop
    <3>1. receiver'.written = receiver.written
      BY <1>2, <2>4
    <3>2. Len(receiver.written) # Len(receiver.accepted)
      BY <1>8, <2>1
    <3>3. UNCHANGED offered
      BY <1>2, <2>4, <3>2, Offered
    <3>4. OwnNames'
      BY <1>5, <2>1, <2>4, <3>1 DEF OwnNames
    <3>5. Counted'
      BY <1>5, <1>8, <2>1, <3>1 DEF Counted
    <3>6. Offers'
      BY <1>5, <2>2, <3>3 DEF Offers
    <3> QED
      BY <1>10, <1>11, <3>4, <3>5, <3>6 DEF PInv
  <2> QED
    BY <1>4, <2>3, <2>4
<1> QED
  BY <1>12, <1>13

(* A lost connection is trouble for every drag so far.                      *)
LEMMA DisconnectPairing == ASSUME IInv, PInv, Disconnect PROVE PInv'
<1>1. /\ connected' = FALSE /\ wire' = <<>> /\ receiver' = Fresh
      /\ trouble' = [d \in DOMAIN trouble |-> IF d <= drags THEN trouble[d] \union {"transfer"} ELSE trouble[d]]
      /\ UNCHANGED <<sender, drop, offered, drags>>
  BY DEF Disconnect
<1>2. Remembered /\ \A d : d <= drags => ~Untroubled(d)'
  BY <1>1 DEF Remembered, Untroubled
<1>3. receiver'.drag = 0 /\ receiver'.written = <<>> /\ receiver'.next = 0
  BY <1>1 DEF Fresh
<1>4. drags \in Nat /\ DOMAIN offered = DOMAIN trouble /\ DOMAIN trouble = 1 .. MaxDrags
  BY DEF PInv, Records
<1>5. ~Untroubled(0)' /\ ~Untroubled(drags)' /\ ~Untroubled(receiver.drag)'
  BY <1>1, <1>3, <1>4 DEF Untroubled
<1>6. Records' /\ Unheard' /\ OwnNames' /\ Counted'
  BY <1>1, <1>2, <1>3, <1>5, EmptyIs DEF PInv, Records, Unheard, OwnNames, Counted, Remembered
<1>7. PICK points : IsTrail(points)
  BY DEF PInv, Trail
<1>8. receiver.drag \in 0 .. drags
  <2>1. 1 \in 1 .. Len(points)
    BY <1>7, SequenceIs DEF IInv, Shapes, IsTrail
  <2> QED
    BY <1>7, <2>1 DEF IsTrail, Point, AtReceiver
<1>9. Offers'
  <2> SUFFICES ASSUME NEW d \in DOMAIN offered, Untroubled(d)' PROVE offered[d] = 0
    BY <1>1 DEF Offers
  <2>1. Untroubled(d) /\ d \in Nat
    BY <1>2, <1>4 DEF Remembered
  <2>2. ~(d <= drags)
    BY <1>2
  <2>3. receiver.drag < d
    BY <1>4, <1>8, <2>1, <2>2
  <2> QED
    BY <2>1, <2>3 DEF PInv, Offers
<1>10. Trail'
  <2>1. PICK b : b = [drag |-> 0, names |-> <<>>, ended |-> 0]
    OBVIOUS
  <2>2. PICK alone : alone = <<b>>
    OBVIOUS
  <2>3. IsSequence(alone) /\ Len(alone) = 1 /\ alone[1] = b
    <3>1. alone \in Seq({b})
      BY <2>2
    <3> QED
      BY <2>2, <3>1 DEF IsSequence
  <2>4. b.drag = 0 /\ Point(b)'
    BY <1>1, <1>4, <2>1, EmptyIs DEF Point
  <2>5. \A i \in 1 .. Len(alone) : Point(alone[i])'
    BY <2>3, <2>4 DEF Point
  <2>6. AtReceiver(alone[1])' /\ AtSender(alone[1])'
    BY <1>3, <1>5, <2>3, <2>4 DEF AtReceiver, AtSender, Untroubled
  <2>7. Len(wire') = 0
    BY <1>1, EmptyIs
  <2>8. IsTrail(alone)'
    BY <2>3, <2>5, <2>6, <2>7 DEF IsTrail
  <2> QED
    BY <2>8 DEF Trail
<1> QED
  BY <1>6, <1>9, <1>10 DEF PInv

(* The files of either machine change, or the client is back, or nothing     *)
(* happens.                                                                 *)
LEMMA OtherPairing ==
    ASSUME IInv, PInv, Change \/ Create \/ Reconnect \/ UNCHANGED vars
    PROVE  PInv'
<1>1. UNCHANGED <<sender, wire, receiver, offered, drags, trouble>> /\ (connected' \/ connected' = connected)
  BY DEF Change, Create, Reconnect, clientVars, vars
<1>2. \A t \in DOMAIN drop : t \in DOMAIN drop' /\ drop'[t] = drop[t]
  <2>1. CASE Create
    <3>1. PICK t \in Targets \ DOMAIN drop : drop' = Filed(t, Local)
      BY <2>1 DEF Create
    <3> QED
      BY <3>1, DropGrows
  <2>2. CASE Change \/ Reconnect \/ UNCHANGED vars
    BY <2>2 DEF Change, Reconnect, clientVars, vars
  <2> QED
    BY <2>1, <2>2
<1>3. Records' /\ Unheard' /\ Counted' /\ Offers'
  BY <1>1 DEF PInv, Records, Unheard, Counted, Offers, Untroubled
<1>4. OwnNames'
  BY <1>1, <1>2 DEF PInv, OwnNames, Untroubled
<1>5. Trail'
  <2>1. PICK points : IsTrail(points)
    BY DEF PInv, Trail
  <2>2. AtReceiver(points[1])' /\ AtSender(points[Len(wire) + 1])'
    BY <1>1, <2>1 DEF IsTrail, AtReceiver, AtSender, Untroubled
  <2> QED
    BY <1>1, <2>1, <2>2, Unmarked, TrailStays DEF PInv, Records
<1> QED
  BY <1>3, <1>4, <1>5 DEF PInv

(* Nothing is announced at the start.                                       *)
LEMMA StartingPairs == Init => PInv
<1> SUFFICES ASSUME Init PROVE PInv
  OBVIOUS
<1> USE DEF Init, Fresh, Idle
<1>1. Records /\ Unheard /\ OwnNames /\ Counted
  BY Parameters, EmptyIs DEF Records, Unheard, OwnNames, Counted, Untroubled
<1>2. Offers
  BY DEF Offers
<1>3. Trail
  <2>1. PICK b : b = [drag |-> 0, names |-> <<>>, ended |-> 0]
    OBVIOUS
  <2>2. PICK alone : alone = <<b>>
    OBVIOUS
  <2>3. IsSequence(alone) /\ Len(alone) = 1 /\ alone[1] = b
    <3>1. alone \in Seq({b})
      BY <2>2
    <3> QED
      BY <2>2, <3>1 DEF IsSequence
  <2>4. Point(b) /\ AtReceiver(b) /\ AtSender(b)
    BY <2>1, EmptyIs DEF Point, AtReceiver, AtSender, Untroubled
  <2>5. IsTrail(alone)
    BY <2>3, <2>4, EmptyIs DEF IsTrail
  <2> QED
    BY <2>5 DEF Trail
<1> QED
  BY <1>1, <1>2, <1>3 DEF PInv

(* Pairs last, given that files come whole.                                 *)
LEMMA Pairing == Spec => []PInv
<1>1. IInv /\ PInv /\ [Next]_vars => PInv'
  <2> SUFFICES ASSUME IInv, PInv, [Next]_vars PROVE PInv'
    OBVIOUS
  <2>1. CASE SendPaths
    BY <2>1, SendPathsPairing
  <2>2. CASE Send
    BY <2>2, OpenPairing, ReadChunkPairing, EndPairing DEF Send
  <2>3. CASE Handle
    BY <2>3, OnDragInfoPairing, OnStartPairing, OnDataPairing, OnBadEndPairing, OnEndPairing, PublishPairing
    DEF Handle
  <2>4. CASE Disconnect
    BY <2>4, DisconnectPairing
  <2>5. CASE Change \/ Create \/ Reconnect \/ UNCHANGED vars
    BY <2>5, OtherPairing
  <2> QED
    BY <2>1, <2>2, <2>3, <2>4, <2>5 DEF Next
<1> QED
  BY Invariance, StartingPairs, <1>1, PTL DEF Spec

(* For any files, names, limits and faults, the files of a drag none of whose *)
(* transfers went missing are stored under their own names and offered at    *)
(* most once (FileTransferReceiver.cpp: "A failed write still consumes that  *)
(* name, otherwise the next file is stored under it").                      *)
THEOREM PairedByPosition == Spec => []Paired
<1>1. IInv /\ PInv => Paired
  <2> SUFFICES ASSUME IInv, PInv, receiver.drag # 0, "transfer" \notin trouble[receiver.drag]
               PROVE  UnderOwnName /\ offered[receiver.drag] <= 1
    BY DEF Paired
  <2>1. PICK points : IsTrail(points)
    BY DEF PInv, Trail
  <2>2. 1 \in 1 .. Len(points)
    BY <2>1, SequenceIs DEF IInv, Shapes, IsTrail
  <2>3. receiver.drag \in 0 .. drags /\ drags \in 0 .. MaxDrags
    BY <2>1, <2>2 DEF IsTrail, Point, AtReceiver, PInv, Records
  <2>4. receiver.drag \in 1 .. MaxDrags
    BY <2>3, Parameters
  <2>5. Untroubled(receiver.drag) /\ receiver.drag \in DOMAIN offered
    BY <2>4 DEF Untroubled, PInv, Records
  <2>6. UnderOwnName
    BY <2>5, SequenceIs DEF UnderOwnName, PInv, OwnNames, Records
  <2>7. offered[receiver.drag] = 0 \/ offered[receiver.drag] = 1
    BY <2>5 DEF PInv, Offers
  <2> QED
    BY <2>6, <2>7
<1> QED
  BY Invariance, Pairing, <1>1, PTL

=============================================================================
