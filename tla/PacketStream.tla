---------------------------- MODULE PacketStream ----------------------------
(***************************************************************************)
(* A connection from the wire to the client: the socket, served by the      *)
(* multiplexer's thread, the filter that cuts its bytes into packets, and   *)
(* the client that reads them, on the thread of the event loop              *)
(* (src/src/lib/net/TCPSocket.cpp, src/src/lib/synergy/protocol/            *)
(* PacketStreamFilter.cpp, src/src/lib/client/Client.cpp and                *)
(* ServerProxy.cpp).  The socket of the Qt transport, which has no thread   *)
(* of its own, is an alternative                                            *)
(* (src/src/lib/net/QtSocketFactory.cpp and QtNetworkTransport.cpp).         *)
(*                                                                         *)
(* A packet is a size and two parts (the code and the rest of a message).   *)
(***************************************************************************)
EXTENDS Naturals, Sequences

CONSTANTS
    MaxPackets,   \* bound: packets the peer sends
    HighWater     \* s_inputBufferHighWater, in parts

ASSUME Parameters == MaxPackets \in Nat /\ HighWater \in Nat \ {0}

Size == 2   \* the parts a size announces
Packet(p) == <<[of |-> p, part |-> "size"], [of |-> p, part |-> "code"], [of |-> p, part |-> "rest"]>>

VARIABLES
    sent, peer, wire,  \* whole packets sent, is the peer's end open, what is on the way
    socket,  \* the socket's buffers, flags and multiplexer job
    filter,  \* PacketStreamFilter: m_buffer, m_size, m_inputShutdown
    events,  \* events of the socket ("raw") and of the filter, oldest first
    owner,   \* the client: has it greeted the server, is a handler reading, what was read
    told,    \* the client was told of the end
    job      \* a job the loop's thread has made and not yet registered

streamVars == <<sent, peer, wire, socket, filter, events, owner, told, job>>
peerVars == <<sent, peer>>

None == [read |-> FALSE, write |-> FALSE]

Raw(type) == [type |-> type, from |-> "socket"]
Own(type) == [type |-> type, from |-> "filter"]

(***************************************************************************)
(* The peer                                                                 *)
(***************************************************************************)
Send ==
    /\ peer = "open" /\ Len(sent) < MaxPackets
    /\ sent' = Append(sent, Len(sent) + 1)
    /\ wire' = wire \o Packet(Len(sent) + 1)
    /\ UNCHANGED <<peer, socket, filter, events, owner, told, job>>

Close ==
    /\ peer = "open" /\ peer' = "closed"
    /\ UNCHANGED <<sent, wire, socket, filter, events, owner, told, job>>

(* The peer dies inside a packet.                                           *)
Break ==
    /\ peer = "open" /\ peer' = "broken"
    /\ \E n \in 1 .. Size : wire' = wire \o SubSeq(Packet(Len(sent) + 1), 1, n)
    /\ UNCHANGED <<sent, socket, filter, events, owner, told, job>>

(***************************************************************************)
(* TCPSocket, on the multiplexer's thread                                   *)
(***************************************************************************)

(* TCPSocket::newJob of a connected socket.                                 *)
NewJob(s) == [read |-> s.readable /\ ~s.paused, write |-> s.output]

InputReady(s) == IF s.input = <<>> THEN <<Raw("InputReady")>> ELSE <<>>

Full_Never(input) == FALSE
Full(input) == Len(input) >= HighWater

(* TCPSocket::doRead slurps what has arrived, up to the high-water mark.     *)
DoRead ==
    /\ ~told /\ socket.job.read /\ socket.readable /\ wire # <<>>
    /\ \E n \in 1 .. Len(wire) :
        LET input == socket.input \o SubSeq(wire, 1, n)
            s == [socket EXCEPT !.input = input, !.paused = @ \/ Full(input)]
        IN  /\ n = 1 \/ ~Full(socket.input \o SubSeq(wire, 1, n - 1))
            /\ socket' = IF s.paused THEN [s EXCEPT !.job = NewJob(s)] ELSE s
            /\ wire' = SubSeq(wire, n + 1, Len(wire))
    /\ events' = events \o InputReady(socket)
    /\ UNCHANGED <<peerVars, filter, owner, told, job>>

(* The end of the stream; what is in the buffer stays to be read.           *)
DoReadEnd ==
    /\ ~told /\ socket.job.read /\ socket.readable /\ wire = <<>> /\ peer # "open"
    /\ events' = Append(events, Raw("InputShutdown"))
    /\ LET s == [socket EXCEPT !.readable = FALSE]
       IN  socket' = [s EXCEPT !.job = NewJob(s)]
    /\ UNCHANGED <<peerVars, wire, filter, owner, told, job>>

(* TCPSocket::doWrite.  A peer that has closed answers with a reset.         *)
DoWrite ==
    /\ ~told /\ socket.job.write /\ socket.output
    /\ LET s == [socket EXCEPT !.output = FALSE]
       IN  socket' = [s EXCEPT !.job = NewJob(s)]
    /\ peer' = IF peer = "closed" THEN "broken" ELSE peer
    /\ UNCHANGED <<sent, wire, filter, events, owner, told, job>>

(* serviceConnected finds an error: the buffers are dropped.                *)
Reset ==
    /\ ~told /\ peer = "broken" /\ socket.job # None
    /\ socket' = [socket EXCEPT !.input = <<>>, !.readable = FALSE, !.output = FALSE, !.writable = FALSE,
                               !.job = None]
    /\ wire' = <<>>
    /\ events' = Append(events, Raw("SocketDisconnected"))
    /\ UNCHANGED <<peerVars, filter, owner, told, job>>

(***************************************************************************)
(* TCPSocket, on the loop's thread.  newJob() runs without the mutex, so    *)
(* the multiplexer may act before the job is registered.                    *)
(***************************************************************************)
Idle == job = <<>>

SetJob ==
    /\ ~Idle
    /\ socket' = [socket EXCEPT !.job = job[1]]
    /\ job' = <<>>
    /\ UNCHANGED <<peerVars, wire, filter, events, owner, told>>

(***************************************************************************)
(* PacketStreamFilter.  f is the filter.                                    *)
(***************************************************************************)
IsReady(f) == f.size # 0 /\ Len(f.buffer) >= f.size

ReadPacketSize(f) ==
    IF f.size = 0 /\ f.buffer # <<>>
    THEN [f EXCEPT !.size = Size, !.buffer = Tail(@)]
    ELSE f

(* What is left when the packet has been read.                              *)
Rest(f) == ReadPacketSize([f EXCEPT !.buffer = SubSeq(@, f.size + 1, Len(@)), !.size = 0])

EndsInput(f) == f.shutdown /\ f.size = 0

(***************************************************************************)
(* The client                                                               *)
(***************************************************************************)

(* A handler reads a packet, and posts its own events behind the filter's.   *)
ReadPacket(posted) ==
    /\ filter' = Rest(filter)
    /\ owner' = [owner EXCEPT !.got = Append(@, Head(filter.buffer).of), !.greeted = TRUE,
                             !.reading = owner.greeted /\ IsReady(Rest(filter))]
    /\ events' = events \o (IF EndsInput(Rest(filter)) THEN <<Own("InputShutdown")>> ELSE <<>>) \o posted

(* The answer is buffered, and a job made if none waits to write.            *)
Write ==
    IF socket.writable
    THEN /\ socket' = [socket EXCEPT !.output = TRUE]
         /\ job' = IF socket.output THEN <<>> ELSE <<NewJob(socket')>>
    ELSE UNCHANGED <<socket, job>>

(* With nowhere to write the socket posts an event instead.                 *)
Answer(posted) ==
    \/ Write /\ ReadPacket((IF socket.writable THEN <<>> ELSE <<Raw("OutputError")>>) \o posted)
    \/ UNCHANGED <<socket, job>> /\ ReadPacket(posted)

(* Client::handleHello reads one packet and reminds itself of the others.   *)
HandleHello ==
    /\ owner.reading /\ Idle /\ ~owner.greeted
    /\ Answer(IF IsReady(Rest(filter)) THEN <<Own("InputReady")>> ELSE <<>>)
    /\ UNCHANGED <<peerVars, wire, told>>

(* ServerProxy::handleData reads all of them.                               *)
HandleData ==
    /\ owner.reading /\ Idle /\ owner.greeted
    /\ Answer(<<>>)
    /\ UNCHANGED <<peerVars, wire, told>>

First(event) == ~told /\ ~owner.reading /\ Idle /\ events # <<>> /\ Head(events) = event

(* readMore empties the socket's buffer, which lets it read again; the       *)
(* client is not told of more input while a whole packet waits.             *)
Drained(s) == [s EXCEPT !.input = <<>>, !.paused = FALSE]

FilterInputReady(input) ==
    /\ First(Raw("InputReady"))
    /\ filter' = ReadPacketSize([filter EXCEPT !.buffer = @ \o input])
    /\ socket' = Drained(socket)
    /\ job' = IF socket.paused THEN <<NewJob(socket')>> ELSE <<>>
    /\ owner' = [owner EXCEPT !.reading = IsReady(filter') # IsReady(filter)]
    /\ events' = Tail(events)
    /\ UNCHANGED <<peerVars, wire, told>>

(* An event the client posted to itself does not pass the filter.           *)
OwnInputReady ==
    /\ First(Own("InputReady"))
    /\ owner' = [owner EXCEPT !.reading = IsReady(filter)]
    /\ events' = Tail(events)
    /\ UNCHANGED <<peerVars, wire, socket, filter, told, job>>

(* PacketStreamFilter::filterEvent of the socket's end of input.            *)
PacketKept_Not(f) == FALSE
PacketKept(f) == f.size # 0 /\ Len(f.buffer) >= f.size

FilterInputShutdown ==
    /\ First(Raw("InputShutdown"))
    /\ filter' = [filter EXCEPT !.shutdown = TRUE, !.size = IF IsReady(filter) THEN @ ELSE 0]
    /\ told' = ~PacketKept(filter)
    /\ events' = Tail(events)
    /\ UNCHANGED <<peerVars, wire, socket, owner, job>>

(* Client::handleDisconnected and handleOutputError.                        *)
HandleDisconnected ==
    /\ \E event \in {Own("InputShutdown"), Raw("SocketDisconnected"), Raw("OutputError")} : First(event)
    /\ told' = TRUE
    /\ events' = Tail(events)
    /\ UNCHANGED <<peerVars, wire, socket, filter, owner, job>>

(***************************************************************************)
(* The socket of the Qt transport, on the loop's thread: QtNetworkTransport  *)
(* copies what arrives into its own buffer and every signal posts an event. *)
(***************************************************************************)
ReadyRead ==
    /\ ~told /\ Idle /\ ~owner.reading /\ socket.readable /\ wire # <<>>
    /\ \E n \in 1 .. Len(wire) :
        /\ socket' = [socket EXCEPT !.input = @ \o SubSeq(wire, 1, n)]
        /\ wire' = SubSeq(wire, n + 1, Len(wire))
    /\ events' = Append(events, Raw("InputReady"))
    /\ UNCHANGED <<peerVars, filter, owner, told, job>>

Disconnected ==
    /\ ~told /\ Idle /\ ~owner.reading /\ socket.readable /\ wire = <<>> /\ peer # "open"
    /\ socket' = [socket EXCEPT !.readable = FALSE]
    /\ events' = events \o <<Raw("InputShutdown"), Raw("SocketDisconnected")>>
    /\ UNCHANGED <<peerVars, wire, filter, owner, told, job>>

(* QtNetworkTransport::read returns nothing once it is disconnected.         *)
Readable(s) == IF s.readable THEN s.input ELSE <<>>

(***************************************************************************)
(* The specifications                                                       *)
(***************************************************************************)
StreamInit ==
    /\ sent = <<>> /\ peer = "open" /\ wire = <<>>
    /\ socket = [input |-> <<>>, readable |-> TRUE, paused |-> FALSE, output |-> FALSE, writable |-> TRUE,
                 job |-> [read |-> TRUE, write |-> FALSE]]
    /\ filter = [buffer |-> <<>>, size |-> 0, shutdown |-> FALSE]
    /\ events = <<>> /\ told = FALSE /\ job = <<>>
    /\ owner = [greeted |-> FALSE, reading |-> FALSE, got |-> <<>>]

Peer == Send \/ Close \/ Break
Multiplexer == DoRead \/ DoReadEnd \/ DoWrite
Loop ==
    \/ FilterInputReady(socket.input) \/ OwnInputReady \/ HandleHello \/ HandleData
    \/ FilterInputShutdown \/ HandleDisconnected \/ SetJob

StreamNext == Peer \/ Multiplexer \/ Reset \/ Loop

(* The multiplexer serves its jobs and the loop its events; the peer may     *)
(* stop at any time and a reset need not come.                              *)
StreamSpec ==
    /\ StreamInit /\ [][StreamNext]_streamVars
    /\ WF_streamVars(DoRead) /\ WF_streamVars(DoReadEnd) /\ WF_streamVars(DoWrite)
    /\ WF_streamVars(Loop)

(* With Qt the writes are those of the QTcpSocket, and so is what waits for  *)
(* them in place of a job.                                                  *)
StreamNextQt ==
    \/ Peer \/ ReadyRead \/ Disconnected \/ SetJob \/ DoWrite
    \/ FilterInputReady(Readable(socket)) \/ OwnInputReady \/ HandleHello \/ HandleData
    \/ FilterInputShutdown \/ HandleDisconnected

StreamSpecQt == StreamInit /\ [][StreamNextQt]_streamVars

(***************************************************************************)
(* Properties                                                               *)
(***************************************************************************)
Job == [read : BOOLEAN, write : BOOLEAN]

(* A socket's job waits to write only for a buffered answer, and the buffer  *)
(* of what was read stays within the high-water mark and one more read,     *)
(* which a job made before the mark was reached may do (TCPSocket::doRead,   *)
(* read and newJob).                                                        *)
Bounded ==
    /\ socket.job \in Job /\ job \in {<<>>} \cup {<<j>> : j \in Job}
    /\ Len(socket.input) <= HighWater + 1

(* Packets reach the client whole, in order and once, all that the peer sent *)
(* before it closed do, and then the client is told of the end              *)
(* (TCPSocket, PacketStreamFilter and Client implement PacketChannel).      *)
Channel == INSTANCE PacketChannel WITH got <- owner.got
Implements == Channel!Spec

(* The filter processes a complete packet before it shuts down               *)
(* (PacketStreamFilter::filterEvent).                                       *)
ProcessedFirst == told /\ peer = "closed" => owner.got = sent
=============================================================================
