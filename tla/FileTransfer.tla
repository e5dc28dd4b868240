---------------------------- MODULE FileTransfer ----------------------------
(***************************************************************************)
(* Files dragged from the server's screen to a client's: the server         *)
(* announces the names of a selection and sends the files one after the     *)
(* other, the client puts each together and stores it in a directory, then  *)
(* offers them to its desktop (FileTransferOutbound.cpp, -Source.cpp,       *)
(* -Sender.cpp, -Receiver.cpp and FileChunk.cpp of                          *)
(* src/src/lib/synergy/protocol, src/src/lib/client/ServerProxy.cpp).       *)
(*                                                                         *)
(* The unit of size is the chunk.  Files change on both machines while      *)
(* they are sent; the connection may break and come back.                   *)
(***************************************************************************)
EXTENDS Naturals, Sequences, FiniteSets

CONSTANTS
    None,           \* no target, no start
    Paths,          \* the server's files
    Name,           \* Name[p]: the last part of the path
    Unsafe,         \* names sanitizeFileName refuses
    Selections,     \* what the user may drag: sequences of paths
    Sizes,          \* bound: the sizes files have
    SendCount,      \* maxFileCount of the server
    MaxFileCount,   \* maxFileCount of the client
    MaxFileSize,    \* of both
    MaxTotalBytes,  \* of the client
    Attempts,       \* kMaxCollisionAttempts
    MaxDrags,       \* bound: drags
    MaxWire,        \* bound: messages on the way
    MaxFaults       \* bound: files changed or created, writes failed, connections lost

ASSUME Parameters ==
    /\ Sizes \subseteq Nat
    /\ {SendCount, MaxFileCount, MaxFileSize, MaxTotalBytes, Attempts, MaxDrags, MaxWire, MaxFaults} \subseteq Nat
    /\ Selections \subseteq Seq(Paths)

VARIABLES
    disk,       \* the server's files: is it there, and how long
    sender,     \* sendPaths: entries left, whether the first is open, declared size, position
    connected,  \* does the client's connection exist
    wire,       \* messages on the way to the client
    receiver,   \* FileTransferReceiver
    drop,       \* the drop directory: what each target holds
    offered,    \* offered[d]: how often the files of drag d were offered
    drags,      \* drags so far
    trouble,    \* trouble[d]: what went wrong with drag d (history)
    faults      \* faults so far

vars == <<disk, sender, connected, wire, receiver, drop, offered, drags, trouble, faults>>
clientVars == <<receiver, drop, offered>>

Local == [of |-> None, size |-> 0, blocks |-> <<>>]   \* a file of another program

(* The drop directory with one more file.                                   *)
Filed(t, content) == [u \in DOMAIN drop \union {t} |-> IF u = t THEN content ELSE drop[u]]

Targets == {Name[p] : p \in Paths} \X (0 .. Attempts)

Idle == [left |-> <<>>, open |-> FALSE, size |-> 0, pos |-> 0]

Fresh == [drag |-> 0, accepted |-> <<>>, written |-> <<>>, next |-> 0, total |-> 0,
          active |-> FALSE, start |-> None, expected |-> 0, buffer |-> <<>>, target |-> None]

Mark(d, kind) == trouble' = [trouble EXCEPT ![d] = @ \union {kind}]

(***************************************************************************)
(* The server                                                               *)
(***************************************************************************)
Emit(m) == Len(wire) < MaxWire /\ wire' = IF connected THEN Append(wire, m) ELSE wire

(* FileTransferSource::inspectAll: the paths that can be sent, in order.     *)
inspectAll(paths) ==
    LET good == {i \in DOMAIN paths : disk[paths[i]].there /\ disk[paths[i]].size <= MaxFileSize}
        rank(i) == Cardinality({j \in good : j <= i})
    IN  [k \in 1 .. Cardinality(good) |-> paths[CHOOSE i \in good : rank(i) = k]]

(* FileTransferOutbound::sendPaths, up to the announcement.                 *)
SendPaths ==
    /\ sender = Idle /\ drags < MaxDrags
    /\ \E paths \in Selections :
         LET good == inspectAll(paths)
             entries == SubSeq(good, 1, IF Len(good) > SendCount THEN SendCount ELSE Len(good))
         IN /\ entries # <<>>
            /\ sender' = [Idle EXCEPT !.left = entries]
            /\ drags' = drags + 1
            /\ Emit([type |-> "dragInfo", drag |-> drags + 1, names |-> [i \in DOMAIN entries |-> Name[entries[i]]]])
            /\ IF connected THEN UNCHANGED trouble ELSE Mark(drags + 1, "transfer")
    /\ UNCHANGED <<disk, connected, clientVars, faults>>

File == Head(sender.left)

(* The next entry is opened, and its size taken, or passed over.            *)
Open ==
    /\ sender.left # <<>> /\ ~sender.open
    /\ IF disk[File].there
       THEN /\ sender' = [sender EXCEPT !.open = TRUE, !.size = disk[File].size, !.pos = 0]
            /\ Emit([type |-> "start", of |-> File, size |-> disk[File].size])
            /\ UNCHANGED trouble
       ELSE /\ sender' = [sender EXCEPT !.left = Tail(@)]
            /\ Mark(drags, "transfer")
            /\ UNCHANGED wire
    /\ UNCHANGED <<disk, connected, clientVars, drags, faults>>

(* readChunk: what the file holds now, whatever size was declared.          *)
AtEnd == sender.pos >= disk[File].size

ReadChunk ==
    /\ sender.open /\ ~AtEnd
    /\ sender' = [sender EXCEPT !.pos = @ + 1]
    /\ Emit([type |-> "data", of |-> File, at |-> sender.pos + 1])
    /\ UNCHANGED <<disk, connected, clientVars, drags, trouble, faults>>

End_Declared ==
    /\ sender.open /\ AtEnd
    /\ sender' = [Idle EXCEPT !.left = Tail(sender.left)]
    /\ IF sender.pos = sender.size THEN Emit([type |-> "end"]) ELSE UNCHANGED wire
    /\ UNCHANGED <<disk, connected, clientVars, drags, trouble, faults>>

End ==
    /\ sender.open /\ AtEnd
    /\ sender' = [Idle EXCEPT !.left = Tail(sender.left)]
    /\ Emit([type |-> "end"])
    /\ UNCHANGED <<disk, connected, clientVars, drags, trouble, faults>>

(***************************************************************************)
(* The client                                                               *)
(***************************************************************************)
Receive(type) == receiver.target = None /\ wire # <<>> /\ Head(wire).type = type /\ wire' = Tail(wire)

Reset_Not(m) == [receiver EXCEPT !.drag = m.drag]
(* What is left of the drag before is forgotten.                            *)
Reset(m) == [Fresh EXCEPT !.drag = m.drag]

OnDragInfo ==
    /\ Receive("dragInfo")
    /\ LET m == Head(wire)
           tooMany == Len(m.names) > MaxFileCount
           safe == SelectSeq(m.names, LAMBDA n : n \notin Unsafe)
       IN /\ receiver' = [Reset(m) EXCEPT !.accepted = IF tooMany THEN @ ELSE @ \o safe]
          /\ IF tooMany \/ safe # m.names THEN Mark(m.drag, "transfer") ELSE UNCHANGED trouble
    /\ UNCHANGED <<disk, sender, connected, drop, offered, drags, faults>>

(* A chunk that is refused ends the transfer it belongs to.                 *)
Refuse ==
    /\ receiver' = [receiver EXCEPT !.active = FALSE, !.expected = 0, !.buffer = <<>>]
    /\ Mark(receiver.drag, "transfer")

OnStart ==
    /\ Receive("start")
    /\ IF receiver.active \/ Head(wire).size > MaxFileSize
       THEN Refuse
       ELSE /\ receiver' = [receiver EXCEPT !.active = TRUE, !.expected = Head(wire).size,
                                            !.start = Head(wire), !.buffer = <<>>]
            /\ UNCHANGED trouble
    /\ UNCHANGED <<disk, sender, connected, drop, offered, drags, faults>>

OnData ==
    /\ Receive("data")
    /\ IF ~receiver.active \/ Len(receiver.buffer) >= receiver.expected
       THEN Refuse
       ELSE /\ receiver' = [receiver EXCEPT !.buffer = Append(@, <<Head(wire).of, Head(wire).at>>)]
            /\ UNCHANGED trouble
    /\ UNCHANGED <<disk, sender, connected, drop, offered, drags, faults>>

Complete_Unsized == receiver.active
Complete == receiver.active /\ Len(receiver.buffer) = receiver.expected

OnBadEnd ==
    /\ Receive("end") /\ ~Complete
    /\ Refuse
    /\ UNCHANGED <<disk, sender, connected, drop, offered, drags, faults>>

(* ServerProxy::fileChunk: when a transfer has finished, written or not.    *)
Offer(r) ==
    offered' = IF Len(r.written) = Len(r.accepted) /\ r.written # <<>>
               THEN [offered EXCEPT ![r.drag] = @ + 1]
               ELSE offered

(* uniqueTargetPath: the first variant of the name that is free.            *)
FreeTargets(name) == {t \in Targets : t[1] = name /\ t \notin DOMAIN drop}
UniqueTarget(name) == CHOOSE t \in FreeTargets(name) : \A u \in FreeTargets(name) : t[2] <= u[2]

(* writeCurrentFile, up to the choice of the target: the name is consumed   *)
(* whatever happens to the file.                                            *)
NextName_Kept(r) == r
NextName(r) == [r EXCEPT !.next = @ + 1]

TooMuch == receiver.total + Len(receiver.buffer) > MaxTotalBytes

OnEnd ==
    /\ Receive("end") /\ Complete
    /\ LET r == [receiver EXCEPT !.active = FALSE]
           discard(s) == /\ receiver' = [s EXCEPT !.buffer = <<>>]
                         /\ Offer(s)
                         /\ Mark(s.drag, "write")
       IN IF r.next >= Len(r.accepted)
          THEN discard(r)
          ELSE LET name == r.accepted[r.next + 1]
               IN IF TooMuch \/ FreeTargets(name) = {}
                  THEN discard(NextName(r))
                  ELSE /\ receiver' = [NextName(r) EXCEPT !.target = UniqueTarget(name)]
                       /\ UNCHANGED <<trouble, offered>>
    /\ UNCHANGED <<disk, sender, connected, drop, drags, faults>>

(* publishStagedFile: the file is written, and linked to its target unless  *)
(* something is there by now.                                               *)
Content == [of |-> receiver.start.of, size |-> receiver.start.size, blocks |-> receiver.buffer]

Published_Over == TRUE
Published == receiver.target \notin DOMAIN drop

Publish ==
    /\ receiver.target # None
    /\ LET done == [receiver EXCEPT !.buffer = <<>>, !.target = None]
           stored == [done EXCEPT !.written = Append(@, receiver.target), !.total = @ + Len(receiver.buffer)]
       IN \/ /\ Published
             /\ drop' = Filed(receiver.target, Content)
             /\ receiver' = stored /\ Offer(stored)
             /\ UNCHANGED <<trouble, faults>>
          \/ /\ ~Published
             /\ receiver' = done /\ Offer(done) /\ Mark(receiver.drag, "write")
             /\ UNCHANGED <<drop, faults>>
          \/ /\ Published /\ faults < MaxFaults   \* the disk is full
             /\ receiver' = done /\ Offer(done) /\ Mark(receiver.drag, "write")
             /\ faults' = faults + 1
             /\ UNCHANGED drop
    /\ UNCHANGED <<disk, sender, connected, wire, drags>>

(***************************************************************************)
(* The world                                                                *)
(***************************************************************************)
Fault == faults < MaxFaults /\ faults' = faults + 1

(* A file of the server is rewritten or removed; one that is open can be    *)
(* read after its removal.                                                  *)
Change ==
    /\ Fault
    /\ \E p \in Paths :
         \/ \E n \in Sizes : n # disk[p].size /\ disk' = [disk EXCEPT ![p].size = n]
         \/ disk[p].there /\ disk' = [disk EXCEPT ![p].there = FALSE]
    /\ UNCHANGED <<sender, connected, wire, clientVars, drags, trouble>>

(* Another program creates a file in the drop directory.                    *)
Create ==
    /\ Fault
    /\ \E t \in Targets \ DOMAIN drop : drop' = Filed(t, Local)
    /\ UNCHANGED <<disk, sender, connected, wire, receiver, offered, drags, trouble>>

(* The connection is lost; a new one comes with a new receiver, once the    *)
(* server's event loop is back from sendLocalFiles.                         *)
Disconnect ==
    /\ connected /\ receiver.target = None /\ Fault
    /\ connected' = FALSE /\ wire' = <<>> /\ receiver' = Fresh
    /\ trouble' = [d \in DOMAIN trouble |-> IF d <= drags THEN trouble[d] \union {"transfer"} ELSE trouble[d]]
    /\ UNCHANGED <<disk, sender, drop, offered, drags>>

Reconnect ==
    /\ ~connected /\ sender = Idle /\ connected' = TRUE
    /\ UNCHANGED <<disk, sender, wire, clientVars, drags, trouble, faults>>

Init ==
    /\ disk \in [Paths -> {[there |-> TRUE, size |-> n] : n \in {m \in Sizes : m <= MaxFileSize}}]
    /\ sender = Idle /\ connected = TRUE /\ wire = <<>>
    /\ receiver = Fresh /\ drop = <<>> /\ drags = 0 /\ faults = 0
    /\ offered = [d \in 1 .. MaxDrags |-> 0]
    /\ trouble = [d \in 1 .. MaxDrags |-> {}]

Send == Open \/ ReadChunk \/ End
Handle == OnDragInfo \/ OnStart \/ OnData \/ OnBadEnd \/ OnEnd \/ Publish

Next == SendPaths \/ Send \/ Handle \/ Change \/ Create \/ Disconnect \/ Reconnect

(* The server's event loop does not leave sendLocalFiles before it is done, *)
(* and the client's handles what arrives.                                   *)
Spec == Init /\ [][Next]_vars /\ WF_vars(Send) /\ WF_vars(Handle)

(***************************************************************************)
(* Properties                                                               *)
(***************************************************************************)
(* A file of the drop directory is never replaced, not even one that        *)
(* another program creates between the search for a free name and the       *)
(* publication (FileTransferReceiver.cpp, publishStagedFile: "without       *)
(* replacing anything").                                                    *)
NoOverwrite == [][\A t \in DOMAIN drop : t \in DOMAIN drop' /\ drop'[t] = drop[t]]_vars

(* What is stored is one file of the server, whole: all the chunks of the   *)
(* size declared for it and none of another, although files change while    *)
(* they are read and the connection breaks inside them (FileChunk::assemble, *)
(* "silently restarting would mix two files into one buffer").              *)
Intact ==
    \A t \in DOMAIN drop : drop[t] # Local =>
        /\ Len(drop[t].blocks) = drop[t].size
        /\ \A i \in DOMAIN drop[t].blocks : drop[t].blocks[i] = <<drop[t].of, i>>

(* A file never begins before the one before it has ended                   *)
(* (FileTransferSender.cpp: "Every started file must be closed with an end  *)
(* chunk, or the peer is left mid-transfer and refuses the next start").    *)
NoRestart == wire # <<>> /\ Head(wire).type = "start" => ~receiver.active

(* A file is stored under its own name or not at all                        *)
(* (FileTransferReceiver.cpp, onDragInfo: "Refuse outright: writing under a *)
(* substitute name would put a file somewhere the peer never asked for").   *)
(* The code does not keep it of every drag: the name of a refused file is   *)
(* left out while the file is sent, so Paired asks for it of the others.    *)
UnderOwnName == \A i \in DOMAIN receiver.written :
    receiver.written[i][1] = Name[drop[receiver.written[i]].of]

(* The files of a drag none of whose transfers went missing are stored      *)
(* under their own names and offered once, though some of them could not be *)
(* written (FileTransferReceiver.cpp: "A failed write still consumes that   *)
(* name, otherwise the next file is stored under it").                      *)
Paired == receiver.drag # 0 /\ "transfer" \notin trouble[receiver.drag] =>
    UnderOwnName /\ offered[receiver.drag] <= 1

(* A drag that meets no trouble is stored and offered (ServerProxy.cpp,     *)
(* fileChunk: offerReceivedFiles once as many files are written as names    *)
(* were accepted).                                                          *)
Delivered == \A d \in 1 .. MaxDrags :
    drags >= d ~> (offered[d] > 0 \/ trouble[d] # {})

=============================================================================
