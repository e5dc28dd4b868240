----------------------------- MODULE Clipboard -----------------------------
(***************************************************************************)
(* One clipboard shared by the server's screen and its clients: ownership,  *)
(* sequence numbers, dirty flags and the data in flight                     *)
(* (src/src/lib/server/Server.cpp, ClientProxy1_0.cpp, ClientProxy1_6.cpp,  *)
(* PrimaryClient.cpp, src/src/lib/client/Client.cpp, ServerProxy.cpp).      *)
(*                                                                         *)
(* Grab, enter and leave messages are written at once; clipboard data is    *)
(* posted to the sender's own event queue first (StreamChunker), so a later *)
(* grab may overtake it.  Connections deliver in order until they are lost. *)
(***************************************************************************)
EXTENDS Naturals, SequencesExt

CONSTANTS
    Clients,
    Primary,
    Contents,   \* what a user may copy
    Empty,      \* a clipboard with nothing in it
    Big,        \* contents over the size limit
    MaxCopies,  \* bound: times a user copies something
    MaxSeq,     \* bound: switches of the cursor
    MaxLosses   \* bound: connections lost

Unsent == <<>>  \* m_sentClipboard is false

ASSUME Parameters ==
    /\ Primary \notin Clients /\ Empty \notin Contents
    /\ Unsent \notin Contents \cup {Empty}
    /\ MaxCopies \in Nat /\ MaxSeq \in Nat /\ MaxLosses \in Nat
    /\ Big \subseteq Contents

Screens  == Clients \cup {Primary}
NotCopied == MaxSeq + 1     \* no grab event pending
Unhandled == <<"unhandled", Primary>>   \* an event whose target is gone

VARIABLES
    connected,  \* m_clientSet, without the primary
    active,     \* m_active
    seqNum,     \* m_seqNum
    primarySeq, \* the primary screen's m_sequenceNumber
    board,      \* m_clipboards[id] and what the server knows of each screen
    queue,      \* the server's posted events, oldest first
    down, up,   \* messages on the way, by client
    client,     \* each client's state
    copied,     \* the pending ClipboardGrabbed event of each screen
    copies, losses  \* how often so far

vars == <<connected, active, seqNum, primarySeq, board, queue, down, up, client,
          copied, copies, losses>>
cursorVars == <<connected, active, seqNum, primarySeq>>

(* What the user of screen s would paste.  copy is what getClipboard of the *)
(* server's object for s returns: a client's last data, the primary's own   *)
(* clipboard itself.                                                        *)
Local(s) == IF s = Primary THEN board.copy[s] ELSE client[s].content

(***************************************************************************)
(* The server's bookkeeping: b is the board, out the clients to send data to *)
(***************************************************************************)

(* setClipboard of ClientProxy1_6 and PrimaryClient.                        *)
SetClipboard(b, s) ==
    IF b.dirty[s]
    THEN [b EXCEPT !.dirty[s] = FALSE, !.copy[s] = b.clip, !.out = b.out \cup ({s} \ {Primary})]
    ELSE b

(* Server::onClipboardChanged.                                              *)
OnClipboardChanged(b, sender, n) ==
    LET got == b.copy[sender]
        new == [b EXCEPT !.clip = got, !.data = got, !.dirty = [s \in Screens |-> s # sender]]
    IN  IF n < b.seq \/ sender # b.owner THEN b
        ELSE IF got \in Big \cup {b.data} THEN [b EXCEPT !.clip = got]
        ELSE SetClipboard(new, active)

(* Server::handleClipboardGrabbed, for a grab that is not ignored.  Taking   *)
(* the clipboard away from the primary empties it.                          *)
Ignored(grabber, n) == grabber # Primary /\ n < board.seq

GrabbedDirty_Unmarked(grabber) == [board.dirty EXCEPT ![grabber] = FALSE]
GrabbedDirty(grabber) == [s \in Screens |-> s # grabber]

Grabbed(grabber, n) ==
    LET b == [board EXCEPT !.owner = grabber, !.seq = n, !.clip = Empty, !.data = Empty,
                           !.dirty = GrabbedDirty(grabber),
                           !.copy[Primary] = IF grabber = Primary THEN @ ELSE Empty]
    IN  IF grabber = Primary /\ active # Primary THEN OnClipboardChanged(b, Primary, n) ELSE b

(* The board becomes b, and its data is posted for the clients of out after *)
(* the events in q.                                                         *)
Update(b, q) ==
    /\ board' = [b EXCEPT !.out = {}]
    /\ queue' = q \o SetToSeq({<<"send", c, b.clip>> : c \in b.out})

SendGrab(grabber) ==
    down' = [c \in Clients |-> IF c \in connected \ {grabber} THEN Append(down[c], <<"grab">>) ELSE down[c]]

(***************************************************************************)
(* The server's handlers                                                   *)
(***************************************************************************)

(* ClientProxy::recvGrabClipboard and recvClipboard.                        *)
ServerReceive(c) ==
    /\ up[c] # <<>>
    /\ up' = [up EXCEPT ![c] = Tail(@)]
    /\ LET m == Head(up[c])
       IN  IF m[1] = "grab"
           THEN queue' = Append(queue, <<"grabbed", c, m[2]>>) /\ UNCHANGED board
           ELSE /\ queue' = Append(queue, <<"changed", c, m[3]>>)
                /\ board' = [board EXCEPT !.copy[c] = m[2]]
    /\ UNCHANGED <<cursorVars, down, client, copied, copies, losses>>

(* Server::handleClipboardGrabbed, handleClipboardChanged, and              *)
(* ClipboardChunk::send.                                                    *)
Dispatch ==
    /\ queue # <<>>
    /\ LET e == Head(queue)
       IN  \/ /\ e[1] = "grabbed" /\ ~Ignored(e[2], e[3])
              /\ Update(Grabbed(e[2], e[3]), Tail(queue))
              /\ SendGrab(e[2])
           \/ /\ e[1] = "grabbed" /\ Ignored(e[2], e[3])
              /\ queue' = Tail(queue)
              /\ UNCHANGED <<board, down>>
           \/ /\ e[1] = "changed"
              /\ Update(OnClipboardChanged(board, e[2], e[3]), Tail(queue))
              /\ UNCHANGED down
           \/ /\ e[1] = "send"
              /\ queue' = Tail(queue)
              /\ down' = [down EXCEPT ![e[2]] = Append(@, <<"clip", e[3]>>)]
              /\ UNCHANGED board
           \/ /\ e = Unhandled
              /\ queue' = Tail(queue)
              /\ UNCHANGED <<board, down>>
    /\ UNCHANGED <<cursorVars, up, client, copied, copies, losses>>

(* Server::handleClipboardGrabbed for the primary screen, which is obeyed    *)
(* whatever its sequence number.                                            *)
PrimaryGrabbed ==
    /\ copied[Primary] # NotCopied
    /\ Update(Grabbed(Primary, copied[Primary]), queue)
    /\ SendGrab(Primary)
    /\ copied' = [copied EXCEPT ![Primary] = NotCopied]
    /\ UNCHANGED <<cursorVars, up, client, copies, losses>>

(* Server::switchScreen: the primary's clipboard is read when it is left.    *)
AfterLeave ==
    IF active = Primary /\ board.owner = Primary
    THEN OnClipboardChanged(board, Primary, board.seq) ELSE board

SwitchScreen(s) ==
    /\ s \in connected \cup {Primary} /\ s # active
    /\ seqNum < MaxSeq
    /\ active' = s
    /\ seqNum' = seqNum + 1
    /\ primarySeq' = IF s = Primary THEN seqNum + 1 ELSE primarySeq
    /\ Update(IF AfterLeave.clip \in Big THEN AfterLeave ELSE SetClipboard(AfterLeave, s), queue)
    /\ down' = [c \in Clients |->
           CASE c = active -> Append(down[c], <<"leave">>)
             [] c = s      -> Append(down[c], <<"enter", seqNum + 1>>)
             [] OTHER      -> down[c]]
    /\ UNCHANGED <<connected, up, client, copied, copies, losses>>

(***************************************************************************)
(* The clients                                                             *)
(***************************************************************************)

(* Client::sendClipboard.                                                   *)
SendClipboard(k) ==
    IF k.content \in Big \cup {k.sent} THEN k
    ELSE [k EXCEPT !.sent = k.content, !.outbox = Append(@, <<"clip", k.content, k.seq>>)]

(* Client::handleClipboardGrabbed.                                          *)
SentAfterGrab_Kept(sent) == sent
SentAfterGrab(sent) == Unsent

ClientGrabbed(c) ==
    /\ copied[c] # NotCopied
    /\ copied' = [copied EXCEPT ![c] = NotCopied]
    /\ up' = [up EXCEPT ![c] = Append(@, <<"grab", client[c].seq>>)]
    /\ LET k == [client[c] EXCEPT !.own = TRUE, !.sent = SentAfterGrab(@)]
       IN  client' = [client EXCEPT ![c] = IF k.active THEN k ELSE SendClipboard(k)]
    /\ UNCHANGED <<cursorVars, board, queue, down, copies, losses>>

(* ServerProxy::enter, leave, grabClipboard and setClipboard, with the       *)
(* methods of Client they call.                                             *)
Overwritten(k, x) == [k EXCEPT !.content = x, !.own = FALSE, !.sent = Unsent]

Receive(k, m) ==
    CASE m[1] = "enter" -> [k EXCEPT !.active = TRUE, !.seq = m[2]]
      [] m[1] = "leave" -> LET l == [k EXCEPT !.active = FALSE]
                           IN  IF l.own THEN SendClipboard(l) ELSE l
      [] m[1] = "grab"  -> Overwritten(k, Empty)
      [] m[1] = "clip"  -> Overwritten(k, m[2])

ClientReceive(c) ==
    /\ down[c] # <<>>
    /\ down' = [down EXCEPT ![c] = Tail(@)]
    /\ client' = [client EXCEPT ![c] = Receive(@, Head(down[c]))]
    /\ UNCHANGED <<cursorVars, board, queue, up, copied, copies, losses>>

(* ClipboardChunk::send, from the client's event queue.                     *)
ClientSend(c) ==
    /\ client[c].outbox # <<>>
    /\ client' = [client EXCEPT ![c].outbox = Tail(@)]
    /\ up' = [up EXCEPT ![c] = Append(@, Head(client[c].outbox))]
    /\ UNCHANGED <<cursorVars, board, queue, down, copied, copies, losses>>

(***************************************************************************)
(* Users and connections                                                   *)
(***************************************************************************)

(* Somebody copies on screen s; its platform posts the event.               *)
GrabSeq(s) == IF s = Primary THEN primarySeq ELSE 0

Copy(s) ==
    /\ s \in connected \cup {Primary}
    /\ copies < MaxCopies /\ copies' = copies + 1
    /\ copied' = [copied EXCEPT ![s] = GrabSeq(s)]
    /\ \E x \in Contents :
          IF s = Primary
          THEN board' = [board EXCEPT !.copy[s] = x] /\ UNCHANGED client
          ELSE client' = [client EXCEPT ![s].content = x] /\ UNCHANGED board
    /\ UNCHANGED <<cursorVars, queue, down, up, losses>>

(* Server::forceLeaveClient: the primary is entered, but not sent the        *)
(* clipboard.                                                               *)
ForceLeaveClient(c) ==
    /\ active' = IF active = c THEN Primary ELSE active
    /\ primarySeq' = IF active = c THEN seqNum ELSE primarySeq

(* The connection is lost: Server::removeClient, and Client::cleanup.        *)
OwnerAfterRemoval_Kept(c) == board.owner
OwnerAfterRemoval(c) == IF board.owner = c THEN Primary ELSE board.owner

Disconnect(c) ==
    /\ c \in connected
    /\ losses < MaxLosses
    /\ losses' = losses + 1
    /\ connected' = connected \ {c}
    /\ ForceLeaveClient(c)
    /\ board' = [board EXCEPT !.owner = OwnerAfterRemoval(c)]
    /\ queue' = [i \in DOMAIN queue |-> IF queue[i][2] = c THEN Unhandled ELSE queue[i]]
    /\ down' = [down EXCEPT ![c] = <<>>]
    /\ up' = [up EXCEPT ![c] = <<>>]
    /\ client' = [client EXCEPT ![c].outbox = <<>>]
    /\ copied' = [copied EXCEPT ![c] = NotCopied]
    /\ UNCHANGED <<seqNum, copies>>

(* Client::handleConnected and Screen::enableSecondary; a new ClientProxy,   *)
(* whose clipboard is dirty.                                                *)
Connected(k) == [k EXCEPT !.content = Empty, !.own = FALSE, !.sent = Unsent, !.seq = 0]

Connect(c) ==
    /\ c \notin connected
    /\ connected' = connected \cup {c}
    /\ client' = [client EXCEPT ![c] = Connected(@)]
    /\ board' = [board EXCEPT !.dirty[c] = TRUE, !.copy[c] = Empty]
    /\ UNCHANGED <<active, seqNum, primarySeq, queue, down, up, copied, copies, losses>>

(***************************************************************************)
(* The specification                                                       *)
(***************************************************************************)

Init ==
    /\ connected = Clients
    /\ active = Primary
    /\ seqNum = 0 /\ primarySeq = 0
    /\ board = [owner |-> Primary, seq |-> 0, clip |-> Empty, data |-> Empty,
                dirty |-> [s \in Screens |-> s # Primary],
                copy |-> [s \in Screens |-> Empty], out |-> {}]
    /\ queue = <<>>
    /\ down = [c \in Clients |-> <<>>]
    /\ up = [c \in Clients |-> <<>>]
    /\ client = [c \in Clients |->
           [content |-> Empty, own |-> FALSE, sent |-> Unsent, active |-> FALSE, seq |-> 0,
            outbox |-> <<>>]]
    /\ copied = [s \in Screens |-> NotCopied]
    /\ copies = 0 /\ losses = 0

Next ==
    \/ Dispatch
    \/ PrimaryGrabbed
    \/ \E s \in Screens : Copy(s) \/ SwitchScreen(s)
    \/ \E c \in Clients :
          \/ ServerReceive(c) \/ ClientGrabbed(c) \/ ClientReceive(c) \/ ClientSend(c)
          \/ Disconnect(c) \/ Connect(c)

Spec == Init /\ [][Next]_vars

(***************************************************************************)
(* Properties                                                              *)
(***************************************************************************)

(* Nothing is on its way.                                                   *)
Quiet ==
    /\ queue = <<>>
    /\ \A c \in Clients : down[c] = <<>> /\ up[c] = <<>> /\ client[c].outbox = <<>>
    /\ \A s \in Screens : copied[s] = NotCopied

Owns(s) == s = board.owner \/ (s \in Clients /\ client[s].own)

(* A screen whose dirty flag is clear, so that it is not sent the clipboard *)
(* when it is entered, pastes what the server has, unless it has a copy of  *)
(* its own: no message overtaken by another spoils it.                      *)
CleanIsCurrent ==
    Quiet /\ board.clip \notin Big =>
        \A s \in connected \cup {Primary} :
            ~board.dirty[s] /\ ~Owns(s) => Local(s) = board.clip

(* The owner is connected, and is never sent somebody else's data: its own  *)
(* copy survives until it is handed over (onClipboardChanged, removeClient). *)
OwnerKept ==
    board.owner # Primary => board.owner \in connected /\ ~board.dirty[board.owner]

(* What was copied on the client that owns the clipboard reaches the server *)
(* once the client has been left, whatever crossed it on the way.           *)
Shared ==
    Quiet =>
        \A c \in connected :
            board.owner = c /\ client[c].own /\ ~client[c].active /\ client[c].content \notin Big
               => board.clip = client[c].content
=============================================================================
