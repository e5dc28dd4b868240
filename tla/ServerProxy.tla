---------------------------- MODULE ServerProxy ----------------------------
(***************************************************************************)
(* The cursor of a client that the server moves from afar: motion that is   *)
(* compressed while more input waits, and motion that is ignored while a    *)
(* change of the client's shape is on its way to the server                 *)
(* (src/src/lib/client/ServerProxy.cpp, src/src/lib/server/Server.cpp and   *)
(* ClientProxy1_0.cpp).                                                     *)
(*                                                                         *)
(* One coordinate is modelled.  Messages arrive in order; the client reads  *)
(* those that have arrived as one batch, while the server goes on.          *)
(***************************************************************************)
EXTENDS Integers, Sequences

CONSTANTS
    MaxWidth,    \* bound: the widest screen
    Widths,      \* shapes the client's screen may have
    MaxSent,     \* bound: commands the server sends
    MaxShapes,   \* bound: changes of the client's shape
    Hurry        \* shapes and the lock change while messages are on the way

ASSUME Parameters ==
    /\ MaxWidth \in Nat /\ Widths \subseteq 1 .. MaxWidth
    /\ MaxSent \in Nat /\ MaxShapes \in Nat /\ Hurry \in BOOLEAN

Positions == 0 .. MaxWidth - 1
Unknown == -1   \* the server does not say where the cursor is
Nothing == MaxWidth  \* no motion is being held back

VARIABLES
    server,  \* m_active, m_x, the client's m_info, the lock of relative moves
    client,  \* the cursor, the proxy's m_ignoreMouse and compressed motion
    down, up,  \* messages on the way
    batch,   \* messages left of the batch that is being handled
    sent,    \* commands sent so far
    wrong    \* what the client's user would have noticed

proxyVars == <<server, client, down, up, batch, sent, wrong>>

Clamp(x, w) == IF x < 0 THEN 0 ELSE IF x >= w THEN w - 1 ELSE x

Quiet == down = <<>> /\ up = <<>> /\ server.changes = 0

(***************************************************************************)
(* The server.  A message says how many of the client's shapes the server   *)
(* knew when it was sent (n), and where the cursor is to be then (x).        *)
(***************************************************************************)
Message(type, x) == [type |-> type, x |-> x, n |-> server.n]

Send(type, x) == down' = Append(down, Message(type, x))

Command == sent < MaxSent /\ sent' = sent + 1 /\ UNCHANGED <<client, up, batch, wrong>>

(* Server::onMouseMoveSecondary, with no neighbour to cross to.             *)
Move(dx) ==
    LET x == Clamp(server.x + dx, server.width)
    IN  /\ server.active /\ ~server.locked /\ x # server.x
        /\ Command
        /\ Send("move", x)
        /\ server' = [server EXCEPT !.x = x, !.said = x]

RelativeMove(dx) ==
    /\ server.active /\ server.locked
    /\ Command
    /\ Send("relative", dx)
    /\ server' = [server EXCEPT !.said = Unknown]

(* Server::onMouseDown, onKeyDown and the like.                             *)
Press ==
    /\ server.active
    /\ Command
    /\ Send("press", server.said)
    /\ UNCHANGED server

(* Server::switchScreen to and away from the client.                        *)
Enter(x) ==
    /\ ~server.active
    /\ x < server.width
    /\ Command
    /\ Send("enter", x)
    /\ server' = [server EXCEPT !.active = TRUE, !.x = x, !.said = x]

Leave ==
    /\ server.active /\ ~server.locked
    /\ Command
    /\ Send("leave", server.said)
    /\ server' = [server EXCEPT !.active = FALSE]

(* Server::lockCursorToScreenEvent, with relative moves enabled.            *)
ToggleLock ==
    /\ server.active
    /\ Hurry \/ Quiet
    /\ Command
    /\ server' = [server EXCEPT !.locked = ~@]
    /\ UNCHANGED down

(* ClientProxy1_0::recvInfo acknowledges the shape at once ...              *)
ReceiveInfo ==
    /\ up # <<>>
    /\ up' = Tail(up)
    /\ server' = [server EXCEPT !.width = Head(up).width, !.mx = Head(up).x, !.n = @ + 1, !.changes = @ + 1,
                                !.said = Unknown]
    /\ Send("ack", 0)
    /\ UNCHANGED <<client, batch, sent, wrong>>

(* ... and Server::handleShapeChanged moves its own cursor later.           *)
HandleShapeChanged ==
    /\ server.changes > 0
    /\ server' = [server EXCEPT !.changes = @ - 1, !.said = Unknown,
                                !.x = IF server.active THEN server.mx ELSE @]
    /\ UNCHANGED <<client, down, up, batch, sent, wrong>>

(***************************************************************************)
(* The client's proxy.  c is the client, m a message, more is true while    *)
(* another whole message waits (m_stream->isReady()).                       *)
(***************************************************************************)
NoMotion == [held |-> Nothing, delta |-> 0, relative |-> FALSE]

(* ServerProxy::flushCompressedMouse.                                       *)
FlushCompressedMouse(c) ==
    LET x == IF c.motion.held = Nothing THEN c.x ELSE c.motion.held
    IN  [c EXCEPT !.x = Clamp(x + c.motion.delta, c.width), !.motion = NoMotion]

(* ServerProxy::mouseMove.                                                  *)
MouseMove(c, m, more) ==
    IF c.motion.held # Nothing \/ (~c.ignore /\ more)
    THEN [c EXCEPT !.motion = [held |-> m.x, delta |-> 0, relative |-> FALSE]]
    ELSE IF c.ignore THEN c
    ELSE [c EXCEPT !.x = Clamp(m.x, c.width)]

(* ServerProxy::mouseRelativeMove.                                          *)
MouseRelativeMove(c, m, more) ==
    IF c.motion.relative \/ (~c.ignore /\ more)
    THEN [c EXCEPT !.motion.relative = TRUE, !.motion.delta = @ + m.x]
    ELSE IF c.ignore THEN c
    ELSE [c EXCEPT !.x = Clamp(c.x + m.x, c.width)]

(* ServerProxy::enter discards motion that is held back.                    *)
EnterScreen(c, m) == [c EXCEPT !.motion = NoMotion, !.x = Clamp(m.x, c.width)]

(* mouseDown, keyDown and the others bring the cursor up to date first.     *)
BroughtUpToDate_Not(c) == c
BroughtUpToDate(c) == FlushCompressedMouse(c)

(* ServerProxy::infoAcknowledgment.                                         *)
InfoAcknowledged_Lost(c) == c
InfoAcknowledged(c) == [c EXCEPT !.ignore = FALSE]

Parse(c, m, more) ==
    CASE m.type = "move"     -> MouseMove(c, m, more)
      [] m.type = "relative" -> MouseRelativeMove(c, m, more)
      [] m.type = "enter"    -> EnterScreen(c, m)
      [] m.type \in {"press", "leave"} -> BroughtUpToDate(c)
      [] m.type = "ack"      -> InfoAcknowledged(c)

(* What is noticed when the message m makes the client c of before.         *)
Notice(before, c, m) ==
    (IF m.type = "press" /\ ~c.ignore /\ m.x \notin {Unknown, c.x} THEN {"misplaced"} ELSE {})
    \cup (IF m.type = "move" /\ ~before.ignore /\ m.n # c.sent THEN {"stale"} ELSE {})

(* ServerProxy::handleData reads one message after the other; n are left,    *)
(* all that had arrived when the first of them was read.                    *)
HandleData(n) ==
    /\ n \in (IF batch = 0 THEN 1 .. Len(down) ELSE {batch})
    /\ LET c == Parse(client, Head(down), n > 1)
       IN  /\ client' = IF n = 1 THEN FlushCompressedMouse(c) ELSE c
           /\ wrong' = wrong \cup Notice(client, c, Head(down))
    /\ down' = Tail(down) /\ batch' = n - 1
    /\ UNCHANGED <<server, up, sent>>

(* Client::handleShapeChanged and ServerProxy::onInfoChanged.               *)
Ignoring_Not == FALSE
Ignoring == TRUE

ShapeChanged(w) ==
    LET x == Clamp(client.x, w)
    IN  /\ batch = 0
        /\ client.sent < MaxShapes /\ w # client.width
        /\ Hurry \/ (client.sent = server.n /\ ~client.ignore)
        /\ client' = [client EXCEPT !.width = w, !.x = x, !.sent = @ + 1, !.ignore = Ignoring]
        /\ up' = Append(up, [width |-> w, x |-> x])
        /\ UNCHANGED <<server, down, batch, sent, wrong>>

ProxyInit ==
    /\ \E w \in Widths :
        /\ server = [active |-> FALSE, x |-> 0, said |-> Unknown, width |-> w, mx |-> 0, n |-> 0,
                     changes |-> 0, locked |-> FALSE]
        /\ client = [x |-> 0, width |-> w, ignore |-> FALSE, sent |-> 0, motion |-> NoMotion]
    /\ down = <<>> /\ up = <<>> /\ batch = 0
    /\ sent = 0 /\ wrong = {}

ProxyNext ==
    \/ \E dx \in {-1, 1} : Move(dx) \/ RelativeMove(dx)
    \/ Press \/ Leave \/ ToggleLock
    \/ \E x \in Positions : Enter(x)
    \/ ReceiveInfo \/ HandleShapeChanged
    \/ \E n \in 1 .. Len(down) : HandleData(n)
    \/ \E w \in Widths : ShapeChanged(w)

ProxySpec == ProxyInit /\ [][ProxyNext]_proxyVars

(***************************************************************************)
(* Properties                                                               *)
(***************************************************************************)
(* Whatever is compressed, and however messages are batched, a button or a  *)
(* key reaches the client's screen with the cursor where the server had put *)
(* it, unless a change of shape is being waited for; and nothing is held    *)
(* back when a batch has been handled.                                      *)
InPlace == "misplaced" \notin wrong /\ (batch = 0 => client.motion = NoMotion)

(* Motion is ignored until the server has acknowledged the client's shape:  *)
(* a motion that moves the cursor was computed with the shape last sent.    *)
NoStaleMotion == "stale" \notin wrong

(* The client and the server agree on the shape, and motion is heeded, once *)
(* nothing is on the way.                                                   *)
Settled == Quiet => ~client.ignore /\ client.width = server.width
=============================================================================
