--------------------------- MODULE ClientListener ---------------------------
(***************************************************************************)
(* How a connection becomes a client of the server: the listening socket,   *)
(* ClientListener, ClientProxyUnknown's handshake, and the hand-over of the  *)
(* finished ClientProxy (src/src/lib/server/ClientListener.cpp,             *)
(* ClientProxyUnknown.cpp, src/src/lib/net/TCPListenSocket.cpp).            *)
(*                                                                         *)
(* The objects of one connection (socket, packet filter, unknown client,    *)
(* proxy) share its name, which is free again when all are deleted.         *)
(* Events that are posted and handled later are in queue, in order, and     *)
(* timers wait until it is empty (EventQueue::processEvent).  The stream's   *)
(* own events are handled at any time while a handler is installed.         *)
(***************************************************************************)
EXTENDS Naturals, SequencesExt

CONSTANTS
    Conns,          \* connections
    MaxConnections  \* kMaxConnections

ASSUME Parameters == MaxConnections \in Nat

VARIABLES
    plain,      \* SecurityLevel::PlainText: no TLS handshake
    armed,      \* the listening socket has a job in the multiplexer
    queue,      \* posted events, oldest first
    sockets,    \* m_clientSockets
    accepting,  \* sockets in their TLS handshake
    newClients, \* m_newClients
    watching,   \* unknown clients with handlers on their stream
    timer,      \* unknown clients whose handshake timer runs
    ready,      \* unknown clients with m_ready
    stream,     \* who will delete the packet filter
    proxy,      \* who will delete the ClientProxy
    waiting     \* m_waitingClients

vars == <<plain, armed, queue, sockets, accepting, newClients, watching, timer, ready,
          stream, proxy, waiting>>
unknownVars == <<newClients, watching, timer, ready>>

Events == {"accepted", "refused", "ready", "success", "failure", "gone"} \X Conns
Post(q, name, c) == Append(q, <<name, c>>)
Connecting == <<"connecting">>  \* for the listener, from its socket
NextClient == <<"next">>        \* for ServerApp, from the listener

Fresh(c) == c \notin sockets \cup newClients /\ stream[c] = "none" /\ proxy[c] = "none"

(* The event being handled, and one still to be handled.                    *)
Handling(e) == queue # <<>> /\ Head(queue) = e
Posted(name, c) == Contains(queue, <<name, c>>)

(***************************************************************************)
(* The listening socket                                                    *)
(***************************************************************************)

(* TCPListenSocket::serviceListening: no more polling until the accept.     *)
ServiceListening ==
    /\ armed
    /\ \E c \in Conns : Fresh(c)
    /\ armed' = FALSE
    /\ queue' = Append(queue, Connecting)
    /\ UNCHANGED <<sockets, accepting, unknownVars, stream, proxy, waiting>>

(* TCPListenSocket::accept fails before it has a socket, or                 *)
(* SecureListenSocket::accept also after, without a certificate.            *)
AcceptFails ==
    /\ Handling(Connecting)
    /\ queue' = Tail(queue)
    /\ armed' \in IF plain THEN {FALSE} ELSE BOOLEAN
    /\ UNCHANGED <<sockets, accepting, unknownVars, stream, proxy, waiting>>

(* ClientListener::handleClientConnecting with the accepted socket.         *)
ClientConnecting(c) ==
    /\ Handling(Connecting)
    /\ Fresh(c)
    /\ armed' = TRUE
    /\ IF Cardinality(sockets) >= MaxConnections
       THEN /\ queue' = Tail(queue)
            /\ UNCHANGED <<sockets, accepting>>
       ELSE /\ sockets' = sockets \cup {c}
            /\ accepting' = IF plain THEN accepting ELSE accepting \cup {c}
            /\ queue' = IF plain THEN Post(Tail(queue), "accepted", c) ELSE Tail(queue)
    /\ UNCHANGED <<unknownVars, stream, proxy, waiting>>

(* SecureSocket::serviceAccept comes to an end.                             *)
ServiceAccept(c) ==
    /\ c \in accepting
    /\ accepting' = accepting \ {c}
    /\ \E name \in {"accepted", "refused"} : queue' = Post(queue, name, c)
    /\ UNCHANGED <<armed, sockets, unknownVars, stream, proxy, waiting>>

(* The handler of ClientListenerDisconnectedOnAccept.                       *)
DisconnectedOnAccept(c) ==
    /\ Handling(<<"refused", c>>)
    /\ queue' = Tail(queue)
    /\ sockets' = sockets \ {c}
    /\ UNCHANGED <<armed, accepting, unknownVars, stream, proxy, waiting>>

(***************************************************************************)
(* The handshake                                                           *)
(***************************************************************************)

(* ClientListener::handleClientAccepted.                                    *)
ClientAccepted(c) ==
    /\ Handling(<<"accepted", c>>)
    /\ queue' = Tail(queue)
    /\ newClients' = newClients \cup {c}
    /\ watching' = watching \cup {c}
    /\ timer' = timer \cup {c}
    /\ stream' = [stream EXCEPT ![c] = "unknown"]
    /\ UNCHANGED <<armed, sockets, accepting, ready, proxy, waiting>>

(* ClientProxyUnknown::sendFailure, with q the rest of the queue.           *)
TimerAfterFailure(c) == timer \ {c}

SendFailure(c, q) ==
    /\ watching' = watching \ {c}
    /\ timer' = TimerAfterFailure(c)
    /\ ready' = ready \ {c}
    /\ proxy' = [proxy EXCEPT ![c] = "none"]
    /\ stream' = [stream EXCEPT ![c] = IF @ = "proxy" THEN "none" ELSE @]
    /\ queue' = Post(q, "failure", c)
    /\ UNCHANGED <<armed, sockets, accepting, newClients, waiting>>

(* ClientProxyUnknown::handleData: the hello is bad, or the proxy takes the *)
(* stream.  The timer runs until the proxy is ready.                        *)
TimerAfterHello_Stopped(c) == timer \ {c}
TimerAfterHello(c) == timer

StreamAfterHello_Shared(c) == stream
StreamAfterHello(c) == [stream EXCEPT ![c] = "proxy"]

HandleData(c) ==
    /\ c \in watching
    /\ \/ SendFailure(c, queue)
       \/ /\ proxy' = [proxy EXCEPT ![c] = "unknown"]
          /\ stream' = StreamAfterHello(c)
          /\ watching' = watching \ {c}
          /\ timer' = TimerAfterHello(c)
          /\ UNCHANGED <<armed, queue, sockets, accepting, newClients, ready, waiting>>

(* handleWriteError, handleDisconnect for the stream, and handleTimeout.    *)
HandshakeBroken(c) == c \in watching /\ SendFailure(c, queue)
HandleTimeout_Early(c) == c \in timer /\ SendFailure(c, queue)
HandleTimeout(c) == c \in timer /\ queue = <<>> /\ SendFailure(c, queue)

(* ClientProxy1_0::parseHandshakeMessage: the client's info has arrived.    *)
ParseHandshakeMessage(c) ==
    /\ proxy[c] = "unknown" /\ c \notin ready
    /\ ~Posted("ready", c) /\ ~Posted("gone", c)
    /\ queue' = Post(queue, "ready", c)
    /\ UNCHANGED <<armed, sockets, accepting, unknownVars, stream, proxy, waiting>>

(* ClientProxyUnknown::sendSuccess.                                         *)
SendSuccess(c) ==
    /\ Handling(<<"ready", c>>)
    /\ ready' = ready \cup {c}
    /\ timer' = timer \ {c}
    /\ queue' = Post(Tail(queue), "success", c)
    /\ UNCHANGED <<armed, sockets, accepting, newClients, watching, stream, proxy, waiting>>

(* ClientProxy1_0::disconnect, once, for any reason.                        *)
Disconnect(c) ==
    /\ proxy[c] # "none" /\ ~Posted("gone", c)
    /\ queue' = Post(queue, "gone", c)
    /\ UNCHANGED <<armed, sockets, accepting, unknownVars, stream, proxy, waiting>>

(***************************************************************************)
(* The end of the handshake                                                *)
(***************************************************************************)

(* The handler of ClientProxyUnknownFailure: the socket is found through    *)
(* the stream, when the unknown client still has it.                        *)
UnknownFailure(c) ==
    /\ Handling(<<"failure", c>>)
    /\ queue' = Tail(queue)
    /\ IF c \in newClients
       THEN /\ newClients' = newClients \ {c}
            /\ sockets' = IF stream[c] = "unknown" THEN sockets \ {c} ELSE sockets
            /\ stream' = [stream EXCEPT ![c] = "none"]
       ELSE UNCHANGED <<newClients, sockets, stream>>
    /\ UNCHANGED <<armed, accepting, watching, timer, ready, proxy, waiting>>

(* ClientListener::handleUnknownClient, and removeUnknownClient.            *)
Announce_First(q) == IF waiting = <<>> THEN Append(q, NextClient) ELSE q
Announce(q) == Append(q, NextClient)

UnknownSuccess(c) ==
    /\ Handling(<<"success", c>>)
    /\ IF c \in ready
       THEN /\ proxy' = [proxy EXCEPT ![c] = "waiting"]
            /\ waiting' = Append(waiting, c)
            /\ queue' = Announce(Tail(queue))
       ELSE queue' = Tail(queue) /\ UNCHANGED <<proxy, waiting>>
    /\ newClients' = newClients \ {c}
    /\ ready' = ready \ {c}
    /\ UNCHANGED <<armed, sockets, accepting, watching, timer, stream>>

(***************************************************************************)
(* The finished client                                                     *)
(***************************************************************************)

(* ClientProxyUnknown::handleDisconnect for the proxy.                       *)
ProxyGone(c) ==
    /\ Handling(<<"gone", c>>)
    /\ proxy[c] = "unknown"
    /\ SendFailure(c, Tail(queue))

(* ClientListener::handleClientDisconnected.                                *)
WaitingAfterGone(c) == RemoveFirst(waiting, c)

WaitingClientGone(c) ==
    /\ Handling(<<"gone", c>>)
    /\ proxy[c] = "waiting"
    /\ queue' = Tail(queue)
    /\ waiting' = WaitingAfterGone(c)
    /\ proxy' = [proxy EXCEPT ![c] = "none"]
    /\ stream' = [stream EXCEPT ![c] = "none"]
    /\ sockets' = sockets \ {c}
    /\ UNCHANGED <<armed, accepting, unknownVars>>

(* ServerApp::handleClientConnected: getNextClient and adoptClient.         *)
AdoptNextClient ==
    /\ Handling(NextClient)
    /\ queue' = Tail(queue)
    /\ IF waiting # <<>>
       THEN /\ proxy' = [proxy EXCEPT ![Head(waiting)] = "server"]
            /\ waiting' = Tail(waiting)
       ELSE UNCHANGED <<proxy, waiting>>
    /\ UNCHANGED <<armed, sockets, accepting, unknownVars, stream>>

(* The Server deletes the proxy, and the stream with it, not the socket.    *)
ServerDeletes(c) ==
    /\ proxy[c] = "server"
    /\ proxy' = [proxy EXCEPT ![c] = "none"]
    /\ stream' = [stream EXCEPT ![c] = "none"]
    /\ UNCHANGED <<armed, sockets, accepting, unknownVars, waiting>>

(* Server::handleClientDisconnected.                                        *)
ServerClientGone(c) ==
    /\ Handling(<<"gone", c>>)
    /\ queue' = Tail(queue)
    /\ ServerDeletes(c)

(* Server::handleClientCloseTimeout.                                        *)
ServerCloseTimeout(c) ==
    /\ queue = <<>>
    /\ ServerDeletes(c)
    /\ UNCHANGED queue

(***************************************************************************)
(* The specification                                                       *)
(***************************************************************************)

(* ClientListener::start.                                                   *)
Init ==
    /\ plain \in BOOLEAN
    /\ armed = TRUE
    /\ queue = <<>>
    /\ sockets = {} /\ accepting = {}
    /\ newClients = {} /\ watching = {} /\ timer = {} /\ ready = {}
    /\ stream = [c \in Conns |-> "none"]
    /\ proxy = [c \in Conns |-> "none"]
    /\ waiting = <<>>

(* One event taken from the queue and handled.                              *)
Dispatch ==
    \/ AcceptFails
    \/ AdoptNextClient
    \/ \E c \in Conns :
          \/ ClientConnecting(c) \/ DisconnectedOnAccept(c) \/ ClientAccepted(c)
          \/ SendSuccess(c) \/ UnknownFailure(c) \/ UnknownSuccess(c)
          \/ ProxyGone(c) \/ WaitingClientGone(c) \/ ServerClientGone(c)

Step ==
    \/ Dispatch
    \/ ServiceListening
    \/ \E c \in Conns :
          \/ ServiceAccept(c) \/ HandleData(c) \/ HandshakeBroken(c) \/ HandleTimeout(c)
          \/ ParseHandshakeMessage(c) \/ Disconnect(c) \/ ServerCloseTimeout(c)

Next == Step /\ UNCHANGED plain

(* The event loop handles what is posted, the multiplexer reports a pending *)
(* connection, and an expired timer is handled if the queue is empty often  *)
(* enough.  Peers promise nothing.                                          *)
Fairness ==
    /\ WF_vars(Dispatch /\ UNCHANGED plain)
    /\ WF_vars(ServiceListening /\ UNCHANGED plain)
    /\ \A c \in Conns : SF_vars(HandleTimeout(c) /\ UNCHANGED plain)

Spec == Init /\ [][Next]_vars /\ Fairness

(***************************************************************************)
(* Properties                                                              *)
(***************************************************************************)

(* Each object is deleted by one owner that exists.  The proxies that       *)
(* nobody else will delete are those in m_waitingClients; the packet filter *)
(* is the unknown client's in m_newClients until the proxy takes it         *)
(* (m_stream = nullptr in handleData); and no filter outlives its socket.   *)
OneOwner ==
    /\ ToSet(waiting) = {c \in Conns : proxy[c] = "waiting"}
    /\ \A c \in Conns :
          /\ stream[c] = "proxy" <=> proxy[c] # "none"
          /\ "unknown" \in {stream[c], proxy[c]} => c \in newClients
          /\ stream[c] # "none" => c \in sockets

(* Every waiting client has an event on the way that hands it to the        *)
(* Server, also when others before it have gone.                            *)
WaitingAnnounced ==
    Len(waiting) <= Cardinality({i \in 1..Len(queue) : queue[i] = NextClient})

(* No event of a proxy is handled after the proxy was deleted: sendFailure  *)
(* deletes it and leaves the handlers of its events in place.               *)
EventsHaveProxy ==
    \A c \in Conns :
       /\ Posted("gone", c) => proxy[c] # "none"
       /\ Posted("ready", c) => proxy[c] = "unknown"

(* Timers are served: the queue does not stay busy for ever.                *)
NoFlood == []<>(queue = <<>>)

(* A peer that stops answering after the accept, at whatever point of the   *)
(* handshake, is given up (m_timer runs until sendSuccess or sendFailure).  *)
HandshakeEnds == NoFlood => \A c \in Conns : c \in newClients ~> c \notin newClients

=============================================================================
