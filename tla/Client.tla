------------------------------- MODULE Client -------------------------------
(***************************************************************************)
(* A client's life with its servers: name lookups, connection attempts, the *)
(* handshake, the loss of the connection, suspend and resume, and the       *)
(* application's retries over its list of servers                           *)
(* (src/src/lib/client/Client.cpp, ServerProxy.cpp and                      *)
(* src/src/lib/synergy/core/ClientApp.cpp).                                 *)
(*                                                                         *)
(* One thread dispatches events in order and looks at its timers only when  *)
(* no event waits (EventQueue); answers to lookups arrive at any time.  An  *)
(* event whose stream has been deleted finds no handler.                    *)
(***************************************************************************)
EXTENDS Naturals, SequencesExt

CONSTANTS
    NumServers,     \* length of ClientApp's list of servers
    AddressCount,   \* how many addresses each server's name resolves to
    Up,             \* the <<server, address>> at which a server serves us
    MaxFaults       \* bound: what goes wrong although the server is up

Servers == 0 .. NumServers - 1
Addresses == UNION {0 .. AddressCount[s] - 1 : s \in Servers}

ASSUME Parameters ==
    /\ NumServers \in Nat \ {0}
    /\ \A s \in Servers : AddressCount[s] \in Nat \ {0}
    /\ Up \subseteq Servers \X Addresses
    /\ MaxFaults \in Nat

None ==     \* m_stream is nullptr
    [server |-> NumServers, address |-> 0, state |-> "none", net |-> "none"]

VARIABLES
    app,     \* ClientApp: indices into the lists, restart timers
    client,  \* Client and its ServerProxy
    screen,  \* the client's Screen: does it exist, is it enabled
    lookups, \* QHostInfo lookups on the way
    events,  \* the queue of the event loop
    asleep,  \* the computer's power state
    faults   \* what went wrong so far

vars == <<app, client, screen, lookups, events, asleep, faults>>

StreamEvents == {"SocketConnected", "ConnectionFailed", "InputReady", "InputShutdown",
                 "SocketDisconnected", "OutputError"}
ClientEvents == {"ClientConnected", "ClientFailed", "ClientRefused", "ClientDisconnected"}
Unhandled == "Unhandled"    \* an event whose stream has been deleted

(* A misfortune: it is free with a server that is down or gone, and counted *)
(* else.                                                                    *)
IsUp(stream) == <<stream.server, stream.address>> \in Up
Serves(stream) == IsUp(stream) /\ stream.net # "gone"
Counted == faults < MaxFaults /\ faults' = faults + 1
Fault(stream) == IF Serves(stream) THEN Counted ELSE UNCHANGED faults

(* The events of q, those of a stream that the client c no longer has being *)
(* nobody's, and the newly posted ones.                                     *)
Lapsed(q) == [i \in DOMAIN q |-> IF q[i] \in StreamEvents THEN Unhandled ELSE q[i]]

Post(q, c, new) == events' = (IF c.stream = None THEN Lapsed(q) ELSE q) \o new

(* Handling the first event leaves the client as c and posts new ones.      *)
Handled(c, new) == client' = c /\ Post(Tail(events), c, new)

First(type) == events # <<>> /\ Head(events) = type
Idle == events = <<>>

(***************************************************************************)
(* Client: tearing down                                                     *)
(***************************************************************************)
CleanupScreen(c) ==
    IF c.proxy = "none" THEN c ELSE [c EXCEPT !.proxy = "none", !.ready = FALSE]

(* cleanupTimer, cleanupScreen and cleanupConnection.                       *)
CleanupConnection(c) == [CleanupScreen(c) EXCEPT !.timer = FALSE, !.stream = None]

(* Client::cleanupScreen disables the screen of a proxy that was ready.     *)
Disabled_Not(c) == UNCHANGED screen
Disabled(c) == screen' = [screen EXCEPT !.enabled = @ /\ ~(c.proxy # "none" /\ c.ready)]

(* A lookup is superseded: m_resolveGeneration moves on.                    *)
Stale(pending) == {[l EXCEPT !.current = FALSE] : l \in pending}

Cleanup(c) == [CleanupConnection(c) EXCEPT !.connectOnResume = FALSE]

(***************************************************************************)
(* Client: connecting                                                       *)
(***************************************************************************)
ConnectSuspended_Forget(c) == c
ConnectSuspended(c) == [c EXCEPT !.connectOnResume = TRUE]

(* Client::connect of a client c to its server's address i.                 *)
Connect(c, i) ==
    \/ c.stream # None /\ client' = c /\ UNCHANGED lookups
    \/ /\ c.stream = None /\ c.suspended
       /\ client' = ConnectSuspended(c)
       /\ UNCHANGED lookups
    \/ /\ c.stream = None /\ ~c.suspended
       /\ client' = c
       /\ lookups' = Stale(lookups) \cup {[server |-> c.server, address |-> i, current |-> TRUE]}

(* The callback of the lookup l: a stale result is dropped.                 *)
Dropped(l) == ~l.current \/ client.stream # None \/ client.suspended

LookupDropped(l) ==
    /\ Dropped(l)
    /\ lookups' = lookups \ {l}
    /\ UNCHANGED <<app, client, screen, events, asleep, faults>>

LookupFails(l) ==
    /\ ~Dropped(l)
    /\ lookups' = lookups \ {l}
    /\ IF \E a \in Addresses : <<l.server, a>> \in Up THEN Counted ELSE UNCHANGED faults
    /\ Post(events, client, <<"ClientFailed">>)
    /\ UNCHANGED <<app, client, screen, asleep>>

Index(l) == IF l.address < AddressCount[l.server] THEN l.address ELSE AddressCount[l.server] - 1

(* Client::continueConnect: the socket may refuse at once (the catch).      *)
ContinueConnect(l) ==
    LET stream == [server |-> l.server, address |-> Index(l), state |-> "connecting", net |-> "trying"]
    IN  /\ ~Dropped(l)
        /\ lookups' = lookups \ {l}
        /\ \/ /\ client' = [client EXCEPT !.resolved = AddressCount[l.server], !.stream = stream, !.timer = TRUE]
              /\ UNCHANGED <<events, faults>>
           \/ /\ Fault(stream)
              /\ client' = [client EXCEPT !.resolved = AddressCount[l.server]]
              /\ Post(events, client, <<"ClientFailed">>)
        /\ UNCHANGED <<app, screen, asleep>>

HandleConnected ==
    /\ First("SocketConnected")
    /\ Handled([client EXCEPT !.stream.state = "hello"], <<>>)
    /\ UNCHANGED <<app, screen, lookups, asleep, faults>>

(* Client::handleConnectionFailed.                                          *)
HandleConnectionFailed ==
    /\ First("ConnectionFailed")
    /\ Handled([client EXCEPT !.timer = FALSE, !.stream = None], <<"ClientFailed">>)
    /\ UNCHANGED <<app, screen, lookups, asleep, faults>>

HandleConnectTimeout ==
    /\ Idle /\ client.timer
    /\ Fault(client.stream)
    /\ client' = [client EXCEPT !.timer = FALSE, !.stream = None]
    /\ Post(events, client', <<"ClientFailed">>)
    /\ UNCHANGED <<app, screen, lookups, asleep>>

(* Client::handleHello: the server's greeting is one of ours, and more of   *)
(* its messages may have arrived with it; or it is not.                     *)
AfterHello(c) == [c EXCEPT !.proxy = "handshake", !.ready = FALSE, !.timer = FALSE]

HandleHello ==
    /\ First("InputReady") /\ client.stream.state = "hello" /\ client.proxy = "none"
    /\ \/ /\ Handled(AfterHello(client), <<>>) \/ Handled(AfterHello(client), <<"InputReady">>)
          /\ UNCHANGED faults
       \/ /\ Fault(client.stream)
          /\ Handled(CleanupConnection(client), <<"ClientFailed">>)
    /\ UNCHANGED <<app, screen, lookups, asleep>>

(* ServerProxy::handleData: a batch of messages may complete the handshake  *)
(* and may end with one that ends the connection.  The refusals are parsed  *)
(* in the handshake only.                                                   *)
Completed(c) == [c EXCEPT !.proxy = "running", !.ready = TRUE]

Ends == [stay |-> <<>>, failed |-> <<"ClientFailed">>, refused |-> <<"ClientRefused">>,
         closed |-> <<"ClientDisconnected">>]

HandleData(completes, end) ==
    LET c == IF completes THEN Completed(client) ELSE client
        posted == IF completes THEN <<"ClientConnected">> ELSE <<>>
        enabled == screen.enabled \/ completes
    IN  /\ First("InputReady") /\ client.proxy # "none"
        /\ completes => client.proxy = "handshake"
        /\ end = "refused" => client.proxy = "handshake" /\ ~completes
        /\ IF end = "stay" THEN
             /\ Handled(c, posted)
             /\ screen' = [screen EXCEPT !.enabled = enabled]
             /\ UNCHANGED <<lookups, faults>>
           ELSE
             /\ IF end = "refused" THEN Counted ELSE Fault(client.stream)
             /\ Handled(Cleanup(c), posted \o Ends[end])
             /\ screen' = [screen EXCEPT !.enabled = enabled /\ ~c.ready]
             /\ lookups' = Stale(lookups)
        /\ UNCHANGED <<app, asleep>>

CompleteHandshake == client.proxy = "handshake" /\ Serves(client.stream) /\ HandleData(TRUE, "stay")

KeepAliveAlarm ==
    /\ Idle /\ client.proxy # "none"
    /\ Fault(client.stream)
    /\ client' = Cleanup(client)
    /\ Disabled(client)
    /\ lookups' = Stale(lookups)
    /\ Post(events, client', <<"ClientFailed">>)
    /\ UNCHANGED <<app, asleep>>

(* Client::handleDisconnected and handleOutputError.                        *)
HandleDisconnected ==
    /\ First("InputShutdown") \/ First("SocketDisconnected") \/ First("OutputError")
    /\ client.stream.state = "hello"
    /\ Handled(CleanupConnection(client), <<"ClientDisconnected">>)
    /\ Disabled(client)
    /\ UNCHANGED <<app, lookups, asleep, faults>>

(* Events whose handler is not installed while the socket is connecting, or *)
(* has been removed.                                                        *)
Ignored ==
    /\ \/ First(Unhandled)
       \/ /\ \E type \in StreamEvents \ {"SocketConnected", "ConnectionFailed"} : First(type)
          /\ client.stream.state = "connecting"
    /\ Handled(client, <<>>)
    /\ UNCHANGED <<app, screen, lookups, asleep, faults>>

(***************************************************************************)
(* Client: suspend and resume                                               *)
(***************************************************************************)
HandleSuspend ==
    /\ First("ScreenSuspend")
    /\ IF client.suspended
       THEN Handled(client, <<>>) /\ UNCHANGED <<screen, lookups>>
       ELSE /\ Handled([Cleanup(client) EXCEPT !.suspended = TRUE,
                                               !.connectOnResume = client.proxy # "none"],
                       <<"ClientDisconnected">>)
            /\ Disabled(client)
            /\ lookups' = Stale(lookups)
    /\ UNCHANGED <<app, asleep, faults>>

HandleResume ==
    /\ First("ScreenResume")
    /\ Post(Tail(events), client, <<>>)
    /\ LET awake == [client EXCEPT !.suspended = FALSE]
       IN  IF client.suspended /\ client.connectOnResume
           THEN Connect([awake EXCEPT !.connectOnResume = FALSE], 0)
           ELSE client' = awake /\ UNCHANGED lookups
    /\ UNCHANGED <<app, screen, asleep, faults>>

(***************************************************************************)
(* ClientApp                                                                *)
(***************************************************************************)
MoreAddresses_Fewer(address) == address + 1 < client.resolved - 1
MoreAddresses(address) == address + 1 < client.resolved

NextServer(s) == (s + 1) % NumServers

HandleClientConnected ==
    /\ First("ClientConnected")
    /\ app' = [app EXCEPT !.server = 0, !.address = 0]
    /\ Handled(client, <<>>)
    /\ UNCHANGED <<screen, lookups, asleep, faults>>

(* ClientApp::handleClientFailed: the next address, or the next server.     *)
HandleClientFailed ==
    /\ First("ClientFailed")
    /\ app' = IF MoreAddresses(app.address)
              THEN [app EXCEPT !.address = @ + 1, !.restarts = @ + 1]
              ELSE [server |-> NextServer(app.server), address |-> 0, restarts |-> app.restarts + 1]
    /\ Handled(client, <<>>)
    /\ UNCHANGED <<screen, lookups, asleep, faults>>

(* ClientApp::handleClientRefused and handleClientDisconnected.             *)
HandleClientLost ==
    /\ First("ClientRefused") \/ First("ClientDisconnected")
    /\ app' = [app EXCEPT !.restarts = @ + 1]
    /\ Handled(client, <<>>)
    /\ UNCHANGED <<screen, lookups, asleep, faults>>

(* ClientApp::startClient, with n restart timers left.  The screen may not  *)
(* be available yet.                                                        *)
StartClient(n) ==
    \/ /\ screen' = [screen EXCEPT !.open = TRUE]
       /\ app' = [app EXCEPT !.restarts = n]
       /\ Connect([client EXCEPT !.server = app.server], app.address)
       /\ UNCHANGED faults
    \/ /\ ~screen.open
       /\ Counted
       /\ app' = [app EXCEPT !.restarts = n + 1]
       /\ UNCHANGED <<client, screen, lookups>>

StartNode ==
    /\ ~screen.open /\ app.restarts = 0
    /\ StartClient(0)
    /\ UNCHANGED <<events, asleep>>

HandleClientRestart ==
    /\ Idle /\ app.restarts > 0
    /\ StartClient(app.restarts - 1)
    /\ UNCHANGED <<events, asleep>>

(***************************************************************************)
(* The socket and the computer                                              *)
(***************************************************************************)
Socket(from, to, posted) ==
    /\ client.stream # None /\ client.stream.net \in from
    /\ client' = [client EXCEPT !.stream.net = to]
    /\ events' = events \o posted
    /\ UNCHANGED <<app, screen, lookups, asleep>>

SocketConnects == Socket({"trying"}, "up", <<"SocketConnected">>) /\ UNCHANGED faults

(* A connection that is refused or times out may tell nothing at all.       *)
SocketFails  == Socket({"trying"}, "gone", <<"ConnectionFailed">>) /\ Fault(client.stream)
SocketCloses ==
    Socket({"trying", "up"}, "gone", <<"InputShutdown", "SocketDisconnected">>) /\ Fault(client.stream)
SocketErrs   == Socket({"up"}, "gone", <<"OutputError">>) /\ Fault(client.stream)

ServerSends ==
    /\ \A i \in DOMAIN events : events[i] # "InputReady"
    /\ Socket({"up"}, "up", <<"InputReady">>)
    /\ UNCHANGED faults

Sleep ==
    /\ screen.open /\ ~asleep /\ asleep' = TRUE
    /\ Counted
    /\ events' = Append(events, "ScreenSuspend")
    /\ UNCHANGED <<app, client, screen, lookups>>

Wake ==
    /\ asleep /\ asleep' = FALSE
    /\ events' = Append(events, "ScreenResume")
    /\ UNCHANGED <<app, client, screen, lookups, faults>>

Init ==
    /\ app = [server |-> 0, address |-> 0, restarts |-> 0]
    /\ client = [server |-> 0, resolved |-> 0, stream |-> None, timer |-> FALSE, proxy |-> "none",
                 ready |-> FALSE, suspended |-> FALSE, connectOnResume |-> FALSE]
    /\ screen = [open |-> FALSE, enabled |-> FALSE]
    /\ lookups = {}
    /\ events = <<>>
    /\ asleep = FALSE
    /\ faults = 0

Answer == \E l \in lookups : LookupDropped(l) \/ LookupFails(l) \/ ContinueConnect(l)

Dispatch ==
    \/ HandleConnected \/ HandleConnectionFailed \/ HandleHello \/ HandleDisconnected \/ Ignored
    \/ \E completes \in BOOLEAN, end \in DOMAIN Ends :
          (completes => IsUp(client.stream)) /\ HandleData(completes, end)
    \/ HandleSuspend \/ HandleResume
    \/ HandleClientConnected \/ HandleClientFailed \/ HandleClientLost

Timers == HandleConnectTimeout \/ KeepAliveAlarm

Network == SocketConnects \/ SocketFails \/ SocketCloses \/ SocketErrs \/ ServerSends

Next == StartNode \/ HandleClientRestart \/ Dispatch \/ Timers \/ Answer \/ Network \/ Sleep \/ Wake

(* The program runs.  A lookup is answered and the computer woken.  A server *)
(* that is up answers, and completes the handshake if it is tried often      *)
(* enough; one that is down does not keep a connection alive.                *)
Fairness ==
    /\ WF_vars(StartNode) /\ WF_vars(Dispatch) /\ SF_vars(HandleClientRestart)
    /\ SF_vars(Timers /\ ~Serves(client.stream))
    /\ \A s \in Servers, a \in Addresses :
          \A current \in BOOLEAN :
             LET l == [server |-> s, address |-> a, current |-> current]
             IN  WF_vars(l \in lookups /\ (LookupDropped(l) \/ LookupFails(l) \/ ContinueConnect(l)))
    /\ WF_vars(Serves(client.stream) /\ (SocketConnects \/ ServerSends))
    /\ SF_vars(CompleteHandshake)
    /\ WF_vars(Wake)

Spec == Init /\ [][Next]_vars /\ Fairness

(***************************************************************************)
(* Properties                                                               *)
(***************************************************************************)
Stream == [server : Servers, address : Addresses, state : {"connecting", "hello"},
           net : {"trying", "up", "gone"}]

TypeOK ==
    /\ app \in [server : Servers, address : Addresses, restarts : Nat]
    /\ client \in [server : Servers, resolved : Nat, stream : Stream \cup {None}, timer : BOOLEAN,
                   proxy : {"none", "handshake", "running"}, ready : BOOLEAN,
                   suspended : BOOLEAN, connectOnResume : BOOLEAN]
    /\ screen \in [open : BOOLEAN, enabled : BOOLEAN]
    /\ lookups \subseteq [server : Servers, address : Addresses, current : BOOLEAN]
    /\ events \in Seq(StreamEvents \cup ClientEvents \cup {Unhandled, "ScreenSuspend", "ScreenResume"})
    /\ asleep \in BOOLEAN /\ faults \in 0 .. MaxFaults

(* The five-second timer runs exactly while a connection is being made       *)
(* (setupTimer and setupScreen assert as much), the screen is enabled        *)
(* exactly while a proxy has completed its handshake, and a suspended client *)
(* has no connection.                                                        *)
TimerWhileConnecting == client.timer <=> client.stream # None /\ client.proxy = "none"
EnabledWhileReady == screen.enabled <=> client.ready /\ client.proxy = "running"
NoneWhileSuspended == client.suspended => client.stream = None

Consistent ==
    TypeOK /\ TimerWhileConnecting /\ EnabledWhileReady /\ NoneWhileSuspended

(* Something always leads to the next attempt: a lookup, the connection, a   *)
(* restart timer, an event the application answers with one, or the resume   *)
(* of a suspended client.                                                    *)
NeverStranded ==
    \/ ~screen.open
    \/ \E l \in lookups : l.current
    \/ client.timer \/ client.proxy # "none"
    \/ app.restarts > 0
    \/ \E i \in DOMAIN events : events[i] \in {"ClientFailed", "ClientRefused", "ClientDisconnected"}
    \/ client.suspended /\ client.connectOnResume

(* While a server of the list is up, at any of its addresses, the client     *)
(* gets to it whatever happened before, and its screen is then enabled.      *)
Reconnects == <>[](client.proxy = "running" /\ screen.enabled)
=============================================================================
