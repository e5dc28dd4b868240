---------------------------- MODULE ClientProof ----------------------------
(***************************************************************************)
(* Proofs about Client, for any servers, addresses and faults: its parts    *)
(* agree with each other, and it is never left without a next attempt; and  *)
(* about the keys that it holds for its server (KeyState, which shares no   *)
(* variable with Client).                                                   *)
(*                                                                         *)
(* What happens next is decided by the events that wait, whatever their     *)
(* order: Queued is the set of them.  The invariant says which of them a    *)
(* connection in a given state can have posted (StreamOK).                  *)
(***************************************************************************)
EXTENDS Client, KeyState, SequenceTheorems, TLAPS

Lost == {"ClientFailed", "ClientRefused", "ClientDisconnected"}
Messages == StreamEvents \cup ClientEvents \cup {Unhandled, "ScreenSuspend", "ScreenResume"}

Elements(q) == {q[i] : i \in DOMAIN q}
Queued == Elements(events)

ClientStates == [server : Servers, resolved : Nat, stream : Stream \cup {None}, timer : BOOLEAN,
                 proxy : {"none", "handshake", "running"}, ready : BOOLEAN,
                 suspended : BOOLEAN, connectOnResume : BOOLEAN]

(* Only a connection that exists has events and a proxy, only one that is    *)
(* being tried connects or fails, and one that fails has done nothing else.  *)
StreamOK ==
    /\ client.stream = None => Queued \cap StreamEvents = {} /\ client.proxy = "none"
    /\ client.stream.net = "trying" =>
          /\ client.stream.state = "connecting"
          /\ "SocketConnected" \notin Queued /\ "ConnectionFailed" \notin Queued
    /\ "ConnectionFailed" \in Queued =>
          client.stream.state = "connecting" /\ "SocketConnected" \notin Queued
    /\ client.proxy # "none" => client.stream.state = "hello"

(* The addresses counted are those of some server.                          *)
ResolvedOK == client.resolved = 0 \/ \E s \in Servers : client.resolved = AddressCount[s]

(* No lookup of a suspended client is waited for.                           *)
NoLookupWhileSuspended == client.suspended => \A l \in lookups : ~l.current

(* NeverStranded, of the set of events.                                     *)
Attempt ==
    \/ ~screen.open
    \/ \E l \in lookups : l.current
    \/ client.timer \/ client.proxy # "none"
    \/ app.restarts > 0
    \/ Queued \cap Lost # {}
    \/ client.suspended /\ client.connectOnResume

IInv == Consistent /\ StreamOK /\ ResolvedOK /\ NoLookupWhileSuspended /\ Attempt

(***************************************************************************)
(* The queue                                                                *)
(***************************************************************************)
(* The events of the sequences that are posted.                             *)
LEMMA Few ==
    /\ Elements(<<>>) = {} /\ <<>> \in Seq(Messages)
    /\ \A a \in Messages : Elements(<<a>>) = {a} /\ <<a>> \in Seq(Messages)
    /\ \A a, b \in Messages : Elements(<<a, b>>) = {a, b} /\ <<a, b>> \in Seq(Messages)
BY DEF Elements

(* The first event and the rest.                                            *)
LEMMA Rest ==
    ASSUME NEW q \in Seq(Messages), q # <<>>
    PROVE  /\ Tail(q) \in Seq(Messages) /\ Head(q) \in Elements(q)
           /\ Elements(q) = Elements(Tail(q)) \cup {Head(q)}
<1>1. /\ Tail(q) \in Seq(Messages) /\ Len(q) \in Nat \ {0} /\ Head(q) = q[1]
      /\ Len(Tail(q)) = Len(q) - 1 /\ DOMAIN q = 1 .. Len(q)
      /\ DOMAIN Tail(q) = 1 .. Len(q) - 1
  BY HeadTailProperties, EmptySeq, LenProperties
<1>2. \A i \in 1 .. Len(q) - 1 : Tail(q)[i] = q[i + 1]
  BY <1>1, HeadTailProperties
<1>3. ASSUME NEW i \in DOMAIN q PROVE q[i] \in Elements(Tail(q)) \cup {Head(q)}
  <2>1. CASE i = 1
    BY <1>1, <2>1
  <2>2. CASE i # 1
    <3>1. i - 1 \in 1 .. Len(q) - 1 /\ Tail(q)[i - 1] = q[i]
      BY <1>1, <1>2, <2>2
    <3> QED
      BY <1>1, <3>1 DEF Elements
  <2> QED
    BY <2>1, <2>2
<1>4. ASSUME NEW i \in DOMAIN Tail(q) PROVE Tail(q)[i] \in Elements(q)
  <2>1. i + 1 \in DOMAIN q /\ Tail(q)[i] = q[i + 1]
    BY <1>1, <1>2
  <2> QED
    BY <2>1 DEF Elements
<1>5. Head(q) \in Elements(q)
  BY <1>1 DEF Elements
<1> QED
  BY <1>1, <1>3, <1>4, <1>5 DEF Elements

(* New events come after the others.                                        *)
LEMMA Joined ==
    ASSUME NEW q \in Seq(Messages), NEW new \in Seq(Messages)
    PROVE  q \o new \in Seq(Messages) /\ Elements(q \o new) = Elements(q) \cup Elements(new)
<1>1. /\ q \o new \in Seq(Messages) /\ Len(q) \in Nat /\ Len(new) \in Nat
      /\ Len(q \o new) = Len(q) + Len(new)
      /\ DOMAIN q = 1 .. Len(q) /\ DOMAIN new = 1 .. Len(new)
      /\ DOMAIN (q \o new) = 1 .. Len(q) + Len(new)
  BY ConcatProperties, LenProperties
<1>2. \A i \in 1 .. Len(q) + Len(new) :
        (q \o new)[i] = IF i <= Len(q) THEN q[i] ELSE new[i - Len(q)]
  BY <1>1, ConcatProperties
<1>3. ASSUME NEW i \in DOMAIN (q \o new)
      PROVE  (q \o new)[i] \in Elements(q) \cup Elements(new)
  <2>1. CASE i <= Len(q)
    BY <1>1, <1>2, <2>1 DEF Elements
  <2>2. CASE i > Len(q)
    <3>1. i - Len(q) \in DOMAIN new
      BY <1>1, <2>2
    <3> QED
      BY <1>1, <1>2, <2>2, <3>1 DEF Elements
  <2> QED
    BY <1>1, <2>1, <2>2
<1>4. ASSUME NEW i \in DOMAIN q PROVE q[i] \in Elements(q \o new)
  <2>1. i \in DOMAIN (q \o new) /\ (q \o new)[i] = q[i]
    BY <1>1, <1>2
  <2> QED
    BY <2>1 DEF Elements
<1>5. ASSUME NEW i \in DOMAIN new PROVE new[i] \in Elements(q \o new)
  <2>1. Len(q) + i \in DOMAIN (q \o new) /\ (q \o new)[Len(q) + i] = new[i]
    BY <1>1, <1>2
  <2> QED
    BY <2>1 DEF Elements
<1> QED
  BY <1>1, <1>3, <1>4, <1>5 DEF Elements

(* Of the events whose stream is gone, nothing but their number is left.    *)
LEMMA LapsedIs ==
    ASSUME NEW q \in Seq(Messages)
    PROVE  /\ Lapsed(q) \in Seq(Messages)
           /\ Elements(Lapsed(q)) \cap StreamEvents = {}
           /\ Elements(q) \ StreamEvents \subseteq Elements(Lapsed(q))
           /\ Elements(Lapsed(q)) \subseteq Elements(q) \cup {Unhandled}
<1>1. DOMAIN q = 1 .. Len(q) /\ Len(q) \in Nat /\ \A i \in 1 .. Len(q) : q[i] \in Messages
  BY LenProperties, ElementOfSeq
<1>2. Lapsed(q) \in Seq(Messages)
  <2>1. \A i \in 1 .. Len(q) : (IF q[i] \in StreamEvents THEN Unhandled ELSE q[i]) \in Messages
    BY <1>1 DEF Messages
  <2> QED
    BY <1>1, <2>1 DEF Lapsed
<1>3. Unhandled \notin StreamEvents
  BY DEF Unhandled, StreamEvents
<1>4. /\ Elements(Lapsed(q)) \cap StreamEvents = {}
      /\ Elements(q) \ StreamEvents \subseteq Elements(Lapsed(q))
      /\ Elements(Lapsed(q)) \subseteq Elements(q) \cup {Unhandled}
  BY <1>3 DEF Lapsed, Elements
<1> QED
  BY <1>2, <1>4

(* What waits after new events have been posted.                            *)
LEMMA Posting ==
    ASSUME NEW q \in Seq(Messages), NEW c, NEW new \in Seq(Messages), Post(q, c, new)
    PROVE  /\ events' \in Seq(Messages)
           /\ Queued' \subseteq Elements(q) \cup Elements(new) \cup {Unhandled}
           /\ Elements(q) \ StreamEvents \subseteq Queued' /\ Elements(new) \subseteq Queued'
           /\ c.stream = None => Queued' \cap StreamEvents \subseteq Elements(new)
           /\ c.stream # None => Queued' = Elements(q) \cup Elements(new)
<1>1. CASE c.stream = None
  <2>1. events' = Lapsed(q) \o new
    BY <1>1 DEF Post
  <2> QED
    BY <1>1, <2>1, LapsedIs, Joined DEF Queued
<1>2. CASE c.stream # None
  <2>1. events' = q \o new
    BY <1>2 DEF Post
  <2> QED
    BY <1>2, <2>1, Joined DEF Queued
<1> QED
  BY <1>1, <1>2

(***************************************************************************)
(* The steps                                                                *)
(***************************************************************************)
(* A connection that exists is not None.                                    *)
LEMMA NoStream ==
    /\ None \notin Stream /\ None.state = "none" /\ None.net = "none"
BY DEF None, Stream

(* The first event, when one of a kind is handled.                          *)
LEMMA Handling ==
    ASSUME IInv, NEW type, First(type)
    PROVE  /\ Tail(events) \in Seq(Messages) /\ type \in Queued /\ type \in Messages
           /\ Queued = Elements(Tail(events)) \cup {type}
BY Rest DEF First, IInv, Consistent, TypeOK, Queued, Messages

(* The connection is given up, and the application told.                    *)
LEMMA GivingUp ==
    ASSUME IInv, client' \in ClientStates, client'.stream = None, client'.proxy = "none", ~client'.timer,
           client'.resolved = client.resolved, client'.suspended => \A l \in lookups' : ~l.current,
           UNCHANGED <<app, asleep>>, faults' \in 0 .. MaxFaults,
           lookups' \subseteq [server : Servers, address : Addresses, current : BOOLEAN],
           screen' \in [open : BOOLEAN, enabled : {FALSE}],
           NEW q \in Seq(Messages), NEW new \in Seq(Messages), Post(q, client', new),
           Elements(new) \cap Lost # {}, Elements(new) \cap StreamEvents = {}
    PROVE  IInv'
<1>1. /\ events' \in Seq(Messages) /\ Queued' \cap StreamEvents = {}
      /\ Queued' \cap Lost # {}
  BY Posting
<1>2. TypeOK'
  BY <1>1 DEF IInv, Consistent, TypeOK, ClientStates, Messages
<1>3. TimerWhileConnecting' /\ EnabledWhileReady' /\ NoneWhileSuspended'
  BY DEF TimerWhileConnecting, EnabledWhileReady, NoneWhileSuspended
<1>4. StreamOK'
  BY <1>1, NoStream DEF StreamOK, StreamEvents
<1> QED
  BY <1>1, <1>2, <1>3, <1>4 DEF IInv, Consistent, ResolvedOK, NoLookupWhileSuspended, Attempt

(* What the last event was about is over: the client and its screen are as   *)
(* they were.                                                               *)
LEMMA ClientKept ==
    ASSUME IInv, UNCHANGED <<client, screen, asleep>>, faults' \in 0 .. MaxFaults,
           app' \in [server : Servers, address : Addresses, restarts : Nat],
           lookups' \subseteq [server : Servers, address : Addresses, current : BOOLEAN],
           client.suspended => \A l \in lookups' : ~l.current,
           events' \in Seq(Messages), Queued' \cap StreamEvents \subseteq Queued, Attempt'
    PROVE  IInv'
<1>1. TypeOK'
  BY DEF IInv, Consistent, TypeOK, Messages
<1>2. TimerWhileConnecting' /\ EnabledWhileReady' /\ NoneWhileSuspended'
  BY DEF IInv, Consistent, TimerWhileConnecting, EnabledWhileReady, NoneWhileSuspended
<1>3. StreamOK'
  BY DEF IInv, StreamOK, StreamEvents
<1> QED
  BY <1>1, <1>2, <1>3 DEF IInv, Consistent, ResolvedOK, NoLookupWhileSuspended

(* A client that does nothing yet has no screen either (Init).              *)
LEMMA Starting == Init => IInv
<1> SUFFICES ASSUME Init PROVE IInv
  OBVIOUS
<1> USE DEF Init
<1>1. 0 \in Servers /\ 0 \in Addresses
  <2>1. 0 \in Servers
    BY Parameters DEF Servers
  <2>2. 0 \in 0 .. AddressCount[0] - 1
    BY <2>1, Parameters
  <2> QED
    BY <2>1, <2>2 DEF Addresses
<1>2. events \in Seq(Messages) /\ Queued = {}
  BY Few DEF Queued
<1>3. TypeOK
  <2>1. app \in [server : Servers, address : Addresses, restarts : Nat]
    BY <1>1
  <2>2. /\ client \in ClientStates /\ screen \in [open : BOOLEAN, enabled : BOOLEAN]
        /\ lookups = {} /\ asleep \in BOOLEAN
    BY <1>1 DEF ClientStates
  <2>3. faults \in 0 .. MaxFaults
    BY Parameters
  <2> QED
    BY <1>2, <2>1, <2>2, <2>3 DEF TypeOK, ClientStates, Messages
<1>4. TimerWhileConnecting /\ EnabledWhileReady /\ NoneWhileSuspended
  BY DEF TimerWhileConnecting, EnabledWhileReady, NoneWhileSuspended
<1>5. StreamOK
  BY <1>2, NoStream DEF StreamOK
<1> QED
  BY <1>3, <1>4, <1>5 DEF IInv, Consistent, ResolvedOK, NoLookupWhileSuspended, Attempt

(* A misfortune is counted or not.                                          *)
LEMMA Misfortune ==
    ASSUME IInv, NEW stream, Counted \/ UNCHANGED faults \/ Fault(stream)
    PROVE  faults' \in 0 .. MaxFaults
BY Parameters DEF IInv, Consistent, TypeOK, Counted, Fault

(* Lookups that are superseded.                                             *)
LEMMA StaleIs ==
    ASSUME IInv
    PROVE  /\ Stale(lookups) \subseteq [server : Servers, address : Addresses, current : BOOLEAN]
           /\ \A l \in Stale(lookups) : ~l.current
<1> SUFFICES ASSUME NEW l \in lookups
             PROVE  LET s == [l EXCEPT !.current = FALSE]
                    IN  s \in [server : Servers, address : Addresses, current : BOOLEAN] /\ ~s.current
  BY DEF Stale
<1>1. l \in [server : Servers, address : Addresses, current : BOOLEAN]
  BY DEF IInv, Consistent, TypeOK
<1> QED
  BY <1>1

(***************************************************************************)
(* Lookups                                                                  *)
(***************************************************************************)
(* A lookup whose answer is dropped was not waited for, or there is          *)
(* something else: the connection, or the resume.                           *)
LEMMA LookupDroppedStep ==
    ASSUME IInv, NEW l \in lookups, LookupDropped(l)
    PROVE  IInv'
<1>1. UNCHANGED <<app, client, screen, events, asleep, faults>> /\ lookups' = lookups \ {l}
  BY DEF LookupDropped
<1>2. Attempt'
  <2>1. CASE l.current
    <3>1. client.stream # None
      BY <2>1 DEF LookupDropped, Dropped, IInv, NoLookupWhileSuspended
    <3> QED
      BY <1>1, <3>1 DEF IInv, Consistent, TimerWhileConnecting, Attempt
  <2>2. CASE ~l.current
    BY <1>1, <2>2 DEF IInv, Attempt, Queued
  <2> QED
    BY <2>1, <2>2
<1> QED
  BY <1>1, <1>2, ClientKept DEF IInv, Consistent, TypeOK, NoLookupWhileSuspended, Queued, Messages

(* A failed lookup is told to the application (Client::connect's callback). *)
LEMMA LookupFailsStep ==
    ASSUME IInv, NEW l \in lookups, LookupFails(l)
    PROVE  IInv'
<1>1. /\ UNCHANGED <<app, client, screen, asleep>> /\ lookups' = lookups \ {l}
      /\ faults' \in 0 .. MaxFaults
  BY Misfortune DEF LookupFails
<1>2. Post(events, client, <<"ClientFailed">>) /\ events \in Seq(Messages)
  BY DEF LookupFails, IInv, Consistent, TypeOK, Messages
<1>3. <<"ClientFailed">> \in Seq(Messages) /\ Elements(<<"ClientFailed">>) = {"ClientFailed"}
  BY Few DEF Messages, ClientEvents
<1>4. /\ events' \in Seq(Messages) /\ "ClientFailed" \in Queued'
      /\ Queued' \cap StreamEvents \subseteq Queued
  <2>1. "ClientFailed" \notin StreamEvents /\ Unhandled \notin StreamEvents
    BY DEF StreamEvents, Unhandled
  <2> QED
    BY <1>2, <1>3, <2>1, Posting DEF Queued
<1>5. Attempt'
  BY <1>4 DEF Attempt, Lost
<1> QED
  BY <1>1, <1>4, <1>5, ClientKept DEF IInv, Consistent, TypeOK, NoLookupWhileSuspended

(* The address tried is one of the server's.                                *)
LEMMA IndexIs ==
    ASSUME NEW l \in [server : Servers, address : Addresses, current : BOOLEAN]
    PROVE  Index(l) \in Addresses
<1>1. AddressCount[l.server] \in Nat \ {0} /\ l.address \in Addresses
  BY Parameters
<1>2. \A i \in 0 .. AddressCount[l.server] - 1 : i \in Addresses
  BY DEF Addresses
<1> QED
  BY <1>1, <1>2 DEF Index

(* A connection is begun, with its timer, or the socket refuses.            *)
LEMMA ContinueConnectStep ==
    ASSUME IInv, NEW l \in lookups, ContinueConnect(l)
    PROVE  IInv'
<1> DEFINE stream == [server |-> l.server, address |-> Index(l), state |-> "connecting", net |-> "trying"]
<1> USE DEF IInv, Consistent, TypeOK
<1>1. l \in [server : Servers, address : Addresses, current : BOOLEAN]
  OBVIOUS
<1>2. /\ client.stream = None /\ ~client.suspended /\ client.proxy = "none" /\ ~client.timer
      /\ Queued \cap StreamEvents = {} /\ ~screen.enabled
  BY DEF ContinueConnect, Dropped, StreamOK, TimerWhileConnecting, EnabledWhileReady
<1>3. /\ UNCHANGED <<app, screen, asleep>> /\ lookups' = lookups \ {l}
      /\ events \in Seq(Messages) /\ client \in ClientStates
  BY DEF ContinueConnect, Messages, ClientStates
<1>4. AddressCount[l.server] \in Nat /\ l.server \in Servers
  BY <1>1, Parameters
<1>5. CASE /\ client' = [client EXCEPT !.resolved = AddressCount[l.server], !.stream = stream, !.timer = TRUE]
           /\ UNCHANGED <<events, faults>>
  <2>1. stream \in Stream
    BY <1>1, <1>4, IndexIs DEF Stream
  <2>2. client' \in ClientStates
    BY <1>3, <1>4, <1>5, <2>1 DEF ClientStates
  <2>3. /\ client'.stream # None /\ client'.stream.state = "connecting" /\ client'.proxy = "none"
        /\ client'.timer /\ ~client'.suspended /\ client'.resolved = AddressCount[l.server]
    BY <1>2, <1>3, <1>5, <2>1, NoStream DEF ClientStates
  <2>4. TypeOK'
    BY <1>3, <1>5, <2>2 DEF ClientStates
  <2>5. TimerWhileConnecting' /\ EnabledWhileReady' /\ NoneWhileSuspended'
    BY <1>2, <1>3, <2>3 DEF TimerWhileConnecting, EnabledWhileReady, NoneWhileSuspended
  <2>6. StreamOK'
    BY <1>2, <1>5, <2>3 DEF StreamOK, Queued, StreamEvents
  <2> QED
    BY <1>4, <2>3, <2>4, <2>5, <2>6 DEF ResolvedOK, NoLookupWhileSuspended, Attempt
<1>6. CASE /\ Fault(stream) /\ client' = [client EXCEPT !.resolved = AddressCount[l.server]]
           /\ Post(events, client, <<"ClientFailed">>)
  <2>1. /\ client' \in ClientStates /\ client'.resolved = AddressCount[l.server]
        /\ client'.stream = None /\ client'.proxy = "none" /\ ~client'.timer /\ ~client'.suspended
    BY <1>2, <1>3, <1>4, <1>6 DEF ClientStates
  <2>2. /\ <<"ClientFailed">> \in Seq(Messages) /\ Elements(<<"ClientFailed">>) = {"ClientFailed"}
        /\ "ClientFailed" \in Lost /\ "ClientFailed" \notin StreamEvents
    BY Few DEF Messages, ClientEvents, Lost, StreamEvents
  <2>3. events' \in Seq(Messages) /\ Queued' \cap StreamEvents = {} /\ Queued' \cap Lost # {}
    <3>1. /\ events' \in Seq(Messages) /\ {"ClientFailed"} \subseteq Queued'
          /\ Queued' \cap StreamEvents \subseteq {"ClientFailed"}
      BY <1>2, <1>3, <1>6, <2>2, Posting
    <3> QED
      BY <2>2, <3>1
  <2>4. faults' \in 0 .. MaxFaults
    BY <1>6, Misfortune
  <2>5. TypeOK'
    BY <1>3, <2>1, <2>3, <2>4 DEF ClientStates, Messages
  <2>6. TimerWhileConnecting' /\ EnabledWhileReady' /\ NoneWhileSuspended'
    BY <1>2, <1>3, <2>1 DEF TimerWhileConnecting, EnabledWhileReady, NoneWhileSuspended
  <2>7. StreamOK'
    BY <2>1, <2>3, NoStream DEF StreamOK, StreamEvents
  <2> QED
    BY <1>4, <2>1, <2>3, <2>5, <2>6, <2>7 DEF ResolvedOK, NoLookupWhileSuspended, Attempt
<1> QED
  BY <1>5, <1>6 DEF ContinueConnect

(***************************************************************************)
(* The connection                                                           *)
(***************************************************************************)
(* An event of a connection is there while the connection is.               *)
LEMMA OfStream ==
    ASSUME IInv, NEW type \in StreamEvents, First(type)
    PROVE  /\ client.stream \in Stream /\ client.stream # None /\ ~client.suspended
           /\ client \in ClientStates
<1>1. type \in Queued
  BY Handling
<1> QED
  BY <1>1, NoStream DEF IInv, Consistent, TypeOK, ClientStates, StreamOK, NoneWhileSuspended

(* A connection is made: it has not failed.                                 *)
LEMMA HandleConnectedStep == ASSUME IInv, HandleConnected PROVE IInv'
<1> DEFINE c == [client EXCEPT !.stream.state = "hello"]
<1>1. /\ client.stream \in Stream /\ client.stream # None /\ client \in ClientStates
      /\ "SocketConnected" \in Queued /\ Tail(events) \in Seq(Messages)
      /\ Queued = Elements(Tail(events)) \cup {"SocketConnected"} /\ ~client.suspended
  BY OfStream, Handling DEF HandleConnected, StreamEvents
<1>2. client.stream.net # "trying" /\ "ConnectionFailed" \notin Queued
  BY <1>1 DEF IInv, StreamOK
<1>3. c.stream = [client.stream EXCEPT !.state = "hello"] /\ c \in ClientStates
  BY <1>1 DEF ClientStates, Stream
<1>4. /\ client' \in ClientStates /\ client'.stream # None /\ client'.stream.state = "hello"
      /\ client'.stream.net = client.stream.net /\ client'.timer = client.timer
      /\ client'.proxy = client.proxy /\ client'.ready = client.ready
      /\ client'.suspended = client.suspended /\ client'.resolved = client.resolved
      /\ client'.connectOnResume = client.connectOnResume
  BY <1>1, <1>3, NoStream DEF HandleConnected, Handled, ClientStates, Stream
<1>5. Post(Tail(events), c, <<>>) /\ c.stream # None
  BY <1>3, <1>4 DEF HandleConnected, Handled
<1>6. events' \in Seq(Messages) /\ Queued' = Elements(Tail(events))
  <2> HIDE DEF c
  <2>1. <<>> \in Seq(Messages) /\ Elements(<<>>) = {}
    BY Few
  <2>2. events' \in Seq(Messages) /\ Queued' = Elements(Tail(events)) \cup Elements(<<>>)
    BY <1>1, <1>5, <2>1, Posting
  <2> QED
    BY <2>1, <2>2
<1>7. UNCHANGED <<app, screen, lookups, asleep, faults>>
  BY DEF HandleConnected
<1>8. TypeOK'
  BY <1>4, <1>6, <1>7 DEF IInv, Consistent, TypeOK, ClientStates, Messages
<1>9. TimerWhileConnecting' /\ EnabledWhileReady' /\ NoneWhileSuspended'
  BY <1>1, <1>4, <1>7 DEF IInv, Consistent, TimerWhileConnecting, EnabledWhileReady, NoneWhileSuspended
<1>10. StreamOK'
  BY <1>1, <1>2, <1>4, <1>6 DEF IInv, StreamOK
<1>11. Attempt'
  BY <1>1, <1>4, <1>6, <1>7 DEF IInv, Attempt, Lost
<1> QED
  BY <1>4, <1>7, <1>8, <1>9, <1>10, <1>11 DEF IInv, Consistent, ResolvedOK, NoLookupWhileSuspended

(* What is torn down, and what is not (cleanupConnection and cleanup).      *)
LEMMA Cleaned ==
    ASSUME NEW c \in ClientStates
    PROVE  /\ CleanupConnection(c) \in ClientStates /\ Cleanup(c) \in ClientStates
           /\ CleanupConnection(c).stream = None /\ Cleanup(c).stream = None
           /\ CleanupConnection(c).proxy = "none" /\ Cleanup(c).proxy = "none"
           /\ ~CleanupConnection(c).timer /\ ~Cleanup(c).timer
           /\ CleanupConnection(c).resolved = c.resolved /\ Cleanup(c).resolved = c.resolved
           /\ CleanupConnection(c).suspended = c.suspended /\ Cleanup(c).suspended = c.suspended
<1>1. /\ CleanupScreen(c) \in ClientStates /\ CleanupScreen(c).proxy = "none"
      /\ CleanupScreen(c).resolved = c.resolved /\ CleanupScreen(c).suspended = c.suspended
  BY DEF CleanupScreen, ClientStates
<1> QED
  BY <1>1 DEF CleanupConnection, Cleanup, ClientStates

(* The screen of a client whose proxy is gone is disabled (cleanupScreen).  *)
LEMMA ScreenOff ==
    ASSUME IInv
    PROVE  /\ client \in ClientStates /\ events \in Seq(Messages)
           /\ Disabled(client) => screen' \in [open : BOOLEAN, enabled : {FALSE}]
           /\ client.proxy = "none" => screen \in [open : BOOLEAN, enabled : {FALSE}]
BY DEF IInv, Consistent, TypeOK, ClientStates, EnabledWhileReady, Disabled, Messages

(* The ways to tell the application that an attempt is over.                *)
LEMMA Telling ==
    \A e \in Lost : /\ <<e>> \in Seq(Messages) /\ Elements(<<e>>) \cap Lost # {}
                    /\ Elements(<<e>>) \cap StreamEvents = {}
<1>1. Lost \subseteq Messages /\ Lost \cap StreamEvents = {}
  BY DEF Messages, ClientEvents, Lost, StreamEvents
<1> QED
  BY <1>1, Few

(* A connection that fails had no proxy yet.                                *)
LEMMA HandleConnectionFailedStep == ASSUME IInv, HandleConnectionFailed PROVE IInv'
<1>1. First("ConnectionFailed") /\ "ConnectionFailed" \in StreamEvents
  BY DEF HandleConnectionFailed, StreamEvents
<1>2. /\ client.stream \in Stream /\ client \in ClientStates /\ ~client.suspended
      /\ Tail(events) \in Seq(Messages) /\ client.proxy = "none"
  BY <1>1, OfStream, Handling DEF IInv, StreamOK
<1>3. screen \in [open : BOOLEAN, enabled : {FALSE}]
  BY <1>2, ScreenOff
<1>4. /\ client' \in ClientStates /\ client'.stream = None /\ client'.proxy = "none"
      /\ ~client'.timer /\ client'.resolved = client.resolved /\ ~client'.suspended
      /\ Post(Tail(events), client', <<"ClientFailed">>)
  BY <1>2 DEF HandleConnectionFailed, Handled, ClientStates
<1>5. UNCHANGED <<app, screen, lookups, asleep, faults>>
  BY DEF HandleConnectionFailed
<1> QED
  BY <1>2, <1>3, <1>4, <1>5, Telling, GivingUp DEF IInv, Consistent, TypeOK, Lost

(* The five seconds are over.                                               *)
LEMMA HandleConnectTimeoutStep == ASSUME IInv, HandleConnectTimeout PROVE IInv'
<1>1. /\ client \in ClientStates /\ events \in Seq(Messages)
      /\ client.proxy = "none" /\ ~client.suspended
  BY ScreenOff
  DEF HandleConnectTimeout, IInv, Consistent, TimerWhileConnecting, NoneWhileSuspended
<1>2. screen \in [open : BOOLEAN, enabled : {FALSE}]
  BY <1>1, ScreenOff
<1>3. /\ client' \in ClientStates /\ client'.stream = None /\ client'.proxy = "none"
      /\ ~client'.timer /\ client'.resolved = client.resolved /\ ~client'.suspended
      /\ Post(events, client', <<"ClientFailed">>) /\ faults' \in 0 .. MaxFaults
  BY <1>1, Misfortune DEF HandleConnectTimeout, ClientStates
<1>4. UNCHANGED <<app, screen, lookups, asleep>>
  BY DEF HandleConnectTimeout
<1> QED
  BY <1>1, <1>2, <1>3, <1>4, Telling, GivingUp DEF IInv, Consistent, TypeOK, Lost

(* The alarm of the keep-alives.                                            *)
LEMMA KeepAliveAlarmStep == ASSUME IInv, KeepAliveAlarm PROVE IInv'
<1>1. client \in ClientStates /\ events \in Seq(Messages)
  BY ScreenOff
<1>2. screen' \in [open : BOOLEAN, enabled : {FALSE}] /\ faults' \in 0 .. MaxFaults
  BY ScreenOff, Misfortune DEF KeepAliveAlarm
<1>3. /\ client' \in ClientStates /\ client'.stream = None /\ client'.proxy = "none"
      /\ ~client'.timer /\ client'.resolved = client.resolved
      /\ Post(events, client', <<"ClientFailed">>)
  BY <1>1, Cleaned DEF KeepAliveAlarm
<1>4. UNCHANGED <<app, asleep>> /\ lookups' = Stale(lookups)
  BY DEF KeepAliveAlarm
<1> QED
  BY <1>1, <1>2, <1>3, <1>4, StaleIs, Telling, GivingUp DEF Lost

(* The connection is lost before the greeting was answered.                 *)
LEMMA HandleDisconnectedStep == ASSUME IInv, HandleDisconnected PROVE IInv'
<1>1. PICK type \in {"InputShutdown", "SocketDisconnected", "OutputError"} : First(type)
  BY DEF HandleDisconnected
<1>2. type \in StreamEvents
  BY DEF StreamEvents
<1>3. client \in ClientStates /\ Tail(events) \in Seq(Messages) /\ ~client.suspended
  BY <1>1, <1>2, OfStream, Handling
<1>4. screen' \in [open : BOOLEAN, enabled : {FALSE}]
  BY ScreenOff DEF HandleDisconnected
<1>5. /\ client' \in ClientStates /\ client'.stream = None /\ client'.proxy = "none"
      /\ ~client'.timer /\ client'.resolved = client.resolved /\ ~client'.suspended
      /\ Post(Tail(events), client', <<"ClientDisconnected">>)
  BY <1>3, Cleaned DEF HandleDisconnected, Handled
<1>6. UNCHANGED <<app, lookups, asleep, faults>>
  BY DEF HandleDisconnected
<1> QED
  BY <1>3, <1>4, <1>5, <1>6, Telling, GivingUp DEF IInv, Consistent, TypeOK, Lost

(***************************************************************************)
(* The handshake                                                            *)
(***************************************************************************)
(* A client with a proxy, whose connection goes on: what was posted is of    *)
(* the connection or tells that the handshake is complete.                  *)
LEMMA GoingOn ==
    ASSUME IInv, client' \in ClientStates, client.stream \in Stream, client.stream.state = "hello",
           client'.stream = client.stream, client'.proxy # "none", ~client'.timer,
           client'.resolved = client.resolved, client'.suspended = client.suspended,
           ~client.suspended, UNCHANGED <<app, lookups, asleep, faults>>,
           screen' \in [open : BOOLEAN, enabled : BOOLEAN],
           screen'.enabled <=> client'.ready /\ client'.proxy = "running",
           NEW q \in Seq(Messages), NEW new \in Seq(Messages), Post(q, client', new),
           Elements(q) \subseteq Queued, Elements(new) \subseteq {"InputReady", "ClientConnected"}
    PROVE  IInv'
<1>1. client.stream # None /\ client.stream.net # "trying" /\ "ConnectionFailed" \notin Queued
  BY NoStream DEF IInv, StreamOK
<1>2. events' \in Seq(Messages) /\ Queued' \subseteq Queued \cup {"InputReady", "ClientConnected"}
  BY <1>1, Posting
<1>3. TypeOK'
  BY <1>2 DEF IInv, Consistent, TypeOK, ClientStates, Messages
<1>4. TimerWhileConnecting' /\ EnabledWhileReady' /\ NoneWhileSuspended'
  BY DEF TimerWhileConnecting, EnabledWhileReady, NoneWhileSuspended
<1>5. StreamOK'
  BY <1>1, <1>2 DEF StreamOK
<1> QED
  BY <1>3, <1>4, <1>5 DEF IInv, Consistent, ResolvedOK, NoLookupWhileSuspended, Attempt

(* The greeting is answered, or was not one of ours.                        *)
LEMMA HandleHelloStep == ASSUME IInv, HandleHello PROVE IInv'
<1>1. First("InputReady") /\ client.stream.state = "hello" /\ client.proxy = "none"
  BY DEF HandleHello
<1>2. "InputReady" \in StreamEvents
  BY DEF StreamEvents
<1>3. /\ client \in ClientStates /\ Tail(events) \in Seq(Messages) /\ ~client.suspended
      /\ client.stream \in Stream /\ Elements(Tail(events)) \subseteq Queued
  BY <1>1, <1>2, OfStream, Handling
<1>4. screen \in [open : BOOLEAN, enabled : {FALSE}]
  BY <1>1, ScreenOff
<1>5. UNCHANGED <<app, screen, lookups, asleep>>
  BY DEF HandleHello
<1>6. ASSUME NEW new \in {<<>>, <<"InputReady">>}, Handled(AfterHello(client), new), UNCHANGED faults
      PROVE  IInv'
  <2>1. /\ client' \in ClientStates /\ client'.stream = client.stream /\ client'.proxy = "handshake"
        /\ ~client'.timer /\ ~client'.ready /\ client'.resolved = client.resolved
        /\ client'.suspended = client.suspended
    BY <1>3, <1>6 DEF Handled, AfterHello, ClientStates
  <2>2. new \in Seq(Messages) /\ Elements(new) \subseteq {"InputReady", "ClientConnected"}
    BY <1>6, Few DEF Messages, StreamEvents
  <2>3. Post(Tail(events), client', new)
    BY <1>6 DEF Handled
  <2> QED
    BY <1>1, <1>3, <1>4, <1>5, <1>6, <2>1, <2>2, <2>3, GoingOn
<1>7. CASE Fault(client.stream) /\ Handled(CleanupConnection(client), <<"ClientFailed">>)
  <2>1. /\ client' \in ClientStates /\ client'.stream = None /\ client'.proxy = "none"
        /\ ~client'.timer /\ client'.resolved = client.resolved /\ ~client'.suspended
        /\ Post(Tail(events), client', <<"ClientFailed">>) /\ faults' \in 0 .. MaxFaults
    BY <1>3, <1>7, Cleaned, Misfortune DEF Handled
  <2> QED
    BY <1>3, <1>4, <1>5, <2>1, Telling, GivingUp DEF IInv, Consistent, TypeOK, Lost
<1> QED
  BY <1>6, <1>7 DEF HandleHello

(* A batch of messages, after which the connection goes on or ends.         *)
LEMMA HandleDataStep ==
    ASSUME IInv, NEW completes \in BOOLEAN, NEW end \in DOMAIN Ends, HandleData(completes, end)
    PROVE  IInv'
<1> DEFINE c == IF completes THEN Completed(client) ELSE client
<1> DEFINE posted == IF completes THEN <<"ClientConnected">> ELSE <<>>
<1> DEFINE enabled == screen.enabled \/ completes
<1>1. /\ First("InputReady") /\ client.proxy # "none"
      /\ completes => client.proxy = "handshake"
      /\ UNCHANGED <<app, asleep>>
  BY DEF HandleData
<1>2. "InputReady" \in StreamEvents
  BY DEF StreamEvents
<1>3. /\ client \in ClientStates /\ Tail(events) \in Seq(Messages) /\ ~client.suspended
      /\ client.stream \in Stream /\ Elements(Tail(events)) \subseteq Queued
      /\ client.stream # None /\ client.stream.state = "hello" /\ ~client.timer
  BY <1>1, <1>2, OfStream, Handling DEF IInv, Consistent, StreamOK, TimerWhileConnecting
<1>4. /\ c \in ClientStates /\ c.stream = client.stream /\ c.proxy # "none" /\ ~c.timer
      /\ c.resolved = client.resolved /\ c.suspended = client.suspended
      /\ enabled <=> c.ready /\ c.proxy = "running"
  <2>1. CASE completes
    BY <1>3, <2>1 DEF Completed, ClientStates
  <2>2. CASE ~completes
    BY <1>1, <1>3, <2>2 DEF IInv, Consistent, EnabledWhileReady
  <2> QED
    BY <2>1, <2>2
<1>5. posted \in Seq(Messages) /\ Elements(posted) \subseteq {"InputReady", "ClientConnected"}
  <2>1. /\ <<>> \in Seq(Messages) /\ Elements(<<>>) = {} /\ <<"ClientConnected">> \in Seq(Messages)
        /\ Elements(<<"ClientConnected">>) = {"ClientConnected"}
    BY Few DEF Messages, ClientEvents
  <2> QED
    BY <2>1
<1>6. screen \in [open : BOOLEAN, enabled : BOOLEAN] /\ enabled \in BOOLEAN
  BY DEF IInv, Consistent, TypeOK
<1> HIDE DEF c, posted, enabled
<1>7. CASE end = "stay"
  <2>1. /\ client' = c /\ Post(Tail(events), client', posted)
        /\ screen' = [screen EXCEPT !.enabled = enabled]
        /\ UNCHANGED <<lookups, faults>>
    BY <1>7 DEF HandleData, Handled, c, posted, enabled
  <2>2. screen' \in [open : BOOLEAN, enabled : BOOLEAN] /\ screen'.enabled = enabled
    BY <1>6, <2>1
  <2> QED
    BY <1>1, <1>3, <1>4, <1>5, <2>1, <2>2, GoingOn
<1>8. CASE end # "stay"
  <2>1. /\ client' = Cleanup(c) /\ Post(Tail(events), client', posted \o Ends[end])
        /\ screen' = [screen EXCEPT !.enabled = enabled /\ ~c.ready]
        /\ lookups' = Stale(lookups)
        /\ Counted \/ Fault(client.stream)
    BY <1>8 DEF HandleData, Handled, c, posted, enabled
  <2>2. screen' \in [open : BOOLEAN, enabled : {FALSE}]
    BY <1>4, <1>6, <2>1
  <2>3. faults' \in 0 .. MaxFaults
    BY <2>1, Misfortune
  <2>4. /\ client' \in ClientStates /\ client'.stream = None /\ client'.proxy = "none"
        /\ ~client'.timer /\ client'.resolved = client.resolved
    BY <1>4, <2>1, Cleaned
  <2>5. /\ Ends[end] \in Seq(Messages) /\ Elements(Ends[end]) \cap Lost # {}
        /\ Elements(Ends[end]) \cap StreamEvents = {}
    <3>1. \E e \in Lost : Ends[end] = <<e>>
      BY <1>8 DEF Ends, Lost
    <3> QED
      BY <3>1, Telling
  <2>6. Elements(posted) \cap StreamEvents = {}
    BY Few DEF Messages, ClientEvents, StreamEvents, posted
  <2>7. /\ posted \o Ends[end] \in Seq(Messages)
        /\ Elements(posted \o Ends[end]) = Elements(posted) \cup Elements(Ends[end])
    BY <1>5, <2>5, Joined
  <2>8. /\ Elements(posted \o Ends[end]) \cap Lost # {}
        /\ Elements(posted \o Ends[end]) \cap StreamEvents = {}
    BY <2>5, <2>6, <2>7
  <2> HIDE DEF Ends
  <2> QED
    BY <1>1, <1>3, <2>1, <2>2, <2>3, <2>4, <2>7, <2>8, StaleIs, GivingUp
<1> QED
  BY <1>7, <1>8

(***************************************************************************)
(* Suspend, resume and the application                                      *)
(***************************************************************************)
(* An event that changes nothing is handled (Handled with nothing new).     *)
LEMMA Passed ==
    ASSUME IInv, NEW type, First(type), Post(Tail(events), client, <<>>)
    PROVE  /\ events' \in Seq(Messages) /\ Queued' \cap StreamEvents \subseteq Queued
           /\ \A e \in Queued \ StreamEvents : e = type \/ e \in Queued'
<1>1. Tail(events) \in Seq(Messages) /\ Queued = Elements(Tail(events)) \cup {type}
  BY Handling
<1>2. <<>> \in Seq(Messages) /\ Elements(<<>>) = {}
  BY Few
<1>3. /\ events' \in Seq(Messages)
      /\ Queued' \subseteq Elements(Tail(events)) \cup Elements(<<>>) \cup {Unhandled}
      /\ Elements(Tail(events)) \ StreamEvents \subseteq Queued'
  BY <1>1, <1>2, Posting
<1>4. Unhandled \notin StreamEvents
  BY DEF Unhandled, StreamEvents
<1> QED
  BY <1>1, <1>2, <1>3, <1>4

(* Events nobody handles.                                                   *)
LEMMA IgnoredStep == ASSUME IInv, Ignored PROVE IInv'
<1>1. PICK type \in StreamEvents \cup {Unhandled} : First(type)
  BY DEF Ignored
<1>2. type \notin Lost
  BY DEF StreamEvents, Unhandled, Lost
<1>3. UNCHANGED <<client, app, screen, lookups, asleep, faults>> /\ Post(Tail(events), client, <<>>)
  BY DEF Ignored, Handled
<1>4. /\ events' \in Seq(Messages) /\ Queued' \cap StreamEvents \subseteq Queued
      /\ \A e \in Queued \ StreamEvents : e = type \/ e \in Queued'
  BY <1>1, <1>3, Passed
<1>5. Lost \cap StreamEvents = {}
  BY DEF StreamEvents, Lost
<1>6. Attempt'
  BY <1>2, <1>3, <1>4, <1>5 DEF IInv, Attempt
<1> QED
  BY <1>3, <1>4, <1>6, ClientKept DEF IInv, Consistent, TypeOK, NoLookupWhileSuspended

(* The application notes that something happened to its client.             *)
LEMMA AppStep == ASSUME IInv, HandleClientConnected \/ HandleClientFailed \/ HandleClientLost PROVE IInv'
<1>1. UNCHANGED <<client, screen, lookups, asleep, faults>> /\ Post(Tail(events), client, <<>>)
  BY DEF HandleClientConnected, HandleClientFailed, HandleClientLost, Handled
<1>2. PICK type \in ClientEvents : First(type) /\ (type = "ClientConnected" \/ ~HandleClientConnected)
  BY DEF HandleClientConnected, HandleClientFailed, HandleClientLost, ClientEvents
<1>3. /\ events' \in Seq(Messages) /\ Queued' \cap StreamEvents \subseteq Queued
      /\ \A e \in Queued \ StreamEvents : e = type \/ e \in Queued'
  BY <1>1, <1>2, Passed
<1>4. /\ app \in [server : Servers, address : Addresses, restarts : Nat]
      /\ NumServers \in Nat \ {0} /\ app.server \in Nat
  BY Parameters DEF IInv, Consistent, TypeOK, Servers
<1>5. 0 \in Servers /\ NextServer(app.server) \in Servers /\ 0 \in Addresses
  <2>1. 0 \in Servers /\ NextServer(app.server) \in Servers
    BY <1>4 DEF Servers, NextServer
  <2>2. 0 \in 0 .. AddressCount[0] - 1
    BY <2>1, Parameters
  <2> QED
    BY <2>1, <2>2 DEF Addresses
<1>6. ASSUME MoreAddresses(app.address) PROVE app.address + 1 \in Addresses
  <2>1. app.address \in Nat
    BY <1>4, Parameters DEF Addresses
  <2>2. PICK s \in Servers : client.resolved = AddressCount[s]
    BY <1>6, <2>1 DEF MoreAddresses, IInv, ResolvedOK
  <2>3. app.address + 1 \in 0 .. AddressCount[s] - 1
    BY <1>6, <2>1, <2>2, Parameters DEF MoreAddresses
  <2> QED
    BY <2>3 DEF Addresses
<1>7. app' \in [server : Servers, address : Addresses, restarts : Nat]
  <2>1. CASE HandleClientConnected
    BY <1>4, <1>5, <2>1 DEF HandleClientConnected
  <2>2. CASE HandleClientFailed
    <3>1. CASE MoreAddresses(app.address)
      <4>1. app' = [app EXCEPT !.address = @ + 1, !.restarts = @ + 1]
        BY <2>2, <3>1 DEF HandleClientFailed
      <4> QED
        <5>1. app.address \in Nat /\ app.address + 1 \in Addresses /\ app.restarts + 1 \in Nat
          BY <1>4, <1>6, <3>1, Parameters DEF Addresses
        <5>2. app' = [app EXCEPT !.address = app.address + 1, !.restarts = app.restarts + 1]
          BY <4>1
        <5> QED
          BY <1>4, <5>1, <5>2
    <3>2. CASE ~MoreAddresses(app.address)
      BY <1>4, <1>5, <2>2, <3>2 DEF HandleClientFailed
    <3> QED
      BY <3>1, <3>2
  <2>3. CASE HandleClientLost
    BY <1>4, <2>3 DEF HandleClientLost
  <2> QED
    BY <2>1, <2>2, <2>3
<1>8. Attempt'
  <2>1. CASE HandleClientConnected
    <3>1. Lost \cap StreamEvents = {} /\ type \notin Lost
      BY <1>2, <2>1 DEF StreamEvents, Lost, HandleClientConnected, First
    <3>2. app'.restarts = app.restarts
      BY <1>4, <2>1 DEF HandleClientConnected
    <3> QED
      BY <1>1, <1>3, <3>1, <3>2 DEF IInv, Attempt
  <2>2. CASE HandleClientFailed \/ HandleClientLost
    <3>1. app'.restarts > 0
      <4>1. app'.restarts = app.restarts + 1
        <5>1. CASE HandleClientFailed /\ MoreAddresses(app.address)
          <6>1. app' = [app EXCEPT !.address = @ + 1, !.restarts = @ + 1]
            BY <5>1 DEF HandleClientFailed
          <6> QED
            BY <1>4, <6>1
        <5>2. CASE HandleClientFailed /\ ~MoreAddresses(app.address)
          BY <1>4, <5>2 DEF HandleClientFailed
        <5>3. CASE HandleClientLost
          BY <1>4, <5>3 DEF HandleClientLost
        <5> QED
          BY <2>2, <5>1, <5>2, <5>3
      <4> QED
        BY <1>4, <4>1
    <3> QED
      BY <3>1 DEF Attempt
  <2> QED
    BY <2>1, <2>2
<1> QED
  BY <1>1, <1>3, <1>7, <1>8, ClientKept DEF IInv, Consistent, TypeOK, NoLookupWhileSuspended

(* The client is told to connect: it is connected, will be when it is        *)
(* resumed, or looks the address up.                                        *)
LEMMA Connecting ==
    ASSUME IInv, NEW c \in ClientStates, NEW i \in Addresses, Connect(c, i),
           c.stream = client.stream, c.proxy = client.proxy, c.timer = client.timer,
           c.ready = client.ready, c.resolved = client.resolved, c.suspended => client.suspended,
           app' \in [server : Servers, address : Addresses, restarts : Nat],
           screen' \in [open : BOOLEAN, enabled : BOOLEAN], screen'.enabled = screen.enabled,
           asleep' = asleep, faults' \in 0 .. MaxFaults,
           events' \in Seq(Messages), Queued' \cap StreamEvents \subseteq Queued
    PROVE  IInv'
<1>1. /\ client' \in ClientStates
      /\ client'.stream = client.stream /\ client'.proxy = client.proxy /\ client'.timer = client.timer
      /\ client'.ready = client.ready /\ client'.resolved = client.resolved
      /\ client'.suspended => client.suspended
  BY DEF Connect, ConnectSuspended, ClientStates
<1>2. lookups' \subseteq [server : Servers, address : Addresses, current : BOOLEAN]
  <2>1. c.server \in Servers
    BY DEF ClientStates
  <2>2. lookups \subseteq [server : Servers, address : Addresses, current : BOOLEAN]
    BY DEF IInv, Consistent, TypeOK
  <2> QED
    <3>1. [server |-> c.server, address |-> i, current |-> TRUE]
              \in [server : Servers, address : Addresses, current : BOOLEAN]
      BY <2>1
    <3> QED
      BY <2>2, <3>1, StaleIs DEF Connect
<1>3. client'.suspended => \A l \in lookups' : ~l.current
  BY DEF Connect, ConnectSuspended, ClientStates, IInv, Consistent, NoLookupWhileSuspended, NoneWhileSuspended
<1>4. Attempt'
  <2>1. CASE c.stream # None
    BY <1>1, <2>1 DEF IInv, Consistent, TimerWhileConnecting, Attempt
  <2>2. CASE c.stream = None /\ c.suspended
    BY <2>2 DEF Connect, ConnectSuspended, ClientStates, Attempt
  <2>3. CASE c.stream = None /\ ~c.suspended
    <3>1. [server |-> c.server, address |-> i, current |-> TRUE] \in lookups'
      BY <2>3 DEF Connect
    <3> QED
      BY <3>1 DEF Attempt
  <2> QED
    BY <2>1, <2>2, <2>3
<1>5. TypeOK'
  BY <1>1, <1>2 DEF IInv, Consistent, TypeOK, ClientStates, Messages
<1>6. TimerWhileConnecting' /\ EnabledWhileReady' /\ NoneWhileSuspended'
  BY <1>1 DEF IInv, Consistent, TimerWhileConnecting, EnabledWhileReady, NoneWhileSuspended
<1>7. StreamOK'
  BY <1>1 DEF IInv, StreamOK, StreamEvents
<1> QED
  BY <1>1, <1>3, <1>4, <1>5, <1>6, <1>7 DEF IInv, Consistent, ResolvedOK, NoLookupWhileSuspended

(* Restart timers, and the start.                                           *)
LEMMA StartClientStep == ASSUME IInv, StartNode \/ HandleClientRestart PROVE IInv'
<1>1. PICK n \in Nat : StartClient(n)
  <2>1. app.restarts \in Nat
    BY DEF IInv, Consistent, TypeOK
  <2> QED
    BY <2>1 DEF StartNode, HandleClientRestart
<1>2. UNCHANGED <<events, asleep>>
  BY DEF StartNode, HandleClientRestart
<1>3. /\ events' \in Seq(Messages) /\ Queued' = Queued /\ client \in ClientStates
      /\ app \in [server : Servers, address : Addresses, restarts : Nat]
      /\ screen \in [open : BOOLEAN, enabled : BOOLEAN] /\ faults \in 0 .. MaxFaults
  BY <1>2, ScreenOff DEF Queued, IInv, Consistent, TypeOK
<1>4. CASE /\ screen' = [screen EXCEPT !.open = TRUE] /\ app' = [app EXCEPT !.restarts = n]
           /\ Connect([client EXCEPT !.server = app.server], app.address) /\ UNCHANGED faults
  <2> DEFINE c == [client EXCEPT !.server = app.server]
  <2>1. /\ c \in ClientStates /\ c.stream = client.stream /\ c.proxy = client.proxy
        /\ c.timer = client.timer /\ c.ready = client.ready /\ c.resolved = client.resolved
        /\ c.suspended = client.suspended
    BY <1>3 DEF ClientStates
  <2>2. /\ screen' \in [open : BOOLEAN, enabled : BOOLEAN] /\ screen'.enabled = screen.enabled
        /\ app' \in [server : Servers, address : Addresses, restarts : Nat]
        /\ app.address \in Addresses /\ Connect(c, app.address)
    BY <1>3, <1>4
  <2> HIDE DEF c
  <2> QED
    BY <1>2, <1>3, <1>4, <2>1, <2>2, Connecting
<1>5. CASE /\ ~screen.open /\ Counted /\ app' = [app EXCEPT !.restarts = n + 1]
           /\ UNCHANGED <<client, screen, lookups>>
  <2>1. app' \in [server : Servers, address : Addresses, restarts : Nat]
    BY <1>3, <1>5
  <2>2. faults' \in 0 .. MaxFaults
    BY <1>5, Misfortune
  <2>3. Attempt'
    BY <1>5 DEF Attempt
  <2> QED
    BY <1>2, <1>3, <1>5, <2>1, <2>2, <2>3, ClientKept DEF IInv, Consistent, TypeOK, NoLookupWhileSuspended
<1> QED
  BY <1>1, <1>4, <1>5 DEF StartClient

(* The computer goes to sleep: the connection is given up.                  *)
LEMMA HandleSuspendStep == ASSUME IInv, HandleSuspend PROVE IInv'
<1>1. First("ScreenSuspend") /\ UNCHANGED <<app, asleep, faults>>
  BY DEF HandleSuspend
<1>2. client \in ClientStates /\ Tail(events) \in Seq(Messages)
  BY <1>1, Handling, ScreenOff
<1>3. CASE client.suspended
  <2>1. UNCHANGED <<client, screen, lookups>> /\ Post(Tail(events), client, <<>>)
    BY <1>3 DEF HandleSuspend, Handled
  <2>2. /\ events' \in Seq(Messages) /\ Queued' \cap StreamEvents \subseteq Queued
        /\ \A e \in Queued \ StreamEvents : e = "ScreenSuspend" \/ e \in Queued'
    BY <1>1, <2>1, Passed
  <2>3. Lost \cap (StreamEvents \cup {"ScreenSuspend"}) = {}
    BY DEF StreamEvents, Lost
  <2>4. Attempt'
    BY <1>1, <2>1, <2>2, <2>3 DEF IInv, Attempt
  <2> QED
    BY <1>1, <2>1, <2>2, <2>4, ClientKept DEF IInv, Consistent, TypeOK, NoLookupWhileSuspended
<1>4. CASE ~client.suspended
  <2> DEFINE c == [Cleanup(client) EXCEPT !.suspended = TRUE, !.connectOnResume = client.proxy # "none"]
  <2>1. /\ client' = c /\ Post(Tail(events), client', <<"ClientDisconnected">>)
        /\ Disabled(client) /\ lookups' = Stale(lookups)
    BY <1>4 DEF HandleSuspend, Handled
  <2>2. /\ client' \in ClientStates /\ client'.stream = None /\ client'.proxy = "none"
        /\ ~client'.timer /\ client'.resolved = client.resolved
    <3>1. PICK d \in ClientStates : /\ d = Cleanup(client) /\ d.stream = None /\ d.proxy = "none"
                                    /\ ~d.timer /\ d.resolved = client.resolved
      BY <1>2, Cleaned
    <3>2. client' = [d EXCEPT !.suspended = TRUE, !.connectOnResume = client.proxy # "none"]
      BY <2>1, <3>1
    <3> QED
      BY <3>1, <3>2 DEF ClientStates
  <2>3. screen' \in [open : BOOLEAN, enabled : {FALSE}]
    BY <2>1, ScreenOff
  <2> HIDE DEF c
  <2> QED
    BY <1>1, <1>2, <2>1, <2>2, <2>3, StaleIs, Telling, GivingUp DEF IInv, Consistent, TypeOK, Lost
<1> QED
  BY <1>3, <1>4

(* It wakes up: the client connects again if it was told to.                *)
LEMMA HandleResumeStep == ASSUME IInv, HandleResume PROVE IInv'
<1> DEFINE awake == [client EXCEPT !.suspended = FALSE]
<1> DEFINE c == [awake EXCEPT !.connectOnResume = FALSE]
<1>1. /\ First("ScreenResume") /\ UNCHANGED <<app, screen, asleep, faults>>
      /\ Post(Tail(events), client, <<>>)
  BY DEF HandleResume
<1>2. /\ events' \in Seq(Messages) /\ Queued' \cap StreamEvents \subseteq Queued
      /\ \A e \in Queued \ StreamEvents : e = "ScreenResume" \/ e \in Queued'
  BY <1>1, Passed
<1>3. /\ client \in ClientStates /\ screen \in [open : BOOLEAN, enabled : BOOLEAN]
      /\ app \in [server : Servers, address : Addresses, restarts : Nat] /\ faults \in 0 .. MaxFaults
  BY ScreenOff DEF IInv, Consistent, TypeOK
<1>4. /\ awake \in ClientStates /\ awake.stream = client.stream /\ awake.proxy = client.proxy
      /\ awake.timer = client.timer /\ awake.ready = client.ready /\ awake.resolved = client.resolved
      /\ ~awake.suspended /\ awake.connectOnResume = client.connectOnResume
  BY <1>3 DEF ClientStates
<1>5. CASE client.suspended /\ client.connectOnResume
  <2>1. Connect(c, 0) /\ 0 \in Addresses
    <3>1. 0 \in Servers
      BY Parameters DEF Servers
    <3>2. 0 \in 0 .. AddressCount[0] - 1
      BY <3>1, Parameters
    <3> QED
      BY <1>5, <3>1, <3>2 DEF HandleResume, Addresses
  <2>2. /\ c \in ClientStates /\ c.stream = client.stream /\ c.proxy = client.proxy
        /\ c.timer = client.timer /\ c.ready = client.ready /\ c.resolved = client.resolved
        /\ ~c.suspended
    BY <1>4 DEF ClientStates
  <2> HIDE DEF c
  <2> QED
    BY <1>1, <1>2, <1>3, <2>1, <2>2, Connecting
<1>6. CASE ~(client.suspended /\ client.connectOnResume)
  <2>1. client' = awake /\ UNCHANGED lookups
    BY <1>6 DEF HandleResume
  <2> HIDE DEF awake
  <2>2. TypeOK'
    BY <1>1, <1>2, <1>4, <2>1 DEF IInv, Consistent, TypeOK, ClientStates, Messages
  <2>3. TimerWhileConnecting' /\ EnabledWhileReady' /\ NoneWhileSuspended'
    BY <1>1, <1>4, <2>1 DEF IInv, Consistent, TimerWhileConnecting, EnabledWhileReady, NoneWhileSuspended
  <2>4. StreamOK'
    BY <1>2, <1>4, <2>1 DEF IInv, StreamOK, StreamEvents
  <2>5. Lost \cap (StreamEvents \cup {"ScreenResume"}) = {}
    BY DEF StreamEvents, Lost
  <2>6. Attempt'
    BY <1>1, <1>2, <1>4, <1>6, <2>1, <2>5 DEF IInv, Attempt
  <2> QED
    BY <1>4, <2>1, <2>2, <2>3, <2>4, <2>6 DEF IInv, Consistent, ResolvedOK, NoLookupWhileSuspended
<1> QED
  BY <1>5, <1>6

(***************************************************************************)
(* The socket and the computer                                              *)
(***************************************************************************)
(* The network does something to the connection: what it says comes after   *)
(* what was said before.                                                    *)
LEMMA SocketStep ==
    ASSUME IInv, NEW from, NEW to \in {"up", "gone"}, NEW posted \in Seq(Messages),
           Socket(from, to, posted), faults' \in 0 .. MaxFaults,
           Elements(posted) \subseteq StreamEvents,
           \A e \in {"SocketConnected", "ConnectionFailed"} : e \in Elements(posted) => from = {"trying"},
           ~({"SocketConnected", "ConnectionFailed"} \subseteq Elements(posted))
    PROVE  IInv'
<1>1. /\ client.stream # None /\ client.stream \in Stream /\ client \in ClientStates
      /\ client.stream.net \in from /\ events \in Seq(Messages) /\ ~client.suspended
  BY ScreenOff DEF Socket, IInv, Consistent, TypeOK, NoneWhileSuspended
<1>2. UNCHANGED <<app, screen, lookups, asleep>>
  BY DEF Socket
<1>3. client' = [client EXCEPT !.stream.net = to] /\ events' = events \o posted
  BY DEF Socket
<1>4. [client.stream EXCEPT !.net = to] \in Stream
  BY <1>1 DEF Stream
<1>5. /\ client' \in ClientStates /\ client'.stream = [client.stream EXCEPT !.net = to]
      /\ client'.timer = client.timer /\ client'.proxy = client.proxy /\ client'.ready = client.ready
      /\ client'.suspended = client.suspended /\ client'.resolved = client.resolved
      /\ client'.connectOnResume = client.connectOnResume
  BY <1>1, <1>3, <1>4 DEF ClientStates
<1>6. /\ client'.stream \in Stream /\ client'.stream # None
      /\ client'.stream.state = client.stream.state /\ client'.stream.net = to
  BY <1>1, <1>4, <1>5, NoStream DEF Stream
<1>7. events' \in Seq(Messages) /\ Queued' = Queued \cup Elements(posted)
  BY <1>1, <1>3, Joined DEF Queued
<1>8. TypeOK'
  BY <1>2, <1>5, <1>7 DEF IInv, Consistent, TypeOK, ClientStates, Messages
<1>9. TimerWhileConnecting' /\ EnabledWhileReady' /\ NoneWhileSuspended'
  BY <1>1, <1>2, <1>5, <1>6 DEF IInv, Consistent, TimerWhileConnecting, EnabledWhileReady, NoneWhileSuspended
<1>10. StreamOK'
  <2>1. to # "trying"
    OBVIOUS
  <2>2. "ConnectionFailed" \in Queued' =>
            client.stream.state = "connecting" /\ "SocketConnected" \notin Queued'
    <3>1. CASE client.stream.net = "trying"
      BY <1>7, <3>1 DEF IInv, StreamOK
    <3>2. CASE client.stream.net # "trying"
      <4>1. "SocketConnected" \notin Elements(posted) /\ "ConnectionFailed" \notin Elements(posted)
        BY <1>1, <3>2
      <4> QED
        BY <1>7, <4>1 DEF IInv, StreamOK
    <3> QED
      BY <3>1, <3>2
  <2> QED
    BY <1>1, <1>5, <1>6, <2>1, <2>2 DEF IInv, StreamOK
<1>11. Attempt'
  BY <1>2, <1>5, <1>7 DEF IInv, Attempt
<1> QED
  BY <1>2, <1>5, <1>8, <1>9, <1>10, <1>11 DEF IInv, Consistent, ResolvedOK, NoLookupWhileSuspended

(* What the network can do.                                                 *)
LEMMA NetworkStep == ASSUME IInv, Network PROVE IInv'
<1>1. StreamEvents \subseteq Messages
  BY DEF Messages
<1>2. /\ \A e \in StreamEvents : <<e>> \in Seq(Messages) /\ Elements(<<e>>) = {e}
      /\ <<"InputShutdown", "SocketDisconnected">> \in Seq(Messages)
      /\ Elements(<<"InputShutdown", "SocketDisconnected">>) = {"InputShutdown", "SocketDisconnected"}
      /\ {"InputShutdown", "SocketDisconnected"} \subseteq StreamEvents
  BY <1>1, Few DEF StreamEvents
<1>3. CASE SocketConnects
  <2>1. "SocketConnected" \in StreamEvents
    BY DEF StreamEvents
  <2> QED
    <3>1. Socket({"trying"}, "up", <<"SocketConnected">>) /\ faults' \in 0 .. MaxFaults
      BY <1>3, Misfortune DEF SocketConnects
    <3>2. /\ <<"SocketConnected">> \in Seq(Messages) /\ Elements(<<"SocketConnected">>) = {"SocketConnected"}
          /\ ~({"SocketConnected", "ConnectionFailed"} \subseteq {"SocketConnected"})
      BY <1>2, <2>1
    <3> QED
      BY <2>1, <3>1, <3>2, SocketStep
<1>4. CASE SocketFails
  <2>1. "ConnectionFailed" \in StreamEvents
    BY DEF StreamEvents
  <2> QED
    <3>1. Socket({"trying"}, "gone", <<"ConnectionFailed">>) /\ faults' \in 0 .. MaxFaults
      BY <1>4, Misfortune DEF SocketFails
    <3>2. /\ <<"ConnectionFailed">> \in Seq(Messages) /\ Elements(<<"ConnectionFailed">>) = {"ConnectionFailed"}
          /\ ~({"SocketConnected", "ConnectionFailed"} \subseteq {"ConnectionFailed"})
      BY <1>2, <2>1
    <3> QED
      BY <2>1, <3>1, <3>2, SocketStep
<1>5. CASE SocketCloses
  <2> DEFINE posted == <<"InputShutdown", "SocketDisconnected">>
  <2>1. Socket({"trying", "up"}, "gone", posted) /\ faults' \in 0 .. MaxFaults
    BY <1>5, Misfortune DEF SocketCloses
  <2>2. /\ posted \in Seq(Messages) /\ Elements(posted) \subseteq StreamEvents
        /\ "SocketConnected" \notin Elements(posted) /\ "ConnectionFailed" \notin Elements(posted)
    BY <1>2
  <2> HIDE DEF posted
  <2> QED
    BY <2>1, <2>2, SocketStep
<1>6. CASE SocketErrs
  <2>1. "OutputError" \in StreamEvents
    BY DEF StreamEvents
  <2> QED
    BY <1>2, <1>6, <2>1, Misfortune, SocketStep, ZenonT(30) DEF SocketErrs
<1>7. CASE ServerSends
  <2>1. "InputReady" \in StreamEvents
    BY DEF StreamEvents
  <2> QED
    BY <1>2, <1>7, <2>1, Misfortune, SocketStep, ZenonT(30) DEF ServerSends
<1> QED
  BY <1>3, <1>4, <1>5, <1>6, <1>7 DEF Network

(* The computer goes to sleep or wakes up: the client will be told.         *)
LEMMA PowerStep == ASSUME IInv, Sleep \/ Wake PROVE IInv'
<1>1. /\ UNCHANGED <<app, client, screen, lookups>> /\ events \in Seq(Messages)
      /\ asleep' \in BOOLEAN
  BY ScreenOff DEF Sleep, Wake
<1>2. faults' \in 0 .. MaxFaults
  BY Misfortune DEF Sleep, Wake
<1>3. PICK e \in {"ScreenSuspend", "ScreenResume"} : events' = Append(events, e)
  BY DEF Sleep, Wake
<1>4. <<e>> \in Seq(Messages) /\ Elements(<<e>>) = {e} /\ e \notin StreamEvents
  BY Few DEF Messages, StreamEvents
<1>5. events' = events \o <<e>>
  BY <1>1, <1>3, <1>4, AppendIsConcat
<1>6. events' \in Seq(Messages) /\ Queued' = Queued \cup {e}
  BY <1>1, <1>4, <1>5, Joined DEF Queued
<1>7. TypeOK'
  BY <1>1, <1>2, <1>6 DEF IInv, Consistent, TypeOK, Messages
<1>8. TimerWhileConnecting' /\ EnabledWhileReady' /\ NoneWhileSuspended'
  BY <1>1 DEF IInv, Consistent, TimerWhileConnecting, EnabledWhileReady, NoneWhileSuspended
<1>9. StreamOK'
  BY <1>1, <1>3, <1>4, <1>6 DEF IInv, StreamOK
<1>10. Attempt'
  BY <1>1, <1>6 DEF IInv, Attempt
<1> QED
  BY <1>1, <1>7, <1>8, <1>9, <1>10 DEF IInv, Consistent, ResolvedOK, NoLookupWhileSuspended

(***************************************************************************)
(* The theorems                                                             *)
(***************************************************************************)
(* Nothing happens.                                                         *)
LEMMA Stuttering == ASSUME IInv, UNCHANGED vars PROVE IInv'
<1> USE DEF vars
<1>1. Consistent'
  BY DEF IInv, Consistent, TypeOK, TimerWhileConnecting, EnabledWhileReady, NoneWhileSuspended
<1> QED
  BY <1>1 DEF IInv, StreamOK, ResolvedOK, NoLookupWhileSuspended, Attempt, Queued

(* The invariant is inductive.                                              *)
LEMMA Invariance == Spec => []IInv
<1>1. IInv /\ [Next]_vars => IInv'
  <2> SUFFICES ASSUME IInv, [Next]_vars PROVE IInv'
    OBVIOUS
  <2>1. CASE StartNode \/ HandleClientRestart
    BY <2>1, StartClientStep
  <2>2. CASE Dispatch
    BY <2>2, HandleConnectedStep, HandleConnectionFailedStep, HandleHelloStep, HandleDisconnectedStep,
       IgnoredStep, HandleDataStep, HandleSuspendStep, HandleResumeStep, AppStep
    DEF Dispatch
  <2>3. CASE Timers
    BY <2>3, HandleConnectTimeoutStep, KeepAliveAlarmStep DEF Timers
  <2>4. CASE Answer
    BY <2>4, LookupDroppedStep, LookupFailsStep, ContinueConnectStep DEF Answer
  <2>5. CASE Network
    BY <2>5, NetworkStep
  <2>6. CASE Sleep \/ Wake
    BY <2>6, PowerStep
  <2>7. CASE UNCHANGED vars
    BY <2>7, Stuttering
  <2> QED
    BY <2>1, <2>2, <2>3, <2>4, <2>5, <2>6, <2>7 DEF Next
<1> QED
  BY Starting, <1>1, PTL DEF Spec

(* For any servers, addresses and faults: the timer runs exactly while a     *)
(* connection is being made, the screen is enabled exactly while a proxy has *)
(* completed its handshake, and a suspended client has no connection         *)
(* (Client::setupTimer, setupScreen, cleanupScreen, handleSuspend).         *)
THEOREM PartsAgree == Spec => []Consistent
<1>1. IInv => Consistent
  BY DEF IInv
<1> QED
  BY Invariance, <1>1, PTL

(* For any servers, addresses and faults: whatever is lost, refused, timed   *)
(* out or suspended, something that leads to the next attempt is always      *)
(* there (ClientApp::handleClientFailed, scheduleClientRestart,             *)
(* Client::handleResume).                                                   *)
THEOREM AlwaysAttempting == Spec => []NeverStranded
<1>1. IInv => NeverStranded
  BY DEF IInv, Attempt, NeverStranded, Queued, Elements, Lost
<1> QED
  BY Invariance, <1>1, PTL

(***************************************************************************)
(* KeyState                                                                 *)
(***************************************************************************)
CountedKeys ==
    /\ DOMAIN serverKeys = ServerButtons
    /\ synthetic \in [Buttons -> Int]

(* A count that goes up or down is a count, also for a button that is none. *)
LEMMA CountMoves ==
    ASSUME NEW keys \in [Buttons -> Int], NEW b
    PROVE  [keys EXCEPT ![b] = @ + 1] \in [Buttons -> Int] /\ [keys EXCEPT ![b] = @ - 1] \in [Buttons -> Int]
<1>1. \A c \in Buttons : keys[c] \in Int /\ keys[c] + 1 \in Int /\ keys[c] - 1 \in Int
  OBVIOUS
<1>2. /\ [keys EXCEPT ![b] = @ + 1] = [c \in Buttons |-> IF c = b THEN keys[c] + 1 ELSE keys[c]]
      /\ [keys EXCEPT ![b] = @ - 1] = [c \in Buttons |-> IF c = b THEN keys[c] - 1 ELSE keys[c]]
  OBVIOUS
<1> QED
  BY <1>1, <1>2

(* A press or a repeat with the cursor here: whatever the mapping r is, only  *)
(* the server's button s is counted that was not before.                    *)
LEMMA Counting ==
    ASSUME CountedKeys, NEW s \in ServerButtons, NEW id, NEW desired,
           FakeKeyDown(id, desired, s) \/ FakeKeyRepeat(id, desired, s)
    PROVE  CountedKeys' /\ \A t \in ServerButtons \ {s} : serverKeys'[t] = serverKeys[t]
<1>1. ASSUME NEW keys \in [Buttons -> Int], NEW button, NEW old, NEW new
      PROVE  UpdateModifiers(keys, button, old, new) \in [Buttons -> Int]
  BY <1>1 DEF UpdateModifiers
<1>2. ASSUME NEW r, PressFor(s, r) PROVE CountedKeys' /\ \A t \in ServerButtons \ {s} : serverKeys'[t] = serverKeys[t]
  BY <1>1, <1>2, CountMoves DEF PressFor, CountedKeys
<1>3. ASSUME NEW r, RepeatFor(s, r) PROVE CountedKeys' /\ \A t \in ServerButtons \ {s} : serverKeys'[t] = serverKeys[t]
  <2>1. CASE r.item.button = serverKeys[s]
    BY <1>3, <2>1 DEF RepeatFor, CountedKeys
  <2>2. CASE r.item.button # serverKeys[s]
    <3>1. Freed(serverKeys[s]) \in [Buttons -> Int]
      BY CountMoves DEF Freed, CountedKeys
    <3>2. /\ synthetic' = [UpdateModifiers(Freed(serverKeys[s]), r.item.button, active, r.active)
                             EXCEPT ![r.item.button] = @ + 1]
          /\ serverKeys' = [serverKeys EXCEPT ![s] = r.item.button]
      BY <1>3, <2>2 DEF RepeatFor
    <3> QED
      BY <1>1, <3>1, <3>2, CountMoves DEF CountedKeys
  <2> QED
    BY <2>1, <2>2
<1>4. CASE Unchanged
  BY <1>4 DEF Unchanged, CountedKeys
<1>5. Unchanged \/ \E r : PressFor(s, r) \/ RepeatFor(s, r)
  BY DEF FakeKeyDown, PressMapped, FakeKeyRepeat, RepeatMapped
<1> QED
  BY <1>2, <1>3, <1>4, <1>5

LEMMA KeysAtFirst == KeyInit => CountedKeys /\ HeldForServer
  BY DEF KeyInit, CountedKeys, HeldForServer

LEMMA KeysKept == CountedKeys /\ HeldForServer /\ [KeyNext]_keyVars => CountedKeys' /\ HeldForServer'
<1> SUFFICES ASSUME CountedKeys, HeldForServer, [KeyNext]_keyVars PROVE CountedKeys' /\ HeldForServer'
  OBVIOUS
<1>1. ASSUME NEW s \in ServerButtons, ServerPress(s) PROVE CountedKeys' /\ HeldForServer'
  <2>1. here' = here /\ server'.held = server.held \cup {s}
    BY <1>1 DEF ServerPress, Hold
  <2>2. CASE here /\ FakeKeyDown(Id(s), ServerMask, s)
    BY <2>1, <2>2, Counting DEF HeldForServer
  <2>3. CASE Unchanged
    BY <2>1, <2>3 DEF Unchanged, CountedKeys, HeldForServer
  <2> QED
    BY <1>1, <2>2, <2>3 DEF ServerPress
<1>2. ASSUME NEW s \in ServerButtons, ServerRepeat(s) PROVE CountedKeys' /\ HeldForServer'
  <2>1. s \in server.held /\ here /\ here' = here /\ server' = server /\ FakeKeyRepeat(Id(s), ServerMask, s)
    BY <1>2 DEF ServerRepeat
  <2> QED
    BY <2>1, Counting DEF HeldForServer
<1>3. ASSUME NEW s \in ServerButtons, ServerRelease(s) PROVE CountedKeys' /\ HeldForServer'
  <2>1. here' = here /\ server'.held = server.held \ {s}
    BY <1>3 DEF ServerRelease
  <2>2. CASE serverKeys[s] = NoKey \/ ~here
    <3>1. Unchanged /\ serverKeys[s] = NoKey
      BY <1>3, <2>2 DEF ServerRelease, FakeKeyUp, HeldForServer
    <3> QED
      BY <2>1, <3>1 DEF Unchanged, CountedKeys, HeldForServer
  <2>3. CASE serverKeys[s] # NoKey /\ here
    <3>1. synthetic' = [synthetic EXCEPT ![serverKeys[s]] = @ - 1] /\ serverKeys' = [serverKeys EXCEPT ![s] = NoKey]
      BY <1>3, <2>3 DEF ServerRelease, FakeKeyUp, Freed
    <3>2. synthetic' \in [Buttons -> Int]
      BY <3>1, CountMoves DEF CountedKeys
    <3> QED
      BY <2>1, <2>3, <3>1, <3>2 DEF CountedKeys, HeldForServer
  <2> QED
    BY <2>2, <2>3
<1>4. CASE Enter
  BY <1>4 DEF Enter, Unchanged, CountedKeys, HeldForServer
<1>5. CASE Leave
  <2>1. /\ serverKeys' = [s \in ServerButtons |-> NoKey]
        /\ synthetic' = [b \in Buttons |-> IF synthetic[b] > 0 THEN 0 ELSE synthetic[b]]
    BY <1>5 DEF Leave, FakeAllKeysUp
  <2> QED
    BY <2>1 DEF CountedKeys, HeldForServer
<1>6. CASE Enable
  BY <1>6 DEF Enable, UpdateKeyState, CountedKeys, HeldForServer
<1>7. CASE UNCHANGED keyVars
  BY <1>7 DEF keyVars, CountedKeys, HeldForServer
<1> QED
  BY <1>1, <1>2, <1>3, <1>4, <1>5, <1>6, <1>7 DEF KeyNext

(* For any layouts and any number of keys: what the client has pressed for a *)
(* button of the server ends with that button, and all of it when the cursor *)
(* leaves, although presses may be dropped, releases come while the cursor   *)
(* is away, and a repeat may be mapped to another key than its press         *)
(* (KeyState::fakeKeyDown, fakeKeyRepeat, fakeKeyUp, fakeAllKeysUp).        *)
THEOREM KeysEnd == KeySpec => []HeldForServer
  BY KeysAtFirst, KeysKept, PTL DEF KeySpec
=============================================================================
