--------------------------- MODULE ServerScreens ---------------------------
(***************************************************************************)
(* The screens of a synergy server: which clients are connected, which     *)
(* screen has the cursor, and how the cursor moves between them             *)
(* (src/src/lib/server/Server.cpp).                                         *)
(*                                                                         *)
(* Every handler of Server runs to completion on the event thread, so each  *)
(* handler is one action.  Coordinates are abstracted to what the handlers  *)
(* decide with them: which edges of the active screen the cursor is at, and *)
(* which slot of an edge (the interval of a link) it is in.  The enter      *)
(* sequence number and the clipboards belong to Clipboard.tla.              *)
(***************************************************************************)
EXTENDS Naturals, FiniteSets

CONSTANTS
    NumNames,    \* screen names are 1..NumNames, in the order of std::map
    PrimaryName, \* the server's own canonical name
    Proxies,     \* addresses a ClientProxy object can have
    wireName,    \* [Proxies -> Names]: the name the peer sent in its hello
    Configs,     \* the configurations the user may load
    Slots,       \* intervals of an edge that a link can start from
    Primary,     \* the PrimaryClient
    None         \* nullptr

Names     == 1..NumNames
NoName    == 0
Dirs      == {"left", "right", "top", "bottom"}
NoDir     == "none"
Screens   == Proxies \cup {Primary}
OptValues == {"absent", "off", "on"}

(* A configuration: canonical names (screens and aliases), links, and the   *)
(* global options Server::processOptions looks at.                          *)
ConfigType ==
    [canon : [Names -> Names \cup {NoName}],
     link  : [Names -> [Dirs -> [Slots -> Names \cup {NoName}]]],
     wait : OptValues, tap : OptValues, noLock : OptValues, relative : OptValues]

(* Config::isScreen and Config::isCanonicalName. *)
IsScreen(c, n)    == c.canon[n] # NoName
IsCanonical(c, n) == c.canon[n] = n

ASSUME ConstantsAssumption ==
    /\ NumNames \in Nat
    /\ PrimaryName \in Names
    /\ wireName \in [Proxies -> Names]
    /\ Configs \subseteq ConfigType
    /\ Primary \notin Proxies
    /\ None \notin Proxies \cup {Primary}

VARIABLES
    config,      \* *m_config
    opts,        \* the option members processOptions assigns
    locked,      \* m_lockedToScreen
    clients,     \* m_clients, with None for a name that is not a key
    clientSet,   \* m_clientSet
    old,         \* keys of m_oldClients: closing, each with its 5 s timer
    active,      \* m_active
    activeSaver, \* m_activeSaver
    pending,     \* state of a delayed or double-tap switch
    entered,     \* screens told to enter and not yet told to leave
    saverLost    \* history: see Loses

vars == <<config, opts, locked, clients, clientSet, old, active, activeSaver,
          pending, entered, saverLost>>

(***************************************************************************)
(* Names, neighbours and options                                           *)
(***************************************************************************)

(* Server::getName: the canonical name, or the client's own name when the   *)
(* configuration does not know it.                                          *)
WireName(s)   == IF s = Primary THEN PrimaryName ELSE wireName[s]
NameIn(c, s)  == IF c.canon[WireName(s)] = NoName
                 THEN WireName(s) ELSE c.canon[WireName(s)]
Name(s)       == NameIn(config, s)

Connected(n)  == n \in Names /\ clients[n] # None

(* The names met when links are followed from n in direction d: the walk of *)
(* Server::getNeighbor over unconnected screens, continued by the loops of  *)
(* Server::mapToNeighbor over screens narrower than the motion.             *)
Walk(n, d, k) ==
    LET hop[i \in 0..NumNames] ==
          IF i = 0 THEN n
          ELSE IF hop[i-1] = NoName THEN NoName ELSE config.link[hop[i-1]][d][k]
    IN  [i \in 1..NumNames |-> hop[i]]

(* Where mapToNeighbor can land, and the one screen getNeighbor returns.    *)
Targets(n, d, k) ==
    LET walk == Walk(n, d, k)
    IN  {clients[m] : m \in {walk[i] : i \in 1..NumNames} \cap {m \in Names : Connected(m)}}

Neighbor(n, d, k) ==
    LET walk  == Walk(n, d, k)
        first == {i \in 1..NumNames : /\ Connected(walk[i])
                                       /\ \A j \in 1..(i-1) : ~Connected(walk[j])}
    IN  {clients[walk[i]] : i \in first}

(* An object that has not been deleted; using any other is undefined.       *)
Alive(s)  == s \in clientSet \cup old
MapAlive  == \A n \in Names : clients[n] # None => Alive(clients[n])

Opt(value, current) ==
    CASE value = "absent" -> current [] value = "on" -> TRUE [] value = "off" -> FALSE

(* Server::isLockedToScreen.                                                *)
IsLocked_Ignored(byPrimary) == FALSE
IsLocked(byPrimary) == ~opts.noLock /\ (locked \/ byPrimary)

(***************************************************************************)
(* Delayed and double-tap switching                                        *)
(***************************************************************************)

NoPending == [screen |-> None, dir |-> NoDir, tap |-> "off", wait |-> None]

(* wait is the screen whose coordinates m_switchWaitX/Y are while the timer *)
(* runs; tap is the pair m_switchTwoTapEngaged, m_switchTwoTapArmed.        *)
PendingType ==
    [screen : Screens \cup {None}, dir : Dirs \cup {NoDir},
     tap : {"off", "engaged", "armed"}, wait : Screens \cup {None}]

StopSwitchWait(p) == [p EXCEPT !.wait = None]
StopSwitch(p)     == IF p.screen = None THEN p ELSE NoPending

(* Server::noSwitch: the cursor is inside the screen.  slow: the double tap *)
(* has run out; away: it moved back out of the tap zone.                    *)
NoSwitch(p, slow, away) ==
    LET t == IF p.tap = "off" \/ slow THEN "off"
             ELSE IF away THEN "armed" ELSE p.tap
    IN  StopSwitchWait([p EXCEPT !.tap = t])

(* What a motion event finds: second tap in time, cursor in a locked        *)
(* corner, or the primary held: by a mouse button, or a modifier missing.   *)
Circumstances == [fast : BOOLEAN, corner : BOOLEAN, held : BOOLEAN]

(* Server::isSwitchOkay for the neighbour s (None: no neighbour) on side d. *)
SwitchAttempt(p, s, d, e) ==
    IF s = None THEN [ok |-> FALSE, p |-> StopSwitch(p)]
    ELSE
    LET newDir  == d # p.dir
        p1      == IF newDir \/ p.screen = None
                   THEN [p EXCEPT !.dir = d, !.screen = s] ELSE p
        allow   == opts.tap /\ ~newDir /\ p.tap = "armed" /\ e.fast
        first   == opts.tap /\ ~allow
        p2      == IF first THEN [p1 EXCEPT !.tap = "engaged"] ELSE p1
        delay   == opts.wait /\ ~allow
        p3      == IF delay /\ (newDir \/ p2.wait = None)
                   THEN [p2 EXCEPT !.wait = s] ELSE p2
        later   == first \/ delay
        refused == e.corner \/ (~later /\ (IsLocked(FALSE) \/ e.held))
    IN  [ok |-> ~later /\ ~refused, p |-> IF refused THEN StopSwitch(p3) ELSE p3]

(* Server::switchScreen.  Only the primary can refuse to be left            *)
(* (Screen::leave, IPlatformScreen::canLeave).                              *)
SwitchScreen(p, dst) ==
    /\ Alive(active) /\ Alive(dst)
    /\ pending' = StopSwitch(p)
    /\ \/ /\ dst = active \/ active = Primary
          /\ UNCHANGED <<active, entered>>
       \/ /\ dst # active
          /\ active' = dst
          /\ entered' = (entered \ {active}) \cup {dst}

(***************************************************************************)
(* Clients                                                                 *)
(***************************************************************************)

(* Server::addClient, after the name has been found free.                   *)
AddClient(p) ==
    /\ clients' = [clients EXCEPT ![Name(p)] = p]
    /\ clientSet' = clientSet \cup {p}

(* History: a client goes away while m_activeSaver is set although the      *)
(* cursor has since been switched to a secondary screen.                    *)
Loses(R) ==
    activeSaver # None /\ active # Primary /\ R \cap {active, activeSaver} # {}

(* Server::forceLeaveClient: the screen that has the cursor, or had it when *)
(* the screen saver started, is left without a message.                     *)
Leaving == IF activeSaver # None THEN activeSaver ELSE active

ActiveAfter(R) == IF Leaving \in R THEN Primary ELSE active

SaverAfter(R) == IF activeSaver \in R THEN None ELSE activeSaver

EnteredAfter_NoEnter(R) == entered \ R
EnteredAfter(R) ==
    (entered \ R) \cup IF Leaving \in R /\ activeSaver = None THEN {Primary} ELSE {}

(* The keys removeClient erases from m_clients: names in configuration c.   *)
KeysErased_None(R, c) == {}
KeysErased(R, c) == {NameIn(c, p) : p \in R \cap clientSet}

(* removeClient cancels a switch to a client it removes.                    *)
StopIfRemoved_Kept(R, p) == p
StopIfRemoved(R, p) == IF p.screen \in R THEN StopSwitch(p) ELSE p

(* Server::removeClient and forceLeaveClient for every client of R, their   *)
(* names looked up in c.  The order of the clients does not matter.         *)
RemoveClients(R, c) ==
    /\ clientSet' = clientSet \ R
    /\ clients' = [n \in Names |-> IF n \in KeysErased(R, c) THEN None ELSE clients[n]]
    /\ active' = ActiveAfter(R)
    /\ entered' = EnteredAfter(R)
    /\ activeSaver' = SaverAfter(R)
    /\ saverLost' = (saverLost \/ Loses(R))

(* Server::adoptClient, with ClientListener handing over a new proxy.       *)
AdoptClient(p) ==
    /\ ~Alive(p)
    /\ IF IsScreen(config, wireName[p]) /\ ~Connected(Name(p))
       THEN /\ AddClient(p)
            /\ UNCHANGED <<old, active, activeSaver, pending, entered, saverLost>>
       ELSE \* closeClient(client, kMsgEUnknown or kMsgEBusy)
            /\ old' = old \cup {p}
            /\ RemoveClients({p}, config)
            /\ pending' = StopIfRemoved({p}, pending)
    /\ UNCHANGED <<config, opts, locked>>

(* Server::handleClientDisconnected: it might be an old client or an active *)
(* one.  The proxy is deleted.                                              *)
ClientDisconnected(p) ==
    /\ Alive(p)
    /\ old' = old \ {p}
    /\ IF p \in clientSet
       THEN /\ RemoveClients({p}, config)
            /\ pending' = StopIfRemoved({p}, pending)
       ELSE UNCHANGED <<clients, clientSet, active, activeSaver, pending, entered, saverLost>>
    /\ UNCHANGED <<config, opts, locked>>

(* Server::handleClientCloseTimeout: the peer took too long to hang up.     *)
ClientCloseTimeout_NotErased(p) ==
    /\ p \in old
    /\ UNCHANGED vars
ClientCloseTimeout(p) ==
    /\ p \in old
    /\ old' = old \ {p}
    /\ UNCHANGED <<config, opts, locked, clients, clientSet, active, activeSaver,
                   pending, entered, saverLost>>

(* Server::closeClients: the clients whose key is no canonical name of c    *)
(* (keep = {} is the empty configuration), never the primary.               *)
Closing(keep) == {clients[n] : n \in {m \in Names : Connected(m)} \ keep} \ {Primary}
Dropped(c) == Closing({n \in Names : IsCanonical(c, n)})

(* ServerApp::reloadConfig: *m_config is overwritten, then Server::setConfig *)
(* refuses it if it lacks the primary, or closes the dropped clients and    *)
(* processes the options.                                                   *)
ReloadConfig(c) ==
    /\ MapAlive
    /\ config' = c
    /\ IF ~IsScreen(c, PrimaryName)
       THEN UNCHANGED <<opts, locked, clients, clientSet, old, active, activeSaver,
                        pending, entered, saverLost>>
       ELSE /\ RemoveClients(Dropped(c), c)
            /\ old' = old \cup Dropped(c)
            /\ pending' = LET p == StopIfRemoved(Dropped(c), pending)
                          IN  [p EXCEPT !.wait = IF c.wait = "absent" THEN @ ELSE None,
                                        !.tap  = IF c.tap = "absent" THEN @ ELSE "off"]
            /\ opts' = [o \in DOMAIN opts |-> Opt(c[o], opts[o])]
            /\ UNCHANGED locked

(* Server::disconnect, from forceReconnect or closeServer: an empty         *)
(* configuration drops every secondary client.                              *)
Disconnect ==
    /\ MapAlive
    /\ LET R == Closing({})
       IN  /\ R # {}
           /\ RemoveClients(R, config)
           /\ old' = old \cup R
           /\ pending' = StopIfRemoved(R, pending)
    /\ UNCHANGED <<config, opts, locked>>

(***************************************************************************)
(* Input                                                                   *)
(***************************************************************************)

UnchangedByInput == UNCHANGED <<config, opts, locked, clients, clientSet, old, saverLost>>

(* What mapToNeighbor may return on side d, somewhere along it: a target,   *)
(* or None where there is none.                                             *)
Candidates(d) ==
    UNION {LET T == Targets(Name(active), d, k) IN IF T = {} THEN {None} ELSE T : k \in Slots}

(* Server::onMouseMovePrimary and onMouseMoveSecondary away from the edges. *)
MotionInside ==
    /\ Alive(active)
    /\ \E slow, away \in BOOLEAN :
          /\ active # Primary => pending.screen # None /\ ~(opts.relative /\ locked)
          /\ pending' = NoSwitch(pending, slow, away)
    /\ UNCHANGED <<active, activeSaver, entered>>
    /\ UnchangedByInput

(* Server::onMouseMovePrimary at an edge or, at a corner, at two edges: the *)
(* vertical one is tried when the horizontal one gave no switch.            *)
MotionPrimaryEdge ==
    /\ active = Primary
    /\ \E h \in {"left", "right", NoDir}, v \in {"top", "bottom", NoDir} :
          /\ {h, v} # {NoDir}
          /\ \E s \in IF h = NoDir THEN {None} ELSE Candidates(h),
                t \in IF v = NoDir THEN {None} ELSE Candidates(v), e \in Circumstances :
                LET first == IF h = NoDir THEN [ok |-> FALSE, p |-> pending]
                             ELSE SwitchAttempt(pending, s, h, e)
                    last  == IF first.ok \/ v = NoDir THEN first
                             ELSE SwitchAttempt(first.p, t, v, e)
                IN  IF last.ok
                    THEN SwitchScreen(last.p, IF first.ok THEN s ELSE t)
                    ELSE pending' = last.p /\ UNCHANGED <<active, entered>>
    /\ UNCHANGED activeSaver
    /\ UnchangedByInput

(* Server::onMouseMoveSecondary past an edge.  Relative moves on a locked   *)
(* screen are only relayed.                                                 *)
MotionSecondaryEdge ==
    /\ active # Primary /\ Alive(active)
    /\ ~(opts.relative /\ locked)
    /\ \E d \in Dirs : \E s \in Candidates(d), e \in Circumstances :
          LET a == SwitchAttempt(pending, s, d, e)
          IN  IF a.ok THEN SwitchScreen(a.p, s)
              ELSE pending' = a.p /\ UNCHANGED <<active, entered>>
    /\ UNCHANGED activeSaver
    /\ UnchangedByInput

(* Server::handleSwitchWaitTimeout: the one-shot timer fires.               *)
SwitchWaitTimeout ==
    /\ pending.wait # None
    /\ \E byPrimary \in BOOLEAN :
          IF pending.screen = None
          THEN pending' = StopSwitchWait(pending) /\ UNCHANGED <<active, entered>>
          ELSE IF IsLocked(byPrimary)
               THEN pending' = StopSwitch(pending) /\ UNCHANGED <<active, entered>>
               ELSE SwitchScreen(pending, pending.screen)
    /\ UNCHANGED activeSaver
    /\ UnchangedByInput

(* Server::jumpToScreen, for the hot keys: to a named screen, to the first  *)
(* connected neighbour, or to the next client in the order of the map.      *)
JumpToScreen(s) ==
    /\ SwitchScreen(pending, s)
    /\ UNCHANGED activeSaver
    /\ UnchangedByInput

SwitchToScreen == \E n \in Names : Connected(n) /\ JumpToScreen(clients[n])

SwitchInDirection ==
    /\ Alive(active)
    /\ \E d \in Dirs, k \in Slots : \E s \in Neighbor(Name(active), d, k) : JumpToScreen(s)

ToggleScreen ==
    /\ Alive(active)
    /\ LET keys  == {n \in Names : Connected(n)}
           here  == Name(active)
           after == {n \in keys : n > here}
           next  == IF after # {} THEN after ELSE keys
       IN  /\ Cardinality(keys) >= 2
           /\ here \in keys
           /\ \E n \in next : (\A m \in next : n <= m) /\ JumpToScreen(clients[n])

(* Server::handleLockCursorToScreenEvent that changes the state.            *)
LockCursorToScreen ==
    /\ locked' = ~locked
    /\ UNCHANGED <<config, opts, clients, clientSet, old, active, activeSaver,
                   pending, entered, saverLost>>

(* Server::onScreensaver(true).                                             *)
ScreensaverOn ==
    /\ Alive(active) /\ MapAlive
    /\ activeSaver' = active
    /\ IF active # Primary THEN SwitchScreen(pending, Primary)
       ELSE UNCHANGED <<pending, active, entered>>
    /\ UnchangedByInput

(* Server::onScreensaver(false).                                            *)
ScreensaverOff ==
    /\ MapAlive
    /\ activeSaver' = None
    /\ IF activeSaver \notin {None, Primary} THEN SwitchScreen(pending, activeSaver)
       ELSE UNCHANGED <<pending, active, entered>>
    /\ UnchangedByInput

(***************************************************************************)
(* The specification                                                       *)
(***************************************************************************)

(* Server::Server, with the lock state found when the server starts.        *)
Init ==
    /\ config \in {c \in Configs : IsCanonical(c, PrimaryName)}
    /\ opts = [o \in {"wait", "tap", "noLock", "relative"} |-> Opt(config[o], FALSE)]
    /\ locked \in BOOLEAN
    /\ clients = [n \in Names |-> IF n = PrimaryName THEN Primary ELSE None]
    /\ clientSet = {Primary}
    /\ old = {}
    /\ active = Primary
    /\ activeSaver = None
    /\ pending = NoPending
    /\ entered = {Primary}
    /\ saverLost = FALSE

Next ==
    \/ \E p \in Proxies : AdoptClient(p) \/ ClientDisconnected(p) \/ ClientCloseTimeout(p)
    \/ \E c \in Configs : ReloadConfig(c)
    \/ Disconnect
    \/ MotionInside \/ MotionPrimaryEdge \/ MotionSecondaryEdge \/ SwitchWaitTimeout
    \/ SwitchToScreen \/ SwitchInDirection \/ ToggleScreen
    \/ LockCursorToScreen
    \/ ScreensaverOn \/ ScreensaverOff

(* The event queue delivers an expired timer unless it is deleted first.    *)
Fairness == \A p \in Proxies : WF_vars(ClientCloseTimeout(p))

Spec == Init /\ [][Next]_vars /\ Fairness

(***************************************************************************)
(* Properties                                                              *)
(***************************************************************************)

(* The type of every variable.                                              *)
TypeOK ==
    /\ config \in Configs
    /\ opts \in [{"wait", "tap", "noLock", "relative"} -> BOOLEAN]
    /\ locked \in BOOLEAN
    /\ clients \in [Names -> Screens \cup {None}]
    /\ clientSet \in SUBSET Screens
    /\ old \in SUBSET Proxies
    /\ active \in Screens
    /\ activeSaver \in Screens \cup {None}
    /\ pending \in PendingType
    /\ entered \in SUBSET Screens
    /\ saverLost \in BOOLEAN

(* No configuration gives a name another one knows a different meaning:     *)
(* then getName of a connected client never changes.                        *)
StableNames ==
    \A c, d \in Configs, n \in Names :
        c.canon[n] # NoName =>
            c.canon[n] = IF d.canon[n] = NoName THEN n ELSE d.canon[n]

(* Of the screens the Server remembers by pointer, m_active is dereferenced *)
(* by every input handler: closeClient and handleClientDisconnected move    *)
(* the cursor off a client they remove.  Loses describes the exception.     *)
ActiveConnected == saverLost \/ active \in clientSet

(* Exactly the active screen has been entered and not left: switchScreen    *)
(* and forceLeaveClient keep enter and leave messages paired.               *)
CursorOnOneScreen == saverLost \/ entered = {active}

(* The screen a delayed switch will go to, and the one the screen saver     *)
(* will give the cursor back to, are still connected when that happens.     *)
PendingConnected == pending.screen # None => pending.screen \in clientSet
SaverConnected   == saverLost \/ activeSaver = None \/ activeSaver \in clientSet

(* No removal leaves a pointer to a deleted client in the Server.           *)
ScreensConnected == ActiveConnected /\ PendingConnected /\ SaverConnected

(* m_clients and m_clientSet hold the same clients, each under its name, so *)
(* that removeClient erases the entry of the client it removes.             *)
MapMatchesSet ==
    /\ \A n \in Names : clients[n] # None => clients[n] \in clientSet /\ Name(clients[n]) = n
    /\ \A s \in clientSet : clients[Name(s)] = s

(* A running switch timer or an engaged double tap always has a screen to   *)
(* switch to: stopSwitch, which returns early without one, loses neither.   *)
NoOrphanTimer == pending.screen = None => pending.wait = None /\ pending.tap = "off"

(* With the cursor locked to the screen no mouse motion, and no delayed     *)
(* switch started before the lock, moves it to another screen.              *)
CursorLocked ==
    [][(locked /\ ~opts.noLock /\ (MotionPrimaryEdge \/ MotionSecondaryEdge \/ SwitchWaitTimeout))
        => active' = active]_vars

(* Every client the server has told to close is eventually deleted, whether *)
(* or not it hangs up (closeClient's 5 s timer).                            *)
ClosingEnds == \A p \in Proxies : p \in old ~> p \notin old
=============================================================================
