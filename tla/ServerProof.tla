---------------------------- MODULE ServerProof ----------------------------
(***************************************************************************)
(* Proofs about the server's view of its screens: ServerScreens, which       *)
(* screen the input goes to, for any screens and configurations, and         *)
(* ServerProxy, where the cursor of a client is, for any shapes of its       *)
(* screen and any number of commands.                                        *)
(*                                                                         *)
(* The two models share no variable: a theorem about one says nothing of    *)
(* the variables of the other.                                              *)
(***************************************************************************)
EXTENDS ServerScreens, ServerProxy, SequenceTheorems, TLAPS

(***************************************************************************)
(* ServerScreens                                                            *)
(***************************************************************************)
(* A value pending may take: its screen is connected, and without a screen  *)
(* neither the timer nor the double tap is active.                          *)
PendingOK(p) ==
    /\ p \in PendingType
    /\ p.screen # None => p.screen \in clientSet
    /\ p.screen = None => p.wait = None /\ p.tap = "off"

(* Every connected client's name was a screen of some configuration.        *)
KnownNames == \A s \in clientSet : \E c \in Configs : c.canon[WireName(s)] # NoName

(* The inductive invariant.  StableNames is an assumption on the constants; *)
(* with KnownNames it makes Name(s) independent of the configuration, which *)
(* MapMatchesSet needs across ReloadConfig.                                 *)
IInv ==
    /\ TypeOK
    /\ Primary \in clientSet
    /\ clientSet \cap old = {}
    /\ KnownNames
    /\ MapMatchesSet
    /\ PendingOK(pending)
    /\ ActiveConnected
    /\ CursorOnOneScreen
    /\ SaverConnected

(***************************************************************************)
(* Operators                                                               *)
(***************************************************************************)

LEMMA NameType ==
    ASSUME NEW c \in Configs, NEW s \in Screens
    PROVE  NameIn(c, s) \in Names
<1>1. WireName(s) \in Names
  BY ConstantsAssumption DEF WireName, Screens
<1>2. c.canon \in [Names -> Names \cup {NoName}]
  BY ConstantsAssumption DEF ConfigType
<1> QED
  BY <1>1, <1>2 DEF NameIn

(* The name of a connected client does not depend on the configuration.     *)
LEMMA NameStable ==
    ASSUME StableNames, KnownNames, clientSet \in SUBSET Screens,
           NEW s \in clientSet, NEW c \in Configs, NEW d \in Configs
    PROVE  NameIn(c, s) = NameIn(d, s)
<1>1. PICK k \in Configs : k.canon[WireName(s)] # NoName
  BY DEF KnownNames
<1>2. WireName(s) \in Names
  BY ConstantsAssumption DEF WireName, Screens
<1>3. k.canon[WireName(s)] = IF c.canon[WireName(s)] = NoName
                             THEN WireName(s) ELSE c.canon[WireName(s)]
  BY <1>1, <1>2 DEF StableNames
<1>4. k.canon[WireName(s)] = IF d.canon[WireName(s)] = NoName
                             THEN WireName(s) ELSE d.canon[WireName(s)]
  BY <1>1, <1>2 DEF StableNames
<1> QED
  BY <1>3, <1>4 DEF NameIn

LEMMA NoPendingOK == PendingOK(NoPending)
  BY ConstantsAssumption DEF PendingOK, PendingType, NoPending, NoDir, Dirs

LEMMA StopSwitchOK ==
    ASSUME NEW p, PendingOK(p)
    PROVE  PendingOK(StopSwitch(p))
  BY NoPendingOK DEF StopSwitch

LEMMA NoSwitchOK ==
    ASSUME NEW p, PendingOK(p), NEW slow \in BOOLEAN, NEW away \in BOOLEAN
    PROVE  PendingOK(NoSwitch(p, slow, away))
  BY DEF PendingOK, PendingType, NoSwitch, StopSwitchWait

(* A switch test leaves the pending switch aimed at a connected screen.     *)
LEMMA SwitchAttemptOK ==
    ASSUME NEW p, PendingOK(p), NEW s \in clientSet \cup {None}, NEW d \in Dirs,
           NEW e \in Circumstances, clientSet \in SUBSET Screens
    PROVE  PendingOK(SwitchAttempt(p, s, d, e).p)
<1>1. CASE s = None
  BY <1>1, StopSwitchOK DEF SwitchAttempt
<1>2. CASE s # None
  <2> DEFINE p1 == IF d # p.dir \/ p.screen = None
                   THEN [p EXCEPT !.dir = d, !.screen = s] ELSE p
             allow == opts.tap /\ ~(d # p.dir) /\ p.tap = "armed" /\ e.fast
             p2 == IF opts.tap /\ ~allow THEN [p1 EXCEPT !.tap = "engaged"] ELSE p1
             p3 == IF (opts.wait /\ ~allow) /\ (d # p.dir \/ p2.wait = None)
                   THEN [p2 EXCEPT !.wait = s] ELSE p2
  <2>1. s \in Screens /\ s \in clientSet
    BY <1>2
  <2>2. PendingOK(p1) /\ p1.screen # None
    BY <1>2, <2>1 DEF PendingOK, PendingType
  <2>3. PendingOK(p2) /\ p2.screen # None
    BY <2>2 DEF PendingOK, PendingType
  <2>4. PendingOK(p3)
    BY <2>1, <2>3 DEF PendingOK, PendingType
  <2>5. SwitchAttempt(p, s, d, e).p \in {p3, StopSwitch(p3)}
    BY <1>2 DEF SwitchAttempt
  <2> QED
    BY <2>4, <2>5, StopSwitchOK
<1> QED
  BY <1>1, <1>2

(* mapToNeighbor and getNeighbor return connected screens.                  *)
LEMMA CandidatesConnected ==
    ASSUME MapMatchesSet, NEW d
    PROVE  Candidates(d) \subseteq clientSet \cup {None}
<1>1. ASSUME NEW k \in Slots PROVE Targets(Name(active), d, k) \subseteq clientSet
  BY DEF Targets, Connected, MapMatchesSet
<1> QED
  BY <1>1 DEF Candidates

(***************************************************************************)
(* Steps                                                                   *)
(***************************************************************************)

(* Removing any set of secondary clients keeps the invariant; c is the      *)
(* configuration in effect afterwards.                                      *)
LEMMA RemoveClientsOK ==
    ASSUME StableNames, IInv, NEW R \in SUBSET Proxies, NEW c \in Configs,
           config' = c, RemoveClients(R, c)
    PROVE  /\ clients' \in [Names -> Screens \cup {None}]
           /\ clientSet' \in SUBSET Screens /\ Primary \in clientSet'
           /\ active' \in Screens /\ activeSaver' \in Screens \cup {None}
           /\ entered' \in SUBSET Screens /\ saverLost' \in BOOLEAN
           /\ KnownNames' /\ MapMatchesSet'
           /\ ActiveConnected' /\ CursorOnOneScreen' /\ SaverConnected'
<1>1. clients' \in [Names -> Screens \cup {None}]
  BY DEF RemoveClients, IInv, TypeOK
<1>2. clientSet' \in SUBSET Screens /\ Primary \in clientSet'
  BY ConstantsAssumption DEF RemoveClients, IInv, TypeOK
<1>3. active' \in Screens /\ activeSaver' \in Screens \cup {None}
  BY DEF RemoveClients, IInv, TypeOK, ActiveAfter, SaverAfter, Screens
<1>4. entered' \in SUBSET Screens /\ saverLost' \in BOOLEAN
  BY DEF RemoveClients, IInv, TypeOK, EnteredAfter, Screens, Loses
<1>5. KnownNames'
  BY DEF RemoveClients, IInv, KnownNames, WireName
<1>6. MapMatchesSet'
  <2>1. \A s \in clientSet : NameIn(c, s) = Name(s)
    BY NameStable DEF Name, IInv, TypeOK
  <2>2. \A n \in Names : clients[n] # None => clients[n] \in clientSet /\ Name(clients[n]) = n
    BY DEF IInv, MapMatchesSet
  <2>3. \A s \in clientSet : clients[Name(s)] = s /\ Name(s) \in Names
    BY NameType DEF IInv, MapMatchesSet, Name, TypeOK
  <2>4. KeysErased(R, c) = {Name(p) : p \in R \cap clientSet}
    BY <2>1 DEF KeysErased
  <2>5. ASSUME NEW n \in Names, clients'[n] # None
        PROVE  clients'[n] \in clientSet' /\ NameIn(c, clients'[n]) = n
    <3>1. n \notin KeysErased(R, c) /\ clients'[n] = clients[n]
      BY <2>5 DEF RemoveClients
    <3>2. clients[n] \in clientSet /\ Name(clients[n]) = n
      BY <3>1, <2>5, <2>2
    <3>3. clients[n] \notin R
      BY <3>1, <3>2, <2>4
    <3> QED
      BY <3>1, <3>2, <3>3, <2>1 DEF RemoveClients
  <2>6. ASSUME NEW s \in clientSet'
        PROVE  clients'[NameIn(c, s)] = s
    <3>1. s \in clientSet /\ s \notin R
      BY DEF RemoveClients
    <3>2. NameIn(c, s) = Name(s) /\ clients[Name(s)] = s /\ Name(s) \in Names
      BY <3>1, <2>1, <2>3
    <3>3. Name(s) \notin KeysErased(R, c)
      BY <3>1, <3>2, <2>3, <2>4
    <3> QED
      BY <3>2, <3>3 DEF RemoveClients
  <2> QED
    BY <2>5, <2>6, config' = c DEF MapMatchesSet, Name, NameIn, WireName
<1>7. Primary \notin R
  BY ConstantsAssumption
<1>8. ActiveConnected'
  <2> SUFFICES ASSUME ~saverLost' PROVE active' \in clientSet'
    BY DEF ActiveConnected
  <2>1. ~saverLost /\ ~Loses(R) /\ active \in clientSet
    BY DEF RemoveClients, IInv, ActiveConnected
  <2>2. CASE Leaving \in R
    BY <2>2, <1>2 DEF RemoveClients, ActiveAfter
  <2>3. CASE Leaving \notin R
    BY <2>1, <2>3, <1>7 DEF RemoveClients, ActiveAfter, Leaving, Loses
  <2> QED
    BY <2>2, <2>3
<1>9. CursorOnOneScreen'
  <2> SUFFICES ASSUME ~saverLost' PROVE entered' = {active'}
    BY DEF CursorOnOneScreen
  <2>1. ~saverLost /\ ~Loses(R) /\ entered = {active}
    BY DEF RemoveClients, IInv, CursorOnOneScreen
  <2>2. CASE activeSaver = None
    BY <2>1, <2>2 DEF RemoveClients, ActiveAfter, EnteredAfter, Leaving
  <2>3. CASE activeSaver # None /\ active = Primary
    BY <2>1, <2>3, <1>7 DEF RemoveClients, ActiveAfter, EnteredAfter, Leaving
  <2>4. CASE activeSaver # None /\ active # Primary
    BY <2>1, <2>4 DEF RemoveClients, ActiveAfter, EnteredAfter, Leaving, Loses
  <2> QED
    BY <2>2, <2>3, <2>4
<1>10. SaverConnected'
  BY DEF RemoveClients, IInv, SaverConnected, SaverAfter
<1> QED
  BY <1>1, <1>2, <1>3, <1>4, <1>5, <1>6, <1>8, <1>9, <1>10

(* Cancelling a pending switch to a removed client keeps it well aimed.     *)
LEMMA StopIfRemovedOK ==
    ASSUME NEW R, NEW p, PendingOK(p)
    PROVE  LET q == StopIfRemoved(R, p)
           IN  PendingOK(q) /\ (q.screen # None => q.screen \notin R)
<1>1. CASE p.screen \in R
  <2>1. StopIfRemoved(R, p) \in {p, NoPending}
    BY DEF StopIfRemoved, StopSwitch
  <2>2. StopIfRemoved(R, p).screen = None
    BY <1>1, <2>1 DEF StopIfRemoved, StopSwitch, NoPending
  <2> QED
    BY <2>1, <2>2, NoPendingOK
<1>2. CASE p.screen \notin R
  BY <1>2 DEF StopIfRemoved
<1> QED
  BY <1>1, <1>2

(* An input handler only touches the cursor and the pending switch.         *)
LEMMA InputOK ==
    ASSUME IInv, UnchangedByInput, active' \in Screens, entered' \in SUBSET Screens,
           activeSaver' \in Screens \cup {None}, PendingOK(pending)',
           ActiveConnected', CursorOnOneScreen', SaverConnected'
    PROVE  IInv'
<1>1. TypeOK'
  BY DEF IInv, TypeOK, UnchangedByInput, PendingOK
<1>2. KnownNames' /\ MapMatchesSet'
  BY DEF IInv, UnchangedByInput, KnownNames, WireName, MapMatchesSet, Name, NameIn
<1> QED
  BY <1>1, <1>2 DEF IInv, UnchangedByInput

(* switchScreen to a connected screen, from a well-aimed pending switch.    *)
LEMMA SwitchScreenOK ==
    ASSUME IInv, clientSet' = clientSet, saverLost' = saverLost,
           NEW p, PendingOK(p), NEW dst \in Screens, saverLost \/ dst \in clientSet,
           SwitchScreen(p, dst)
    PROVE  /\ active' \in Screens /\ entered' \in SUBSET Screens
           /\ PendingOK(pending)' /\ ActiveConnected' /\ CursorOnOneScreen'
<1>1. active' \in Screens /\ entered' \in SUBSET Screens
  BY DEF SwitchScreen, IInv, TypeOK
<1>2. PendingOK(pending)'
  BY StopSwitchOK DEF SwitchScreen, PendingOK
<1>3. ActiveConnected'
  BY DEF SwitchScreen, IInv, ActiveConnected
<1>4. CursorOnOneScreen'
  BY DEF SwitchScreen, IInv, CursorOnOneScreen
<1> QED
  BY <1>1, <1>2, <1>3, <1>4

(***************************************************************************)
(* Every action                                                            *)
(***************************************************************************)

LEMMA AdoptClientOK ==
    ASSUME StableNames, IInv, NEW p \in Proxies, AdoptClient(p)
    PROVE  IInv'
<1>1. config' = config /\ config \in Configs /\ p \in Screens /\ p \notin clientSet \cup old
  BY DEF AdoptClient, IInv, TypeOK, Alive, Screens
<1>2. CASE IsScreen(config, wireName[p]) /\ ~Connected(Name(p))
  <2>1. AddClient(p) /\ UNCHANGED <<config, opts, locked, old, active, activeSaver, pending, entered, saverLost>>
    BY <1>2 DEF AdoptClient
  <2>2. Name(p) \in Names /\ Name(p) # NoName /\ clients[Name(p)] = None
    BY <1>1, <1>2, NameType, ConstantsAssumption DEF Name, Connected, Names, NoName
  <2>3. TypeOK'
    BY <1>1, <2>1, <2>2 DEF AddClient, IInv, TypeOK
  <2>4. KnownNames'
    BY <1>1, <1>2, <2>1, ConstantsAssumption DEF AddClient, IInv, KnownNames, WireName, IsScreen
  <2>5. MapMatchesSet'
    <3>1. \A s \in Screens : NameIn(config', s) = Name(s)
      BY <1>1 DEF Name
    <3>2. \A s \in clientSet : Name(s) # Name(p)
      BY <2>2, ConstantsAssumption DEF IInv, MapMatchesSet, TypeOK, Screens
    <3>3. \A n \in Names : n # Name(p) => clients'[n] = clients[n]
      BY <2>1 DEF AddClient, IInv, TypeOK
    <3>4. clients'[Name(p)] = p /\ clientSet' = clientSet \cup {p}
      BY <2>1, <2>2 DEF AddClient, IInv, TypeOK
    <3>5. \A s \in clientSet : Name(s) \in Names
      BY <1>1, NameType DEF Name, IInv, TypeOK
    <3> QED
      BY <1>1, <3>1, <3>2, <3>3, <3>4, <3>5 DEF IInv, MapMatchesSet, Name
  <2>6. PendingOK(pending)' /\ ActiveConnected' /\ CursorOnOneScreen' /\ SaverConnected'
    BY <2>1 DEF AddClient, IInv, PendingOK, ActiveConnected, CursorOnOneScreen, SaverConnected
  <2> QED
    BY <1>1, <2>1, <2>3, <2>4, <2>5, <2>6 DEF AddClient, IInv
<1>3. CASE ~(IsScreen(config, wireName[p]) /\ ~Connected(Name(p)))
  <2>1. /\ old' = old \cup {p} /\ RemoveClients({p}, config)
        /\ pending' = StopIfRemoved({p}, pending)
        /\ UNCHANGED <<config, opts, locked>>
    BY <1>3 DEF AdoptClient
  <2>2. PendingOK(pending)'
    BY <2>1, StopIfRemovedOK DEF IInv, PendingOK, RemoveClients
  <2>3. TypeOK'
    BY <1>1, <2>1, <2>2, RemoveClientsOK DEF IInv, TypeOK, PendingOK
  <2> QED
    BY <1>1, <2>1, <2>2, <2>3, RemoveClientsOK DEF IInv, RemoveClients
<1> QED
  BY <1>2, <1>3

LEMMA ClientDisconnectedOK ==
    ASSUME StableNames, IInv, NEW p \in Proxies, ClientDisconnected(p)
    PROVE  IInv'
<1>1. config' = config /\ config \in Configs /\ old' = old \ {p} /\ opts' = opts /\ locked' = locked
  BY DEF ClientDisconnected, IInv, TypeOK
<1>2. CASE p \in clientSet
  <2>1. RemoveClients({p}, config) /\ pending' = StopIfRemoved({p}, pending)
    BY <1>2 DEF ClientDisconnected
  <2>2. PendingOK(pending)'
    BY <2>1, StopIfRemovedOK DEF IInv, PendingOK, RemoveClients
  <2>3. TypeOK'
    BY <1>1, <2>1, <2>2, RemoveClientsOK DEF IInv, TypeOK, PendingOK
  <2> QED
    BY <1>1, <2>1, <2>2, <2>3, RemoveClientsOK DEF IInv, RemoveClients
<1>3. CASE p \notin clientSet
  <2>1. UNCHANGED <<clients, clientSet, active, activeSaver, pending, entered, saverLost>>
    BY <1>3 DEF ClientDisconnected
  <2> QED
    BY <1>1, <2>1 DEF IInv, TypeOK, KnownNames, MapMatchesSet, Name, PendingOK,
                      ActiveConnected, CursorOnOneScreen, SaverConnected
<1> QED
  BY <1>2, <1>3

LEMMA ReloadConfigOK ==
    ASSUME StableNames, IInv, NEW c \in Configs, ReloadConfig(c)
    PROVE  IInv'
<1>1. config' = c /\ locked' = locked
  BY DEF ReloadConfig
<1>2. CASE ~IsScreen(c, PrimaryName)
  <2>1. UNCHANGED <<opts, locked, clients, clientSet, old, active, activeSaver,
                    pending, entered, saverLost>>
    BY <1>2 DEF ReloadConfig
  <2>2. \A s \in clientSet : NameIn(c, s) = Name(s)
    BY NameStable DEF Name, IInv, TypeOK
  <2>3. MapMatchesSet'
    BY <1>1, <2>1, <2>2 DEF IInv, MapMatchesSet, Name
  <2> QED
    BY <1>1, <2>1, <2>3 DEF IInv, TypeOK, KnownNames, PendingOK,
                      ActiveConnected, CursorOnOneScreen, SaverConnected
<1>3. CASE IsScreen(c, PrimaryName)
  <2> DEFINE R == Dropped(c)
             q == StopIfRemoved(R, pending)
  <2>1. /\ RemoveClients(R, c) /\ old' = old \cup R
        /\ pending' = [q EXCEPT !.wait = IF c.wait = "absent" THEN @ ELSE None,
                                !.tap  = IF c.tap = "absent" THEN @ ELSE "off"]
        /\ opts' = [o \in DOMAIN opts |-> Opt(c[o], opts[o])]
    BY <1>3 DEF ReloadConfig
  <2>2. R \in SUBSET Proxies
    BY DEF Dropped, Closing, Connected, IInv, TypeOK, Screens
  <2>3. PendingOK(q) /\ (q.screen # None => q.screen \notin R)
    BY StopIfRemovedOK DEF IInv
  <2>4. PendingOK(pending)'
    BY <2>1, <2>3 DEF PendingOK, PendingType, RemoveClients
  <2>5. opts' \in [{"wait", "tap", "noLock", "relative"} -> BOOLEAN]
    <3>1. opts \in [{"wait", "tap", "noLock", "relative"} -> BOOLEAN]
      BY DEF IInv, TypeOK
    <3>2. \A o \in {"wait", "tap", "noLock", "relative"} : Opt(c[o], opts[o]) \in BOOLEAN
      <4>1. c.wait \in OptValues /\ c.tap \in OptValues /\ c.noLock \in OptValues /\ c.relative \in OptValues
        BY ConstantsAssumption DEF ConfigType
      <4> QED
        BY <3>1, <4>1 DEF Opt, OptValues
    <3> QED
      BY <2>1, <3>1, <3>2
  <2>6. TypeOK'
    BY <1>1, <2>1, <2>2, <2>4, <2>5, RemoveClientsOK DEF IInv, TypeOK, PendingOK
  <2>7. (clientSet \cap old = {})'
    BY <2>1, <2>2 DEF IInv, RemoveClients
  <2> QED
    BY <1>1, <2>1, <2>2, <2>4, <2>6, <2>7, RemoveClientsOK DEF IInv
<1> QED
  BY <1>2, <1>3

LEMMA DisconnectOK ==
    ASSUME StableNames, IInv, Disconnect
    PROVE  IInv'
<1> DEFINE R == Closing({})
<1>1. /\ RemoveClients(R, config) /\ old' = old \cup R /\ pending' = StopIfRemoved(R, pending)
      /\ UNCHANGED <<config, opts, locked>> /\ config \in Configs
  BY DEF Disconnect, IInv, TypeOK
<1>2. R \in SUBSET Proxies
  BY DEF Closing, Connected, IInv, TypeOK, Screens
<1>3. PendingOK(pending)'
  BY <1>1, StopIfRemovedOK DEF IInv, PendingOK, RemoveClients
<1>4. TypeOK'
  BY <1>1, <1>2, <1>3, RemoveClientsOK DEF IInv, TypeOK, PendingOK
<1> QED
  BY <1>1, <1>2, <1>3, <1>4, RemoveClientsOK DEF IInv, RemoveClients

(* A switch test followed by the switch, or by nothing but its effect on    *)
(* the pending switch.                                                      *)
LEMMA AttemptOK ==
    ASSUME IInv, UnchangedByInput, activeSaver' = activeSaver,
           NEW p, PendingOK(p), NEW s \in clientSet \cup {None}, NEW ok \in BOOLEAN,
           ok => s # None,
           IF ok THEN SwitchScreen(p, s) ELSE pending' = p /\ UNCHANGED <<active, entered>>
    PROVE  IInv'
<1>1. clientSet' = clientSet /\ saverLost' = saverLost
  BY DEF UnchangedByInput
<1>2. SaverConnected' /\ activeSaver' \in Screens \cup {None}
  BY <1>1 DEF IInv, SaverConnected, TypeOK
<1>3. CASE ok
  <2>1. s \in clientSet /\ s \in Screens /\ SwitchScreen(p, s)
    BY <1>3 DEF IInv, TypeOK
  <2> QED
    BY <1>1, <1>2, <2>1, SwitchScreenOK, InputOK
<1>4. CASE ~ok
  <2>1. pending' = p /\ active' = active /\ entered' = entered
    BY <1>4
  <2>2. PendingOK(pending)'
    BY <1>1, <2>1 DEF PendingOK
  <2> QED
    BY <1>1, <1>2, <2>1, <2>2, InputOK DEF IInv, TypeOK, ActiveConnected, CursorOnOneScreen
<1> QED
  BY <1>3, <1>4

LEMMA OkHasScreen ==
    ASSUME NEW p, NEW s, NEW d, NEW e, SwitchAttempt(p, s, d, e).ok
    PROVE  s # None
  BY DEF SwitchAttempt

LEMMA OkBoolean ==
    ASSUME NEW p, NEW s, NEW d, NEW e
    PROVE  SwitchAttempt(p, s, d, e).ok \in BOOLEAN
  BY DEF SwitchAttempt

LEMMA MotionPrimaryEdgeOK ==
    ASSUME IInv, MotionPrimaryEdge
    PROVE  IInv'
<1>1. UnchangedByInput /\ activeSaver' = activeSaver
  BY DEF MotionPrimaryEdge
<1>2. PICK h \in {"left", "right", NoDir}, v \in {"top", "bottom", NoDir} :
      /\ {h, v} # {NoDir}
      /\ \E s \in IF h = NoDir THEN {None} ELSE Candidates(h),
            t \in IF v = NoDir THEN {None} ELSE Candidates(v), e \in Circumstances :
            LET first == IF h = NoDir THEN [ok |-> FALSE, p |-> pending]
                         ELSE SwitchAttempt(pending, s, h, e)
                last  == IF first.ok \/ v = NoDir THEN first
                         ELSE SwitchAttempt(first.p, t, v, e)
            IN  IF last.ok
                THEN SwitchScreen(last.p, IF first.ok THEN s ELSE t)
                ELSE pending' = last.p /\ UNCHANGED <<active, entered>>
  BY DEF MotionPrimaryEdge
<1>3. PICK s \in IF h = NoDir THEN {None} ELSE Candidates(h),
           t \in IF v = NoDir THEN {None} ELSE Candidates(v), e \in Circumstances :
           LET first == IF h = NoDir THEN [ok |-> FALSE, p |-> pending]
                        ELSE SwitchAttempt(pending, s, h, e)
               last  == IF first.ok \/ v = NoDir THEN first
                        ELSE SwitchAttempt(first.p, t, v, e)
           IN  IF last.ok
               THEN SwitchScreen(last.p, IF first.ok THEN s ELSE t)
               ELSE pending' = last.p /\ UNCHANGED <<active, entered>>
  BY <1>2
<1> DEFINE first == IF h = NoDir THEN [ok |-> FALSE, p |-> pending]
                    ELSE SwitchAttempt(pending, s, h, e)
           last  == IF first.ok \/ v = NoDir THEN first
                    ELSE SwitchAttempt(first.p, t, v, e)
<1>4. s \in clientSet \cup {None} /\ t \in clientSet \cup {None}
  BY CandidatesConnected DEF IInv
<1>5. (h # NoDir => h \in Dirs) /\ (v # NoDir => v \in Dirs)
  BY DEF Dirs
<1>6. PendingOK(pending) /\ clientSet \in SUBSET Screens
  BY DEF IInv, TypeOK
<1>7. PendingOK(first.p) /\ first.ok \in BOOLEAN /\ (first.ok => s # None)
  BY <1>4, <1>5, <1>6, SwitchAttemptOK, OkHasScreen, OkBoolean
<1>8. PendingOK(last.p) /\ last.ok \in BOOLEAN
  <2>1. CASE first.ok \/ v = NoDir
    BY <2>1, <1>7
  <2>2. CASE ~(first.ok \/ v = NoDir)
    <3> HIDE DEF first
    <3> QED
      BY <2>2, <1>4, <1>5, <1>6, <1>7, SwitchAttemptOK, OkBoolean
  <2> QED
    BY <2>1, <2>2
<1> DEFINE u == IF first.ok THEN s ELSE t
<1>9. last.ok => u # None
  <2> HIDE DEF first
  <2> QED
    BY <1>7, OkHasScreen
<1>10. IF last.ok THEN SwitchScreen(last.p, u)
       ELSE pending' = last.p /\ UNCHANGED <<active, entered>>
  BY <1>3
<1>11. u \in clientSet \cup {None}
  BY <1>4
<1> HIDE DEF last, u
<1> QED
  BY <1>1, <1>8, <1>9, <1>10, <1>11, AttemptOK

LEMMA MotionSecondaryEdgeOK ==
    ASSUME IInv, MotionSecondaryEdge
    PROVE  IInv'
<1>1. UnchangedByInput /\ activeSaver' = activeSaver
  BY DEF MotionSecondaryEdge
<1>0. PICK d \in Dirs : \E s \in Candidates(d), e \in Circumstances :
        LET a == SwitchAttempt(pending, s, d, e)
        IN  IF a.ok THEN SwitchScreen(a.p, s)
            ELSE pending' = a.p /\ UNCHANGED <<active, entered>>
  BY DEF MotionSecondaryEdge
<1>2. PICK s \in Candidates(d), e \in Circumstances :
        LET a == SwitchAttempt(pending, s, d, e)
        IN  IF a.ok THEN SwitchScreen(a.p, s)
            ELSE pending' = a.p /\ UNCHANGED <<active, entered>>
  BY <1>0
<1> DEFINE a == SwitchAttempt(pending, s, d, e)
<1>3. s \in clientSet \cup {None} /\ PendingOK(pending) /\ clientSet \in SUBSET Screens
  BY CandidatesConnected DEF IInv, TypeOK
<1>4. PendingOK(a.p) /\ a.ok \in BOOLEAN /\ (a.ok => s # None)
  BY <1>3, SwitchAttemptOK, OkHasScreen, OkBoolean
<1> HIDE DEF a
<1> QED
  BY <1>1, <1>2, <1>3, <1>4, AttemptOK DEF a

LEMMA MotionInsideOK ==
    ASSUME IInv, MotionInside
    PROVE  IInv'
<1>1. UnchangedByInput /\ UNCHANGED <<active, activeSaver, entered>>
  BY DEF MotionInside
<1>2. PICK slow \in BOOLEAN, away \in BOOLEAN : pending' = NoSwitch(pending, slow, away)
  BY DEF MotionInside
<1>3. PendingOK(pending)'
  BY <1>1, <1>2, NoSwitchOK DEF IInv, PendingOK, UnchangedByInput
<1> QED
  BY <1>1, <1>3, InputOK DEF IInv, TypeOK, ActiveConnected, CursorOnOneScreen,
                              SaverConnected, UnchangedByInput

LEMMA SwitchWaitTimeoutOK ==
    ASSUME IInv, SwitchWaitTimeout
    PROVE  IInv'
<1>1. UnchangedByInput /\ activeSaver' = activeSaver /\ pending.screen # None
  BY DEF SwitchWaitTimeout, IInv, PendingOK
<1>2. \/ pending' = StopSwitch(pending) /\ UNCHANGED <<active, entered>>
      \/ SwitchScreen(pending, pending.screen)
  BY <1>1 DEF SwitchWaitTimeout
<1>3. PendingOK(pending) /\ PendingOK(StopSwitch(pending)) /\ pending.screen \in clientSet
  BY <1>1, StopSwitchOK DEF IInv, PendingOK
<1>4. CASE pending' = StopSwitch(pending) /\ UNCHANGED <<active, entered>>
  BY <1>1, <1>3, <1>4, AttemptOK
<1>5. CASE SwitchScreen(pending, pending.screen)
  BY <1>1, <1>3, <1>5, AttemptOK
<1> QED
  BY <1>2, <1>4, <1>5

LEMMA JumpOK ==
    ASSUME IInv, NEW s \in clientSet, JumpToScreen(s)
    PROVE  IInv'
<1>1. UnchangedByInput /\ activeSaver' = activeSaver /\ SwitchScreen(pending, s) /\ PendingOK(pending)
  BY DEF JumpToScreen, IInv
<1>2. s # None
  BY ConstantsAssumption DEF IInv, TypeOK, Screens
<1> QED
  BY <1>1, <1>2, AttemptOK

LEMMA HotKeysOK ==
    ASSUME IInv, SwitchToScreen \/ SwitchInDirection \/ ToggleScreen
    PROVE  IInv'
<1>1. \A n : Connected(n) /\ n \in Names => clients[n] \in clientSet
  BY DEF Connected, IInv, MapMatchesSet
<1>2. CASE SwitchToScreen
  BY <1>1, <1>2, JumpOK DEF SwitchToScreen
<1>3. CASE SwitchInDirection
  <2>1. PICK d \in Dirs, k \in Slots : \E s \in Neighbor(Name(active), d, k) : JumpToScreen(s)
    BY <1>3 DEF SwitchInDirection
  <2>2. Neighbor(Name(active), d, k) \subseteq clientSet
    BY <1>1 DEF Neighbor, Connected
  <2> QED
    BY <2>1, <2>2, JumpOK
<1>4. CASE ToggleScreen
  <2>1. PICK n \in {m \in Names : Connected(m)} : JumpToScreen(clients[n])
    BY <1>4 DEF ToggleScreen
  <2> QED
    BY <1>1, <2>1, JumpOK
<1> QED
  BY <1>2, <1>3, <1>4

LEMMA ScreensaverOnOK ==
    ASSUME IInv, ScreensaverOn
    PROVE  IInv'
<1>1. UnchangedByInput /\ activeSaver' = active /\ Alive(active)
  BY DEF ScreensaverOn
<1>2. activeSaver' \in Screens \cup {None} /\ SaverConnected'
  BY <1>1 DEF IInv, TypeOK, SaverConnected, ActiveConnected, UnchangedByInput
<1>3. CASE active # Primary
  <2>1. SwitchScreen(pending, Primary) /\ PendingOK(pending) /\ Primary \in clientSet /\ Primary \in Screens
    BY <1>3 DEF ScreensaverOn, IInv, Screens
  <2> QED
    BY <1>1, <1>2, <2>1, SwitchScreenOK, InputOK DEF UnchangedByInput
<1>4. CASE active = Primary
  <2>1. UNCHANGED <<pending, active, entered>>
    BY <1>4 DEF ScreensaverOn
  <2> QED
    BY <1>1, <1>2, <2>1, InputOK DEF IInv, TypeOK, PendingOK, ActiveConnected,
                                     CursorOnOneScreen, UnchangedByInput
<1> QED
  BY <1>3, <1>4

LEMMA ScreensaverOffOK ==
    ASSUME IInv, ScreensaverOff
    PROVE  IInv'
<1>1. UnchangedByInput /\ activeSaver' = None
  BY DEF ScreensaverOff
<1>2. activeSaver' \in Screens \cup {None} /\ SaverConnected'
  BY <1>1 DEF SaverConnected
<1>3. CASE activeSaver \notin {None, Primary}
  <2>1. /\ SwitchScreen(pending, activeSaver) /\ PendingOK(pending) /\ activeSaver \in Screens
        /\ saverLost \/ activeSaver \in clientSet
    BY <1>3 DEF ScreensaverOff, IInv, TypeOK, SaverConnected
  <2> QED
    BY <1>1, <1>2, <2>1, SwitchScreenOK, InputOK DEF UnchangedByInput
<1>4. CASE activeSaver \in {None, Primary}
  <2>1. UNCHANGED <<pending, active, entered>>
    BY <1>4 DEF ScreensaverOff
  <2> QED
    BY <1>1, <1>2, <2>1, InputOK DEF IInv, TypeOK, PendingOK, ActiveConnected,
                                     CursorOnOneScreen, UnchangedByInput
<1> QED
  BY <1>3, <1>4

(***************************************************************************)
(* The invariant                                                           *)
(***************************************************************************)

LEMMA InitOK ==
    ASSUME Init
    PROVE  IInv
<1>1. config \in Configs /\ config.canon[PrimaryName] = PrimaryName
  BY DEF Init, IsCanonical
<1>2. opts \in [{"wait", "tap", "noLock", "relative"} -> BOOLEAN]
  <2>1. \A o \in {"wait", "tap", "noLock", "relative"} : config[o] \in OptValues
    BY <1>1, ConstantsAssumption DEF ConfigType
  <2>2. \A o \in {"wait", "tap", "noLock", "relative"} : Opt(config[o], FALSE) \in BOOLEAN
    BY <2>1 DEF Opt, OptValues
  <2> QED
    BY <2>2 DEF Init
<1>3. TypeOK
  <2>1. PendingOK(pending)
    BY NoPendingOK DEF Init
  <2> QED
    BY <1>1, <1>2, <2>1, ConstantsAssumption DEF Init, TypeOK, Screens, PendingOK
<1>4. KnownNames
  BY <1>1, ConstantsAssumption DEF Init, KnownNames, WireName, Names, NoName
<1>5. MapMatchesSet
  BY <1>1, ConstantsAssumption DEF Init, MapMatchesSet, Name, NameIn, WireName, Screens
<1>6. PendingOK(pending)
  BY NoPendingOK DEF Init
<1> QED
  BY <1>3, <1>4, <1>5, <1>6 DEF Init, IInv, ActiveConnected, CursorOnOneScreen, SaverConnected

LEMMA NextOK ==
    ASSUME StableNames, IInv, [Next]_vars
    PROVE  IInv'
<1>1. ASSUME NEW p \in Proxies, AdoptClient(p) PROVE IInv'
  BY <1>1, AdoptClientOK
<1>2. ASSUME NEW p \in Proxies, ClientDisconnected(p) PROVE IInv'
  BY <1>2, ClientDisconnectedOK
<1>3. ASSUME NEW p \in Proxies, ClientCloseTimeout(p) PROVE IInv'
  BY <1>3 DEF ClientCloseTimeout, IInv, TypeOK, KnownNames, MapMatchesSet, Name, PendingOK,
              ActiveConnected, CursorOnOneScreen, SaverConnected
<1>4. ASSUME NEW c \in Configs, ReloadConfig(c) PROVE IInv'
  BY <1>4, ReloadConfigOK
<1>5. CASE Disconnect
  BY <1>5, DisconnectOK
<1>6. CASE MotionInside
  BY <1>6, MotionInsideOK
<1>7. CASE MotionPrimaryEdge
  BY <1>7, MotionPrimaryEdgeOK
<1>8. CASE MotionSecondaryEdge
  BY <1>8, MotionSecondaryEdgeOK
<1>9. CASE SwitchWaitTimeout
  BY <1>9, SwitchWaitTimeoutOK
<1>10. CASE SwitchToScreen \/ SwitchInDirection \/ ToggleScreen
  BY <1>10, HotKeysOK
<1>11. CASE LockCursorToScreen
  BY <1>11 DEF LockCursorToScreen, IInv, TypeOK, KnownNames, MapMatchesSet, Name, PendingOK,
               ActiveConnected, CursorOnOneScreen, SaverConnected
<1>12. CASE ScreensaverOn
  BY <1>12, ScreensaverOnOK
<1>13. CASE ScreensaverOff
  BY <1>13, ScreensaverOffOK
<1>14. CASE UNCHANGED vars
  BY <1>14 DEF vars, IInv, TypeOK, KnownNames, MapMatchesSet, Name, PendingOK,
               ActiveConnected, CursorOnOneScreen, SaverConnected
<1> QED
  BY <1>1, <1>2, <1>3, <1>4, <1>5, <1>6, <1>7, <1>8, <1>9, <1>10, <1>11, <1>12, <1>13, <1>14
  DEF Next

(* With stable names the inductive invariant holds in every reachable state *)
(* of the server.                                                           *)
THEOREM Invariance ==
    ASSUME StableNames
    PROVE  Spec => []IInv
<1>1. Init => IInv
  BY InitOK
<1>2. IInv /\ [Next]_vars => IInv'
  BY NextOK
<1> QED
  BY <1>1, <1>2, PTL DEF Spec

(* Every variable keeps its type (Server's members after each handler).     *)
THEOREM TypeCorrect ==
    ASSUME StableNames
    PROVE  Spec => []TypeOK
<1>1. IInv => TypeOK
  BY DEF IInv
<1> QED
  BY <1>1, Invariance, PTL

(* Whatever is connected, dropped, reloaded or switched, m_clients and      *)
(* m_clientSet agree.                                                       *)
THEOREM MapAgrees ==
    ASSUME StableNames
    PROVE  Spec => []MapMatchesSet
<1>1. IInv => MapMatchesSet
  BY DEF IInv
<1> QED
  BY <1>1, Invariance, PTL

(* The active screen, the target of the pending switch and the saved screen *)
(* are connected: removeClient and forceLeaveClient leave no m_active,      *)
(* m_switchScreen or m_activeSaver behind (m_active aside when the removed  *)
(* client was active under the screen saver).                               *)
THEOREM NoDanglingScreen ==
    ASSUME StableNames
    PROVE  Spec => [](ScreensConnected /\ NoOrphanTimer)
<1>1. IInv => ScreensConnected /\ NoOrphanTimer
  BY DEF IInv, PendingOK, PendingConnected, NoOrphanTimer, ScreensConnected
<1> QED
  BY <1>1, Invariance, PTL

(* switchScreen, forceLeaveClient and the screen saver enter one screen and *)
(* leave the other, so the active screen is the only one with the cursor.   *)
THEOREM OneCursor ==
    ASSUME StableNames
    PROVE  Spec => []CursorOnOneScreen
<1>1. IInv => CursorOnOneScreen
  BY DEF IInv
<1> QED
  BY <1>1, Invariance, PTL

(* While the cursor is locked isSwitchOkay never agrees to a switch.        *)
LEMMA LockRefuses ==
    ASSUME locked, ~opts.noLock, NEW p, NEW s, NEW d, NEW e
    PROVE  ~SwitchAttempt(p, s, d, e).ok
  BY DEF SwitchAttempt, IsLocked

(* A locked cursor is moved to another screen neither by motion nor by a    *)
(* delayed switch, in any state of the server, reachable or not.            *)
THEOREM LockHolds == Spec => CursorLocked
<1> DEFINE Locked  == locked /\ ~opts.noLock
           Motion  == MotionPrimaryEdge \/ MotionSecondaryEdge \/ SwitchWaitTimeout
<1>1. ASSUME Locked, MotionPrimaryEdge PROVE active' = active
  <2>1. PICK h \in {"left", "right", NoDir}, v \in {"top", "bottom", NoDir} :
          \E s, t : \E e \in Circumstances :
            LET first == IF h = NoDir THEN [ok |-> FALSE, p |-> pending]
                         ELSE SwitchAttempt(pending, s, h, e)
                last  == IF first.ok \/ v = NoDir THEN first
                         ELSE SwitchAttempt(first.p, t, v, e)
            IN  IF last.ok
                THEN SwitchScreen(last.p, IF first.ok THEN s ELSE t)
                ELSE pending' = last.p /\ UNCHANGED <<active, entered>>
    BY <1>1 DEF MotionPrimaryEdge
  <2>2. PICK s, t : \E e \in Circumstances :
            LET first == IF h = NoDir THEN [ok |-> FALSE, p |-> pending]
                         ELSE SwitchAttempt(pending, s, h, e)
                last  == IF first.ok \/ v = NoDir THEN first
                         ELSE SwitchAttempt(first.p, t, v, e)
            IN  IF last.ok
                THEN SwitchScreen(last.p, IF first.ok THEN s ELSE t)
                ELSE pending' = last.p /\ UNCHANGED <<active, entered>>
    BY <2>1
  <2>3. PICK e \in Circumstances :
            LET first == IF h = NoDir THEN [ok |-> FALSE, p |-> pending]
                         ELSE SwitchAttempt(pending, s, h, e)
                last  == IF first.ok \/ v = NoDir THEN first
                         ELSE SwitchAttempt(first.p, t, v, e)
            IN  IF last.ok
                THEN SwitchScreen(last.p, IF first.ok THEN s ELSE t)
                ELSE pending' = last.p /\ UNCHANGED <<active, entered>>
    BY <2>2
  <2> DEFINE first == IF h = NoDir THEN [ok |-> FALSE, p |-> pending]
                      ELSE SwitchAttempt(pending, s, h, e)
             last  == IF first.ok \/ v = NoDir THEN first
                      ELSE SwitchAttempt(first.p, t, v, e)
  <2>4. ~first.ok
    BY <1>1, LockRefuses
  <2>5. ~last.ok
    BY <1>1, <2>4, LockRefuses
  <2> QED
    BY <2>3, <2>5
<1>2. ASSUME Locked, MotionSecondaryEdge PROVE active' = active
  BY <1>2, LockRefuses DEF MotionSecondaryEdge
<1>3. ASSUME Locked, SwitchWaitTimeout PROVE active' = active
  BY <1>3 DEF SwitchWaitTimeout, IsLocked
<1>4. [Next]_vars => [(Locked /\ Motion) => active' = active]_vars
  BY <1>1, <1>2, <1>3
<1> QED
  BY <1>4, PTL DEF Spec, CursorLocked

(****************************************************************************)
(* ServerProxy: what the invariants say                                     *)
(****************************************************************************)
Sorts == {"move", "relative", "enter", "press", "leave", "ack"}
Commands == [type : Sorts, x : Int, n : Nat]
Shapes == [width : Widths, x : Int]
Motions == [held : Int, delta : Int, relative : BOOLEAN]
ClientSides == [x : Int, width : Widths, ignore : BOOLEAN, sent : Nat, motion : Motions]
ServerSides == [active : BOOLEAN, x : Int, said : Int, width : Widths, mx : Int, n : Nat, changes : Nat,
                locked : BOOLEAN]

TypedSides ==
    /\ server \in ServerSides /\ client \in ClientSides
    /\ down \in Seq(Commands) /\ up \in Seq(Shapes)
    /\ batch \in 0 .. Len(down)
    /\ server.locked => server.active

(* A shape that is not acknowledged is on its way to the server, or its      *)
(* acknowledgment is on the way back; the server has the shape last sent,    *)
(* or it comes last.                                                        *)
AcksIn(q) == {i \in 1 .. Len(q) : q[i].type = "ack"}

ShapeKnown ==
    /\ client.ignore => up # <<>> \/ AcksIn(down) # {}
    /\ IF up = <<>> THEN server.width = client.width ELSE up[Len(up)].width = client.width

(* A message is read when motion is heeded if it is now, or an               *)
(* acknowledgment comes before it.                                          *)
HeededAt(q, c, i) == ~c.ignore \/ \E j \in AcksIn(q) : j < i

(* One shape at a time is on the way.                                       *)
OneShape ==
    /\ client.sent = server.n + Len(up) /\ Len(up) <= 1
    /\ up # <<>> => client.ignore
    /\ \A i \in AcksIn(down) : client.ignore /\ up = <<>>
    /\ \A i, j \in AcksIn(down) : i = j

(* Motion that will be heeded was computed with the shape last sent.         *)
Positioned(m) == m.type \in {"move", "enter"}

FreshAt(q, c, i) ==
    q[i].n = c.sent /\ (Positioned(q[i]) => q[i].x \in 0 .. c.width - 1)

FreshMotion ==
    /\ \A i \in 1 .. Len(down) : HeededAt(down, client, i) => FreshAt(down, client, i)
    /\ client.x \in 0 .. client.width - 1

(* What is held back, and what may be on the way, depends on the lock.      *)
Calm(c) == c.motion.delta = 0 /\ ~c.motion.relative

HeldBack ==
    /\ batch = 0 \/ client.ignore => client.motion = NoMotion
    /\ IF server.locked THEN client.motion.held = Nothing ELSE Calm(client)
    /\ client.motion.held # Nothing => client.motion.held \in 0 .. client.width - 1

Allowed == IF server.locked THEN {"relative", "press", "ack"} ELSE Sorts \ {"relative"}

ByLock == \A i \in 1 .. Len(down) : down[i].type \in Allowed

(* Where the cursor is put before the i-th message of q is read: by a motion *)
(* or an entry that only presses follow, or where it is already.            *)
Stays(q, j, i) == \A k \in j .. i : q[k].type \in {"press", "leave"}

Cursor(c) == IF c.motion.held = Nothing THEN c.x ELSE c.motion.held

PutAt(q, c, i, x) ==
    \/ \E j \in 1 .. i - 1 : Positioned(q[j]) /\ q[j].x = x /\ Stays(q, j + 1, i - 1)
    \/ Stays(q, 1, i - 1) /\ ~c.ignore /\ Calm(c) /\ Cursor(c) = x

Placed ==
    /\ \A i \in 1 .. Len(down) :
          down[i].type = "press" /\ down[i].x # Unknown /\ HeededAt(down, client, i)
          => PutAt(down, client, i, down[i].x)
    /\ server.said # Unknown /\ HeededAt(down, client, Len(down) + 1)
       => PutAt(down, client, Len(down) + 1, server.said)

Unharmed == "misplaced" \notin wrong /\ "stale" \notin wrong

MotionInv == OneShape /\ FreshMotion /\ HeldBack /\ ByLock /\ Placed /\ Unharmed

(***************************************************************************)
(* Sequences and positions                                                  *)
(***************************************************************************)
LEMMA WidthIs == Widths \subseteq Nat \ {0} /\ Widths \subseteq Int /\ Nothing \in Int
  BY Parameters DEF Nothing

LEMMA Clamped ==
    ASSUME NEW x \in Int, NEW w \in Widths
    PROVE  /\ Clamp(x, w) \in 0 .. w - 1 /\ Clamp(x, w) \in Int
           /\ x \in 0 .. w - 1 => Clamp(x, w) = x
  BY WidthIs DEF Clamp

LEMMA Sent ==
    ASSUME NEW S, NEW q \in Seq(S), NEW m \in S
    PROVE  /\ Append(q, m) \in Seq(S) /\ Len(q) \in Nat /\ Len(Append(q, m)) = Len(q) + 1
           /\ \A i \in 1 .. Len(q) : Append(q, m)[i] = q[i] /\ q[i] \in S
           /\ Append(q, m)[Len(q) + 1] = m
  BY AppendProperties, LenProperties, ElementOfSeq

LEMMA Received ==
    ASSUME NEW S, NEW q \in Seq(S), q # <<>>
    PROVE  /\ Tail(q) \in Seq(S) /\ Len(q) \in Nat \ {0} /\ Len(Tail(q)) = Len(q) - 1
           /\ \A i \in 1 .. Len(q) - 1 : Tail(q)[i] = q[i + 1]
           /\ Head(q) = q[1] /\ q[1] \in S
<1>1. Len(q) \in Nat \ {0}
  BY EmptySeq, LenProperties
<1> QED
  BY <1>1, HeadTailProperties

LEMMA AtFirst == ProxyInit => TypedSides /\ ShapeKnown
<1> SUFFICES ASSUME ProxyInit PROVE TypedSides /\ ShapeKnown
  OBVIOUS
<1>1. NoMotion \in Motions
  BY WidthIs DEF NoMotion, Motions
<1>2. /\ server \in ServerSides /\ server.width = client.width /\ client.ignore = FALSE
      /\ server.locked = FALSE
  BY DEF ProxyInit, ServerSides, Unknown
<1>3. client \in ClientSides
  BY <1>1 DEF ProxyInit, ClientSides
<1>4. down = <<>> /\ up = <<>> /\ batch = 0
  BY DEF ProxyInit
<1> QED
  BY <1>2, <1>3, <1>4 DEF TypedSides, ShapeKnown

LEMMA MotionAtFirst == ProxyInit => MotionInv
<1> SUFFICES ASSUME ProxyInit PROVE MotionInv
  OBVIOUS
<1>1. /\ down = <<>> /\ up = <<>> /\ batch = 0 /\ Len(down) = 0 /\ Len(up) = 0 /\ wrong = {}
      /\ server.n = 0 /\ server.said = Unknown /\ server.locked = FALSE
      /\ client.x = 0 /\ client.width \in Widths /\ client.ignore = FALSE /\ client.sent = 0
      /\ client.motion = NoMotion
  BY DEF ProxyInit
<1>2. AcksIn(down) = {}
  BY <1>1 DEF AcksIn
<1>3. Calm(client) /\ client.motion.held = Nothing
  BY <1>1 DEF Calm, NoMotion
<1>4. client.width \in Nat \ {0}
  BY <1>1, WidthIs
<1>5. OneShape /\ HeldBack /\ Unharmed
  BY <1>1, <1>2, <1>3 DEF OneShape, HeldBack, Unharmed
<1>6. FreshMotion /\ ByLock /\ Placed
  BY <1>1, <1>4 DEF FreshMotion, ByLock, Placed
<1> QED
  BY <1>5, <1>6 DEF MotionInv

(***************************************************************************)
(* Types                                                                    *)
(***************************************************************************)
LEMMA FlushTyped ==
    ASSUME NEW c \in ClientSides
    PROVE  /\ FlushCompressedMouse(c) \in ClientSides
           /\ FlushCompressedMouse(c).x \in 0 .. c.width - 1
           /\ FlushCompressedMouse(c).width = c.width /\ FlushCompressedMouse(c).sent = c.sent
           /\ FlushCompressedMouse(c).ignore = c.ignore /\ FlushCompressedMouse(c).motion = NoMotion
           /\ Calm(c) /\ (c.motion.held # Nothing => c.motion.held \in 0 .. c.width - 1)
                /\ c.x \in 0 .. c.width - 1 => FlushCompressedMouse(c).x = Cursor(c)
<1>1. /\ c.x \in Int /\ c.width \in Widths /\ c.motion \in Motions
      /\ c.motion.held \in Int /\ c.motion.delta \in Int
  BY DEF ClientSides, Motions
<1>2. NoMotion \in Motions
  BY WidthIs DEF NoMotion, Motions
<1> DEFINE x == IF c.motion.held = Nothing THEN c.x ELSE c.motion.held
<1>3. x + c.motion.delta \in Int
  BY <1>1
<1> DEFINE y == Clamp(x + c.motion.delta, c.width)
<1>4. y \in Int /\ y \in 0 .. c.width - 1
  BY <1>1, <1>3, Clamped
<1>5. FlushCompressedMouse(c) = [c EXCEPT !.x = y, !.motion = NoMotion]
  BY DEF FlushCompressedMouse
<1>6. Calm(c) /\ (c.motion.held # Nothing => c.motion.held \in 0 .. c.width - 1) /\ c.x \in 0 .. c.width - 1
      => y = Cursor(c)
  BY <1>1, Clamped DEF Calm, Cursor
<1> HIDE DEF y
<1> QED
  BY <1>2, <1>4, <1>5, <1>6 DEF ClientSides

LEMMA ParseTyped ==
    ASSUME NEW c \in ClientSides, NEW m \in Commands, NEW more \in BOOLEAN
    PROVE  /\ Parse(c, m, more) \in ClientSides
           /\ Parse(c, m, more).width = c.width /\ Parse(c, m, more).sent = c.sent
           /\ Parse(c, m, more).ignore = (c.ignore /\ m.type # "ack")
<1>1. /\ c.x \in Int /\ c.width \in Widths /\ c.motion \in Motions /\ c.ignore \in BOOLEAN
      /\ c.motion.held \in Int /\ c.motion.delta \in Int /\ m.x \in Int /\ m.type \in Sorts
  BY DEF ClientSides, Motions, Commands
<1>2. NoMotion \in Motions
  BY WidthIs DEF NoMotion, Motions
<1>3. CASE m.type = "move"
  <2>1. Parse(c, m, more) = MouseMove(c, m, more)
    BY <1>3 DEF Parse
  <2>2. [held |-> m.x, delta |-> 0, relative |-> FALSE] \in Motions
    BY <1>1 DEF Motions
  <2>3. Clamp(m.x, c.width) \in Int
    BY <1>1, Clamped
  <2> QED
    BY <1>3, <2>1, <2>2, <2>3 DEF MouseMove, ClientSides
<1>4. CASE m.type = "relative"
  <2>1. Parse(c, m, more) = MouseRelativeMove(c, m, more)
    BY <1>4 DEF Parse
  <2>2. c.motion.delta + m.x \in Int /\ c.x + m.x \in Int
    BY <1>1
  <2>3. Clamp(c.x + m.x, c.width) \in Int
    BY <1>1, <2>2, Clamped
  <2>4. CASE c.motion.relative \/ (~c.ignore /\ more)
    <3> DEFINE moved == [c.motion EXCEPT !.relative = TRUE, !.delta = @ + m.x]
    <3>1. moved \in Motions
      BY <1>1, <2>2 DEF Motions
    <3>2. Parse(c, m, more) = [c EXCEPT !.motion = moved]
      BY <2>1, <2>4 DEF MouseRelativeMove, ClientSides
    <3> HIDE DEF moved
    <3> QED
      BY <1>4, <3>1, <3>2 DEF ClientSides
  <2>5. CASE ~(c.motion.relative \/ (~c.ignore /\ more))
    BY <1>1, <1>4, <2>1, <2>3, <2>5 DEF MouseRelativeMove, ClientSides
  <2> QED
    BY <2>4, <2>5
<1>5. CASE m.type = "enter"
  <2>1. Parse(c, m, more) = EnterScreen(c, m)
    BY <1>5 DEF Parse
  <2>2. Clamp(m.x, c.width) \in Int
    BY <1>1, Clamped
  <2> QED
    BY <1>2, <1>5, <2>1, <2>2 DEF EnterScreen, ClientSides
<1>6. CASE m.type \in {"press", "leave"}
  <2>1. Parse(c, m, more) = FlushCompressedMouse(c)
    BY <1>6 DEF Parse, BroughtUpToDate
  <2> QED
    BY <1>1, <1>6, <2>1, FlushTyped
<1>7. CASE m.type = "ack"
  <2>1. Parse(c, m, more) = [c EXCEPT !.ignore = FALSE]
    BY <1>7 DEF Parse, InfoAcknowledged
  <2> QED
    BY <1>7, <2>1 DEF ClientSides
<1> QED
  BY <1>1, <1>3, <1>4, <1>5, <1>6, <1>7 DEF Sorts

(***************************************************************************)
(* What the steps of the server do to the connection                        *)
(***************************************************************************)
(* A command is on the way behind the others: a motion lies within the       *)
(* screen as the server knows it, and what says where the cursor is repeats  *)
(* the last motion.                                                         *)
Says(m) ==
    /\ m \in Commands /\ m.n = server.n /\ m.type # "ack"
    /\ down' = Append(down, m) /\ UNCHANGED <<client, up, batch, wrong>>
    /\ server' \in ServerSides
    /\ server'.width = server.width /\ server'.n = server.n /\ server'.locked = server.locked
    /\ m.type \in Allowed /\ (server'.locked => server'.active)
    /\ Positioned(m) => m.x \in 0 .. server.width - 1 /\ server'.said = m.x
    /\ m.type = "relative" => server'.said = Unknown
    /\ m.type \in {"press", "leave"} => m.x = server.said /\ server'.said = server.said

ServerSpeaks == \E m : Says(m)

LEMMA Speaking ==
    ASSUME TypedSides,
           \/ \E dx \in {-1, 1} : Move(dx) \/ RelativeMove(dx)
           \/ Press \/ Leave
           \/ \E x \in Positions : Enter(x)
    PROVE  ServerSpeaks
<1>1. /\ server \in ServerSides /\ server.x \in Int /\ server.said \in Int /\ server.width \in Widths
      /\ server.n \in Nat /\ server.active \in BOOLEAN /\ server.locked \in BOOLEAN
  BY DEF TypedSides, ServerSides
<1>2. server.locked => server.active
  BY DEF TypedSides
<1>3. ASSUME NEW dx \in {-1, 1}, Move(dx) PROVE ServerSpeaks
  <2> DEFINE x == Clamp(server.x + dx, server.width)
  <2>1. x \in Int /\ x \in 0 .. server.width - 1
    BY <1>1, Clamped
  <2>2. /\ server.locked = FALSE /\ server.active = TRUE /\ UNCHANGED <<client, up, batch, wrong>>
        /\ down' = Append(down, Message("move", x)) /\ server' = [server EXCEPT !.x = x, !.said = x]
    BY <1>1, <1>3 DEF Move, Send, Command
  <2> HIDE DEF x
  <2>3. Message("move", x) = [type |-> "move", x |-> x, n |-> server.n]
    BY DEF Message
  <2>4. /\ server' \in ServerSides /\ server'.width = server.width /\ server'.n = server.n
        /\ server'.locked = server.locked /\ server'.said = x
    BY <1>1, <2>1, <2>2 DEF ServerSides
  <2>5. PICK m : m = Message("move", x)
    OBVIOUS
  <2>6. m \in Commands /\ m.type = "move" /\ m.x = x /\ m.n = server.n
    BY <1>1, <2>1, <2>3, <2>5 DEF Commands, Sorts
  <2>7. Says(m)
    BY <2>1, <2>2, <2>4, <2>5, <2>6 DEF Says, Sorts, Allowed, Positioned
  <2> QED
    BY <2>7 DEF ServerSpeaks
<1>4. ASSUME NEW dx \in {-1, 1}, RelativeMove(dx) PROVE ServerSpeaks
  <2>1. /\ server.locked = TRUE /\ server.active = TRUE /\ UNCHANGED <<client, up, batch, wrong>>
        /\ down' = Append(down, Message("relative", dx)) /\ server' = [server EXCEPT !.said = Unknown]
    BY <1>1, <1>4 DEF RelativeMove, Send, Command
  <2>2. Message("relative", dx) = [type |-> "relative", x |-> dx, n |-> server.n] /\ Unknown \in Int /\ dx \in Int
    BY DEF Message, Unknown
  <2>3. /\ server' \in ServerSides /\ server'.width = server.width /\ server'.n = server.n
        /\ server'.locked = server.locked /\ server'.said = Unknown /\ server'.active = server.active
    BY <1>1, <2>1, <2>2 DEF ServerSides
  <2>4. PICK m : m = Message("relative", dx)
    OBVIOUS
  <2>5. m \in Commands /\ m.type = "relative" /\ m.n = server.n
    BY <1>1, <2>2, <2>4 DEF Commands, Sorts
  <2>6. Says(m)
    BY <2>1, <2>3, <2>4, <2>5 DEF Says, Sorts, Allowed, Positioned
  <2> QED
    BY <2>6 DEF ServerSpeaks
<1>5. CASE Press
  <2>1. /\ UNCHANGED <<client, up, batch, wrong, server>> /\ down' = Append(down, Message("press", server.said))
    BY <1>5 DEF Press, Send, Command
  <2>2. Message("press", server.said) = [type |-> "press", x |-> server.said, n |-> server.n]
    BY DEF Message
  <2>3. PICK m : m = Message("press", server.said)
    OBVIOUS
  <2>4. m \in Commands /\ m.type = "press" /\ m.x = server.said /\ m.n = server.n
    BY <1>1, <2>2, <2>3 DEF Commands, Sorts
  <2>5. Says(m)
    BY <1>1, <1>2, <2>1, <2>3, <2>4 DEF Says, Sorts, Allowed, Positioned
  <2> QED
    BY <2>5 DEF ServerSpeaks
<1>6. CASE Leave
  <2>1. /\ server.locked = FALSE /\ UNCHANGED <<client, up, batch, wrong>>
        /\ down' = Append(down, Message("leave", server.said)) /\ server' = [server EXCEPT !.active = FALSE]
    BY <1>1, <1>6 DEF Leave, Send, Command
  <2>2. Message("leave", server.said) = [type |-> "leave", x |-> server.said, n |-> server.n]
    BY DEF Message
  <2>3. /\ server' \in ServerSides /\ server'.width = server.width /\ server'.n = server.n
        /\ server'.locked = server.locked /\ server'.said = server.said
    BY <1>1, <2>1 DEF ServerSides
  <2>4. PICK m : m = Message("leave", server.said)
    OBVIOUS
  <2>5. m \in Commands /\ m.type = "leave" /\ m.x = server.said /\ m.n = server.n
    BY <1>1, <2>2, <2>4 DEF Commands, Sorts
  <2>6. Says(m)
    BY <2>1, <2>3, <2>4, <2>5 DEF Says, Sorts, Allowed, Positioned
  <2> QED
    BY <2>6 DEF ServerSpeaks
<1>7. ASSUME NEW x \in Positions, Enter(x) PROVE ServerSpeaks
  <2>1. x \in Int /\ x \in 0 .. server.width - 1
    <3>1. x \in Nat
      BY <1>7, Parameters DEF Positions
    <3>2. x < server.width /\ server.width \in Nat
      BY <1>1, <1>7, WidthIs DEF Enter
    <3> QED
      BY <3>1, <3>2
  <2>2. /\ server.active = FALSE /\ UNCHANGED <<client, up, batch, wrong>>
        /\ down' = Append(down, Message("enter", x))
        /\ server' = [server EXCEPT !.active = TRUE, !.x = x, !.said = x]
    BY <1>1, <1>7 DEF Enter, Send, Command
  <2>3. Message("enter", x) = [type |-> "enter", x |-> x, n |-> server.n] /\ server.locked = FALSE
    BY <1>1, <1>2, <2>2 DEF Message
  <2>4. /\ server' \in ServerSides /\ server'.width = server.width /\ server'.n = server.n
        /\ server'.locked = server.locked /\ server'.said = x
    BY <1>1, <2>1, <2>2 DEF ServerSides
  <2>5. PICK m : m = Message("enter", x)
    OBVIOUS
  <2>6. m \in Commands /\ m.type = "enter" /\ m.x = x /\ m.n = server.n
    BY <1>1, <2>1, <2>3, <2>5 DEF Commands, Sorts
  <2>7. Says(m)
    BY <2>1, <2>2, <2>3, <2>4, <2>5, <2>6 DEF Says, Sorts, Allowed, Positioned
  <2> QED
    BY <2>7 DEF ServerSpeaks
<1> QED
  BY <1>3, <1>4, <1>5, <1>6, <1>7

(* The other steps.                                                         *)
LEMMA Locking ==
    ASSUME TypedSides, ToggleLock
    PROVE  /\ server' \in ServerSides /\ UNCHANGED <<client, down, up, batch, wrong>>
           /\ server'.width = server.width /\ server'.n = server.n /\ server'.said = server.said
           /\ server'.active = TRUE /\ (~Hurry => down = <<>>)
  BY Parameters DEF ToggleLock, Command, TypedSides, ServerSides, Quiet

LEMMA Receiving ==
    ASSUME TypedSides, ReceiveInfo
    PROVE  /\ up # <<>> /\ up' = Tail(up) /\ UNCHANGED <<client, batch, wrong>>
           /\ server' \in ServerSides /\ server'.width = Head(up).width /\ server'.n = server.n + 1
           /\ server'.said = Unknown /\ server'.locked = server.locked /\ server'.active = server.active
           /\ \E m \in Commands : m.type = "ack" /\ down' = Append(down, m)
<1>1. up # <<>> /\ up' = Tail(up) /\ UNCHANGED <<client, batch, wrong>>
  BY DEF ReceiveInfo
<1>2. Head(up) \in Shapes
  BY <1>1, Received DEF TypedSides
<1>3. Message("ack", 0) \in Commands /\ Message("ack", 0).type = "ack" /\ down' = Append(down, Message("ack", 0))
  BY DEF ReceiveInfo, Send, Message, Commands, Sorts, TypedSides, ServerSides
<1>4. server' = [server EXCEPT !.width = Head(up).width, !.mx = Head(up).x, !.n = @ + 1, !.changes = @ + 1,
                               !.said = Unknown]
  BY DEF ReceiveInfo
<1>5. /\ server' \in ServerSides /\ server'.width = Head(up).width /\ server'.n = server.n + 1
      /\ server'.said = Unknown /\ server'.locked = server.locked /\ server'.active = server.active
  <2>1. /\ server \in ServerSides /\ server.n + 1 \in Nat /\ server.changes + 1 \in Nat /\ Unknown \in Int
        /\ Head(up).width \in Widths /\ Head(up).x \in Int
    BY <1>2 DEF TypedSides, ServerSides, Shapes, Unknown
  <2> QED
    BY <1>4, <2>1 DEF ServerSides
<1> QED
  BY <1>1, <1>3, <1>5

LEMMA Reshaping ==
    ASSUME TypedSides, HandleShapeChanged
    PROVE  /\ server' \in ServerSides /\ UNCHANGED <<client, down, up, batch, wrong>>
           /\ server'.width = server.width /\ server'.n = server.n /\ server'.said = Unknown
           /\ server'.locked = server.locked /\ server'.active = server.active
<1>1. server \in ServerSides /\ server.changes \in Nat /\ server.mx \in Int /\ server.x \in Int
  BY DEF TypedSides, ServerSides
<1> DEFINE x == IF server.active THEN server.mx ELSE server.x
<1>2. /\ server.changes > 0 /\ UNCHANGED <<client, down, up, batch, wrong>>
      /\ server' = [server EXCEPT !.changes = @ - 1, !.said = Unknown, !.x = x]
  BY DEF HandleShapeChanged
<1>3. x \in Int /\ Unknown \in Int /\ server.changes - 1 \in Nat
  BY <1>1, <1>2 DEF Unknown
<1> HIDE DEF x
<1> QED
  BY <1>1, <1>2, <1>3 DEF ServerSides

LEMMA Changing ==
    ASSUME TypedSides, NEW w \in Widths, ShapeChanged(w)
    PROVE  /\ UNCHANGED <<server, down, batch, wrong>> /\ batch = 0
           /\ client' \in ClientSides /\ client'.width = w /\ client'.x \in 0 .. w - 1
           /\ client'.ignore = TRUE /\ client'.sent = client.sent + 1 /\ client'.motion = client.motion
           /\ \E s \in Shapes : s.width = w /\ up' = Append(up, s)
           /\ ~Hurry => client.sent = server.n /\ client.ignore = FALSE
<1>1. client \in ClientSides /\ client.x \in Int /\ client.sent \in Nat /\ client.ignore \in BOOLEAN
  BY DEF TypedSides, ClientSides
<1> DEFINE x == Clamp(client.x, w)
<1>2. x \in Int /\ x \in 0 .. w - 1
  BY <1>1, Clamped
<1>3. /\ client' = [client EXCEPT !.width = w, !.x = x, !.sent = @ + 1, !.ignore = TRUE]
      /\ up' = Append(up, [width |-> w, x |-> x]) /\ UNCHANGED <<server, down, batch, wrong>> /\ batch = 0
      /\ ~Hurry => client.sent = server.n /\ client.ignore = FALSE
  BY <1>1 DEF ShapeChanged, Ignoring
<1> HIDE DEF x
<1>4. [width |-> w, x |-> x] \in Shapes
  BY <1>2 DEF Shapes
<1>5. /\ client' \in ClientSides /\ client'.width = w /\ client'.x = x
      /\ client'.ignore = TRUE /\ client'.sent = client.sent + 1 /\ client'.motion = client.motion
  <2>1. client.sent + 1 \in Nat
    BY <1>1
  <2>2. client' = [client EXCEPT !.width = w, !.x = x, !.sent = client.sent + 1, !.ignore = TRUE]
    BY <1>3
  <2>3. client \in ClientSides /\ x \in Int
    BY <1>1, <1>2
  <2> QED
    BY <2>1, <2>2, <2>3 DEF ClientSides
<1> QED
  BY <1>2, <1>3, <1>4, <1>5

(* A message is read; the rest of the step is flushing at a batch's end.     *)
LEMMA Reading ==
    ASSUME TypedSides, NEW n, HandleData(n)
    PROVE  /\ down # <<>> /\ Head(down) \in Commands /\ Head(down) = down[1]
           /\ down' = Tail(down) /\ UNCHANGED <<server, up>>
           /\ n \in Nat \ {0} /\ batch' = n - 1 /\ batch' \in 0 .. Len(down')
           /\ LET c == Parse(client, Head(down), n > 1)
              IN  /\ c \in ClientSides
                  /\ client' = (IF n = 1 THEN FlushCompressedMouse(c) ELSE c)
                  /\ wrong' = wrong \cup Notice(client, c, Head(down))
           /\ client' \in ClientSides /\ client'.width = client.width /\ client'.sent = client.sent
           /\ client'.ignore = (client.ignore /\ Head(down).type # "ack")
<1>1. down \in Seq(Commands) /\ batch \in 0 .. Len(down) /\ client \in ClientSides /\ Len(down) \in Nat
  BY LenProperties DEF TypedSides
<1>2. n \in 1 .. Len(down)
  BY <1>1 DEF HandleData
<1>3. down # <<>>
  BY <1>2
<1>4. Head(down) \in Commands /\ Head(down) = down[1] /\ Len(Tail(down)) = Len(down) - 1
  BY <1>1, <1>3, Received
<1> DEFINE more == n > 1
<1> DEFINE c == Parse(client, Head(down), more)
<1>5. /\ client' = (IF n = 1 THEN FlushCompressedMouse(c) ELSE c)
      /\ wrong' = wrong \cup Notice(client, c, Head(down))
      /\ down' = Tail(down) /\ batch' = n - 1 /\ UNCHANGED <<server, up>>
  BY DEF HandleData
<1>6. more \in BOOLEAN
  OBVIOUS
<1>7. /\ c \in ClientSides /\ c.width = client.width /\ c.sent = client.sent
      /\ c.ignore = (client.ignore /\ Head(down).type # "ack")
  <2> HIDE DEF more
  <2> QED
    BY <1>1, <1>4, <1>6, ParseTyped
<1>8. /\ client' \in ClientSides /\ client'.width = client.width /\ client'.sent = client.sent
      /\ client'.ignore = (client.ignore /\ Head(down).type # "ack")
  <2> HIDE DEF c
  <2> QED
    BY <1>5, <1>7, FlushTyped
<1> QED
  BY <1>2, <1>3, <1>4, <1>5, <1>7, <1>8

(***************************************************************************)
(* Shapes: whatever hurries                                                 *)
(***************************************************************************)
LEMMA SpeaksShape == ASSUME TypedSides, ShapeKnown, ServerSpeaks PROVE TypedSides' /\ ShapeKnown'
<1>1. PICK m : Says(m)
  BY DEF ServerSpeaks
<1>2. /\ m \in Commands /\ down' = Append(down, m) /\ UNCHANGED <<client, up, batch>> /\ server' \in ServerSides
      /\ server'.width = server.width /\ (server'.locked => server'.active)
  BY <1>1 DEF Says
<1>3. /\ down' \in Seq(Commands) /\ Len(down) \in Nat /\ Len(down') = Len(down) + 1
      /\ \A i \in 1 .. Len(down) : down'[i] = down[i]
  BY <1>2, Sent DEF TypedSides
<1>4. AcksIn(down) \subseteq AcksIn(down')
  BY <1>3 DEF AcksIn
<1>5. TypedSides'
  BY <1>2, <1>3 DEF TypedSides
<1> QED
  BY <1>2, <1>4, <1>5 DEF ShapeKnown

LEMMA ReceivingShape == ASSUME TypedSides, ShapeKnown, ReceiveInfo PROVE TypedSides' /\ ShapeKnown'
<1>1. PICK m \in Commands : m.type = "ack" /\ down' = Append(down, m)
  BY Receiving
<1>2. /\ up # <<>> /\ up' = Tail(up) /\ UNCHANGED <<client, batch>> /\ server' \in ServerSides
      /\ server'.width = Head(up).width /\ server'.locked = server.locked /\ server'.active = server.active
  BY Receiving
<1>3. /\ down' \in Seq(Commands) /\ Len(down) \in Nat /\ Len(down') = Len(down) + 1 /\ down'[Len(down) + 1] = m
  BY <1>1, Sent DEF TypedSides
<1>4. /\ up' \in Seq(Shapes) /\ Len(up) \in Nat \ {0} /\ Len(up') = Len(up) - 1 /\ Head(up) = up[1]
      /\ \A i \in 1 .. Len(up) - 1 : up'[i] = up[i + 1]
  BY <1>2, Received DEF TypedSides
<1>5. Len(down) + 1 \in AcksIn(down')
  BY <1>1, <1>3 DEF AcksIn
<1>6. TypedSides'
  BY <1>2, <1>3, <1>4 DEF TypedSides
<1>7. up[Len(up)].width = client.width
  BY <1>2 DEF ShapeKnown
<1>8. CASE up' = <<>>
  <2>1. Len(up) = 1
    BY <1>4, <1>8, EmptySeq
  <2> QED
    BY <1>2, <1>4, <1>5, <1>6, <1>7, <1>8, <2>1 DEF ShapeKnown
<1>9. CASE up' # <<>>
  <2>1. Len(up') # 0
    BY <1>4, <1>9, EmptySeq
  <2>2. up'[Len(up')] = up[Len(up)]
    BY <1>4, <2>1
  <2> QED
    BY <1>2, <1>5, <1>6, <1>7, <1>9, <2>2 DEF ShapeKnown
<1> QED
  BY <1>8, <1>9

LEMMA ChangingShape ==
    ASSUME TypedSides, ShapeKnown, NEW w \in Widths, ShapeChanged(w)
    PROVE  TypedSides' /\ ShapeKnown'
<1>1. PICK s \in Shapes : s.width = w /\ up' = Append(up, s)
  BY Changing
<1>2. UNCHANGED <<server, down, batch>> /\ client' \in ClientSides /\ client'.width = w
  BY Changing
<1>3. up' \in Seq(Shapes) /\ up' # <<>> /\ Len(up') = Len(up) + 1 /\ up'[Len(up) + 1] = s
  BY <1>1, AppendProperties DEF TypedSides
<1> QED
  BY <1>1, <1>2, <1>3 DEF TypedSides, ShapeKnown

LEMMA ReadingShape ==
    ASSUME TypedSides, ShapeKnown, NEW n, HandleData(n)
    PROVE  TypedSides' /\ ShapeKnown'
<1>1. /\ down # <<>> /\ Head(down) = down[1] /\ down' = Tail(down) /\ UNCHANGED <<server, up>>
      /\ batch' \in 0 .. Len(down') /\ client' \in ClientSides /\ client'.width = client.width
      /\ client'.ignore = (client.ignore /\ Head(down).type # "ack")
  BY Reading
<1>2. /\ down' \in Seq(Commands) /\ Len(down) \in Nat \ {0} /\ Len(down') = Len(down) - 1
      /\ \A i \in 1 .. Len(down) - 1 : down'[i] = down[i + 1]
  BY <1>1, Received DEF TypedSides
<1>3. ASSUME client'.ignore, up = <<>> PROVE AcksIn(down') # {}
  <2>1. PICK i \in 1 .. Len(down) : down[i].type = "ack"
    BY <1>1, <1>3 DEF ShapeKnown, AcksIn
  <2>2. i # 1
    BY <1>1, <1>3, <2>1
  <2>3. i - 1 \in AcksIn(down')
    BY <1>2, <2>1, <2>2 DEF AcksIn
  <2> QED
    BY <2>3
<1> QED
  BY <1>1, <1>2, <1>3 DEF TypedSides, ShapeKnown

(***************************************************************************)
(* Motion: one shape on the way at a time, and a lock that changes when      *)
(* nothing is                                                               *)
(***************************************************************************)
(* The commands before the last are where they were.                        *)
LEMMA SamePut ==
    ASSUME NEW q, NEW r, NEW c, NEW i \in Nat, NEW x, \A k \in 1 .. i - 1 : r[k] = q[k], PutAt(q, c, i, x)
    PROVE  PutAt(r, c, i, x)
  BY DEF PutAt, Stays

(* What only presses follow stays.                                          *)
LEMMA PutOn ==
    ASSUME NEW q, NEW c, NEW i \in Nat, NEW x, PutAt(q, c, i, x), q[i].type \in {"press", "leave"}
    PROVE  PutAt(q, c, i + 1, x)
  BY DEF PutAt, Stays

LEMMA SpeaksMotion == ASSUME TypedSides, ShapeKnown, MotionInv, ServerSpeaks PROVE MotionInv'
<1>1. PICK m : Says(m)
  BY DEF ServerSpeaks
<1>2. /\ m \in Commands /\ m.n = server.n /\ m.type # "ack"
      /\ down' = Append(down, m) /\ UNCHANGED <<client, up, batch, wrong>>
      /\ server' \in ServerSides
      /\ server'.width = server.width /\ server'.n = server.n /\ server'.locked = server.locked
      /\ m.type \in Allowed /\ (server'.locked => server'.active)
  BY <1>1 DEF Says
<1>3. /\ Len(down) \in Nat /\ Len(down') = Len(down) + 1
      /\ \A i \in 1 .. Len(down) : down'[i] = down[i]
      /\ down'[Len(down) + 1] = m
  BY <1>2, Sent DEF TypedSides
<1>4. AcksIn(down') = AcksIn(down)
  BY <1>2, <1>3 DEF AcksIn
<1>5. \A i : HeededAt(down', client', i) = HeededAt(down, client, i)
  BY <1>2, <1>4 DEF HeededAt
<1>6. HeededAt(down, client, Len(down) + 1) => up = <<>> /\ server.width = client.width /\ client.sent = server.n
  <2>1. HeededAt(down, client, Len(down) + 1) => up = <<>>
    BY DEF HeededAt, MotionInv, OneShape
  <2>2. up = <<>> => server.width = client.width /\ client.sent = server.n
    <3>1. up = <<>> => Len(up) = 0
      BY EmptySeq
    <3> QED
      BY <3>1 DEF ShapeKnown, MotionInv, OneShape, TypedSides, ServerSides
  <2> QED
    BY <2>1, <2>2
<1>7. OneShape'
  BY <1>2, <1>4 DEF MotionInv, OneShape
<1>8. FreshMotion'
  <2>1. ASSUME NEW i \in 1 .. Len(down'), HeededAt(down', client', i) PROVE FreshAt(down', client', i)
    <3>1. CASE i \in 1 .. Len(down)
      BY <1>2, <1>3, <1>5, <2>1, <3>1 DEF MotionInv, FreshMotion, FreshAt
    <3>2. CASE i = Len(down) + 1
      <4>1. m.n = client.sent /\ server.width = client.width
        BY <1>2, <1>5, <1>6, <2>1, <3>2
      <4>2. Positioned(m) => m.x \in 0 .. client.width - 1
        BY <1>1, <4>1 DEF Says
      <4> QED
        BY <1>2, <1>3, <3>2, <4>1, <4>2 DEF FreshAt
    <3> QED
      BY <1>3, <3>1, <3>2
  <2> QED
    BY <1>2, <2>1 DEF MotionInv, FreshMotion
<1>9. HeldBack'
  BY <1>2 DEF MotionInv, HeldBack, Calm
<1>10. ByLock'
  BY <1>2, <1>3 DEF MotionInv, ByLock, Allowed
<1>11. Placed'
  <2>1. ASSUME NEW i \in 1 .. Len(down), NEW x, PutAt(down, client, i, x) PROVE PutAt(down', client', i, x)
    <3>1. i \in Nat /\ (\A k \in 1 .. i - 1 : down'[k] = down[k]) /\ client' = client
      BY <1>2, <1>3
    <3>2. PutAt(down', client, i, x)
      BY <2>1, <3>1, SamePut
    <3> QED
      BY <3>1, <3>2
  <2>2. ASSUME NEW x, PutAt(down, client, Len(down) + 1, x) PROVE PutAt(down', client', Len(down) + 1, x)
    <3>1. /\ Len(down) + 1 \in Nat /\ (\A k \in 1 .. (Len(down) + 1) - 1 : down'[k] = down[k])
          /\ client' = client
      BY <1>2, <1>3
    <3>2. PutAt(down', client, Len(down) + 1, x)
      BY <2>2, <3>1, SamePut
    <3> QED
      BY <3>1, <3>2
  <2>3. ASSUME NEW i \in 1 .. Len(down'), down'[i].type = "press", down'[i].x # Unknown,
               HeededAt(down', client', i)
        PROVE  PutAt(down', client', i, down'[i].x)
    <3>1. CASE i \in 1 .. Len(down)
      BY <1>3, <1>5, <2>1, <2>3, <3>1 DEF MotionInv, Placed
    <3>2. CASE i = Len(down) + 1
      <4>1. m.type = "press" /\ m.x = server.said /\ m.x # Unknown
        BY <1>1, <1>3, <2>3, <3>2 DEF Says
      <4> QED
        BY <1>3, <1>5, <2>2, <2>3, <3>2, <4>1 DEF MotionInv, Placed
    <3> QED
      BY <1>3, <3>1, <3>2
  <2>4. ASSUME server'.said # Unknown, HeededAt(down', client', Len(down') + 1)
        PROVE  PutAt(down', client', Len(down') + 1, server'.said)
    <3>1. m.type \in {"move", "enter", "press", "leave"}
      BY <1>1, <1>2, <2>4 DEF Says, Commands, Sorts
    <3>2. CASE m.type \in {"press", "leave"}
      <4>1. server'.said = server.said
        BY <1>1, <3>2 DEF Says
      <4>2. HeededAt(down, client, Len(down) + 1)
        BY <1>2, <1>3, <1>5, <2>4 DEF HeededAt, AcksIn
      <4>3. PutAt(down', client', Len(down) + 1, server'.said)
        BY <2>2, <2>4, <4>1, <4>2 DEF MotionInv, Placed
      <4>4. Len(down) + 1 \in Nat /\ down'[Len(down) + 1].type \in {"press", "leave"}
        BY <1>3, <3>2
      <4>5. PutAt(down', client', (Len(down) + 1) + 1, server'.said)
        BY <4>3, <4>4, PutOn
      <4> QED
        BY <1>3, <4>5
    <3>3. CASE m.type \in {"move", "enter"}
      <4>1. server'.said = m.x /\ Positioned(m)
        BY <1>1, <3>3 DEF Says, Positioned
      <4>2. Stays(down', Len(down) + 2, Len(down) + 1)
        BY <1>3 DEF Stays
      <4> QED
        BY <1>3, <4>1, <4>2 DEF PutAt
    <3> QED
      BY <3>1, <3>2, <3>3
  <2> QED
    BY <2>3, <2>4 DEF Placed
<1>12. Unharmed'
  BY <1>2 DEF MotionInv, Unharmed
<1> QED
  BY <1>7, <1>8, <1>9, <1>10, <1>11, <1>12 DEF MotionInv

LEMMA LockingMotion == ASSUME TypedSides, MotionInv, ToggleLock, ~Hurry PROVE MotionInv'
<1>1. /\ server' \in ServerSides /\ UNCHANGED <<client, down, up, batch, wrong>>
      /\ server'.width = server.width /\ server'.n = server.n /\ server'.said = server.said
      /\ server'.active = TRUE /\ down = <<>>
  BY Locking
<1>2. Len(down) = 0 /\ batch = 0
  BY <1>1, EmptySeq DEF TypedSides
<1>3. client.motion = NoMotion
  BY <1>2 DEF MotionInv, HeldBack
<1>4. Calm(client) /\ client.motion.held = Nothing
  BY <1>3 DEF NoMotion, Calm
<1>5. HeldBack'
  BY <1>1, <1>3, <1>4 DEF HeldBack, Calm
<1>6. ByLock'
  BY <1>1, <1>2 DEF ByLock
<1>7. OneShape' /\ FreshMotion' /\ Placed' /\ Unharmed'
  BY <1>1 DEF MotionInv, OneShape, FreshMotion, Placed, Unharmed
<1> QED
  BY <1>5, <1>6, <1>7 DEF MotionInv

LEMMA ReshapingMotion == ASSUME TypedSides, MotionInv, HandleShapeChanged PROVE MotionInv'
<1>1. /\ server' \in ServerSides /\ UNCHANGED <<client, down, up, batch, wrong>>
      /\ server'.width = server.width /\ server'.n = server.n /\ server'.said = Unknown
      /\ server'.locked = server.locked /\ server'.active = server.active
  BY Reshaping
<1>2. OneShape' /\ FreshMotion' /\ HeldBack' /\ ByLock' /\ Unharmed'
  BY <1>1 DEF MotionInv, OneShape, FreshMotion, HeldBack, Calm, ByLock, Allowed, Unharmed
<1>3. Placed'
  BY <1>1 DEF MotionInv, Placed
<1> QED
  BY <1>2, <1>3 DEF MotionInv

LEMMA ReceivingMotion == ASSUME TypedSides, MotionInv, ReceiveInfo PROVE MotionInv'
<1>1. PICK m \in Commands : m.type = "ack" /\ down' = Append(down, m)
  BY Receiving
<1>2. /\ up # <<>> /\ up' = Tail(up) /\ UNCHANGED <<client, batch, wrong>>
      /\ server' \in ServerSides /\ server'.n = server.n + 1
      /\ server'.said = Unknown /\ server'.locked = server.locked /\ server'.active = server.active
  BY Receiving
<1>3. /\ Len(down) \in Nat /\ Len(down') = Len(down) + 1
      /\ \A i \in 1 .. Len(down) : down'[i] = down[i]
      /\ down'[Len(down) + 1] = m
  BY <1>1, Sent DEF TypedSides
<1>4. /\ Len(up) = 1 /\ Len(up') = 0 /\ client.ignore /\ server.n \in Nat
      /\ client.sent = server.n + 1
  <2>1. Len(up) \in Nat \ {0} /\ Len(up') = Len(up) - 1
    BY <1>2, Received DEF TypedSides
  <2>2. Len(up) <= 1 /\ client.ignore /\ client.sent = server.n + Len(up)
    BY <1>2 DEF MotionInv, OneShape
  <2>3. server.n \in Nat
    BY DEF TypedSides, ServerSides
  <2> QED
    BY <2>1, <2>2, <2>3
<1>5. up' = <<>>
  <2>1. up' \in Seq(Shapes)
    BY <1>2, Received DEF TypedSides
  <2> QED
    BY <1>4, <2>1, EmptySeq
<1>6. AcksIn(down) = {}
  BY <1>2 DEF MotionInv, OneShape
<1>7. AcksIn(down') = {Len(down) + 1}
  BY <1>1, <1>3, <1>6 DEF AcksIn
<1>8. \A i \in 1 .. Len(down') : ~HeededAt(down', client', i)
  BY <1>2, <1>3, <1>4, <1>7 DEF HeededAt
<1>9. OneShape'
  <2>1. client'.sent = server'.n + Len(up') /\ Len(up') <= 1
    <3>1. client' = client /\ server'.n = server.n + 1
      BY <1>2
    <3>2. client.sent = server.n + 1 /\ Len(up') = 0 /\ server.n \in Nat
      BY <1>4
    <3> QED
      BY <3>1, <3>2
  <2> QED
    BY <1>2, <1>4, <1>5, <1>7, <2>1 DEF OneShape
<1>10. FreshMotion' /\ Placed'
  BY <1>2, <1>8 DEF MotionInv, FreshMotion, Placed
<1>11. HeldBack' /\ Unharmed'
  BY <1>2 DEF MotionInv, HeldBack, Calm, Unharmed
<1>12. ByLock'
  BY <1>1, <1>2, <1>3 DEF MotionInv, ByLock, Allowed, Sorts
<1> QED
  BY <1>9, <1>10, <1>11, <1>12 DEF MotionInv

LEMMA ChangingMotion ==
    ASSUME TypedSides, MotionInv, NEW w \in Widths, ShapeChanged(w), ~Hurry
    PROVE  MotionInv'
<1>1. PICK s \in Shapes : s.width = w /\ up' = Append(up, s)
  BY Changing
<1>2. /\ UNCHANGED <<server, down, batch, wrong>> /\ batch = 0
      /\ client' \in ClientSides /\ client'.width = w /\ client'.x \in 0 .. w - 1
      /\ client'.ignore = TRUE /\ client'.sent = client.sent + 1 /\ client'.motion = client.motion
      /\ client.sent = server.n /\ client.ignore = FALSE
  BY Changing
<1>3. up \in Seq(Shapes) /\ up = <<>> /\ Len(up) = 0 /\ AcksIn(down) = {}
  BY <1>2, EmptySeq DEF MotionInv, OneShape, TypedSides
<1>4. Len(up') = 1 /\ up' # <<>>
  BY <1>1, <1>3, AppendProperties
<1>5. \A i : ~HeededAt(down', client', i)
  BY <1>2, <1>3 DEF HeededAt
<1>6. OneShape'
  BY <1>2, <1>3, <1>4 DEF OneShape, TypedSides, ServerSides
<1>7. FreshMotion' /\ Placed'
  BY <1>2, <1>5 DEF FreshMotion, Placed
<1>8. client.motion = NoMotion /\ Calm(client) /\ client.motion.held = Nothing
  BY <1>2 DEF MotionInv, HeldBack, NoMotion, Calm
<1>9. HeldBack'
  BY <1>2, <1>8 DEF HeldBack, Calm
<1>10. ByLock' /\ Unharmed'
  BY <1>2 DEF MotionInv, ByLock, Allowed, Unharmed
<1> QED
  BY <1>6, <1>7, <1>9, <1>10 DEF MotionInv

(* What the first message of those on the way makes of the others.          *)
LEMMA Shifting ==
    ASSUME TypedSides, down # <<>>, down' = Tail(down), client'.ignore = (client.ignore /\ down[1].type # "ack")
    PROVE  /\ Len(down) \in Nat \ {0} /\ Len(down') = Len(down) - 1
           /\ \A i \in 1 .. Len(down) - 1 : down'[i] = down[i + 1]
           /\ \A i \in AcksIn(down') : i + 1 \in AcksIn(down)
           /\ down[1].type # "ack" => \A i \in AcksIn(down) : i - 1 \in AcksIn(down')
           /\ \A i \in 1 .. Len(down) : HeededAt(down', client', i) => HeededAt(down, client, i + 1)
<1>1. /\ Len(down) \in Nat \ {0} /\ Len(down') = Len(down) - 1
      /\ \A i \in 1 .. Len(down) - 1 : down'[i] = down[i + 1]
  BY Received DEF TypedSides
<1>2. \A i \in AcksIn(down') : i + 1 \in AcksIn(down)
  BY <1>1 DEF AcksIn
<1>3. ASSUME down[1].type # "ack", NEW i \in AcksIn(down) PROVE i - 1 \in AcksIn(down')
  <2>1. i \in 1 .. Len(down) /\ down[i].type = "ack" /\ i # 1
    BY <1>3 DEF AcksIn
  <2> QED
    BY <1>1, <2>1 DEF AcksIn
<1>4. ASSUME NEW i \in 1 .. Len(down), HeededAt(down', client', i) PROVE HeededAt(down, client, i + 1)
  <2>1. CASE ~client'.ignore
    <3>1. CASE down[1].type = "ack"
      <4>1. 1 \in AcksIn(down) /\ 1 < i + 1
        BY <1>1, <3>1 DEF AcksIn
      <4> QED
        BY <4>1 DEF HeededAt
    <3>2. CASE down[1].type # "ack"
      BY <2>1, <3>2 DEF HeededAt, TypedSides, ClientSides
    <3> QED
      BY <3>1, <3>2
  <2>2. CASE \E j \in AcksIn(down') : j < i
    <3>1. PICK j \in AcksIn(down') : j < i
      BY <2>2
    <3>2. j + 1 \in AcksIn(down) /\ j + 1 < i + 1
      BY <1>2, <3>1 DEF AcksIn
    <3> QED
      BY <3>2 DEF HeededAt
  <2> QED
    BY <1>4, <2>1, <2>2 DEF HeededAt
<1> QED
  BY <1>1, <1>2, <1>3, <1>4

(* What a message makes of the cursor and of the motion that is held back.   *)
Fits(c, isLocked) ==
    /\ c.x \in 0 .. c.width - 1
    /\ c.ignore => c.motion = NoMotion
    /\ IF isLocked THEN c.motion.held = Nothing ELSE Calm(c)
    /\ c.motion.held # Nothing => c.motion.held \in 0 .. c.width - 1

LEMMA ParseMotion ==
    ASSUME NEW c \in ClientSides, NEW m \in Commands, NEW more \in BOOLEAN, NEW isLocked \in BOOLEAN,
           Fits(c, isLocked), isLocked => m.type \in {"relative", "press", "ack"}, ~isLocked => m.type # "relative",
           ~c.ignore /\ Positioned(m) => m.x \in 0 .. c.width - 1
    PROVE  LET d == Parse(c, m, more)
           IN  /\ Fits(d, isLocked)
               /\ ~c.ignore /\ Positioned(m) => Calm(d) /\ Cursor(d) = m.x
               /\ m.type \in {"press", "leave"} /\ Calm(c) => Calm(d) /\ Cursor(d) = Cursor(c) /\ d.x = Cursor(c)
<1> DEFINE d == Parse(c, m, more)
<1>1. /\ c.x \in Int /\ c.width \in Widths /\ c.motion \in Motions /\ c.ignore \in BOOLEAN
      /\ c.motion.held \in Int /\ c.motion.delta \in Int /\ m.x \in Int /\ m.type \in Sorts
      /\ c.width \in Nat /\ c.width <= Nothing /\ Nothing \in Nat
  <2>1. /\ c.x \in Int /\ c.width \in Widths /\ c.motion \in Motions /\ c.ignore \in BOOLEAN
        /\ c.motion.held \in Int /\ c.motion.delta \in Int /\ m.x \in Int /\ m.type \in Sorts
    BY DEF ClientSides, Motions, Commands
  <2>2. c.width \in 1 .. MaxWidth /\ MaxWidth \in Nat
    BY <2>1, Parameters
  <2> QED
    BY <2>1, <2>2 DEF Nothing
<1>2. NoMotion.held = Nothing /\ NoMotion.delta = 0 /\ NoMotion.relative = FALSE
  BY DEF NoMotion
<1>3. CASE m.type = "move"
  <2>1. d = MouseMove(c, m, more) /\ isLocked = FALSE
    BY <1>3 DEF Parse
  <2>2. Calm(c) /\ Positioned(m)
    BY <1>3, <2>1 DEF Fits, Positioned
  <2>3. CASE c.ignore
    <3>1. d = c
      BY <1>2, <2>1, <2>3 DEF MouseMove, Fits
    <3> QED
      BY <1>3, <2>3, <3>1
  <2>4. CASE ~c.ignore /\ (c.motion.held # Nothing \/ more)
    <3>1. /\ d.motion = [held |-> m.x, delta |-> 0, relative |-> FALSE]
          /\ d.x = c.x /\ d.width = c.width /\ d.ignore = c.ignore
      BY <2>1, <2>4 DEF MouseMove, ClientSides
    <3>2. m.x \in 0 .. c.width - 1 /\ m.x # Nothing
      BY <1>1, <2>2, <2>4
    <3>3. Calm(d) /\ Cursor(d) = m.x
      BY <3>1, <3>2 DEF Calm, Cursor
    <3> QED
      BY <1>3, <2>1, <2>4, <3>1, <3>2, <3>3 DEF Fits
  <2>5. CASE ~c.ignore /\ ~(c.motion.held # Nothing \/ more)
    <3>1. m.x \in 0 .. c.width - 1
      BY <1>1, <2>2, <2>5
    <3>2. Clamp(m.x, c.width) = m.x
      BY <1>1, <3>1, Clamped
    <3>3. d.x = m.x /\ d.motion = c.motion /\ d.width = c.width /\ d.ignore = c.ignore
      BY <2>1, <2>5, <3>2 DEF MouseMove, ClientSides
    <3>4. Calm(d) /\ Cursor(d) = m.x
      BY <2>2, <2>5, <3>3 DEF Calm, Cursor
    <3> QED
      BY <1>3, <2>1, <2>5, <3>1, <3>3, <3>4 DEF Fits
  <2> QED
    BY <2>3, <2>4, <2>5
<1>4. CASE m.type = "relative"
  <2>1. d = MouseRelativeMove(c, m, more) /\ isLocked = TRUE
    BY <1>4 DEF Parse
  <2>2. CASE c.motion.relative \/ (~c.ignore /\ more)
    <3> DEFINE moved == [c.motion EXCEPT !.relative = TRUE, !.delta = @ + m.x]
    <3>1. moved.held = c.motion.held
      BY <1>1 DEF Motions
    <3>2. d = [c EXCEPT !.motion = moved]
      BY <2>1, <2>2 DEF MouseRelativeMove, ClientSides
    <3> HIDE DEF moved
    <3>3. d.motion.held = c.motion.held /\ d.x = c.x /\ d.width = c.width /\ d.ignore = c.ignore
      BY <3>1, <3>2 DEF ClientSides
    <3>4. ~c.ignore
      BY <1>1, <1>2, <2>2 DEF Fits
    <3> QED
      BY <1>4, <2>1, <3>3, <3>4 DEF Fits, Positioned
  <2>3. CASE ~(c.motion.relative \/ (~c.ignore /\ more)) /\ c.ignore
    BY <1>4, <2>1, <2>3 DEF MouseRelativeMove, Positioned
  <2>4. CASE ~(c.motion.relative \/ (~c.ignore /\ more)) /\ ~c.ignore
    <3>1. Clamp(c.x + m.x, c.width) \in 0 .. c.width - 1
      BY <1>1, Clamped
    <3>2. /\ d.x = Clamp(c.x + m.x, c.width) /\ d.motion = c.motion /\ d.width = c.width
          /\ d.ignore = c.ignore
      BY <2>1, <2>4 DEF MouseRelativeMove, ClientSides
    <3> QED
      BY <1>4, <2>1, <3>1, <3>2 DEF Fits, Positioned
  <2> QED
    BY <2>2, <2>3, <2>4
<1>5. CASE m.type = "enter"
  <2>1. d = [c EXCEPT !.motion = NoMotion, !.x = Clamp(m.x, c.width)]
    BY <1>5 DEF Parse, EnterScreen
  <2>2. Clamp(m.x, c.width) \in 0 .. c.width - 1 /\ (m.x \in 0 .. c.width - 1 => Clamp(m.x, c.width) = m.x)
    BY <1>1, Clamped
  <2>3. d.x = Clamp(m.x, c.width) /\ d.motion = NoMotion /\ d.width = c.width /\ d.ignore = c.ignore
    BY <2>1 DEF ClientSides
  <2>4. Fits(d, isLocked)
    BY <1>2, <2>2, <2>3 DEF Fits, Calm
  <2>5. ~c.ignore => Calm(d) /\ Cursor(d) = m.x
    BY <1>2, <1>5, <2>2, <2>3 DEF Calm, Cursor, Positioned
  <2> QED
    BY <1>5, <2>4, <2>5
<1>6. CASE m.type \in {"press", "leave"}
  <2>1. d = FlushCompressedMouse(c)
    BY <1>6 DEF Parse, BroughtUpToDate
  <2>2. /\ d.x \in 0 .. c.width - 1 /\ d.width = c.width /\ d.ignore = c.ignore /\ d.motion = NoMotion
        /\ Calm(c) => d.x = Cursor(c)
    BY <2>1, FlushTyped DEF Fits
  <2>3. Fits(d, isLocked) /\ Calm(d) /\ Cursor(d) = d.x
    BY <1>2, <2>2 DEF Fits, Calm, Cursor
  <2> QED
    BY <1>6, <2>2, <2>3 DEF Positioned
<1>7. CASE m.type = "ack"
  <2>1. d = [c EXCEPT !.ignore = FALSE]
    BY <1>7 DEF Parse, InfoAcknowledged
  <2>2. d.x = c.x /\ d.motion = c.motion /\ d.width = c.width /\ d.ignore = FALSE
    BY <2>1 DEF ClientSides
  <2> QED
    BY <1>7, <2>2 DEF Fits, Calm, Positioned
<1> QED
  BY <1>1, <1>3, <1>4, <1>5, <1>6, <1>7 DEF Sorts

(* The end of a batch changes nothing that is seen.                         *)
LEMMA FlushMotion ==
    ASSUME NEW c \in ClientSides, NEW isLocked, Fits(c, isLocked)
    PROVE  LET d == FlushCompressedMouse(c)
           IN  Fits(d, isLocked) /\ Calm(d) /\ d.motion = NoMotion /\ (Calm(c) => Cursor(d) = Cursor(c))
<1> DEFINE d == FlushCompressedMouse(c)
<1>1. NoMotion.held = Nothing /\ NoMotion.delta = 0 /\ NoMotion.relative = FALSE
  BY DEF NoMotion
<1>2. /\ d.x \in 0 .. c.width - 1 /\ d.width = c.width /\ d.ignore = c.ignore /\ d.motion = NoMotion
      /\ Calm(c) => d.x = Cursor(c)
  BY FlushTyped DEF Fits
<1> HIDE DEF d
<1>3. Fits(d, isLocked) /\ Calm(d) /\ d.motion = NoMotion /\ (Calm(c) => Cursor(d) = Cursor(c))
  BY <1>1, <1>2 DEF Fits, Calm, Cursor
<1> QED
  BY <1>3 DEF d

LEMMA ReadingMotion ==
    ASSUME TypedSides, MotionInv, NEW n, HandleData(n)
    PROVE  MotionInv'
<1> DEFINE m == Head(down)
<1> DEFINE more == n > 1
<1> DEFINE c == Parse(client, m, more)
<1>1. /\ down # <<>> /\ m \in Commands /\ m = down[1]
      /\ down' = Tail(down) /\ UNCHANGED <<server, up>>
      /\ n \in Nat \ {0} /\ batch' = n - 1
      /\ c \in ClientSides /\ client' = (IF n = 1 THEN FlushCompressedMouse(c) ELSE c)
      /\ wrong' = wrong \cup Notice(client, c, m)
      /\ client' \in ClientSides /\ client'.width = client.width /\ client'.sent = client.sent
      /\ client'.ignore = (client.ignore /\ m.type # "ack")
  BY Reading
<1>2. /\ client \in ClientSides /\ client.ignore \in BOOLEAN /\ server.locked \in BOOLEAN /\ (n > 1) \in BOOLEAN
      /\ m.type \in Sorts
  <2>1. client \in ClientSides /\ server.locked \in BOOLEAN
    BY DEF TypedSides, ServerSides
  <2>2. client.ignore \in BOOLEAN
    BY <2>1 DEF ClientSides
  <2>3. (n > 1) \in BOOLEAN
    OBVIOUS
  <2>4. m.type \in Sorts
    <3> HIDE DEF m
    <3> QED
      BY <1>1 DEF Commands
  <2> QED
    BY <2>1, <2>2, <2>3, <2>4
<1>3. /\ Len(down) \in Nat \ {0} /\ Len(down') = Len(down) - 1
      /\ \A i \in 1 .. Len(down) - 1 : down'[i] = down[i + 1]
      /\ \A i \in AcksIn(down') : i + 1 \in AcksIn(down)
      /\ \A i \in 1 .. Len(down) : HeededAt(down', client', i) => HeededAt(down, client, i + 1)
  BY <1>1, Shifting
<1>4. Fits(client, server.locked)
  BY DEF MotionInv, HeldBack, FreshMotion, Fits
<1>5. m.type \in Allowed
  BY <1>1, <1>3 DEF MotionInv, ByLock
<1>6. ~client.ignore => m.n = client.sent /\ (Positioned(m) => m.x \in 0 .. client.width - 1)
  BY <1>1, <1>3 DEF MotionInv, FreshMotion, HeededAt, FreshAt
<1>7. /\ Fits(c, server.locked)
      /\ ~client.ignore /\ Positioned(m) => Calm(c) /\ Cursor(c) = m.x
      /\ m.type \in {"press", "leave"} /\ Calm(client)
         => Calm(c) /\ Cursor(c) = Cursor(client) /\ c.x = Cursor(client)
  <2>1. server.locked => m.type \in {"relative", "press", "ack"}
    BY <1>5 DEF Allowed
  <2>2. ~server.locked => m.type # "relative"
    BY <1>5 DEF Allowed
  <2>3. client \in ClientSides /\ m \in Commands /\ more \in BOOLEAN /\ server.locked \in BOOLEAN
    BY <1>1, <1>2
  <2> HIDE DEF more, m
  <2> QED
    BY <1>4, <1>6, <2>1, <2>2, <2>3, ParseMotion
<1>8. c.ignore = (client.ignore /\ m.type # "ack") /\ c.sent = client.sent
  <2>1. client \in ClientSides /\ m \in Commands /\ more \in BOOLEAN
    BY <1>1, <1>2
  <2> HIDE DEF more, m
  <2> QED
    BY <2>1, ParseTyped
<1> HIDE DEF c, m
<1>9. /\ Fits(client', server.locked) /\ (Calm(c) => Calm(client') /\ Cursor(client') = Cursor(c))
      /\ n = 1 => client'.motion = NoMotion
  BY <1>1, <1>7, FlushMotion
<1>10. OneShape'
  <2>1. \A i \in AcksIn(down') : client'.ignore /\ up' = <<>>
    <3> SUFFICES ASSUME NEW i \in AcksIn(down') PROVE client'.ignore /\ up' = <<>>
      OBVIOUS
    <3>1. i + 1 \in AcksIn(down) /\ i \in Nat \ {0}
      BY <1>3 DEF AcksIn
    <3>2. client.ignore /\ up = <<>>
      BY <3>1 DEF MotionInv, OneShape
    <3>3. m.type # "ack"
      <4>1. m.type = "ack" => 1 \in AcksIn(down)
        BY <1>1, <1>3 DEF AcksIn
      <4>2. 1 \in AcksIn(down) => i + 1 = 1
        BY <3>1 DEF MotionInv, OneShape
      <4> QED
        BY <3>1, <4>1, <4>2
    <3> QED
      BY <1>1, <3>2, <3>3
  <2>2. \A i, j \in AcksIn(down') : i = j
    <3> SUFFICES ASSUME NEW i \in AcksIn(down'), NEW j \in AcksIn(down') PROVE i = j
      OBVIOUS
    <3>1. i + 1 = j + 1
      BY <1>3 DEF MotionInv, OneShape
    <3> QED
      BY <1>3, <3>1 DEF AcksIn
  <2>3. up # <<>> => client'.ignore
    <3>1. up # <<>> => client.ignore /\ AcksIn(down) = {}
      BY DEF MotionInv, OneShape
    <3>2. m.type = "ack" => 1 \in AcksIn(down)
      BY <1>1, <1>3 DEF AcksIn
    <3> QED
      BY <1>1, <3>1, <3>2
  <2> QED
    BY <1>1, <2>1, <2>2, <2>3 DEF MotionInv, OneShape
<1>11. FreshMotion'
  <2>1. ASSUME NEW i \in 1 .. Len(down'), HeededAt(down', client', i) PROVE FreshAt(down', client', i)
    <3>1. i \in 1 .. Len(down) - 1 /\ i + 1 \in 1 .. Len(down) /\ down'[i] = down[i + 1]
      BY <1>3
    <3>2. FreshAt(down, client, i + 1)
      BY <1>3, <2>1, <3>1 DEF MotionInv, FreshMotion
    <3> QED
      BY <1>1, <3>1, <3>2 DEF FreshAt
  <2> QED
    BY <1>9, <2>1 DEF FreshMotion, Fits
<1>12. HeldBack'
  <2>1. batch' = 0 => n = 1
    BY <1>1
  <2> QED
    BY <1>1, <1>9, <2>1 DEF HeldBack, Fits
<1>13. ByLock'
  <2>1. ASSUME NEW i \in 1 .. Len(down') PROVE down'[i].type \in Allowed
    <3>1. i \in 1 .. Len(down) - 1 /\ i + 1 \in 1 .. Len(down) /\ down'[i] = down[i + 1]
      BY <1>3
    <3> QED
      BY <3>1 DEF MotionInv, ByLock
  <2> QED
    BY <1>1, <2>1 DEF MotionInv, ByLock, Allowed
<1>14. Placed'
  <2>1. ASSUME NEW i \in 1 .. Len(down), NEW x, HeededAt(down, client, i + 1), PutAt(down, client, i + 1, x)
        PROVE  PutAt(down', client', i, x)
    <3>1. \A k \in 1 .. i - 1 : down'[k] = down[k + 1]
      BY <1>3
    <3>2. ASSUME NEW j \in 1 .. i, Positioned(down[j]), down[j].x = x, Stays(down, j + 1, i)
          PROVE  PutAt(down', client', i, x)
      <4>1. CASE j = 1
        <5>1. Positioned(m) /\ m.x = x
          BY <1>1, <3>2, <4>1
        <5>2. ~client.ignore
          <6>1. ASSUME NEW k \in AcksIn(down), k < i + 1 PROVE FALSE
            <7>1. k \in 1 .. i /\ down[k].type = "ack"
              BY <6>1 DEF AcksIn
            <7>2. k # 1
              BY <3>2, <4>1, <7>1 DEF Positioned
            <7> QED
              BY <3>2, <4>1, <7>1, <7>2 DEF Stays
          <6> QED
            BY <2>1, <6>1 DEF HeededAt
        <5>3. Calm(client') /\ Cursor(client') = x /\ ~client'.ignore
          BY <1>1, <1>7, <1>9, <5>1, <5>2
        <5>4. Stays(down', 1, i - 1)
          BY <3>1, <3>2, <4>1 DEF Stays
        <5> QED
          BY <5>3, <5>4 DEF PutAt
      <4>2. CASE j # 1
        <5>1. j - 1 \in 1 .. i - 1 /\ down'[j - 1] = down[j]
          BY <3>1, <4>2
        <5>2. Stays(down', (j - 1) + 1, i - 1)
          <6> SUFFICES ASSUME NEW k \in (j - 1) + 1 .. i - 1 PROVE down'[k].type \in {"press", "leave"}
            BY DEF Stays
          <6>1. k \in 1 .. i - 1 /\ k + 1 \in j + 1 .. i
            BY <4>2
          <6> QED
            BY <3>1, <3>2, <6>1 DEF Stays
        <5> QED
          BY <3>2, <5>1, <5>2 DEF PutAt
      <4> QED
        BY <4>1, <4>2
    <3>3. ASSUME Stays(down, 1, i), ~client.ignore, Calm(client), Cursor(client) = x
          PROVE  PutAt(down', client', i, x)
      <4>1. m.type \in {"press", "leave"}
        BY <1>1, <3>3 DEF Stays
      <4>2. Calm(client') /\ Cursor(client') = x /\ ~client'.ignore
        BY <1>1, <1>7, <1>9, <3>3, <4>1
      <4>3. Stays(down', 1, i - 1)
        BY <3>1, <3>3 DEF Stays
      <4> QED
        BY <4>2, <4>3 DEF PutAt
    <3>4. \/ \E j \in 1 .. i : Positioned(down[j]) /\ down[j].x = x /\ Stays(down, j + 1, i)
          \/ Stays(down, 1, i) /\ ~client.ignore /\ Calm(client) /\ Cursor(client) = x
      <4>1. (i + 1) - 1 = i
        OBVIOUS
      <4> QED
        BY <2>1, <4>1 DEF PutAt
    <3> QED
      BY <3>2, <3>3, <3>4
  <2>2. ASSUME NEW i \in 1 .. Len(down'), down'[i].type = "press", down'[i].x # Unknown,
               HeededAt(down', client', i)
        PROVE  PutAt(down', client', i, down'[i].x)
    <3>1. i \in 1 .. Len(down) /\ i + 1 \in 1 .. Len(down) /\ down'[i] = down[i + 1]
      BY <1>3
    <3>2. HeededAt(down, client, i + 1)
      BY <1>3, <2>2, <3>1
    <3>3. PutAt(down, client, i + 1, down[i + 1].x)
      BY <2>2, <3>1, <3>2 DEF MotionInv, Placed
    <3> QED
      BY <2>1, <3>1, <3>2, <3>3
  <2>3. ASSUME server'.said # Unknown, HeededAt(down', client', Len(down') + 1)
        PROVE  PutAt(down', client', Len(down') + 1, server'.said)
    <3>1. Len(down') + 1 = Len(down) /\ Len(down) \in 1 .. Len(down) /\ server' = server
      BY <1>1, <1>3
    <3>2. HeededAt(down, client, Len(down) + 1)
      BY <1>3, <2>3, <3>1
    <3>3. PutAt(down, client, Len(down) + 1, server.said)
      BY <2>3, <3>1, <3>2 DEF MotionInv, Placed
    <3> QED
      BY <2>1, <3>1, <3>2, <3>3
  <2> QED
    BY <2>2, <2>3 DEF Placed
<1>15. Unharmed'
  <2>1. "stale" \notin Notice(client, c, m)
    BY <1>2, <1>6, <1>8 DEF Notice
  <2>2. "misplaced" \notin Notice(client, c, m)
    <3> SUFFICES ASSUME m.type = "press", ~c.ignore, m.x # Unknown PROVE m.x = c.x
      BY DEF Notice
    <3>1. ~client.ignore
      BY <1>8
    <3>2. HeededAt(down, client, 1)
      BY <3>1 DEF HeededAt
    <3>3. PutAt(down, client, 1, m.x)
      BY <1>1, <1>3, <3>2 DEF MotionInv, Placed
    <3>4. Calm(client) /\ Cursor(client) = m.x
      BY <3>3 DEF PutAt
    <3> QED
      BY <1>7, <3>4
  <2> QED
    BY <1>1, <2>1, <2>2 DEF MotionInv, Unharmed
<1> QED
  BY <1>10, <1>11, <1>12, <1>13, <1>14, <1>15 DEF MotionInv

(***************************************************************************)
(* The theorems                                                             *)
(***************************************************************************)
LEMMA ShapeStep == TypedSides /\ ShapeKnown /\ [ProxyNext]_proxyVars => TypedSides' /\ ShapeKnown'
<1> SUFFICES ASSUME TypedSides, ShapeKnown, [ProxyNext]_proxyVars PROVE TypedSides' /\ ShapeKnown'
  OBVIOUS
<1>1. CASE ServerSpeaks
  BY <1>1, SpeaksShape
<1>2. CASE ToggleLock
  BY <1>2, Locking DEF TypedSides, ShapeKnown
<1>3. CASE ReceiveInfo
  BY <1>3, ReceivingShape
<1>4. CASE HandleShapeChanged
  BY <1>4, Reshaping DEF TypedSides, ShapeKnown
<1>5. ASSUME NEW n, HandleData(n) PROVE TypedSides' /\ ShapeKnown'
  BY <1>5, ReadingShape
<1>6. ASSUME NEW w \in Widths, ShapeChanged(w) PROVE TypedSides' /\ ShapeKnown'
  BY <1>6, ChangingShape
<1>7. CASE UNCHANGED proxyVars
  BY <1>7 DEF proxyVars, TypedSides, ShapeKnown
<1> QED
  BY <1>1, <1>2, <1>3, <1>4, <1>5, <1>6, <1>7, Speaking DEF ProxyNext

(* Whatever shapes cross whatever motion: once nothing is on the way, the    *)
(* server has the shape of the client's screen and motion is heeded         *)
(* (ServerProxy::onInfoChanged, infoAcknowledgment, ClientProxy1_0::recvInfo). *)
THEOREM ShapesSettle == ProxySpec => []Settled
<1>1. TypedSides /\ ShapeKnown => Settled
  <2> SUFFICES ASSUME TypedSides, ShapeKnown, Quiet PROVE ~client.ignore /\ client.width = server.width
    BY DEF Settled
  <2>1. up = <<>> /\ Len(down) = 0
    BY EmptySeq DEF Quiet
  <2>2. AcksIn(down) = {}
    BY <2>1 DEF AcksIn
  <2> QED
    BY <2>1, <2>2 DEF ShapeKnown
<1> QED
  BY AtFirst, ShapeStep, <1>1, PTL DEF ProxySpec

LEMMA MotionStep ==
    ASSUME ~Hurry
    PROVE  TypedSides /\ ShapeKnown /\ MotionInv /\ [ProxyNext]_proxyVars => MotionInv'
<1> SUFFICES ASSUME TypedSides, ShapeKnown, MotionInv, [ProxyNext]_proxyVars PROVE MotionInv'
  OBVIOUS
<1>1. CASE ServerSpeaks
  BY <1>1, SpeaksMotion
<1>2. CASE ToggleLock
  BY <1>2, LockingMotion
<1>3. CASE ReceiveInfo
  BY <1>3, ReceivingMotion
<1>4. CASE HandleShapeChanged
  BY <1>4, ReshapingMotion
<1>5. ASSUME NEW n, HandleData(n) PROVE MotionInv'
  BY <1>5, ReadingMotion
<1>6. ASSUME NEW w \in Widths, ShapeChanged(w) PROVE MotionInv'
  BY <1>6, ChangingMotion
<1>7. CASE UNCHANGED proxyVars
  <2>1. UNCHANGED <<server, client, down, up, batch, wrong>>
    BY <1>7 DEF proxyVars
  <2> QED
    BY <2>1 DEF MotionInv, OneShape, FreshMotion, HeldBack, Calm, ByLock, Allowed, Placed, Unharmed
<1> QED
  BY <1>1, <1>2, <1>3, <1>4, <1>5, <1>6, <1>7, Speaking DEF ProxyNext

LEMMA MotionInvariance == ASSUME ~Hurry PROVE ProxySpec => [](TypedSides /\ MotionInv)
  BY AtFirst, MotionAtFirst, ShapeStep, MotionStep, PTL DEF ProxySpec

(* However motion is compressed and messages are batched, a press comes where *)
(* the server has put the cursor, and nothing stays held back, if shapes and *)
(* the lock do not change while messages are on the way                     *)
(* (ServerProxy::handleData, mouseMove, flushCompressedMouse).              *)
THEOREM PressesInPlace == ASSUME ~Hurry PROVE ProxySpec => []InPlace
<1>1. MotionInv => InPlace
  BY DEF MotionInv, Unharmed, HeldBack, InPlace
<1> QED
  BY MotionInvariance, <1>1, PTL

(* Under the same condition no motion that was computed with an older shape  *)
(* moves the cursor (ServerProxy::m_ignoreMouse, mouseMove).                *)
THEOREM StaleMotionIgnored == ASSUME ~Hurry PROVE ProxySpec => []NoStaleMotion
<1>1. MotionInv => NoStaleMotion
  BY DEF MotionInv, Unharmed, NoStaleMotion
<1> QED
  BY MotionInvariance, <1>1, PTL
=============================================================================
