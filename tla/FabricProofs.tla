---------------------------- MODULE FabricProofs ----------------------------
(***************************************************************************)
(* Proofs about one node with its peers, clients and network (Spec of     *)
(* module Fabric), for every choice of the constants: its type invariant, *)
(* and that the join proxy only ever dials an overlay peer.               *)
(***************************************************************************)
EXTENDS Fabric, RegistryProofs

(* A GameInfo in flight names an origin, a game name and a HostCounter.  *)
LEMMA InfoFields ==
  ASSUME NEW m \in Msgs, m.type = "info"
  PROVE  /\ m.src \in Origins
         /\ m.name \in Names
         /\ m.hc \in HostCounters
BY DEF Msgs, InfoMsg, SearchMsg

(* probeAllPeers only adds SearchGame datagrams to known destinations.   *)
LEMMA ProbeType ==
  ASSUME NEW ps \in SUBSET Peers, net \subseteq Msgs
  PROVE  Probe(ps) \subseteq Msgs
BY DEF Probe, Msgs, Origins

(* The steps of the manager, the responders and the network keep the     *)
(* datagrams, the peer list and the version typed.                        *)
LEMMA ManagerType ==
  ASSUME TypeOK, RegistryAssumption,
         \/ ProbeAllPeers
         \/ \E ps \in SUBSET Peers : OnPeersChanged(ps)
         \/ \E v \in Versions : SetVersion(v)
         \/ \E m \in net : HandleGameInfo(m) \/ ReadFromFails(m) \/ OnSearchGame(m)
                           \/ LocalClientAnswers(m) \/ Lose(m)
  PROVE  TypeOK'
<1> USE DEF TypeOK, RegTypeOK, regVars
<1>1. CASE ProbeAllPeers
  BY <1>1, ProbeType DEF ProbeAllPeers
<1>2. CASE \E ps \in SUBSET Peers : OnPeersChanged(ps)
  BY <1>2, ProbeType DEF OnPeersChanged
<1>3. CASE \E v \in Versions : SetVersion(v)
  BY <1>3 DEF SetVersion
<1>4. CASE \E m \in net : HandleGameInfo(m) \/ ReadFromFails(m) \/ OnSearchGame(m)
                          \/ LocalClientAnswers(m) \/ Lose(m)
  <2> PICK m \in net : HandleGameInfo(m) \/ ReadFromFails(m) \/ OnSearchGame(m)
                       \/ LocalClientAnswers(m) \/ Lose(m)
    BY <1>4
  <2>1. CASE HandleGameInfo(m)
    <3>1. Incoming(m.src, m.name, m.hc) \in GameRec
      BY <2>1, InfoFields, IncomingType DEF HandleGameInfo
    <3>2. RegTypeOK'
      BY <2>1, <3>1, AddType DEF HandleGameInfo
    <3>. QED  BY <2>1, <3>2 DEF HandleGameInfo
  <2>5. CASE ReadFromFails(m)
    BY <2>5 DEF ReadFromFails
  <2>2. CASE OnSearchGame(m)
    BY <2>2 DEF OnSearchGame, Msgs, Origins
  <2>3. CASE LocalClientAnswers(m)
    BY <2>3 DEF LocalClientAnswers, Msgs, Origins, NoHost
  <2>4. CASE Lose(m)
    BY <2>4 DEF Lose
  <2>. QED  BY <2>1, <2>2, <2>3, <2>4, <2>5
<1>. QED  BY <1>1, <1>2, <1>3, <1>4

(* The broadcaster's tick announces HostCounters of cached Remote games    *)
(* under their keys, so the LAN list and the announcements stay typed.    *)
LEMMA BroadcastType ==
  ASSUME TypeOK, BroadcastTick
  PROVE  TypeOK'
<1> USE DEF TypeOK, RegTypeOK, regVars
<1> DEFINE cur == [k \in Keys |-> IF \E g \in RemoteView : Key(g) = k
                                  THEN (CHOOSE g \in RemoteView : Key(g) = k).hc
                                  ELSE NoHc]
           curHcs == {g.hc : g \in RemoteView}
<1>1. RemoteView \subseteq GameRec
  BY DEF RemoteView
<1>2. cur \in [Keys -> HostCounters \cup {NoHc}]
  <2>1. ASSUME NEW k \in Keys, \E g \in RemoteView : Key(g) = k
        PROVE  (CHOOSE g \in RemoteView : Key(g) = k).hc \in HostCounters
    BY <2>1, <1>1 DEF GameRec
  <2>. QED  BY <2>1
<1>3. curHcs \subseteq HostCounters
  BY <1>1 DEF GameRec
<1>4. PICK last \in [curHcs -> Keys] :
        /\ lanList' = [hc \in HostCounters |->
                         IF hc \in {announced[k] : k \in {k2 \in Keys : announced[k2] # NoHc /\ cur[k2] = NoHc}}
                         THEN NoKey
                         ELSE IF hc \in curHcs THEN last[hc]
                         ELSE lanList[hc]]
        /\ announced' = cur
        /\ UNCHANGED <<regVars, hosted, served, mgrPeers, version, net, conn, recvUp>>
  BY DEF BroadcastTick
<1>5. lanList' \in [HostCounters -> Keys \cup {NoKey}]
  BY <1>3, <1>4
<1>. QED  BY <1>2, <1>4, <1>5

(* The join handlers keep their phase records typed: the chosen key comes *)
(* from the LAN list, the target from the registry.                       *)
LEMMA ProxyType ==
  ASSUME TypeOK, NEW c \in Conns,
         \/ \E hc \in HostCounters : ReadJoinPacket(c, hc)
         \/ FindGame(c) \/ ConnectToRemote(c) \/ RelayDone(c)
  PROVE  TypeOK'
<1> USE DEF TypeOK, RegTypeOK, regVars
<1>1. CASE \E hc \in HostCounters : ReadJoinPacket(c, hc)
  BY <1>1 DEF ReadJoinPacket, ConnRec, Phases, NoGame
<1>2. CASE FindGame(c)
  <2>1. \A hc \in HostCounters \cup {NoHc} : FindByHostCounter(hc) \subseteq GameRec
    BY DEF FindByHostCounter, Snapshot
  <2>2. conn[c] \in ConnRec
    OBVIOUS
  <2>3. CASE conn' = [conn EXCEPT ![c] = IdleConn]
    BY <1>2, <2>3 DEF FindGame, ConnRec, Phases, IdleConn, NoKey
  <2>4. CASE \E g \in FindByHostCounter(conn[c].hc) :
               conn' = [conn EXCEPT ![c].phase = "dial", ![c].target = g]
    <3> PICK g \in FindByHostCounter(conn[c].hc) :
               conn' = [conn EXCEPT ![c].phase = "dial", ![c].target = g]
      BY <2>4
    <3>1. g \in GameRec
      BY <2>1, <2>2 DEF ConnRec
    <3>2. conn' \in [Conns -> ConnRec]
      BY <3>1, <2>2 DEF ConnRec, Phases
    <3>. QED  BY <1>2, <3>2 DEF FindGame
  <2>. QED  BY <1>2, <2>3, <2>4 DEF FindGame
<1>3. CASE ConnectToRemote(c)
  <2>1. conn[c] \in ConnRec
    OBVIOUS
  <2>2. ASSUME conn' = [conn EXCEPT ![c].phase = "relay"]
        PROVE  conn' \in [Conns -> ConnRec]
    BY <2>1, <2>2 DEF ConnRec, Phases
  <2>3. ASSUME conn' = [conn EXCEPT ![c] = IdleConn]
        PROVE  conn' \in [Conns -> ConnRec]
    BY <2>3 DEF ConnRec, Phases, IdleConn, NoKey
  <2>4. conn' \in [Conns -> ConnRec]
    BY <1>3, <2>2, <2>3 DEF ConnectToRemote
  <2>. QED  BY <1>3, <2>4 DEF ConnectToRemote
<1>4. CASE RelayDone(c)
  BY <1>4 DEF RelayDone, ConnRec, Phases, IdleConn, NoKey
<1>. QED  BY <1>1, <1>2, <1>3, <1>4

(* The clients, the peers' own probes and the LAN client's expiry keep    *)
(* their variables typed.                                                 *)
LEMMA EnvironmentType ==
  ASSUME TypeOK,
         \/ \E o \in Origins, n \in Names, hc \in HostCounters : HostGame(o, n, hc)
         \/ \E o \in Origins : EndGame(o)
         \/ \E p \in Peers : PeerRegistersLocal(p)
         \/ \E hc \in HostCounters : ClientForgets(hc)
  PROVE  TypeOK'
<1> USE DEF TypeOK, RegTypeOK, regVars
<1>1. CASE \E o \in Origins, n \in Names, hc \in HostCounters : HostGame(o, n, hc)
  BY <1>1 DEF HostGame
<1>2. CASE \E o \in Origins : EndGame(o)
  BY <1>2 DEF EndGame
<1>3. CASE \E p \in Peers : PeerRegistersLocal(p)
  BY <1>3 DEF PeerRegistersLocal, Origins, NoHost
<1>4. CASE \E hc \in HostCounters : ClientForgets(hc)
  BY <1>4 DEF ClientForgets
<1>. QED  BY <1>1, <1>2, <1>3, <1>4

(* One step of the node keeps the types. *)
LEMMA TypeStep == TypeOK /\ [Next]_vars => TypeOK'
<1> SUFFICES ASSUME TypeOK, [Next]_vars PROVE TypeOK'
  OBVIOUS
<1>1. CASE \E c \in Conns :
             \/ \E hc \in HostCounters : ReadJoinPacket(c, hc)
             \/ FindGame(c) \/ ConnectToRemote(c) \/ RelayDone(c)
  BY <1>1, ProxyType
<1>2. CASE BroadcastTick
  BY <1>2, BroadcastType
<1>3. CASE UNCHANGED vars
  BY <1>3 DEF vars, regVars, fabVars, TypeOK, RegTypeOK
<1>. QED
  BY <1>1, <1>2, <1>3, RegistryAssumption, ManagerType, EnvironmentType DEF Next

(* Every variable of the node keeps its type: registry records, datagrams *)
(* the manager and the responders exchange, the LAN list and the proxy's  *)
(* per-connection state, through every interleaving of their steps.       *)
THEOREM FabricTypeCorrect == Spec => []TypeOK
<1>1. Init => TypeOK
  BY RegistryAssumption, FabricAssumption, NoGameNotRec
  DEF Init, RegInit, TypeOK, RegTypeOK, Versions, ConnRec, Phases, IdleConn
<1>2. TypeOK /\ [Next]_vars => TypeOK'
  BY TypeStep
<1>. QED  BY <1>1, <1>2, PTL DEF Spec

-----------------------------------------------------------------------------
(* The registry holds a Remote game only for a source that is an overlay  *)
(* peer: handleGameInfo marks every non-loopback sender Remote, and the   *)
(* receive loop only hears from 127.0.0.1 and the peers.                  *)
RemoteGamesFromPeers ==
  \A k \in Keys : games[k] # NoGame /\ games[k].src = SourceRemote =>
      games[k].peer \in Peers

(* The inductive invariant behind ProxyDialsOverlayPeer. *)
ProxyInv == TypeOK /\ RemoteGamesFromPeers /\ ProxyDialsOverlayPeer

(* A step that leaves the registry and the join handlers alone keeps the *)
(* two properties of ProxyInv.                                            *)
LEMMA ProxyFrame ==
  ASSUME RemoteGamesFromPeers, ProxyDialsOverlayPeer,
         games' = games, conn' = conn
  PROVE  RemoteGamesFromPeers' /\ ProxyDialsOverlayPeer'
BY DEF RemoteGamesFromPeers, ProxyDialsOverlayPeer

(* Ingesting a GameInfo records a Remote game only for a peer source.    *)
LEMMA IngestKeepsPeers ==
  ASSUME TypeOK, RemoteGamesFromPeers, RegistryAssumption,
         NEW m \in net, HandleGameInfo(m)
  PROVE  RemoteGamesFromPeers'
<1> DEFINE g == Incoming(m.src, m.name, m.hc)
<1>1. m.src \in Origins /\ m.name \in Names /\ m.hc \in HostCounters
  BY InfoFields DEF HandleGameInfo, TypeOK
<1>2. g.src = SourceRemote => g.peer \in Peers
  BY <1>1, RegistryAssumption DEF Incoming, Origins, SourceLocal, SourceRemote
<1>3. Key(g) \in Keys
  BY <1>1 DEF Key, Keys, Incoming, Origins
<1>4. games' = [games EXCEPT ![Key(g)] =
                  [g EXCEPT !.first = IF games[Key(g)] # NoGame THEN g.first ELSE now,
                            !.last = now]]
  BY DEF HandleGameInfo, Add
<1>. QED  BY <1>2, <1>3, <1>4 DEF RemoteGamesFromPeers, TypeOK, RegTypeOK, Incoming

(* A handler's lookup returns a stored Remote game, hence a peer's.      *)
LEMMA LookupFindsPeerGame ==
  ASSUME TypeOK, RemoteGamesFromPeers, NEW hc, NEW g \in FindByHostCounter(hc)
  PROVE  g.src = SourceRemote /\ g.peer \in Peers
BY DEF FindByHostCounter, Snapshot, RemoteGamesFromPeers

(* The join handlers' steps keep every handler past the lookup aimed at  *)
(* an overlay peer.                                                       *)
LEMMA ProxyStep ==
  ASSUME ProxyInv, NEW c \in Conns,
         \/ \E hc \in HostCounters : ReadJoinPacket(c, hc)
         \/ FindGame(c) \/ ConnectToRemote(c) \/ RelayDone(c)
  PROVE  RemoteGamesFromPeers' /\ ProxyDialsOverlayPeer'
<1> USE DEF ProxyInv
<1>1. games' = games
  BY DEF ReadJoinPacket, FindGame, ConnectToRemote, RelayDone, regVars
<1>2. RemoteGamesFromPeers'
  BY <1>1 DEF RemoteGamesFromPeers
<1>3. ProxyDialsOverlayPeer'
  <2>1. CASE \E hc \in HostCounters : ReadJoinPacket(c, hc)
    BY <2>1 DEF ReadJoinPacket, ProxyDialsOverlayPeer, TypeOK
  <2>2. CASE FindGame(c)
    <3>1. CASE conn' = [conn EXCEPT ![c] = IdleConn]
      BY <3>1 DEF ProxyDialsOverlayPeer, TypeOK, IdleConn
    <3>2. CASE \E g \in FindByHostCounter(conn[c].hc) :
                 conn' = [conn EXCEPT ![c].phase = "dial", ![c].target = g]
      <4> PICK g \in FindByHostCounter(conn[c].hc) :
                 conn' = [conn EXCEPT ![c].phase = "dial", ![c].target = g]
        BY <3>2
      <4>1. g.src = SourceRemote /\ g.peer \in Peers
        BY LookupFindsPeerGame
      <4>. QED  BY <4>1 DEF ProxyDialsOverlayPeer, TypeOK
    <3>. QED  BY <2>2, <3>1, <3>2 DEF FindGame
  <2>3. CASE ConnectToRemote(c)
    <3>1. conn[c].target.src = SourceRemote /\ conn[c].target.peer \in Peers
      BY <2>3 DEF ConnectToRemote, ProxyDialsOverlayPeer
    <3>2. conn[c] \in ConnRec
      BY DEF TypeOK
    <3>3. CASE conn' = [conn EXCEPT ![c].phase = "relay"]
      BY <3>1, <3>2, <3>3 DEF ProxyDialsOverlayPeer, ConnRec
    <3>4. CASE conn' = [conn EXCEPT ![c] = IdleConn]
      BY <3>4 DEF ProxyDialsOverlayPeer, IdleConn
    <3>. QED  BY <2>3, <3>3, <3>4 DEF ConnectToRemote
  <2>4. CASE RelayDone(c)
    BY <2>4 DEF RelayDone, ProxyDialsOverlayPeer, TypeOK, IdleConn
  <2>. QED  BY <2>1, <2>2, <2>3, <2>4
<1>. QED  BY <1>2, <1>3

(* One step of the node keeps ProxyInv. *)
LEMMA ProxyInvStep == ProxyInv /\ [Next]_vars => ProxyInv'
<1> SUFFICES ASSUME ProxyInv, [Next]_vars PROVE ProxyInv'
  OBVIOUS
<1>1. TypeOK'
  BY TypeStep DEF ProxyInv
<1> SUFFICES RemoteGamesFromPeers' /\ ProxyDialsOverlayPeer'
  BY <1>1 DEF ProxyInv
<1> USE DEF ProxyInv
<1>2. CASE \E m \in net : HandleGameInfo(m) \/ ReadFromFails(m) \/ OnSearchGame(m)
                          \/ LocalClientAnswers(m) \/ Lose(m)
  <2> PICK m \in net : HandleGameInfo(m) \/ ReadFromFails(m) \/ OnSearchGame(m)
                       \/ LocalClientAnswers(m) \/ Lose(m)
    BY <1>2
  <2>1. CASE HandleGameInfo(m)
    BY <2>1, IngestKeepsPeers, RegistryAssumption
    DEF HandleGameInfo, ProxyDialsOverlayPeer
  <2>2. CASE ReadFromFails(m) \/ OnSearchGame(m) \/ LocalClientAnswers(m) \/ Lose(m)
    BY <2>2, ProxyFrame DEF ReadFromFails, OnSearchGame, LocalClientAnswers, Lose, regVars
  <2>. QED  BY <2>1, <2>2
<1>3. CASE \E c \in Conns :
             \/ \E hc \in HostCounters : ReadJoinPacket(c, hc)
             \/ FindGame(c) \/ ConnectToRemote(c) \/ RelayDone(c)
  BY <1>3, ProxyStep
<1>4. CASE \/ ProbeAllPeers
           \/ \E ps \in SUBSET Peers : OnPeersChanged(ps)
           \/ \E v \in Versions : SetVersion(v)
           \/ BroadcastTick
  BY <1>4, ProxyFrame
  DEF ProbeAllPeers, OnPeersChanged, SetVersion, BroadcastTick, regVars
<1>5. CASE \/ \E o \in Origins, n \in Names, hc \in HostCounters : HostGame(o, n, hc)
           \/ \E o \in Origins : EndGame(o)
           \/ \E p \in Peers : PeerRegistersLocal(p)
           \/ \E hc \in HostCounters : ClientForgets(hc)
  BY <1>5, ProxyFrame
  DEF HostGame, EndGame, PeerRegistersLocal, ClientForgets, regVars
<1>6. CASE UNCHANGED vars
  BY <1>6, ProxyFrame DEF vars, regVars, fabVars
<1>. QED  BY <1>1, <1>2, <1>3, <1>4, <1>5, <1>6 DEF Next

(* The join proxy never dials 127.0.0.1 or any address that is not an    *)
(* overlay peer: handleConnection dials the PeerIP of the game            *)
(* FindByHostCounter returned, which skips Local games, and the receive   *)
(* loop only records Remote games for the peers it probed.  Holds for    *)
(* any number of peers, names, HostCounters and connections.              *)
THEOREM ProxyTargetsOverlay == Spec => []ProxyDialsOverlayPeer
<1>1. Init => ProxyInv
  <2> SUFFICES ASSUME Init PROVE ProxyInv
    OBVIOUS
  <2>1. TypeOK
    BY RegistryAssumption, FabricAssumption, NoGameNotRec
    DEF Init, RegInit, TypeOK, RegTypeOK, Versions, ConnRec, Phases, IdleConn
  <2>2. RemoteGamesFromPeers /\ ProxyDialsOverlayPeer
    BY DEF Init, RegInit, RemoteGamesFromPeers, ProxyDialsOverlayPeer, IdleConn
  <2>. QED  BY <2>1, <2>2 DEF ProxyInv
<1>2. ProxyInv /\ [Next]_vars => ProxyInv'
  BY ProxyInvStep
<1>3. ProxyInv => ProxyDialsOverlayPeer
  BY DEF ProxyInv
<1>. QED  BY <1>1, <1>2, <1>3, PTL DEF Spec

-----------------------------------------------------------------------------
(* The node uses its registry only through the registry's operations:    *)
(* every step of Spec is, on the registry's variables, an Add of the game *)
(* handleGameInfo builds from a GameInfo in flight, or leaves them alone. *)
LEMMA RegistryStep == TypeOK /\ [Next]_vars => [RegNext]_regVars
<1> SUFFICES ASSUME TypeOK, [Next]_vars PROVE [RegNext]_regVars
  OBVIOUS
<1>1. ASSUME NEW m \in net, HandleGameInfo(m) PROVE RegNext
  <2>1. m \in Msgs /\ m.type = "info"
    BY <1>1 DEF TypeOK, HandleGameInfo
  <2>2. m.src \in Origins /\ m.name \in Names /\ m.hc \in HostCounters
    BY <2>1, InfoFields
  <2>3. Add(Incoming(m.src, m.name, m.hc))
    BY <1>1 DEF HandleGameInfo
  <2>. QED  BY <2>2, <2>3 DEF RegNext
<1>2. ASSUME NEW m \in net,
             ReadFromFails(m) \/ OnSearchGame(m) \/ LocalClientAnswers(m) \/ Lose(m)
      PROVE  UNCHANGED regVars
  BY <1>2 DEF ReadFromFails, OnSearchGame, LocalClientAnswers, Lose
<1>3. CASE \/ ProbeAllPeers
           \/ \E ps \in SUBSET Peers : OnPeersChanged(ps)
           \/ \E v \in Versions : SetVersion(v)
           \/ BroadcastTick
  BY <1>3 DEF ProbeAllPeers, OnPeersChanged, SetVersion, BroadcastTick
<1>4. CASE \E c \in Conns :
             \/ \E hc \in HostCounters : ReadJoinPacket(c, hc)
             \/ FindGame(c) \/ ConnectToRemote(c) \/ RelayDone(c)
  BY <1>4 DEF ReadJoinPacket, FindGame, ConnectToRemote, RelayDone
<1>5. CASE \/ \E o \in Origins, n \in Names, hc \in HostCounters : HostGame(o, n, hc)
           \/ \E o \in Origins : EndGame(o)
           \/ \E p \in Peers : PeerRegistersLocal(p)
           \/ \E hc \in HostCounters : ClientForgets(hc)
  BY <1>5 DEF HostGame, EndGame, PeerRegistersLocal, ClientForgets
<1>6. CASE UNCHANGED vars
  BY <1>6 DEF vars
<1>. QED  BY <1>1, <1>2, <1>3, <1>4, <1>5, <1>6 DEF Next

(* Nothing of the node but handleGameInfo's Add changes the registry      *)
(* (manager.go calls Registry.Add, and nothing in src/ calls Remove or    *)
(* Expire): every behaviour of the node is, on the registry's variables,  *)
(* a behaviour of the registry used on its own.                           *)
THEOREM FabricUsesRegistryOps == Spec => RegSpec
<1>1. Init => RegInit
  BY DEF Init
<1>. QED  BY <1>1, RegistryStep, FabricTypeCorrect, PTL DEF Spec, RegSpec

(* So inside the node the registry keeps its promise to its callers      *)
(* (spec.md 8): it implements the lease table, each change reaching the   *)
(* onChange consumers.                                                    *)
THEOREM FabricRefinesLeases == Spec => ImplementsLeases
BY FabricUsesRegistryOps, RegistryRefinesLeases

(* And the LAN broadcaster's cache, the registry's callback view, is      *)
(* always the registry's content (Registry.Add calls onChange under its   *)
(* lock with the new snapshot).                                           *)
THEOREM BroadcasterCacheCurrent == Spec => []ViewIsSnapshot
BY FabricUsesRegistryOps, ViewCurrent

=============================================================================
