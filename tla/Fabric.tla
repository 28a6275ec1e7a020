------------------------------- MODULE Fabric -------------------------------
(***************************************************************************)
(* One wc3ts node and its surroundings.                                     *)
(*                                                                         *)
(*  - the peer manager (src/peer/manager.go): the peer list, the probe     *)
(*    version, probeAllPeers and the receive loop that feeds the registry; *)
(*  - the registry (module Registry);                                      *)
(*  - the responders of the remote peers (src/peer/responder.go running    *)
(*    on each peer), which answer a SearchGame with the Local games of     *)
(*    that peer's own registry;                                            *)
(*  - the LAN broadcaster (package lan, in src/tui/view.go), whose cache  *)
(*    is the registry's callback view;                                     *)
(*  - the TCP join proxy (src/proxy/tcp.go), one handler per connection;   *)
(*  - the environment: the Warcraft III client on each machine, the        *)
(*    overlay's peer list, the user's version choice, and a UDP network    *)
(*    that loses and reorders datagrams.                                   *)
(*                                                                         *)
(* Nothing in src/ calls Registry.Remove or Registry.Expire, so neither is *)
(* a step here, and the clock `now` stays put: it only feeds Expire.       *)
(***************************************************************************)
EXTENDS Registry

CONSTANTS
  Conns,         \* TCP connection handler slots of the join proxy
  ProbeVersion,  \* the non-zero game version set from the TUI or flags
  ReadErrors     \* whether ReadFrom on the probe socket can fail (see ReadFromFails)

ASSUME FabricAssumption == ProbeVersion \in Nat \ {0} /\ ReadErrors \in BOOLEAN

VARIABLES
  hosted,     \* origin -> <<name, hc>> the WC3 client there hosts, or NoHost
  served,     \* peer -> name -> hc: the Local games in that peer's registry
  mgrPeers,   \* Manager.peers: overlay peers the manager probes
  version,    \* Manager.version.Version
  net,        \* UDP datagrams in flight
  announced,  \* broadcaster: Remote key -> hc announced at the last tick
  lanList,    \* the local WC3 client's LAN list: hc -> key it came from
  conn,       \* join proxy: per handler slot, its phase and data
  recvUp      \* the manager's receiveLoop goroutine is still running

fabVars == <<hosted, served, mgrPeers, version, net, announced, lanList, conn, recvUp>>
vars == <<regVars, fabVars>>

NoHost == <<>>
NoHc == 0
NoKey == <<>>

Versions == {0, ProbeVersion}

(* SearchGame to dst:6112, and GameInfo from src:6112 back to the probe   *)
(* socket.  A GameInfo carries the game's name and HostCounter.           *)
SearchMsg(dst) == [type |-> "search", dst |-> dst]
InfoMsg(src, n, hc) == [type |-> "info", src |-> src, name |-> n, hc |-> hc]
Msgs == {SearchMsg(d) : d \in Origins} \cup
        {InfoMsg(o, n, hc) : o \in Origins, n \in Names, hc \in HostCounters}

Phases == {"idle", "lookup", "dial", "relay"}
ConnRec == [phase: Phases, hc: HostCounters \cup {NoHc},
            chosen: Keys \cup {NoKey}, target: GameRec \cup {NoGame}]
IdleConn == [phase |-> "idle", hc |-> NoHc, chosen |-> NoKey, target |-> NoGame]

(* The Remote games the broadcaster advertises: those in its cache. *)
RemoteView == {g \in view : g.src = SourceRemote}

-----------------------------------------------------------------------------
Init ==
  /\ RegInit
  /\ hosted = [o \in Origins |-> NoHost]
  /\ served = [p \in Peers |-> [n \in Names |-> NoHc]]
  /\ mgrPeers = {}
  /\ version = ProbeVersion
  /\ net = {}
  /\ announced = [k \in Keys |-> NoHc]
  /\ lanList = [hc \in HostCounters |-> NoKey]
  /\ conn = [c \in Conns |-> IdleConn]
  /\ recvUp = TRUE

(* probeAllPeers: snapshot peers and version; nothing when the version is *)
(* zero, else SearchGame to 127.0.0.1 and to every online peer.  Used by   *)
(* the ticker in Run, by Refresh and at the end of OnPeersChanged.         *)
(* Mutant: the loop over the peer list is skipped; only 127.0.0.1 is asked. *)
ProbeLoopbackOnly(ps) ==
  IF version = 0 THEN net ELSE net \cup {SearchMsg(Loopback)}

Probe(ps) ==
  IF version = 0 THEN net
  ELSE net \cup {SearchMsg(d) : d \in ps \cup {Loopback}}

ProbeAllPeers ==
  /\ version # 0
  /\ net' = Probe(mgrPeers)
  /\ UNCHANGED <<regVars, hosted, served, mgrPeers, version, announced, lanList, conn, recvUp>>

(* OnPeersChanged: replace the peer list, then probe.  Discovery only      *)
(* passes online peers, so every listed peer is probed.                    *)
OnPeersChanged(ps) ==
  /\ mgrPeers' = ps
  /\ net' = Probe(ps)
  /\ UNCHANGED <<regVars, hosted, served, version, announced, lanList, conn, recvUp>>

(* SetVersion, called from the TUI's version callback. *)
SetVersion(v) ==
  /\ version' = v
  /\ UNCHANGED <<regVars, hosted, served, mgrPeers, net, announced, lanList, conn, recvUp>>

(* receiveLoop + handleGameInfo: a GameInfo from a loopback source is a   *)
(* Local game, from any other source a Remote one; either is Added.       *)
HandleGameInfo(m) ==
  /\ recvUp
  /\ m \in net
  /\ m.type = "info"
  /\ net' = net \ {m}
  /\ Add(Incoming(m.src, m.name, m.hc))
  /\ UNCHANGED <<hosted, served, mgrPeers, version, announced, lanList, conn, recvUp>>

(* receiveLoop: ReadFrom fails and the loop returns, silently; nothing    *)
(* restarts it and Run goes on probing.  The datagram is consumed.  Go    *)
(* reports no ICMP error on an unconnected UDP socket (it turns off       *)
(* SIO_UDP_CONNRESET on Windows), but on Windows a datagram longer than    *)
(* the 512-byte buffer is returned as a WSAEMSGSIZE error.  ReadErrors    *)
(* says whether the platform can fail this way.                           *)
ReadFromFails(m) ==
  /\ ReadErrors
  /\ recvUp
  /\ m \in net
  /\ m.type = "info"
  /\ net' = net \ {m}
  /\ recvUp' = FALSE
  /\ UNCHANGED <<regVars, hosted, served, mgrPeers, version, announced, lanList, conn>>

(* Mutant: the responder sends every name, also those it holds no game for. *)
OnSearchGameUnfiltered(m) ==
  /\ m \in net
  /\ m.type = "search"
  /\ m.dst \in Peers
  /\ net' = (net \ {m}) \cup {InfoMsg(m.dst, n, served[m.dst][n]) : n \in Names}
  /\ UNCHANGED <<regVars, hosted, served, mgrPeers, version, announced, lanList, conn, recvUp>>

(* Responder.onSearchGame on peer p: one GameInfo per Local game of p's   *)
(* registry (their RawData is never empty: it is the received datagram).  *)
OnSearchGame(m) ==
  /\ m \in net
  /\ m.type = "search"
  /\ m.dst \in Peers
  /\ net' = (net \ {m}) \cup
            {InfoMsg(m.dst, n, served[m.dst][n]) : n \in {n2 \in Names : served[m.dst][n2] # NoHc}}
  /\ UNCHANGED <<regVars, hosted, served, mgrPeers, version, announced, lanList, conn, recvUp>>

(* Broadcaster.broadcastGames, run by its ticker: send the GameInfo and  *)
(* a RefreshGame of every Remote game of the cache (the client lists its  *)
(* HostCounter; when two games share one, slice order decides which       *)
(* announcement comes last), then, after all of them, a DecreateGame with *)
(* the recorded HostCounter of every key of previousGameKeys absent now;  *)
(* previousGameKeys becomes the current keys.                             *)
BroadcastTick ==
  LET cur == [k \in Keys |-> IF \E g \in RemoteView : Key(g) = k
                             THEN (CHOOSE g \in RemoteView : Key(g) = k).hc
                             ELSE NoHc]
      curHcs == {g.hc : g \in RemoteView}
      cancelled == {announced[k] : k \in {k2 \in Keys : announced[k2] # NoHc /\ cur[k2] = NoHc}}
  IN  \E last \in [curHcs -> Keys] :
        /\ \A hc \in curHcs : cur[last[hc]] = hc
        /\ lanList' = [hc \in HostCounters |->
                         IF hc \in cancelled THEN NoKey
                         ELSE IF hc \in curHcs THEN last[hc]
                         ELSE lanList[hc]]
        /\ announced' = cur
        /\ UNCHANGED <<regVars, hosted, served, mgrPeers, version, net, conn, recvUp>>

(* handleConnection up to the lookup: the client joins a game of its LAN  *)
(* list; readJoinPacket yields the Join and its HostCounter.  (A read     *)
(* that times out or is not a Join only closes the client: no state.)     *)
ReadJoinPacket(c, hc) ==
  /\ conn[c].phase = "idle"
  /\ lanList[hc] # NoKey
  /\ conn' = [conn EXCEPT ![c] = [phase |-> "lookup", hc |-> hc,
                                   chosen |-> lanList[hc], target |-> NoGame]]
  /\ UNCHANGED <<regVars, hosted, served, mgrPeers, version, net, announced, lanList, recvUp>>

(* registry.FindByHostCounter: a copy of a Remote game with that          *)
(* HostCounter; when there is none the handler closes the client.          *)
FindGame(c) ==
  /\ conn[c].phase = "lookup"
  /\ \/ /\ FindByHostCounter(conn[c].hc) = {}
        /\ conn' = [conn EXCEPT ![c] = IdleConn]
     \/ \E g \in FindByHostCounter(conn[c].hc) :
          conn' = [conn EXCEPT ![c].phase = "dial", ![c].target = g]
  /\ UNCHANGED <<regVars, hosted, served, mgrPeers, version, net, announced, lanList, recvUp>>

(* connectToRemote dials PeerIP:GamePort (10 s timeout) and writes the    *)
(* Join; it succeeds only while the WC3 client there hosts a game.  A     *)
(* failed dial or write closes the client.                                *)
ConnectToRemote(c) ==
  /\ conn[c].phase = "dial"
  /\ \/ /\ hosted[conn[c].target.peer] # NoHost
        /\ conn' = [conn EXCEPT ![c].phase = "relay"]
     \/ conn' = [conn EXCEPT ![c] = IdleConn]
  /\ UNCHANGED <<regVars, hosted, served, mgrPeers, version, net, announced, lanList, recvUp>>

(* relay: both copies end (EOF or error) and handleConnection closes both. *)
RelayDone(c) ==
  /\ conn[c].phase = "relay"
  /\ conn' = [conn EXCEPT ![c] = IdleConn]
  /\ UNCHANGED <<regVars, hosted, served, mgrPeers, version, net, announced, lanList, recvUp>>

-----------------------------------------------------------------------------
(* Environment. *)

(* The WC3 client at o creates a game, or leaves it. *)
HostGame(o, n, hc) ==
  /\ hosted[o] = NoHost
  /\ hosted' = [hosted EXCEPT ![o] = <<n, hc>>]
  /\ UNCHANGED <<regVars, served, mgrPeers, version, net, announced, lanList, conn, recvUp>>

EndGame(o) ==
  /\ hosted[o] # NoHost
  /\ hosted' = [hosted EXCEPT ![o] = NoHost]
  /\ UNCHANGED <<regVars, served, mgrPeers, version, net, announced, lanList, conn, recvUp>>

(* Peer p's own wc3ts probes its loopback and Adds the game its WC3      *)
(* client hosts as Local: keyed by name, replaced, never removed.         *)
PeerRegistersLocal(p) ==
  /\ hosted[p] # NoHost
  /\ served[p][hosted[p][1]] # hosted[p][2]
  /\ served' = [served EXCEPT ![p][hosted[p][1]] = hosted[p][2]]
  /\ UNCHANGED <<regVars, hosted, mgrPeers, version, net, announced, lanList, conn, recvUp>>

(* The local WC3 client answers a SearchGame on 127.0.0.1:6112 with the  *)
(* game it hosts, if any.                                                 *)
LocalClientAnswers(m) ==
  /\ m \in net
  /\ m = SearchMsg(Loopback)
  /\ net' = (net \ {m}) \cup
            IF hosted[Loopback] = NoHost THEN {}
            ELSE {InfoMsg(Loopback, hosted[Loopback][1], hosted[Loopback][2])}
  /\ UNCHANGED <<regVars, hosted, served, mgrPeers, version, announced, lanList, conn, recvUp>>

(* UDP loses a datagram. *)
Lose(m) ==
  /\ m \in net
  /\ net' = net \ {m}
  /\ UNCHANGED <<regVars, hosted, served, mgrPeers, version, announced, lanList, conn, recvUp>>

(* The local WC3 client drops a LAN entry that was not re-announced. *)
ClientForgets(hc) ==
  /\ lanList[hc] # NoKey
  /\ \A k \in Keys : announced[k] # hc
  /\ lanList' = [lanList EXCEPT ![hc] = NoKey]
  /\ UNCHANGED <<regVars, hosted, served, mgrPeers, version, net, announced, conn, recvUp>>

-----------------------------------------------------------------------------
Next ==
  \/ ProbeAllPeers
  \/ \E ps \in SUBSET Peers : OnPeersChanged(ps)
  \/ \E v \in Versions : SetVersion(v)
  \/ \E m \in net : HandleGameInfo(m) \/ ReadFromFails(m) \/ OnSearchGame(m)
                    \/ LocalClientAnswers(m) \/ Lose(m)
  \/ BroadcastTick
  \/ \E c \in Conns :
        \/ \E hc \in HostCounters : ReadJoinPacket(c, hc)
        \/ FindGame(c) \/ ConnectToRemote(c) \/ RelayDone(c)
  \/ \E o \in Origins, n \in Names, hc \in HostCounters : HostGame(o, n, hc)
  \/ \E o \in Origins : EndGame(o)
  \/ \E p \in Peers : PeerRegistersLocal(p)
  \/ \E hc \in HostCounters : ClientForgets(hc)

Spec == Init /\ [][Next]_vars

(* Fairness the code's loops justify: the probe ticker and the broadcast  *)
(* ticker fire forever; every peer's own probe loop registers its hosted  *)
(* game; the receive loop and the responders read every datagram that    *)
(* keeps arriving (the overlay does not lose one datagram forever when it *)
(* is sent again and again).  The user, the overlay's peer list, the WC3  *)
(* clients and the join handlers get no fairness.                         *)
Fairness ==
  /\ WF_vars(ProbeAllPeers)
  /\ WF_vars(BroadcastTick)
  /\ \A p \in Peers : WF_vars(PeerRegistersLocal(p))
  /\ \A m \in Msgs : SF_vars(HandleGameInfo(m))
  /\ \A m \in Msgs : SF_vars(OnSearchGame(m))
  /\ \A m \in Msgs : SF_vars(LocalClientAnswers(m))

FairSpec == Spec /\ Fairness

-----------------------------------------------------------------------------
TypeOK ==
  /\ RegTypeOK
  /\ hosted \in [Origins -> (Names \X HostCounters) \cup {NoHost}]
  /\ served \in [Peers -> [Names -> HostCounters \cup {NoHc}]]
  /\ mgrPeers \subseteq Peers
  /\ version \in Versions
  /\ net \subseteq Msgs
  /\ announced \in [Keys -> HostCounters \cup {NoHc}]
  /\ lanList \in [HostCounters -> Keys \cup {NoKey}]
  /\ conn \in [Conns -> ConnRec]
  /\ recvUp \in BOOLEAN

(* The proxy never dials a Local game: whatever the LAN list and the      *)
(* registry hold, a handler past the lookup targets an overlay peer, not  *)
(* 127.0.0.1 (FindByHostCounter skips Local games even when a Local game  *)
(* has the HostCounter the client joined with).                           *)
ProxyDialsOverlayPeer ==
  \A c \in Conns : conn[c].phase \in {"dial", "relay"} =>
      /\ conn[c].target.src = SourceRemote
      /\ conn[c].target.peer \in Peers

Synced ==
  \A k \in Keys : announced[k] =
      IF \E g \in RemoteView : Key(g) = k
      THEN (CHOOSE g \in RemoteView : Key(g) = k).hc ELSE NoHc

(* spec.md 4.E: the DecreateGame sweep "tells the game client the game is *)
(* gone without waiting for its own timeout".  So once a tick has         *)
(* announced the current cache, every game on the client's LAN list can  *)
(* be joined: FindByHostCounter finds a game for its HostCounter.         *)
ListedGamesJoinable ==
  Synced => \A hc \in HostCounters : lanList[hc] # NoKey => FindByHostCounter(hc) # {}

(* A game a peer stops hosting eventually leaves the local LAN list       *)
(* (spec.md 8, scenario 4), unless that peer hosts again.                 *)
EndedGameWithdrawn ==
  \A p \in Peers : \A hc \in HostCounters :
    (hosted[p] = NoHost /\ lanList[hc] \in {p} \X Names)
      ~> (lanList[hc] \notin {p} \X Names \/ hosted[p] # NoHost)

(* spec.md 4.C and 8, scenario 1: a game hosted on a probed peer          *)
(* eventually shows on the local client's LAN list, for as long as the    *)
(* peer hosts it, stays in the peer list and the version stays set:       *)
(* probe, answer, ingest, callback and broadcast each do their part       *)
(* despite lost and reordered datagrams.                                  *)
HostedEventuallyListed ==
  \A p \in Peers, n \in Names, hc \in HostCounters :
    (hosted[p] = <<n, hc>> /\ p \in mgrPeers /\ version # 0)
      ~> (\/ lanList[hc] = <<p, n>>
          \/ hosted[p] # <<n, hc>> \/ p \notin mgrPeers \/ version = 0)

(* The same, for as long as receiveLoop runs: what the code guarantees on *)
(* a platform where ReadFrom can fail.                                    *)
DiscoveryWhileReceiving ==
  \A p \in Peers, n \in Names, hc \in HostCounters :
    (hosted[p] = <<n, hc>> /\ p \in mgrPeers /\ version # 0)
      ~> (\/ lanList[hc] = <<p, n>>
          \/ hosted[p] # <<n, hc>> \/ p \notin mgrPeers \/ version = 0
          \/ ~recvUp)

=============================================================================
