------------------------------ MODULE Registry ------------------------------
(***************************************************************************)
(* The game registry of wc3ts (src/game/registry.go, src/game/game.go).    *)
(*                                                                         *)
(* The registry is a map from a game key to a game record, guarded by one  *)
(* RWMutex.  Every mutator (Add, Remove, Expire) runs with the write lock  *)
(* held from its first to its last line and calls the onChange callback   *)
(* with a fresh snapshot before it unlocks, so each mutator is one atomic  *)
(* step here and the snapshot handed to the callback is part of that step. *)
(* The readers (Games, LocalGames, RemoteGames, FindByHostCounter) change  *)
(* no state and are operators.                                             *)
(*                                                                         *)
(* Time is a counter `now`; a game's FirstSeen and LastSeen are values of  *)
(* it.  ZeroTime is Go's zero time.Time{}, earlier than every `now`.       *)
(***************************************************************************)
EXTENDS Naturals, FiniteSets

CONSTANTS
  Peers,         \* overlay IPv4 addresses of remote peers (model values)
  Loopback,      \* 127.0.0.1, the source of Local games (a model value)
  Names,         \* game names (model values)
  HostCounters,  \* values of the 32-bit HostCounter field
  GameTimeout,   \* the timeout argument of Expire, in clock ticks
  MaxTime        \* bound on the clock: the last value `now` may take

ASSUME RegistryAssumption ==
  /\ Loopback \notin Peers
  /\ GameTimeout \in Nat
  /\ MaxTime \in Nat \ {0}

VARIABLES
  games,   \* Registry.games: key -> game record, or NoGame when absent
  view,    \* the last snapshot passed to onChange (what consumers hold)
  now      \* the wall clock read by time.Now()

regVars == <<games, view, now>>

ZeroTime == 0
Time == 0 .. MaxTime

Origins == Peers \cup {Loopback}

(* game.SourceLocal and game.SourceRemote *)
SourceLocal == "local"
SourceRemote == "remote"

(* A game record: the fields of game.Game that the proxy reads.  Info is *)
(* reduced to GameName and HostCounter; RawData to the HostCounter it     *)
(* carries, which is Info.HostCounter since both come from one datagram.  *)
GameRec ==
  [src: {SourceLocal, SourceRemote}, peer: Origins, name: Names,
   hc: HostCounters, first: Time, last: Time]

NoGame == [src |-> "none"]

(* Game.Key: "local:"+name for Local games, PeerIP+":"+name otherwise.   *)
(* An IPv4 string has no ':', so distinct pairs give distinct strings.   *)
Key(g) == IF g.src = SourceLocal THEN <<Loopback, g.name>> ELSE <<g.peer, g.name>>

Keys == Origins \X Names

(* Registry.snapshot: a copy of every stored record. *)
Snapshot == {games[k] : k \in {k2 \in Keys : games[k2] # NoGame}}

(* Mutant: a game counts as stale once its age reaches the timeout. *)
IsStaleAtTimeout(g, timeout) == now - g.last >= timeout

(* Game.IsStale: time.Since(LastSeen) > timeout. *)
IsStale(g, timeout) == now - g.last > timeout

(* The game handleGameInfo builds before it calls Add: its source follows *)
(* peerIP.IsLoopback(), FirstSeen and LastSeen are left at the zero time.  *)
Incoming(origin, name, hc) ==
  [src |-> IF origin = Loopback THEN SourceLocal ELSE SourceRemote,
   peer |-> origin, name |-> name, hc |-> hc,
   first |-> ZeroTime, last |-> ZeroTime]

(* Mutant: the Source check dropped from FindByHostCounter's loop. *)
FindByHostCounterAnySource(hc) == {g \in Snapshot : g.hc = hc}

(* Registry.FindByHostCounter: the games it may return, the stored Remote *)
(* games with HostCounter hc (Go's map order picks one); empty means nil.  *)
FindByHostCounter(hc) == {g \in Snapshot : g.src = SourceRemote /\ g.hc = hc}

-----------------------------------------------------------------------------
RegInit ==
  /\ games = [k \in Keys |-> NoGame]
  /\ view = {}
  /\ now = 1

(* Registry.Add: FirstSeen is set only when the key is new, LastSeen     *)
(* always; the caller's record then replaces the stored one whole, and    *)
(* onChange receives the snapshot.                                        *)
Add(g) ==
  LET key == Key(g)
      exists == games[key] # NoGame
      stored == [g EXCEPT !.first = IF exists THEN g.first ELSE now,
                          !.last = now]
  IN  /\ games' = [games EXCEPT ![key] = stored]
      /\ view' = Snapshot'
      /\ UNCHANGED now

(* Registry.Remove: no change and no callback when the key is absent. *)
Remove(key) ==
  /\ games[key] # NoGame
  /\ games' = [games EXCEPT ![key] = NoGame]
  /\ view' = Snapshot'
  /\ UNCHANGED now

(* Mutant: Expire announces a sweep only when it removed more than one. *)
ExpireNotifyIfMany(timeout) ==
  LET stale == {k \in Keys : games[k] # NoGame /\ IsStale(games[k], timeout)}
  IN  /\ games' = [k \in Keys |-> IF k \in stale THEN NoGame ELSE games[k]]
      /\ view' = IF Cardinality(stale) > 1 THEN Snapshot' ELSE view
      /\ UNCHANGED now

(* Registry.Expire: delete every stale game; one callback iff any went. *)
Expire(timeout) ==
  LET stale == {k \in Keys : games[k] # NoGame /\ IsStale(games[k], timeout)}
  IN  /\ games' = [k \in Keys |-> IF k \in stale THEN NoGame ELSE games[k]]
      /\ view' = IF stale # {} THEN Snapshot' ELSE view
      /\ UNCHANGED now

(* The clock advances. *)
Tick ==
  /\ now < MaxTime
  /\ now' = now + 1
  /\ UNCHANGED <<games, view>>

(* The registry used on its own: any caller may Add what handleGameInfo *)
(* builds, Remove any key and Expire with GameTimeout, in any order.      *)
RegNext ==
  \/ \E o \in Origins, n \in Names, hc \in HostCounters : Add(Incoming(o, n, hc))
  \/ \E k \in Keys : Remove(k)
  \/ Expire(GameTimeout)
  \/ Tick

RegSpec == RegInit /\ [][RegNext]_regVars

(* The refinement mapping onto the lease table: a key is present when the *)
(* map holds a record for it, and its lease is that record's LastSeen;    *)
(* the consumers were told the keys of the snapshot they hold.           *)
PresentKeys == {k \in Keys : games[k] # NoGame}

Leases == INSTANCE GameLeases WITH
  lease <- [k \in PresentKeys |-> games[k].last],
  told <- {Key(g) : g \in view},
  clock <- now

-----------------------------------------------------------------------------
RegTypeOK ==
  /\ games \in [Keys -> GameRec \cup {NoGame}]
  /\ view \in SUBSET GameRec
  /\ now \in 1 .. MaxTime

(* The callback consumers (the TUI and the LAN broadcaster) always hold   *)
(* the registry's current content: every mutation that changes the map   *)
(* delivers a snapshot, under the lock, so no change is left unannounced. *)
ViewIsSnapshot == view = Snapshot

(* spec.md 8: whatever sequence of Add, Remove and Expire the callers     *)
(* make, the keys present are those added minus those removed, with       *)
(* refresh semantics, Expire drops exactly the entries older than the     *)
(* timeout, and each change reaches the onChange consumers: Registry      *)
(* implements GameLeases.                                                 *)
ImplementsLeases == Leases!Spec

(* spec.md section 8: repeated Add of the same game preserves firstSeen.   *)
(* Registry.Add sets FirstSeen only for a new key and then stores the      *)
(* caller's record, whose FirstSeen handleGameInfo leaves at zero.         *)
FirstSeenPreserved ==
  [][\A k \in Keys : games[k] # NoGame /\ games'[k] # NoGame =>
        games'[k].first = games[k].first]_regVars

=============================================================================
