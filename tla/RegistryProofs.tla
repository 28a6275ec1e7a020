--------------------------- MODULE RegistryProofs ---------------------------
(***************************************************************************)
(* Proofs about the registry used on its own (RegSpec): its type           *)
(* invariant, and that the onChange consumers always hold the current      *)
(* content of the map, for every choice of the constants.                  *)
(***************************************************************************)
EXTENDS Registry, TLAPS

(* The record handleGameInfo builds is a game record. *)
LEMMA IncomingType ==
  ASSUME NEW o \in Origins, NEW n \in Names, NEW hc \in HostCounters,
         RegistryAssumption
  PROVE  Incoming(o, n, hc) \in GameRec
BY DEF Incoming, GameRec, Time, ZeroTime, SourceLocal, SourceRemote

(* NoGame is not a game record: it marks an absent key. *)
LEMMA NoGameNotRec == NoGame \notin GameRec
BY DEF NoGame, GameRec

(* Add of a game record keeps the map typed. *)
LEMMA AddType ==
  ASSUME RegTypeOK, RegistryAssumption, NEW g \in GameRec, Add(g)
  PROVE  RegTypeOK'
<1> DEFINE key == Key(g)
<1>1. key \in Keys
  BY DEF Key, Keys, GameRec, Origins, SourceLocal
<1>2. now \in Time
  BY DEF RegTypeOK, Time
<1>3. [g EXCEPT !.first = IF games[key] # NoGame THEN g.first ELSE now,
                !.last = now] \in GameRec
  BY <1>2 DEF GameRec
<1>4. games' \in [Keys -> GameRec \cup {NoGame}]
  BY <1>1, <1>3 DEF Add, RegTypeOK
<1>5. view' \in SUBSET GameRec
  BY <1>4, NoGameNotRec DEF Add, Snapshot
<1>6. now' \in 1 .. MaxTime
  BY DEF Add, RegTypeOK
<1>. QED  BY <1>4, <1>5, <1>6 DEF RegTypeOK

(* Every registry operation keeps the map typed. *)
LEMMA RegTypeStep == RegTypeOK /\ [RegNext]_regVars => RegTypeOK'
<1> SUFFICES ASSUME RegTypeOK, [RegNext]_regVars PROVE RegTypeOK'
  OBVIOUS
<1>1. CASE \E o \in Origins, n \in Names, hc \in HostCounters : Add(Incoming(o, n, hc))
  BY <1>1, IncomingType, AddType, RegistryAssumption
<1>2. CASE \E k \in Keys : Remove(k)
  BY <1>2, NoGameNotRec DEF Remove, RegTypeOK, Snapshot
<1>3. CASE Expire(GameTimeout)
  BY <1>3, NoGameNotRec DEF Expire, RegTypeOK, Snapshot
<1>4. CASE Tick
  BY <1>4, RegistryAssumption DEF Tick, RegTypeOK
<1>5. CASE UNCHANGED regVars
  BY <1>5 DEF regVars, RegTypeOK
<1>. QED  BY <1>1, <1>2, <1>3, <1>4, <1>5 DEF RegNext

(* The registry's map, snapshot and clock keep their types whatever the  *)
(* callers do.                                                           *)
THEOREM RegTypeCorrect == RegSpec => []RegTypeOK
<1>1. RegInit => RegTypeOK
  BY RegistryAssumption, NoGameNotRec DEF RegInit, RegTypeOK
<1>. QED  BY <1>1, RegTypeStep, PTL DEF RegSpec

(* Every registry operation hands the consumers the current content. *)
LEMMA ViewStep == ViewIsSnapshot /\ [RegNext]_regVars => ViewIsSnapshot'
<1> SUFFICES ASSUME ViewIsSnapshot, [RegNext]_regVars PROVE ViewIsSnapshot'
  OBVIOUS
<1>1. CASE \E o \in Origins, n \in Names, hc \in HostCounters : Add(Incoming(o, n, hc))
  BY <1>1 DEF Add, ViewIsSnapshot
<1>2. CASE \E k \in Keys : Remove(k)
  BY <1>2 DEF Remove, ViewIsSnapshot
<1>3. CASE Expire(GameTimeout)
  <2> DEFINE stale == {k \in Keys : games[k] # NoGame /\ IsStale(games[k], GameTimeout)}
  <2>1. CASE stale # {}
    BY <1>3, <2>1 DEF Expire, ViewIsSnapshot
  <2>2. CASE stale = {}
    <3>1. \A k \in Keys : games'[k] = games[k]
      BY <1>3, <2>2 DEF Expire
    <3>2. Snapshot' = Snapshot
      BY <3>1 DEF Snapshot
    <3>. QED  BY <1>3, <2>2, <3>2 DEF Expire, ViewIsSnapshot
  <2>. QED  BY <2>1, <2>2
<1>4. CASE Tick
  BY <1>4 DEF Tick, ViewIsSnapshot, Snapshot
<1>5. CASE UNCHANGED regVars
  BY <1>5 DEF regVars, ViewIsSnapshot, Snapshot
<1>. QED  BY <1>1, <1>2, <1>3, <1>4, <1>5 DEF RegNext

(* The consumers of onChange hold the registry's current content: every  *)
(* step that changes the map delivers its snapshot (Registry.Add, Remove *)
(* and a sweeping Expire call onChange under the write lock), and a step  *)
(* that does not change it leaves the view alone.                         *)
THEOREM ViewCurrent == RegSpec => []ViewIsSnapshot
<1>1. RegInit => ViewIsSnapshot
  BY DEF RegInit, ViewIsSnapshot, Snapshot
<1>. QED  BY <1>1, ViewStep, PTL DEF RegSpec

-----------------------------------------------------------------------------
(* Refinement of the lease table.  The mapping reads the keys of the      *)
(* snapshot as the told keys, so the proof needs, besides the two        *)
(* invariants above, that every stored record sits under its own key.    *)
KeysMatch == \A k \in Keys : games[k] # NoGame => Key(games[k]) = k

RInv == RegTypeOK /\ ViewIsSnapshot /\ KeysMatch

(* The key handleGameInfo's record is stored under is (origin, name). *)
LEMMA IncomingKey ==
  ASSUME NEW o \in Origins, NEW n \in Names, NEW hc \in HostCounters
  PROVE  Key(Incoming(o, n, hc)) = <<o, n>>
BY DEF Key, Incoming, SourceLocal, SourceRemote

(* The keys of a snapshot of a map whose records sit under their own keys *)
(* are the keys present in the map.                                       *)
LEMMA SnapshotKeys ==
  ASSUME NEW G, NEW V,
         V = {G[k] : k \in {k2 \in Keys : G[k2] # NoGame}},
         \A k \in Keys : G[k] # NoGame => Key(G[k]) = k
  PROVE  {Key(g) : g \in V} = {k \in Keys : G[k] # NoGame}
<1>1. \A g \in V : Key(g) \in {k \in Keys : G[k] # NoGame}
  OBVIOUS
<1>2. \A k \in {k2 \in Keys : G[k2] # NoGame} : \E g \in V : Key(g) = k
  OBVIOUS
<1>. QED  BY <1>1, <1>2

(* Every registry operation stores records under their own keys. *)
LEMMA KeysStep == RegTypeOK /\ KeysMatch /\ [RegNext]_regVars => KeysMatch'
<1> SUFFICES ASSUME RegTypeOK, KeysMatch, [RegNext]_regVars PROVE KeysMatch'
  OBVIOUS
<1>1. CASE \E o \in Origins, n \in Names, hc \in HostCounters : Add(Incoming(o, n, hc))
  <2>1. PICK o \in Origins, n \in Names, hc \in HostCounters : Add(Incoming(o, n, hc))
    BY <1>1
  <2> DEFINE g == Incoming(o, n, hc)
  <2>2. g \in GameRec
    BY IncomingType, RegistryAssumption
  <2>3. Key(g) \in Keys
    BY IncomingKey DEF Keys
  <2>4. Key([g EXCEPT !.first = IF games[Key(g)] # NoGame THEN g.first ELSE now,
                      !.last = now]) = Key(g)
    BY <2>2 DEF Key, GameRec
  <2>. QED  BY <2>1, <2>3, <2>4 DEF Add, KeysMatch, RegTypeOK
<1>2. CASE \E k \in Keys : Remove(k)
  BY <1>2 DEF Remove, KeysMatch, RegTypeOK
<1>3. CASE Expire(GameTimeout)
  BY <1>3 DEF Expire, KeysMatch, RegTypeOK
<1>4. CASE Tick
  BY <1>4 DEF Tick, KeysMatch
<1>5. CASE UNCHANGED regVars
  BY <1>5 DEF regVars, KeysMatch
<1>. QED  BY <1>1, <1>2, <1>3, <1>4, <1>5 DEF RegNext

LEMMA RInvStep == RInv /\ [RegNext]_regVars => RInv'
BY RegTypeStep, ViewStep, KeysStep DEF RInv

(* spec.md 8, for every choice of the constants: the registry's keys are *)
(* those added minus those removed, Add renews the LastSeen of its key,    *)
(* Expire drops exactly the stale keys, and each change reaches the        *)
(* onChange consumers (Registry.Add, Remove and Expire).                   *)
THEOREM RegistryRefinesLeases == RegSpec => ImplementsLeases
<1> DEFINE lease == [k \in PresentKeys |-> games[k].last]
           told == {Key(g) : g \in view}
<1>1. RegInit => Leases!Init
  <2> SUFFICES ASSUME RegInit PROVE Leases!Init
    OBVIOUS
  <2>1. PresentKeys = {}
    BY NoGameNotRec DEF RegInit, PresentKeys, NoGame
  <2>. QED  BY <2>1 DEF RegInit, Leases!Init
<1>2. RInv /\ [RegNext]_regVars => [Leases!Next]_Leases!leaseVars
  <2> SUFFICES ASSUME RInv, [RegNext]_regVars
               PROVE  [Leases!Next]_Leases!leaseVars
    OBVIOUS
  <2>0. RInv'
    BY RInvStep
  <2>1. told = PresentKeys
    BY SnapshotKeys DEF RInv, ViewIsSnapshot, Snapshot, KeysMatch, PresentKeys
  <2>2. told' = PresentKeys'
    BY <2>0, SnapshotKeys DEF RInv, ViewIsSnapshot, Snapshot, KeysMatch, PresentKeys
  <2>3. CASE \E o \in Origins, n \in Names, hc \in HostCounters : Add(Incoming(o, n, hc))
    <3>1. PICK o \in Origins, n \in Names, hc \in HostCounters : Add(Incoming(o, n, hc))
      BY <2>3
    <3>2. Key(Incoming(o, n, hc)) = <<o, n>> /\ <<o, n>> \in Keys
      BY IncomingKey DEF Keys
    <3> DEFINE g == Incoming(o, n, hc)
               stored == [g EXCEPT !.first = IF games[Key(g)] # NoGame THEN g.first ELSE now,
                                   !.last = now]
    <3>a. stored \in GameRec
      <4>1. g \in GameRec /\ now \in Time
        BY IncomingType, RegistryAssumption DEF RInv, RegTypeOK, Time
      <4>. QED  BY <4>1 DEF GameRec
    <3>b. games' = [games EXCEPT ![<<o, n>>] = stored]
      BY <3>1, <3>2 DEF Add
    <3>3. PresentKeys' = PresentKeys \cup {<<o, n>>}
      BY <3>a, <3>b, <3>2, NoGameNotRec DEF PresentKeys, RInv, RegTypeOK
    <3>4. lease' = [j \in PresentKeys \cup {<<o, n>>} |->
                      IF j = <<o, n>> THEN now ELSE lease[j]]
      BY <3>1, <3>2, <3>3 DEF Add, RInv, RegTypeOK
    <3>5. Leases!Put(<<o, n>>)
      BY <3>1, <3>3, <3>4, <2>2 DEF Leases!Put, Add
    <3>. QED  BY <3>2, <3>5 DEF Leases!Next
  <2>4. CASE \E k \in Keys : Remove(k)
    <3>1. PICK k \in Keys : Remove(k)
      BY <2>4
    <3>2. PresentKeys' = PresentKeys \ {k}
      BY <3>1 DEF Remove, PresentKeys, RInv, RegTypeOK
    <3>3. Leases!Drop(k)
      BY <3>1, <3>2, <2>2 DEF Leases!Drop, Leases!Keep, Remove, PresentKeys, RInv, RegTypeOK
    <3>. QED  BY <3>3 DEF Leases!Next
  <2>5. CASE Expire(GameTimeout)
    <3> DEFINE stale == {k \in Keys : games[k] # NoGame /\ IsStale(games[k], GameTimeout)}
    <3>1. stale = {k \in PresentKeys : now - lease[k] > GameTimeout}
      BY DEF PresentKeys, IsStale
    <3>2. PresentKeys' = PresentKeys \ stale
      BY <2>5 DEF Expire, PresentKeys, RInv, RegTypeOK
    <3>3. \A k \in PresentKeys' : games'[k] = games[k]
      BY <2>5, <3>2 DEF Expire, PresentKeys, RInv, RegTypeOK
    <3>4. CASE stale # {}
      <4>1. DOMAIN lease = PresentKeys /\ DOMAIN lease' = PresentKeys'
        OBVIOUS
      <4>2. lease' = Leases!Keep(lease, PresentKeys \ stale)
        BY <3>2, <3>3 DEF Leases!Keep
      <4>3. Leases!Sweep
        BY <2>5, <3>1, <3>4, <4>1, <4>2, <2>2 DEF Leases!Sweep, Expire
      <4>. QED  BY <4>3 DEF Leases!Next
    <3>5. CASE stale = {}
      <4>1. lease' = lease /\ told' = told /\ now' = now
        BY <2>1, <2>2, <2>5, <3>2, <3>3, <3>5 DEF Expire
      <4>. QED  BY <4>1 DEF Leases!leaseVars
    <3>. QED  BY <3>4, <3>5
  <2>6. CASE Tick
    <3>1. Leases!Advance
      BY <2>6 DEF Tick, Leases!Advance, PresentKeys
    <3>. QED  BY <3>1 DEF Leases!Next
  <2>7. CASE UNCHANGED regVars
    BY <2>7 DEF regVars, Leases!leaseVars, PresentKeys
  <2>. QED  BY <2>3, <2>4, <2>5, <2>6, <2>7 DEF RegNext
<1>3. RegSpec => []RInv
  <2>1. RegInit => RInv
    BY RegistryAssumption, NoGameNotRec DEF RegInit, RInv, RegTypeOK, ViewIsSnapshot, Snapshot, KeysMatch
  <2>. QED  BY <2>1, RInvStep, PTL DEF RegSpec
<1>. QED  BY <1>1, <1>2, <1>3, PTL DEF RegSpec, ImplementsLeases, Leases!Spec

=============================================================================
