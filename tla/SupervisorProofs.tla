--------------------------- MODULE SupervisorProofs ---------------------------
(***************************************************************************)
(* Proofs about the goroutines of one process (module Supervisor), for     *)
(* any keys and any games: the type invariant, and that the registry's     *)
(* two callback consumers hold its keys whenever no Add is in flight.      *)
(***************************************************************************)
EXTENDS Supervisor, TLAPS

(* What a message of the program may carry. *)
LEMMA MsgFacts ==
  ASSUME NEW m \in Msgs
  PROVE  /\ m.kind = "key" => m.key \in UserKeys
         /\ m.kind = "games" => m = GamesMsg(m.games) /\ m.games \in SUBSET GameIds
         /\ m # NoMsg
BY DEF Msgs, KeyMsg, GamesMsg, LogMsg, PortMsg, PeersMsg, QuitMsg, NoMsg

LEMMA LoggedFacts == Logged \in Msgs \cup {NoMsg} /\ Logged.kind # "games"
BY DEF Logged, Msgs, LogMsg, NoMsg

LEMMA HandleKeyFacts ==
  ASSUME NEW k, NEW ob \in [Actors -> Msgs \cup {NoMsg}]
  PROVE  /\ HandleKey(k, ob) \in [Actors -> Msgs \cup {NoMsg}]
         /\ HandleKey(k, ob)["ui"].kind # "games"
         /\ HandleKey(k, ob)["cmd"] \in {ob["cmd"], QuitMsg}
         /\ \A a \in Actors \ {"ui", "cmd"} : HandleKey(k, ob)[a] = ob[a]
<1>1. QuitMsg \in Msgs
  BY DEF Msgs
<1>. QED  BY <1>1, LoggedFacts DEF HandleKey, Actors, NoMsg

(* The type is preserved by every step that starts with the receive      *)
(* loop's Add holding a game (SInv below gives that fact).                 *)
LEMMA TypeStep ==
  ASSUME TypeOK, pc["recv"] = "store" => adding \in GameIds, [Next]_vars
  PROVE  TypeOK'
<1> USE DEF TypeOK
<1>1. ASSUME NEW a \in Actors, Update(a) PROVE TypeOK'
  <2> DEFINE m == outbox[a]
             ob == [outbox EXCEPT ![a] = NoMsg]
  <2>1. m \in Msgs
    BY <1>1, MsgFacts DEF Update
  <2>2. ob \in [Actors -> Msgs \cup {NoMsg}]
    OBVIOUS
  <2>3. outbox' \in [Actors -> Msgs \cup {NoMsg}]
    BY <1>1, <2>1, <2>2, MsgFacts, HandleKeyFacts DEF Update
  <2>4. tuiGames' \in SUBSET GameIds
    BY <1>1, <2>1, MsgFacts DEF Update
  <2>5. pc' \in [Actors -> Pcs]
    BY <1>1 DEF Update, Pcs
  <2>. QED  BY <1>1, <2>3, <2>4, <2>5 DEF Update
<1>2. ASSUME NEW a \in Actors, SendDropped(a) PROVE TypeOK'
  BY <1>2 DEF SendDropped
<1>3. ASSUME NEW k \in UserKeys, ReadKey(k) PROVE TypeOK'
  BY <1>3 DEF ReadKey, Msgs, KeyMsg, Actors
<1>4. ASSUME NEW g \in GameIds, AddLock(g) PROVE TypeOK'
  BY <1>4, LoggedFacts DEF AddLock, Pcs, Actors
<1>14. CASE Discovered
  BY <1>14, LoggedFacts DEF Discovered, Pcs, Actors
<1>5. CASE MainStep
  <2>1. PortMsg \in Msgs
    BY DEF Msgs
  <2>2. outbox' \in [Actors -> Msgs \cup {NoMsg}]
    BY <1>5, <2>1, LoggedFacts DEF MainStep, Actors
  <2>3. pc' \in [Actors -> Pcs]
    BY <1>5 DEF MainStep, Pcs, Actors
  <2>. QED  BY <1>5, <2>2, <2>3 DEF MainStep
<1>13. CASE TuiStart
  BY <1>13 DEF TuiStart, Pcs, Actors
<1>6. CASE AddNotify
  <2>1. reg \cup {adding} \in SUBSET GameIds
    BY <1>6 DEF AddNotify
  <2>2. GamesMsg(reg \cup {adding}) \in Msgs
    BY <2>1 DEF Msgs
  <2>. QED  BY <1>6, <2>2 DEF AddNotify, Pcs, Actors
<1>7. CASE AddUnlock
  BY <1>7 DEF AddUnlock, Pcs, Actors, NoId
<1>10. CASE BroadcastGames
  BY <1>10, LoggedFacts DEF BroadcastGames, Pcs, Actors
<1>11. CASE BroadcastUnlock
  BY <1>11 DEF BroadcastUnlock, Pcs, Actors
<1>12. CASE ProxyLookup
  BY <1>12, LoggedFacts DEF ProxyLookup, Pcs, Actors
<1>8. CASE PeersChanged \/ DiscProbe \/ ProxyAccept
  <2>1. PeersMsg \in Msgs
    BY DEF Msgs
  <2>. QED  BY <1>8, <2>1, LoggedFacts DEF PeersChanged, DiscProbe, ProxyAccept, Pcs, Actors
<1>9. CASE Exited \/ UNCHANGED vars
  BY <1>9 DEF Exited, vars
<1>. QED  BY <1>1, <1>2, <1>3, <1>4, <1>5, <1>6, <1>7, <1>8, <1>9, <1>10, <1>11, <1>12, <1>13,
             <1>14 DEF Next

-----------------------------------------------------------------------------
(* The strengthening of ViewsCurrent.  Add's write lock is held exactly   *)
(* from AddLock to AddUnlock, on a game;                                  *)
AddHoldsLock ==
  /\ pc["recv"] \in {"idle", "add", "store", "bcast"}
  /\ wlock <=> pc["recv"] \in {"store", "bcast"}
  /\ pc["recv"] \in {"store", "bcast"} => adding \in GameIds

(* only Add's onGamesChanged sends a GamesMsg, and it carries the keys    *)
(* the registry holds;                                                    *)
GamesFromAdd ==
  /\ \A a \in Actors : outbox[a].kind = "games" => a = "recv" /\ pc["recv"] = "bcast"
  /\ pc["recv"] = "bcast" => outbox["recv"] \in {GamesMsg(reg), NoMsg}

(* before the store both consumers are current; after it the TUI is once  *)
(* its Send returned (unless the program exited and dropped it).          *)
ConsumersCurrent ==
  /\ pc["recv"] \in {"idle", "add", "store"} => bcast = reg
  /\ pc["recv"] \in {"idle", "add", "store"} /\ pc["ui"] # "exited" => tuiGames = reg
  /\ pc["recv"] = "bcast" /\ outbox["recv"] = NoMsg /\ pc["ui"] # "exited"
        => tuiGames = reg

SInv == TypeOK /\ AddHoldsLock /\ GamesFromAdd /\ ConsumersCurrent

LEMMA InitSInv == Init => SInv
<1> SUFFICES ASSUME Init PROVE SInv
  OBVIOUS
<1>1. TypeOK
  <2>1. pc \in [Actors -> Pcs]
    BY DEF Init, Pcs
  <2>2. outbox \in [Actors -> Msgs \cup {NoMsg}]
    BY DEF Init
  <2>. QED  BY <2>1, <2>2 DEF Init, TypeOK, NoId
<1>2. pc["recv"] = "idle" /\ pc["ui"] = "init" /\ ~wlock
  BY DEF Init, Actors
<1>3. \A a \in Actors : outbox[a].kind = "none"
  BY DEF Init, NoMsg
<1>. QED  BY <1>1, <1>2, <1>3 DEF Init, SInv, AddHoldsLock, GamesFromAdd, ConsumersCurrent

(* A step that leaves the registry, the lock, the caches and the receive  *)
(* loop alone, sends no GamesMsg and takes the receive loop's message only *)
(* where no view depends on it, keeps SInv.                                *)
LEMMA QuietStep ==
  ASSUME SInv, TypeOK',
         UNCHANGED <<wlock, adding, reg, bcast, tuiGames>>,
         pc'["recv"] = pc["recv"],
         pc'["ui"] # "exited" => pc["ui"] # "exited",
         \/ outbox'["recv"] = outbox["recv"]
         \/ outbox'["recv"] = NoMsg /\ (pc["recv"] # "bcast" \/ pc'["ui"] = "exited"),
         \A x \in Actors : outbox'[x].kind = "games" => outbox[x].kind = "games"
  PROVE  SInv'
BY DEF SInv, AddHoldsLock, GamesFromAdd, ConsumersCurrent, NoMsg, GamesMsg

LEMMA SInvStep == SInv /\ [Next]_vars => SInv'
<1> SUFFICES ASSUME SInv, [Next]_vars PROVE SInv'
  OBVIOUS
<1>0. TypeOK'
  BY TypeStep DEF SInv, AddHoldsLock
<1>a. TypeOK
  BY DEF SInv
<1>1. ASSUME NEW a \in Actors, Update(a) PROVE SInv'
  <2> DEFINE m == outbox[a]
             ob == [outbox EXCEPT ![a] = NoMsg]
  <2>1. m \in Msgs
    BY <1>a, <1>1 DEF Update, TypeOK
  <2>2. ob \in [Actors -> Msgs \cup {NoMsg}]
    BY <1>a DEF TypeOK
  <2>3. pc'["recv"] = pc["recv"] /\ (pc'["ui"] # "exited" => pc["ui"] # "exited")
    BY <1>a, <1>1 DEF Update, TypeOK, Actors
  <2>4. UNCHANGED <<wlock, adding, reg, bcast>>
    BY <1>1 DEF Update
  <2>5. CASE m.kind = "games"
    <3>1. a = "recv" /\ pc["recv"] = "bcast" /\ m = GamesMsg(reg)
      BY <2>1, <2>5, MsgFacts DEF SInv, GamesFromAdd, NoMsg
    <3>2. outbox' = ob /\ tuiGames' = reg /\ pc' = pc
      BY <1>1, <2>5, <3>1 DEF Update, GamesMsg
    <3>3. \A x \in Actors : outbox'[x].kind = "games" => outbox[x].kind = "games" /\ x # a
      BY <3>2, <1>a DEF TypeOK, NoMsg
    <3>. QED  BY <1>0, <2>4, <3>1, <3>2, <3>3
              DEF SInv, AddHoldsLock, GamesFromAdd, ConsumersCurrent, NoMsg
  <2>6. CASE m.kind # "games"
    <3>1. tuiGames' = tuiGames
      BY <1>1, <2>6 DEF Update
    <3>2. a = "recv" => pc["recv"] # "bcast"
      BY <2>1, <2>6, <1>1, MsgFacts DEF SInv, GamesFromAdd, GamesMsg, Update
    <3>3. CASE m.kind = "key"
      <4>1. outbox' = HandleKey(m.key, ob)
        BY <1>1, <3>3 DEF Update
      <4>2. /\ outbox'["ui"].kind # "games"
            /\ outbox'["cmd"] \in {ob["cmd"], QuitMsg}
            /\ \A x \in Actors \ {"ui", "cmd"} : outbox'[x] = ob[x]
        <5>1. /\ HandleKey(m.key, ob)["ui"].kind # "games"
              /\ HandleKey(m.key, ob)["cmd"] \in {ob["cmd"], QuitMsg}
              /\ \A x \in Actors \ {"ui", "cmd"} : HandleKey(m.key, ob)[x] = ob[x]
          BY <2>2, LoggedFacts DEF HandleKey, Actors, NoMsg, QuitMsg
        <5>. QED  BY <4>1, <5>1
      <4>3. \A x \in Actors : outbox'[x].kind = "games" => outbox[x].kind = "games"
        BY <4>2 DEF QuitMsg, NoMsg, Actors
      <4>4. outbox'["recv"] = ob["recv"]
        BY <4>2 DEF Actors
      <4>. QED  BY <1>0, <2>3, <2>4, <3>1, <3>2, <4>3, <4>4, QuietStep
    <3>4. CASE m.kind # "key"
      <4>1. outbox' = ob
        BY <1>1, <3>4 DEF Update
      <4>. QED  BY <1>0, <2>3, <2>4, <3>1, <3>2, <4>1, QuietStep DEF NoMsg
    <3>. QED  BY <3>3, <3>4
  <2>. QED  BY <2>5, <2>6
<1>2. ASSUME NEW a \in Actors, SendDropped(a) PROVE SInv'
  <2>1. UNCHANGED <<wlock, adding, reg, bcast, tuiGames>>
    BY <1>2 DEF SendDropped
  <2>2. pc'["recv"] = pc["recv"] /\ (pc'["ui"] # "exited" => pc["ui"] # "exited")
    BY <1>2, <1>a DEF SendDropped, TypeOK, Actors
  <2>3. \/ outbox'["recv"] = outbox["recv"]
        \/ outbox'["recv"] = NoMsg /\ pc'["ui"] = "exited"
    BY <1>2, <1>a DEF SendDropped, TypeOK, Actors, Free
  <2>4. \A x \in Actors : outbox'[x].kind = "games" => outbox[x].kind = "games"
    BY <1>2, <1>a, LoggedFacts DEF SendDropped, TypeOK, NoMsg
  <2>. QED  BY <1>0, <2>1, <2>2, <2>3, <2>4, QuietStep
<1>3. ASSUME NEW k \in UserKeys, ReadKey(k) PROVE SInv'
  <2>1. UNCHANGED <<wlock, adding, reg, bcast, tuiGames>>
    BY <1>3 DEF ReadKey
  <2>2. pc'["recv"] = pc["recv"] /\ (pc'["ui"] # "exited" => pc["ui"] # "exited")
    BY <1>3, <1>a DEF ReadKey, TypeOK, Actors
  <2>3. outbox'["recv"] = outbox["recv"]
    BY <1>3, <1>a DEF ReadKey, TypeOK, Actors, Free
  <2>4. \A x \in Actors : outbox'[x].kind = "games" => outbox[x].kind = "games"
    BY <1>3, <1>a, LoggedFacts DEF ReadKey, TypeOK, NoMsg, KeyMsg
  <2>. QED  BY <1>0, <2>1, <2>2, <2>3, <2>4, QuietStep
<1>4. ASSUME NEW g \in GameIds, AddLock(g) PROVE SInv'
  <2>1. pc["recv"] = "add" /\ ~wlock /\ pc'["recv"] = "store" /\ pc'["ui"] = pc["ui"]
    BY <1>4, <1>a DEF AddLock, TypeOK, Actors
  <2>2. wlock' /\ adding' \in GameIds /\ UNCHANGED <<reg, bcast, tuiGames>>
    BY <1>4 DEF AddLock
  <2>3. \A x \in Actors : outbox'[x].kind # "games"
    BY <1>4, <1>a, <2>1, LoggedFacts DEF AddLock, TypeOK, NoMsg, SInv, GamesFromAdd
  <2>. QED  BY <1>0, <2>1, <2>2, <2>3 DEF SInv, AddHoldsLock, GamesFromAdd, ConsumersCurrent
<1>12. CASE Discovered
  <2>1. pc["recv"] = "idle" /\ pc'["recv"] = "add" /\ pc'["ui"] = pc["ui"]
    BY <1>12, <1>a DEF Discovered, TypeOK, Actors
  <2>2. UNCHANGED <<wlock, adding, reg, bcast, tuiGames>>
    BY <1>12 DEF Discovered
  <2>3. \A x \in Actors : outbox'[x].kind # "games"
    BY <1>12, <1>a, <2>1, LoggedFacts DEF Discovered, TypeOK, SInv, GamesFromAdd
  <2>. QED  BY <1>0, <2>1, <2>2, <2>3 DEF SInv, AddHoldsLock, GamesFromAdd, ConsumersCurrent
<1>5. CASE AddNotify
  <2>1. pc["recv"] = "store" /\ pc'["recv"] = "bcast" /\ pc'["ui"] = pc["ui"]
    BY <1>5, <1>a DEF AddNotify, TypeOK, Actors
  <2>2. outbox'["recv"] = GamesMsg(reg') /\ \A x \in Actors \ {"recv"} : outbox'[x] = outbox[x]
    BY <1>5, <1>a DEF AddNotify, TypeOK, Actors
  <2>3. UNCHANGED <<wlock, adding, tuiGames, bcast>>
    BY <1>5 DEF AddNotify
  <2>. QED  BY <1>0, <2>1, <2>2, <2>3 DEF SInv, AddHoldsLock, GamesFromAdd, ConsumersCurrent,
                                        GamesMsg, NoMsg
<1>6. CASE AddUnlock
  <2>1. pc["recv"] = "bcast" /\ pc'["recv"] = "idle" /\ pc'["ui"] = pc["ui"]
    BY <1>6, <1>a DEF AddUnlock, TypeOK, Actors
  <2>2. outbox["recv"] = NoMsg /\ UNCHANGED <<outbox, reg, tuiGames>>
    BY <1>6 DEF AddUnlock, Free
  <2>3. bcast' = reg /\ ~wlock'
    BY <1>6 DEF AddUnlock
  <2>4. outbox'["recv"].kind # "games"
    BY <2>2 DEF NoMsg
  <2>. QED  BY <1>0, <2>1, <2>2, <2>3, <2>4 DEF SInv, AddHoldsLock, GamesFromAdd, ConsumersCurrent
<1>7. CASE MainStep
  <2>1. UNCHANGED <<wlock, adding, reg, bcast, tuiGames>>
    BY <1>7 DEF MainStep
  <2>2. pc'["recv"] = pc["recv"] /\ (pc'["ui"] # "exited" => pc["ui"] # "exited")
    BY <1>7, <1>a DEF MainStep, TypeOK, Actors
  <2>3. outbox'["recv"] = outbox["recv"]
    BY <1>7, <1>a DEF MainStep, TypeOK, Actors, Free
  <2>4. \A x \in Actors : outbox'[x].kind = "games" => outbox[x].kind = "games"
    BY <1>7, <1>a, LoggedFacts DEF MainStep, TypeOK, NoMsg, PortMsg
  <2>. QED  BY <1>0, <2>1, <2>2, <2>3, <2>4, QuietStep
<1>8. CASE TuiStart
  <2>1. UNCHANGED <<wlock, adding, reg, bcast, tuiGames>>
    BY <1>8 DEF TuiStart
  <2>2. pc'["recv"] = pc["recv"] /\ (pc'["ui"] # "exited" => pc["ui"] # "exited")
    BY <1>8, <1>a DEF TuiStart, TypeOK, Actors
  <2>3. outbox'["recv"] = outbox["recv"]
    BY <1>8, <1>a DEF TuiStart, TypeOK, Actors, Free
  <2>4. \A x \in Actors : outbox'[x].kind = "games" => outbox[x].kind = "games"
    BY <1>8, <1>a, LoggedFacts DEF TuiStart, TypeOK, NoMsg
  <2>. QED  BY <1>0, <2>1, <2>2, <2>3, <2>4, QuietStep
<1>9. CASE PeersChanged \/ DiscProbe \/ ProxyAccept \/ ProxyLookup
  <2>1. UNCHANGED <<wlock, adding, reg, bcast, tuiGames>>
    BY <1>9 DEF PeersChanged, DiscProbe, ProxyAccept, ProxyLookup
  <2>2. pc'["recv"] = pc["recv"] /\ (pc'["ui"] # "exited" => pc["ui"] # "exited")
    BY <1>9, <1>a DEF PeersChanged, DiscProbe, ProxyAccept, ProxyLookup, TypeOK, Actors
  <2>3. outbox'["recv"] = outbox["recv"]
    BY <1>9, <1>a DEF PeersChanged, DiscProbe, ProxyAccept, ProxyLookup, TypeOK, Actors, Free
  <2>4. \A x \in Actors : outbox'[x].kind = "games" => outbox[x].kind = "games"
    BY <1>9, <1>a, LoggedFacts DEF PeersChanged, DiscProbe, ProxyAccept, ProxyLookup, TypeOK, NoMsg, PeersMsg
  <2>. QED  BY <1>0, <2>1, <2>2, <2>3, <2>4, QuietStep
<1>10. CASE BroadcastGames \/ BroadcastUnlock
  <2>1. UNCHANGED <<wlock, adding, reg, bcast, tuiGames>>
    BY <1>10 DEF BroadcastGames, BroadcastUnlock
  <2>2. pc'["recv"] = pc["recv"] /\ (pc'["ui"] # "exited" => pc["ui"] # "exited")
    BY <1>10, <1>a DEF BroadcastGames, BroadcastUnlock, TypeOK, Actors
  <2>3. outbox'["recv"] = outbox["recv"]
    BY <1>10, <1>a DEF BroadcastGames, BroadcastUnlock, TypeOK, Actors, Free
  <2>4. \A x \in Actors : outbox'[x].kind = "games" => outbox[x].kind = "games"
    BY <1>10, <1>a, LoggedFacts DEF BroadcastGames, BroadcastUnlock, TypeOK, NoMsg
  <2>. QED  BY <1>0, <2>1, <2>2, <2>3, <2>4, QuietStep
<1>11. CASE Exited \/ UNCHANGED vars
  BY <1>11 DEF Exited, vars, SInv, AddHoldsLock, GamesFromAdd, ConsumersCurrent, TypeOK
<1>. QED  BY <1>1, <1>2, <1>3, <1>4, <1>5, <1>6, <1>7, <1>8, <1>9, <1>10, <1>11, <1>12
          DEF Next

(* The type invariant of the process, for any keys and games. *)
THEOREM SupervisorTypeCorrect == Spec => []TypeOK
<1>. QED  BY InitSInv, SInvStep, PTL DEF Spec, SInv

(* Registry.Add's callbacks, for any keys and games: whenever no Add     *)
(* holds the registry's write lock, the broadcaster's cache and the       *)
(* running TUI hold the registry's keys (the run supervisor_liveness      *)
(* checks it as ViewsCurrent).                                            *)
THEOREM ConsumersSeeEveryAdd == Spec => []ViewsCurrent
<1>2. SInv => ViewsCurrent
  BY DEF SInv, AddHoldsLock, ConsumersCurrent, ViewsCurrent
<1>. QED  BY InitSInv, <1>2, SInvStep, PTL DEF Spec

=============================================================================
