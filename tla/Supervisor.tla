----------------------------- MODULE Supervisor -----------------------------
(***************************************************************************)
(* The goroutines of one wc3ts process and the terminal UI they all talk   *)
(* to (src/cmd/wc3ts/run.go, src/tui/model.go, and the Send calls of       *)
(* src/game/registry.go, src/proxy/tcp.go and src/tui/view.go).            *)
(*                                                                         *)
(* Every log line goes through the TUI log handler, whose Handle calls     *)
(* program.Send, and the registry and discovery callbacks call             *)
(* program.Send too.  Bubble Tea's Send puts the message on the program's  *)
(* unbuffered msgs channel, which only the event loop reads, between two   *)
(* calls of Model.Update; once the program has exited, Send returns at     *)
(* once.  So a Send is a rendezvous with the event loop: outbox[a] is the  *)
(* message goroutine a is blocked sending, and pc[a] is where a resumes.   *)
(*                                                                         *)
(* Data is abstracted to what the locks and the channel see: a game is a   *)
(* key, a message is its kind (and, for GamesMsg, the snapshot).           *)
(***************************************************************************)
EXTENDS FiniteSets

CONSTANTS
  UserKeys,   \* the keys the user may press (strings as Bubble Tea names them)
  GameIds     \* registry keys of the games the receive loop may Add

VARIABLES
  pc,        \* actor -> its control point
  outbox,    \* actor -> the message its program.Send is blocked on, or NoMsg
  ready,     \* Handler.ready: log records are dropped until SetReady
  wlock,     \* the registry's write lock is held (by the receive loop)
  bmu,       \* the broadcaster's mutex is held (by broadcastGames)
  adding,    \* the key the receive loop's Add is storing
  reg,       \* the registry's keys
  tuiGames,  \* Model.games: the last GamesMsg the TUI received
  bcast      \* Broadcaster.games: the broadcaster's cache

vars == <<pc, outbox, ready, wlock, bmu, adding, reg, tuiGames, bcast>>

Actors == {"main", "ui", "input", "cmd", "recv", "disc", "proxy", "bcaster"}

NoMsg == [kind |-> "none"]
LogMsg == [kind |-> "log"]
PortMsg == [kind |-> "port"]
PeersMsg == [kind |-> "peers"]
QuitMsg == [kind |-> "quit"]
KeyMsg(k) == [kind |-> "key", key |-> k]
GamesMsg(s) == [kind |-> "games", games |-> s]
Msgs == {LogMsg, PortMsg, PeersMsg, QuitMsg} \cup
        {KeyMsg(k) : k \in UserKeys} \cup {GamesMsg(s) : s \in SUBSET GameIds}

(* Handler.Handle: a record is formatted and sent with program.Send once  *)
(* the handler is ready, and dropped before.  Every slog call of the      *)
(* program reaches it: the handler's level is Debug.                      *)
Logged == IF ready THEN LogMsg ELSE NoMsg

(* The keys whose handling in handleKey calls back into the application: *)
(* "[" "-" "]" "+" "=" run cycleVersion and versionCallback, which logs   *)
(* "version changed"; "r" and enter run refreshCallback, which logs       *)
(* "manual refresh triggered".                                            *)
CallbackKeys == {"[", "-", "]", "+", "=", "r", "enter"}

(* A goroutine that is not blocked in program.Send. *)
Free(a) == outbox[a] = NoMsg

Running == pc["ui"] \notin {"init", "exited"}

(* The services run from startServices until runExec cancels the context *)
(* after the program exited.                                              *)
ServicesUp == pc["main"] \notin {"idle", "exit"}

NoId == "none"

-----------------------------------------------------------------------------
Init ==
  /\ pc = [a \in Actors |-> IF a = "ui" THEN "init" ELSE "idle"]
  /\ outbox = [a \in Actors |-> NoMsg]
  /\ ready = FALSE
  /\ wlock = FALSE
  /\ bmu = FALSE
  /\ adding = NoId
  /\ reg = {}
  /\ tuiGames = {}
  /\ bcast = {}

(* Mutant: tab also triggers a refresh, as enter does. *)
HandleKeyRefreshOnTab(k, ob) ==
  [ob EXCEPT !["ui"] = IF k \in CallbackKeys \cup {"tab"} THEN Logged ELSE NoMsg,
             !["cmd"] = IF k \in {"q", "ctrl+c"} THEN QuitMsg ELSE ob["cmd"]]

(* Model.handleKey, on the outboxes: a callback key makes the event loop  *)
(* itself call program.Send (through the log handler); q and ctrl+c       *)
(* return tea.Quit, whose command goroutine sends a QuitMsg.               *)
HandleKey(k, ob) ==
  [ob EXCEPT !["ui"] = IF k \in CallbackKeys THEN Logged ELSE NoMsg,
             !["cmd"] = IF k \in {"q", "ctrl+c"} THEN QuitMsg ELSE ob["cmd"]]

(* The event loop receives goroutine a's message and runs Model.Update on *)
(* it: a GamesMsg replaces the TUI's games, a key goes to handleKey, a     *)
(* QuitMsg ends the program; the other messages only change the view.     *)
Update(a) ==
  /\ pc["ui"] = "loop"
  /\ Free("ui")
  /\ a # "ui"
  /\ outbox[a] # NoMsg
  /\ LET m == outbox[a]
         ob == [outbox EXCEPT ![a] = NoMsg]
     IN  /\ outbox' = IF m.kind = "key" THEN HandleKey(m.key, ob) ELSE ob
         /\ tuiGames' = IF m.kind = "games" THEN m.games ELSE tuiGames
         /\ pc' = IF m.kind = "quit" THEN [pc EXCEPT !["ui"] = "exited"] ELSE pc
  /\ UNCHANGED <<ready, wlock, bmu, adding, reg, bcast>>

(* After the program has exited its context is done: Send returns. *)
SendDropped(a) ==
  /\ pc["ui"] = "exited"
  /\ outbox[a] # NoMsg
  /\ outbox' = [outbox EXCEPT ![a] = NoMsg]
  /\ UNCHANGED <<pc, ready, wlock, bmu, adding, reg, tuiGames, bcast>>

(* program.Run, started by runExec in a goroutine, enters its event loop. *)
TuiStart ==
  /\ pc["ui"] = "init"
  /\ pc["main"] \in {"setready", "port", "info", "wait"}
  /\ pc' = [pc EXCEPT !["ui"] = "loop"]
  /\ UNCHANGED <<outbox, ready, wlock, bmu, adding, reg, tuiGames, bcast>>

(* Bubble Tea's input reader turns a key press into a KeyMsg send. *)
ReadKey(k) ==
  /\ Running
  /\ Free("input")
  /\ outbox' = [outbox EXCEPT !["input"] = KeyMsg(k)]
  /\ UNCHANGED <<pc, ready, wlock, bmu, adding, reg, tuiGames, bcast>>

(* runExec after initServices: startServices, then go program.Run(),      *)
(* handler.SetReady(), Send(PortMsg), slog.Info("wc3ts started"), wait    *)
(* for the program to end, and cancel the services.                       *)
MainStep ==
  /\ Free("main")
  /\ \/ /\ pc["main"] = "idle"
        /\ pc' = [pc EXCEPT !["main"] = "spawn"]
        /\ UNCHANGED <<outbox, ready>>
     \/ /\ pc["main"] = "spawn"
        /\ pc' = [pc EXCEPT !["main"] = "setready"]
        /\ UNCHANGED <<outbox, ready>>
     \/ /\ pc["main"] = "setready"
        /\ ready' = TRUE
        /\ pc' = [pc EXCEPT !["main"] = "port"]
        /\ UNCHANGED outbox
     \/ /\ pc["main"] = "port"
        /\ outbox' = [outbox EXCEPT !["main"] = PortMsg]
        /\ pc' = [pc EXCEPT !["main"] = "info"]
        /\ UNCHANGED ready
     \/ /\ pc["main"] = "info"
        /\ outbox' = [outbox EXCEPT !["main"] = Logged]
        /\ pc' = [pc EXCEPT !["main"] = "wait"]
        /\ UNCHANGED ready
     \/ /\ pc["main"] = "wait"
        /\ pc["ui"] = "exited"
        /\ pc' = [pc EXCEPT !["main"] = "exit"]
        /\ UNCHANGED <<outbox, ready>>
  /\ UNCHANGED <<wlock, bmu, adding, reg, tuiGames, bcast>>

(* The receive loop's handleGameInfo, for a GameInfo read from the probe *)
(* socket: the debug log "discovered game" (a Send, no lock held).        *)
Discovered ==
  /\ ServicesUp
  /\ pc["recv"] = "idle"
  /\ Free("recv")
  /\ outbox' = [outbox EXCEPT !["recv"] = Logged]
  /\ pc' = [pc EXCEPT !["recv"] = "add"]
  /\ UNCHANGED <<ready, wlock, bmu, adding, reg, tuiGames, bcast>>

(* then calls Registry.Add(g): Lock; for a new key the debug log          *)
(* "adding new game to registry" (a Send, under the lock).                *)
AddLock(g) ==
  /\ pc["recv"] = "add"
  /\ Free("recv")
  /\ ~wlock
  /\ wlock' = TRUE
  /\ adding' = g
  /\ outbox' = [outbox EXCEPT !["recv"] = IF g \notin reg THEN Logged ELSE NoMsg]
  /\ pc' = [pc EXCEPT !["recv"] = "store"]
  /\ UNCHANGED <<ready, bmu, reg, tuiGames, bcast>>

(* Mutant: the snapshot is taken before the game is stored. *)
AddNotifyStaleSnapshot ==
  /\ pc["recv"] = "store"
  /\ Free("recv")
  /\ reg' = reg \cup {adding}
  /\ outbox' = [outbox EXCEPT !["recv"] = GamesMsg(reg)]
  /\ pc' = [pc EXCEPT !["recv"] = "bcast"]
  /\ UNCHANGED <<ready, wlock, bmu, adding, tuiGames, bcast>>

(* Add stores the game and calls onChange(snapshot): app.onGamesChanged   *)
(* first Sends the GamesMsg to the program, still under the lock.         *)
AddNotify ==
  /\ pc["recv"] = "store"
  /\ Free("recv")
  /\ reg' = reg \cup {adding}
  /\ outbox' = [outbox EXCEPT !["recv"] = GamesMsg(reg')]
  /\ pc' = [pc EXCEPT !["recv"] = "bcast"]
  /\ UNCHANGED <<ready, wlock, bmu, adding, tuiGames, bcast>>

(* then hands the snapshot to Broadcaster.OnGamesChanged (its mutex), and *)
(* Add's deferred Unlock runs.                                            *)
AddUnlock ==
  /\ pc["recv"] = "bcast"
  /\ Free("recv")
  /\ ~bmu
  /\ bcast' = reg
  /\ wlock' = FALSE
  /\ adding' = NoId
  /\ pc' = [pc EXCEPT !["recv"] = "idle"]
  /\ UNCHANGED <<outbox, ready, bmu, reg, tuiGames>>

(* Discovery's netmap watcher calls app.onPeersChanged: Send(PeersMsg),   *)
(* then Manager.OnPeersChanged, whose probeAllPeers debug-logs every      *)
(* probe that fails to send.                                              *)
PeersChanged ==
  /\ ServicesUp
  /\ pc["disc"] = "idle"
  /\ Free("disc")
  /\ outbox' = [outbox EXCEPT !["disc"] = PeersMsg]
  /\ pc' = [pc EXCEPT !["disc"] = "probe"]
  /\ UNCHANGED <<ready, wlock, bmu, adding, reg, tuiGames, bcast>>

DiscProbe ==
  /\ pc["disc"] = "probe"
  /\ Free("disc")
  /\ \E fail \in BOOLEAN :
       outbox' = [outbox EXCEPT !["disc"] = IF fail THEN Logged ELSE NoMsg]
  /\ pc' = [pc EXCEPT !["disc"] = "idle"]
  /\ UNCHANGED <<ready, wlock, bmu, adding, reg, tuiGames, bcast>>

(* handleConnection: log "received TCP connection", read the Join, then  *)
(* FindByHostCounter under the registry's read lock, and log the result. *)
ProxyAccept ==
  /\ ServicesUp
  /\ pc["proxy"] = "idle"
  /\ Free("proxy")
  /\ outbox' = [outbox EXCEPT !["proxy"] = Logged]
  /\ pc' = [pc EXCEPT !["proxy"] = "lookup"]
  /\ UNCHANGED <<ready, wlock, bmu, adding, reg, tuiGames, bcast>>

ProxyLookup ==
  /\ pc["proxy"] = "lookup"
  /\ Free("proxy")
  /\ ~wlock
  /\ outbox' = [outbox EXCEPT !["proxy"] = Logged]
  /\ pc' = [pc EXCEPT !["proxy"] = "idle"]
  /\ UNCHANGED <<ready, wlock, bmu, adding, reg, tuiGames, bcast>>

(* Broadcaster.broadcastGames, on its ticker: under its mutex, a debug   *)
(* log "broadcast game" for each Remote game of the cache.                *)
BroadcastGames ==
  /\ ServicesUp
  /\ pc["bcaster"] = "idle"
  /\ Free("bcaster")
  /\ ~bmu
  /\ bmu' = TRUE
  /\ outbox' = [outbox EXCEPT !["bcaster"] = IF bcast # {} THEN Logged ELSE NoMsg]
  /\ pc' = [pc EXCEPT !["bcaster"] = "unlock"]
  /\ UNCHANGED <<ready, wlock, adding, reg, tuiGames, bcast>>

BroadcastUnlock ==
  /\ pc["bcaster"] = "unlock"
  /\ Free("bcaster")
  /\ bmu' = FALSE
  /\ pc' = [pc EXCEPT !["bcaster"] = "idle"]
  /\ UNCHANGED <<outbox, ready, wlock, adding, reg, tuiGames, bcast>>

(* The process has exited: runExec returned after the program ended and *)
(* every goroutine finished what it was doing.                           *)
Exited ==
  /\ pc["main"] = "exit"
  /\ \A a \in Actors : Free(a)
  /\ \A a \in Actors \ {"main", "ui"} : pc[a] = "idle"
  /\ UNCHANGED vars

-----------------------------------------------------------------------------
Next ==
  \/ \E a \in Actors : Update(a) \/ SendDropped(a)
  \/ TuiStart
  \/ \E k \in UserKeys : ReadKey(k)
  \/ MainStep
  \/ Discovered \/ \E g \in GameIds : AddLock(g)
  \/ AddNotify \/ AddUnlock
  \/ PeersChanged \/ DiscProbe
  \/ ProxyAccept \/ ProxyLookup
  \/ BroadcastGames \/ BroadcastUnlock
  \/ Exited

Spec == Init /\ [][Next]_vars

(* Every goroutine that is not waiting for outside input keeps running,  *)
(* and the event loop keeps receiving: Go queues blocked senders on a    *)
(* channel in order, so each one is served while the loop runs.  A lock  *)
(* that is free again and again is eventually taken by its waiter:       *)
(* sync.Mutex hands itself to a waiter starved for over 1 ms, and        *)
(* RWMutex.Unlock admits the waiting readers before the next writer.     *)
Fairness ==
  /\ \A a \in Actors : WF_vars(Update(a)) /\ WF_vars(SendDropped(a))
  /\ WF_vars(TuiStart) /\ WF_vars(MainStep)
  /\ WF_vars(\E g \in GameIds : AddLock(g))
  /\ WF_vars(AddNotify) /\ SF_vars(AddUnlock)
  /\ WF_vars(DiscProbe) /\ SF_vars(ProxyLookup) /\ WF_vars(BroadcastUnlock)

FairSpec == Spec /\ Fairness

-----------------------------------------------------------------------------
Pcs == {"init", "loop", "exited", "idle", "spawn", "setready", "port", "info",
        "wait", "exit", "add", "store", "bcast", "probe", "lookup", "unlock"}

TypeOK ==
  /\ pc \in [Actors -> Pcs]
  /\ outbox \in [Actors -> Msgs \cup {NoMsg}]
  /\ ready \in BOOLEAN
  /\ wlock \in BOOLEAN
  /\ bmu \in BOOLEAN
  /\ adding \in GameIds \cup {NoId}
  /\ reg \in SUBSET GameIds
  /\ tuiGames \in SUBSET GameIds
  /\ bcast \in SUBSET GameIds

(* Registry.Add calls onChange under its write lock, and each consumer    *)
(* has its snapshot before Add unlocks: whenever no Add holds the lock,   *)
(* the broadcaster's cache holds the registry's keys, and so does the      *)
(* TUI's game list while the program runs (spec.md 4.B: consumers are    *)
(* told of every change).                                                 *)
ViewsCurrent ==
  ~wlock => /\ bcast = reg
            /\ pc["ui"] # "exited" => tuiGames = reg

(* Every Registry.Add eventually releases the write lock, so the receive *)
(* loop keeps ingesting and the join proxy's FindByHostCounter keeps      *)
(* answering.  Add holds the lock across two program.Send calls (its      *)
(* debug log and onGamesChanged), so this needs the TUI's event loop to   *)
(* keep receiving.                                                        *)
RegistryLockReleased == wlock ~> ~wlock

=============================================================================
