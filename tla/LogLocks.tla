------------------------------ MODULE LogLocks ------------------------------
(***************************************************************************)
(* The three mutexes of the running server and the threads that take them: *)
(* s_callback_mutex of SystemMonitor::log, ws_mutex of main.cpp and        *)
(* m_action_mutex of the poll loop.  A log entry runs the log callback in  *)
(* the thread that logs: it sends the entry to all of ws_clients and asks  *)
(* the loop to close those it cannot reach.  The broadcast thread does the *)
(* same walk with its statistics.                                          *)
(*                                                                         *)
(* Server is about descriptors and leaves the mutexes to the atomicity of  *)
(* its actions; here a wait for a mutex is a state, and a descriptor is    *)
(* just open or not.                                                       *)
(***************************************************************************)
EXTENDS Naturals, FiniteSets

CONSTANTS Fds,
          Workers,      \* threads of the pool
          Loggers,      \* threads that only log: the LifecycleManager
          Loop, Broadcaster, None,
          Debug         \* s_debug_mode

ASSUME LogLocksAssumption ==
  /\ Debug \in BOOLEAN
  /\ Loop # Broadcaster
  /\ {Loop, Broadcaster} \cap (Workers \cup Loggers) = {}
  /\ Workers \cap Loggers = {}
  /\ None \notin Fds \cup Workers \cup Loggers \cup {Loop, Broadcaster}

VARIABLES
  holder,      \* [Mutexes -> Threads \cup {None}]
  pc,
  ret,         \* where a thread goes on after log
  todo,        \* [Threads -> SUBSET Fds]: descriptors its walk has still to visit
  failed,      \* [Threads -> Fds \cup {None}]: the one sendData could not reach
  target,      \* [Threads -> Fds \cup {None}]: descriptor of its action or request
  ws_clients,
  m_pending_actions,  \* descriptors to be closed
  open,        \* descriptors of the poll table
  gone         \* open descriptors whose client has hung up

vars == <<holder, pc, ret, todo, failed, target, ws_clients, m_pending_actions, open, gone>>

Threads == Workers \cup Loggers \cup {Loop, Broadcaster}
Mutexes == {"callback", "ws", "action"}

Init ==
  /\ holder = [m \in Mutexes |-> None]
  /\ pc = [t \in Threads |-> "idle"]
  /\ ret = [t \in Threads |-> "idle"]
  /\ todo = [t \in Threads |-> {}]
  /\ failed = [t \in Threads |-> None] /\ target = [t \in Threads |-> None]
  /\ ws_clients = {} /\ m_pending_actions = {} /\ open = {} /\ gone = {}

Free(m) == holder[m] = None
Jump(t, next) == pc' = [pc EXCEPT ![t] = next]
Sends(d) == d \in open \ gone

\* The thread calls log and goes on at next.
CallLog(t, next) ==
  /\ Jump(t, "log")
  /\ ret' = [ret EXCEPT ![t] = next]

\* if (isDebugMode()) log(DEBUG, ...)
DebugLog(t, next) == IF Debug THEN CallLog(t, next) ELSE Jump(t, next) /\ UNCHANGED ret

-----------------------------------------------------------------------------
(* Clients *)

Connect(d) ==
  /\ d \notin open /\ open' = open \cup {d}
  /\ UNCHANGED <<holder, pc, ret, todo, failed, target, ws_clients, m_pending_actions, gone>>

HangUp(d) ==
  /\ Sends(d) /\ gone' = gone \cup {d}
  /\ UNCHANGED <<holder, pc, ret, todo, failed, target, ws_clients, m_pending_actions, open>>

-----------------------------------------------------------------------------
(* log and the walk over ws_clients *)

\* An entry of level ERROR, from whatever the thread does between requests,
\* actions or broadcasts.
LogError(t) ==
  /\ pc[t] = "idle"
  /\ CallLog(t, "idle")
  /\ UNCHANGED <<holder, todo, failed, target, ws_clients, m_pending_actions, open, gone>>

LockCallback(t) ==
  /\ pc[t] = "log" /\ Free("callback")
  /\ holder' = [holder EXCEPT !["callback"] = t]
  /\ Jump(t, "callback")
  /\ UNCHANGED <<ret, todo, failed, target, ws_clients, m_pending_actions, open, gone>>

\* Faulty: the walk without the lock_guard.
WalkUnlocked(t) ==
  /\ pc[t] \in {"callback", "broadcast"}
  /\ todo' = [todo EXCEPT ![t] = ws_clients]
  /\ Jump(t, "walk")
  /\ UNCHANGED <<holder, ret, failed, target, ws_clients, m_pending_actions, open, gone>>

LockWs(t) ==
  /\ pc[t] \in {"callback", "broadcast"} /\ Free("ws")
  /\ holder' = [holder EXCEPT !["ws"] = t]
  /\ todo' = [todo EXCEPT ![t] = ws_clients]
  /\ Jump(t, "walk")
  /\ UNCHANGED <<ret, failed, target, ws_clients, m_pending_actions, open, gone>>

\* sendData to one of them.
Send(t, d) ==
  /\ pc[t] = "walk" /\ d \in todo[t]
  /\ IF Sends(d) THEN /\ todo' = [todo EXCEPT ![t] = @ \ {d}]
                      /\ UNCHANGED <<pc, failed>>
     ELSE /\ failed' = [failed EXCEPT ![t] = d]
          /\ Jump(t, "close")
          /\ UNCHANGED todo
  /\ UNCHANGED <<holder, ret, target, ws_clients, m_pending_actions, open, gone>>

\* Faulty: leaves the descriptor in ws_clients.
CloseKeeps(t) ==
  /\ pc[t] = "close" /\ Free("action")
  /\ m_pending_actions' = m_pending_actions \cup {failed[t]}
  /\ todo' = [todo EXCEPT ![t] = @ \ {failed[t]}]
  /\ failed' = [failed EXCEPT ![t] = None]
  /\ Jump(t, "walk")
  /\ UNCHANGED <<holder, ret, target, ws_clients, open, gone>>

\* closeClient, a critical section of its own, and erase.  m_action_mutex is
\* not recursive: its holder waits for itself.
CloseUnreachable(t) ==
  /\ pc[t] = "close" /\ Free("action")
  /\ m_pending_actions' = m_pending_actions \cup {failed[t]}
  /\ ws_clients' = ws_clients \ {failed[t]}
  /\ todo' = [todo EXCEPT ![t] = @ \ {failed[t]}]
  /\ failed' = [failed EXCEPT ![t] = None]
  /\ Jump(t, "walk")
  /\ UNCHANGED <<holder, ret, target, open, gone>>

\* The lock_guards of the callback and of log, or of the broadcast, end.
WalkDone(t) ==
  /\ pc[t] = "walk" /\ todo[t] = {}
  /\ holder' = [m \in Mutexes |-> IF m # "action" /\ holder[m] = t THEN None ELSE holder[m]]
  /\ Jump(t, IF holder["callback"] = t THEN ret[t] ELSE "idle")
  /\ ret' = [ret EXCEPT ![t] = "idle"]
  /\ UNCHANGED <<todo, failed, target, ws_clients, m_pending_actions, open, gone>>

-----------------------------------------------------------------------------
(* The poll loop *)

LockActions ==
  /\ pc[Loop] = "idle" /\ Free("action")
  /\ holder' = [holder EXCEPT !["action"] = Loop]
  /\ Jump(Loop, "actions")
  /\ UNCHANGED <<ret, todo, failed, target, ws_clients, m_pending_actions, open, gone>>

\* Faulty: logs in any mode.
TakeAndLog(d) ==
  /\ pc[Loop] = "actions" /\ d \in m_pending_actions
  /\ target' = [target EXCEPT ![Loop] = d]
  /\ CallLog(Loop, "close_socket")
  /\ UNCHANGED <<holder, todo, failed, ws_clients, m_pending_actions, open, gone>>

\* The next action of the list; only an entry of the table is closed and logged.
TakeAction(d) ==
  /\ pc[Loop] = "actions" /\ d \in m_pending_actions
  /\ target' = [target EXCEPT ![Loop] = d]
  /\ IF d \in open THEN DebugLog(Loop, "close_socket")
     ELSE Jump(Loop, "close_socket") /\ UNCHANGED ret
  /\ UNCHANGED <<holder, todo, failed, ws_clients, m_pending_actions, open, gone>>

CloseSocket ==
  /\ pc[Loop] = "close_socket"
  /\ open' = open \ {target[Loop]}
  /\ target' = [target EXCEPT ![Loop] = None]
  /\ gone' = gone \ {target[Loop]}
  /\ m_pending_actions' = m_pending_actions \ {target[Loop]}
  /\ Jump(Loop, "actions")
  /\ UNCHANGED <<holder, ret, todo, failed, ws_clients>>

UnlockActions ==
  /\ pc[Loop] = "actions" /\ m_pending_actions = {}
  /\ holder' = [holder EXCEPT !["action"] = None]
  /\ Jump(Loop, "idle")
  /\ UNCHANGED <<ret, todo, failed, target, ws_clients, m_pending_actions, open, gone>>

\* recv reports the end of a connection.
Disconnected(d) ==
  /\ pc[Loop] = "idle" /\ d \in gone
  /\ target' = [target EXCEPT ![Loop] = d]
  /\ DebugLog(Loop, "disconnected")
  /\ UNCHANGED <<holder, todo, failed, ws_clients, m_pending_actions, open, gone>>

CloseDisconnected ==
  /\ pc[Loop] = "disconnected"
  /\ open' = open \ {target[Loop]}
  /\ target' = [target EXCEPT ![Loop] = None]
  /\ gone' = gone \ {target[Loop]}
  /\ Jump(Loop, "idle")
  /\ UNCHANGED <<holder, ret, todo, failed, ws_clients, m_pending_actions>>

-----------------------------------------------------------------------------
(* Workers and the broadcast thread *)

\* A request from d: an upgrade, or one that is answered and closed.
Request(w, d, next) ==
  /\ pc[w] = "idle" /\ d \in open
  /\ target' = [target EXCEPT ![w] = d]
  /\ DebugLog(w, next)
  /\ UNCHANGED <<holder, todo, failed, ws_clients, m_pending_actions, open, gone>>

\* Its critical section takes no other mutex.
Register(w) ==
  /\ pc[w] = "upgrade" /\ Free("ws")
  /\ ws_clients' = ws_clients \cup {target[w]}
  /\ DebugLog(w, "enable")
  /\ UNCHANGED <<holder, todo, failed, target, m_pending_actions, open, gone>>

\* enablePolling and closeClient; what the loop does with ENABLE_POLLING
\* changes nothing here.
Answer(w) ==
  /\ pc[w] \in {"enable", "reply"} /\ Free("action")
  /\ m_pending_actions' = IF pc[w] = "reply" THEN m_pending_actions \cup {target[w]}
                          ELSE m_pending_actions
  /\ target' = [target EXCEPT ![w] = None]
  /\ Jump(w, "idle")
  /\ UNCHANGED <<holder, ret, todo, failed, ws_clients, open, gone>>

Tick ==
  /\ pc[Broadcaster] = "idle"
  /\ Jump(Broadcaster, "broadcast")
  /\ UNCHANGED <<holder, ret, todo, failed, target, ws_clients, m_pending_actions, open, gone>>

-----------------------------------------------------------------------------

\* Steps of a thread that is in the middle of something.
Walk(t) ==
  \/ LockCallback(t) \/ LockWs(t) \/ CloseUnreachable(t) \/ WalkDone(t)
  \/ \E d \in Fds : Send(t, d)

LoopStep ==
  \/ LockActions \/ CloseSocket \/ UnlockActions \/ CloseDisconnected
  \/ \E d \in Fds : TakeAction(d)

WorkerStep(w) == Register(w) \/ Answer(w)

Next ==
  \/ \E d \in Fds : Connect(d) \/ HangUp(d) \/ Disconnected(d)
  \/ \E t \in Threads : LogError(t) \/ Walk(t)
  \/ LoopStep
  \/ \E w \in Workers : WorkerStep(w) \/ \E d \in Fds, next \in {"upgrade", "reply"} :
                                             Request(w, d, next)
  \/ Tick

\* A thread goes on unless it waits for a mutex, and gets a mutex that is free
\* again and again: holders sleep or poll between two critical sections.
Fairness ==
  /\ \A t \in Threads : SF_vars(Walk(t))
  /\ SF_vars(LoopStep)
  /\ \A w \in Workers : SF_vars(WorkerStep(w))
  /\ WF_vars(Tick)

Spec == Init /\ [][Next]_vars
FairSpec == Spec /\ Fairness

-----------------------------------------------------------------------------
(* Properties *)

TypeOK ==
  /\ holder \in [Mutexes -> Threads \cup {None}]
  /\ pc \in [Threads -> {"idle", "log", "callback", "walk", "close", "broadcast",
                         "actions", "close_socket", "disconnected", "upgrade", "enable",
                         "reply"}]
  /\ ret \in [Threads -> {"idle", "close_socket", "disconnected", "upgrade", "enable",
                          "reply"}]
  /\ todo \in [Threads -> SUBSET Fds]
  /\ failed \in [Threads -> Fds \cup {None}]
  /\ target \in [Threads -> Fds \cup {None}]
  /\ ws_clients \subseteq Fds /\ m_pending_actions \subseteq Fds
  /\ open \subseteq Fds /\ gone \subseteq open

\* One thread at a time iterates over ws_clients, and what it has still to
\* visit is there: erase and insert leave its iterator valid.
OneWalker ==
  \A t \in Threads : pc[t] \in {"walk", "close"} =>
     /\ todo[t] \subseteq ws_clients
     /\ \A u \in Threads \ {t} : pc[u] \notin {"walk", "close"}

\* The mutex a thread waits for, or may have to.
Wants(t) ==
  IF pc[t] = "log" THEN "callback"
  ELSE IF pc[t] \in {"callback", "broadcast", "upgrade"} THEN "ws"
  ELSE IF pc[t] \in {"close", "enable", "reply"} THEN "action"
  ELSE "none"

Rank(m) == IF m = "callback" THEN 1 ELSE IF m = "ws" THEN 2 ELSE 3

\* Mutexes are taken in one order, so there is no cycle of waiting threads:
\* nobody logs while it holds ws_mutex or m_action_mutex.
LockOrder ==
  \A t \in Threads, m \in Mutexes :
     holder[m] = t /\ Wants(t) # "none" => Rank(m) < Rank(Wants(t))

\* docs/interface.md:42: statistics are broadcast every two seconds; each
\* round ends.
BroadcastsGoOn == (pc[Broadcaster] # "idle") ~> (pc[Broadcaster] = "idle")

\* A WebSocket that cannot be reached any more is forgotten.
UnreachableForgotten ==
  \A d \in Fds : (d \in ws_clients /\ ~ Sends(d)) ~> (d \notin ws_clients \/ Sends(d))
=============================================================================
