------------------------------- MODULE Server -------------------------------
(***************************************************************************)
(* The network core of Akkon: the poll loop of network/Server.cpp, the     *)
(* data handler of main.cpp as the thread pool's workers run it, the set   *)
(* ws_clients with its two users (the broadcast thread and the log         *)
(* callback), and the lockdown state that gates requests.                  *)
(*                                                                         *)
(* A connection is named by a small integer, its descriptor, which the     *)
(* kernel hands out again once it is closed.  The loop suspends a          *)
(* connection while a worker handles what was read from it; the worker's   *)
(* answer to the loop, CLOSE or ENABLE, names the descriptor only.  What   *)
(* the module is about is whether the descriptor still means the same      *)
(* connection when the answer is processed.                                *)
(*                                                                         *)
(* Debug logging is off.  What one recv returns is a chunk, reduced to the *)
(* branch of the handler that its first bytes select; the content of       *)
(* replies is left out.  The thread pool is its specification TaskQueue.   *)
(***************************************************************************)
EXTENDS Naturals, Sequences, FiniteSets

CONSTANTS Conns,      \* TCP connections clients may open
          Fds,        \* descriptors the process can hold for clients
          Workers,    \* threads of the pool
          Kinds,      \* kinds of chunks clients send
          Lockdowns,  \* lockdown states the monitors may set
          MaxChunks,  \* bound: chunks a client sends on one connection
          None

\* "http":    GET or POST, answered and closed;
\* "line":    AKKON or OPTIONS, answered and closed, but without a 503;
\* "upgrade": GET that asks for a WebSocket;
\* "bytes":   anything else, such as a WebSocket frame or the rest of a request.
AllKinds == {"http", "line", "upgrade", "bytes"}
AllLockdowns == {"NONE", "CLOSE", "IMMEDIATE"}

\* What a closure of the pool holds on to: the descriptor and the data.  conn
\* is history: the connection from which the data was read.
Task == [fd : Fds, conn : Conns, kind : Kinds]

ASSUME ServerAssumption ==
  /\ Kinds \subseteq AllKinds
  /\ Lockdowns \subseteq AllLockdowns
  /\ MaxChunks \in Nat
  /\ None \notin Conns \cup Fds \cup Task

VARIABLES
  \* the kernel and the clients
  sock,       \* [Fds -> Conns \cup {None}]: the descriptor table
  backlog,    \* connections waiting for accept
  stream,     \* [Conns -> Seq(Kinds)]: sent by the client, not read yet
  sent,       \* [Conns -> 0..MaxChunks + 1]: 0 before connect, then chunks + 1
  hungup,     \* connections whose client has closed its end
  \* the poll loop
  lpc,        \* "top" | "log" | "actions" | "poll" | "accept" | "scan"
  m_fds,      \* the pollfd entries of clients: descriptor -> events
  last_state, \* lockdown state seen by the previous iteration
  ready,      \* entries whose revents has POLLIN and is not scanned yet
  \* shared
  lockdown,
  m_pending_actions,  \* the loop's pass over it does not depend on its order
  m_tasks,    \* the pool's queue
  ws_clients, \* descriptors taken to be WebSockets, under ws_mutex
  \* the workers
  wpc,        \* [Workers -> "idle" | "refuse" | "route" | "reply" |
              \*             "handshake" | "register" | "frames" | "close" | "enable"]
  job,        \* [Workers -> Task \cup {None}]
  \* the thread that walks ws_clients, holding ws_mutex
  sweeper,    \* "none" | "loop" | "other"
  todo,       \* descriptors it has still to send to
  failed,     \* descriptor whose send just failed, or None
  \* history
  answered,   \* connections to which the handler has sent a reply
  upgraded    \* connections registered as WebSockets

client  == <<backlog, stream, sent, hungup>>
loop    == <<lpc, m_fds, last_state, ready>>
worker  == <<wpc, job>>
sweep   == <<sweeper, todo, failed>>
history == <<answered, upgraded>>
vars == <<sock, client, loop, lockdown, m_pending_actions, m_tasks, ws_clients,
          worker, sweep, history>>

Events == {"POLLIN", "0"}
ActionType == {"CLOSE_CLIENT", "ENABLE_POLLING"}
ClientAction == [fd : Fds, type : ActionType]
Action(d, t) == [fd |-> d, type |-> t]

Open(c) == \E d \in Fds : sock[d] = c

Init ==
  /\ sock = [d \in Fds |-> None]
  /\ backlog = {} /\ hungup = {}
  /\ stream = [c \in Conns |-> <<>>]
  /\ sent = [c \in Conns |-> 0]
  /\ lpc = "top"
  /\ m_fds = [d \in {} |-> "0"]
  /\ last_state = "NONE"
  /\ ready = {}
  /\ lockdown = "NONE"
  /\ m_pending_actions = {}
  /\ m_tasks = <<>>
  /\ ws_clients = {}
  /\ wpc = [w \in Workers |-> "idle"]
  /\ job = [w \in Workers |-> None]
  /\ sweeper = "none" /\ todo = {} /\ failed = None
  /\ answered = {} /\ upgraded = {}

-----------------------------------------------------------------------------
(* Clients and the kernel *)

Connect(c) ==
  /\ sent[c] = 0
  /\ sent' = [sent EXCEPT ![c] = 1]
  /\ backlog' = backlog \cup {c}
  /\ UNCHANGED <<sock, stream, hungup, loop, lockdown, m_pending_actions, m_tasks,
                 ws_clients, worker, sweep, history>>

Send(c, k) ==
  /\ c \in backlog \/ Open(c)
  /\ c \notin hungup
  /\ sent[c] <= MaxChunks
  /\ sent' = [sent EXCEPT ![c] = @ + 1]
  /\ stream' = [stream EXCEPT ![c] = Append(@, k)]
  /\ UNCHANGED <<sock, backlog, hungup, loop, lockdown, m_pending_actions, m_tasks,
                 ws_clients, worker, sweep, history>>

\* An orderly close leaves what was sent to be read, a reset discards it.
Hangup(c) ==
  /\ c \in backlog \/ Open(c)
  /\ c \notin hungup
  /\ hungup' = hungup \cup {c}
  /\ \/ UNCHANGED stream
     \/ stream[c] # <<>> /\ stream' = [stream EXCEPT ![c] = <<>>]
  /\ UNCHANGED <<sock, backlog, sent, loop, lockdown, m_pending_actions, m_tasks,
                 ws_clients, worker, sweep, history>>

\* HealthMonitor and LifecycleManager store the state at any time.
SetLockdown(s) ==
  /\ lockdown # s
  /\ lockdown' = s
  /\ UNCHANGED <<sock, client, loop, m_pending_actions, m_tasks, ws_clients,
                 worker, sweep, history>>

-----------------------------------------------------------------------------
(* The poll loop *)

Top ==
  /\ lpc = "top"
  /\ last_state' = lockdown
  /\ ~ (lockdown = "IMMEDIATE" /\ last_state # "IMMEDIATE")
  /\ lpc' = "actions"
  /\ UNCHANGED <<sock, client, m_fds, ready, lockdown, m_pending_actions, m_tasks,
                 ws_clients, worker, sweep, history>>

\* The loop sees IMMEDIATE for the first time.  disconnectAll ends with a log
\* entry of level ERROR, which runs the log callback (see SweepStart).
DisconnectAll ==
  /\ lpc = "top"
  /\ last_state' = lockdown
  /\ lockdown = "IMMEDIATE" /\ last_state # "IMMEDIATE"
  /\ sock' = [d \in Fds |-> IF d \in DOMAIN m_fds THEN None ELSE sock[d]]
  /\ m_fds' = [d \in {} |-> "0"]
  /\ lpc' = "log"
  /\ UNCHANGED <<client, ready, lockdown, m_pending_actions, m_tasks, ws_clients,
                 worker, sweep, history>>

Asked(t) == {d \in DOMAIN m_fds : Action(d, t) \in m_pending_actions}

\* Faulty: closes the socket and leaves its entry.
ProcessActionsNoErase ==
  /\ lpc = "actions"
  /\ sock' = [d \in Fds |-> IF d \in Asked("CLOSE_CLIENT") THEN None ELSE sock[d]]
  /\ m_fds' = [d \in DOMAIN m_fds |->
                 IF d \in Asked("ENABLE_POLLING") THEN "POLLIN" ELSE m_fds[d]]
  /\ m_pending_actions' = {}
  /\ lpc' = "poll"
  /\ UNCHANGED <<client, last_state, ready, lockdown, m_tasks, ws_clients,
                 worker, sweep, history>>

\* One critical section of m_action_mutex.  A CLOSE removes the entry, so an
\* ENABLE for the same descriptor has no effect before it or after it.
ProcessActions ==
  /\ lpc = "actions"
  /\ sock' = [d \in Fds |-> IF d \in Asked("CLOSE_CLIENT") THEN None ELSE sock[d]]
  /\ m_fds' = [d \in DOMAIN m_fds \ Asked("CLOSE_CLIENT") |->
                 IF d \in Asked("ENABLE_POLLING") THEN "POLLIN" ELSE m_fds[d]]
  /\ m_pending_actions' = {}
  /\ lpc' = "poll"
  /\ UNCHANGED <<client, last_state, ready, lockdown, m_tasks, ws_clients,
                 worker, sweep, history>>

Readable(d) == stream[sock[d]] # <<>> \/ sock[d] \in hungup

\* Faulty: takes the POLLHUP of a suspended entry for POLLIN.
PollHangups ==
  /\ lpc = "poll"
  /\ ready' = {d \in DOMAIN m_fds : (m_fds[d] = "POLLIN" \/ sock[d] \in hungup) /\ Readable(d)}
  /\ lpc' = IF backlog # {} THEN "accept" ELSE IF ready' # {} THEN "scan" ELSE "top"
  /\ UNCHANGED <<sock, client, m_fds, last_state, lockdown, m_pending_actions, m_tasks,
                 ws_clients, worker, sweep, history>>

\* Returns what is readable at that moment, or nothing after 100 ms.
Poll ==
  /\ lpc = "poll"
  /\ ready' = {d \in DOMAIN m_fds : m_fds[d] = "POLLIN" /\ Readable(d)}
  /\ lpc' = IF backlog # {} THEN "accept" ELSE IF ready' # {} THEN "scan" ELSE "top"
  /\ UNCHANGED <<sock, client, m_fds, last_state, lockdown, m_pending_actions, m_tasks,
                 ws_clients, worker, sweep, history>>

AfterAccept == lpc' = IF ready # {} THEN "scan" ELSE "top"

\* One connection an iteration, on any descriptor that is free: other threads
\* take and release descriptors too, so it need not be the lowest of Fds.
Accept(c, d) ==
  /\ lpc = "accept"
  /\ c \in backlog /\ sock[d] = None
  /\ backlog' = backlog \ {c}
  /\ sock' = [sock EXCEPT ![d] = c]
  /\ m_fds' = [e \in DOMAIN m_fds \cup {d} |-> IF e = d THEN "POLLIN" ELSE m_fds[e]]
  /\ AfterAccept
  /\ UNCHANGED <<stream, sent, hungup, last_state, ready, lockdown, m_pending_actions,
                 m_tasks, ws_clients, worker, sweep, history>>

\* accept fails with EMFILE; the connection stays in the backlog.
AcceptFails ==
  /\ lpc = "accept"
  /\ \A d \in Fds : sock[d] # None
  /\ AfterAccept
  /\ UNCHANGED <<sock, client, m_fds, last_state, ready, lockdown, m_pending_actions,
                 m_tasks, ws_clients, worker, sweep, history>>

Scanned(d) ==
  /\ lpc = "scan" /\ d \in ready
  /\ ready' = ready \ {d}
  /\ lpc' = IF ready = {d} THEN "top" ELSE "scan"

\* Faulty: goes on polling the connection.
ReceiveArmed(d) ==
  /\ Scanned(d)
  /\ stream[sock[d]] # <<>>
  /\ stream' = [stream EXCEPT ![sock[d]] = Tail(@)]
  /\ m_tasks' = Append(m_tasks, [fd |-> d, conn |-> sock[d], kind |-> Head(stream[sock[d]])])
  /\ UNCHANGED <<sock, backlog, sent, hungup, m_fds, last_state, lockdown,
                 m_pending_actions, ws_clients, worker, sweep, history>>

\* recv returns a chunk: the entry is suspended and the chunk handed to the pool.
Receive(d) ==
  /\ Scanned(d)
  /\ stream[sock[d]] # <<>>
  /\ stream' = [stream EXCEPT ![sock[d]] = Tail(@)]
  /\ m_fds' = [m_fds EXCEPT ![d] = "0"]
  /\ m_tasks' = Append(m_tasks, [fd |-> d, conn |-> sock[d], kind |-> Head(stream[sock[d]])])
  /\ UNCHANGED <<sock, backlog, sent, hungup, last_state, lockdown, m_pending_actions,
                 ws_clients, worker, sweep, history>>

\* recv returns 0 or an error.  ws_clients is not told.
Disconnected(d) ==
  /\ Scanned(d)
  /\ stream[sock[d]] = <<>>
  /\ sock' = [sock EXCEPT ![d] = None]
  /\ m_fds' = [e \in DOMAIN m_fds \ {d} |-> m_fds[e]]
  /\ UNCHANGED <<client, last_state, lockdown, m_pending_actions, m_tasks, ws_clients,
                 worker, sweep, history>>

-----------------------------------------------------------------------------
(* The data handler, run by a worker *)

\* The task leaves the queue and the handler reads the lockdown state.
Take(w) ==
  /\ wpc[w] = "idle" /\ m_tasks # <<>>
  /\ m_tasks' = Tail(m_tasks)
  /\ job' = [job EXCEPT ![w] = Head(m_tasks)]
  /\ wpc' = [wpc EXCEPT ![w] = IF lockdown # "NONE" THEN "refuse" ELSE "route"]
  /\ UNCHANGED <<sock, client, loop, lockdown, m_pending_actions, ws_clients, sweep, history>>

Goto(w, pc) == wpc' = [wpc EXCEPT ![w] = pc]

\* sendData writes to whatever connection the descriptor names by now; its
\* result is ignored by the handler.
SendTo(d) == answered' = answered \cup ({sock[d]} \ {None})

\* Faulty: closes without the 503.
RefuseSilently(w) ==
  /\ wpc[w] = "refuse"
  /\ Goto(w, "close")
  /\ UNCHANGED <<sock, client, loop, lockdown, m_pending_actions, m_tasks, ws_clients,
                 job, sweep, history>>

Refuse(w) ==
  /\ wpc[w] = "refuse"
  /\ IF job[w].kind = "http" THEN SendTo(job[w].fd) ELSE UNCHANGED answered
  /\ Goto(w, "close")
  /\ UNCHANGED <<sock, client, loop, lockdown, m_pending_actions, m_tasks, ws_clients,
                 job, sweep, upgraded>>

\* Looks the descriptor up in ws_clients, under ws_mutex.
Route(w) ==
  /\ wpc[w] = "route"
  /\ sweeper = "none"
  /\ Goto(w, IF job[w].fd \in ws_clients THEN "frames"
             ELSE CASE job[w].kind = "upgrade" -> "handshake"
                    [] job[w].kind = "bytes" -> "close"
                    [] OTHER -> "reply")
  /\ UNCHANGED <<sock, client, loop, lockdown, m_pending_actions, m_tasks, ws_clients,
                 job, sweep, history>>

Reply(w) ==
  /\ wpc[w] = "reply"
  /\ SendTo(job[w].fd)
  /\ Goto(w, "close")
  /\ UNCHANGED <<sock, client, loop, lockdown, m_pending_actions, m_tasks, ws_clients,
                 job, sweep, upgraded>>

Handshake(w) ==
  /\ wpc[w] = "handshake"
  /\ SendTo(job[w].fd)
  /\ Goto(w, "register")
  /\ UNCHANGED <<sock, client, loop, lockdown, m_pending_actions, m_tasks, ws_clients,
                 job, sweep, upgraded>>

Register(w) ==
  /\ wpc[w] = "register"
  /\ sweeper = "none"
  /\ ws_clients' = ws_clients \cup {job[w].fd}
  /\ upgraded' = upgraded \cup ({sock[job[w].fd]} \cap {job[w].conn})
  /\ Goto(w, "enable")
  /\ UNCHANGED <<sock, client, loop, lockdown, m_pending_actions, m_tasks,
                 job, sweep, answered>>

\* The chunk is decoded as WebSocket frames; bytes of any other protocol
\* decode to no exists_batch query and get no answer.
Frames(w) ==
  /\ wpc[w] = "frames"
  /\ IF job[w].kind = "bytes" THEN SendTo(job[w].fd) ELSE UNCHANGED answered
  /\ Goto(w, "enable")
  /\ UNCHANGED <<sock, client, loop, lockdown, m_pending_actions, m_tasks, ws_clients,
                 job, sweep, upgraded>>

Push(d, t) == m_pending_actions' = m_pending_actions \cup {Action(d, t)}

\* Faulty: the branch of the WebSockets returns without enablePolling.
FinishForgetsEnable(w) ==
  /\ \/ wpc[w] = "close" /\ Push(job[w].fd, "CLOSE_CLIENT")
     \/ wpc[w] = "enable" /\ UNCHANGED m_pending_actions
  /\ Goto(w, "idle")
  /\ job' = [job EXCEPT ![w] = None]
  /\ UNCHANGED <<sock, client, loop, lockdown, m_tasks, ws_clients, sweep, history>>

\* The handler's last call, closeClient or enablePolling.
Finish(w) ==
  /\ \/ wpc[w] = "close" /\ Push(job[w].fd, "CLOSE_CLIENT")
     \/ wpc[w] = "enable" /\ Push(job[w].fd, "ENABLE_POLLING")
  /\ Goto(w, "idle")
  /\ job' = [job EXCEPT ![w] = None]
  /\ UNCHANGED <<sock, client, loop, lockdown, m_tasks, ws_clients, sweep, history>>

-----------------------------------------------------------------------------
(* Sending to all WebSockets: the tick of the broadcast thread, and the log *)
(* callback on an entry of level ERROR, from the poll loop or a monitor     *)

SweepStart(who) ==
  /\ sweeper = "none"
  /\ IF who = "loop" THEN lpc = "log" ELSE ws_clients # {}
  /\ sweeper' = who
  /\ todo' = ws_clients
  /\ UNCHANGED <<sock, client, loop, lockdown, m_pending_actions, m_tasks, ws_clients,
                 worker, failed, history>>

SweepSent(d) ==
  /\ sweeper # "none" /\ failed = None
  /\ d \in todo /\ sock[d] # None
  /\ todo' = todo \ {d}
  /\ UNCHANGED <<sock, client, loop, lockdown, m_pending_actions, m_tasks, ws_clients,
                 worker, sweeper, failed, history>>

\* The descriptor is closed, its client is gone, or its send buffer is full.
SweepFails(d) ==
  /\ sweeper # "none" /\ failed = None
  /\ d \in todo
  /\ failed' = d
  /\ UNCHANGED <<sock, client, loop, lockdown, m_pending_actions, m_tasks, ws_clients,
                 worker, sweeper, todo, history>>

\* Faulty: erases without closeClient.
SweepForgets ==
  /\ failed # None
  /\ ws_clients' = ws_clients \ {failed}
  /\ todo' = todo \ {failed}
  /\ failed' = None
  /\ UNCHANGED <<sock, client, loop, lockdown, m_pending_actions, m_tasks, worker, sweeper,
                 history>>

SweepDrops ==
  /\ failed # None
  /\ Push(failed, "CLOSE_CLIENT")
  /\ ws_clients' = ws_clients \ {failed}
  /\ todo' = todo \ {failed}
  /\ failed' = None
  /\ UNCHANGED <<sock, client, loop, lockdown, m_tasks, worker, sweeper, history>>

SweepEnd ==
  /\ sweeper # "none" /\ todo = {}
  /\ sweeper' = "none"
  /\ lpc' = IF sweeper = "loop" THEN "actions" ELSE lpc
  /\ UNCHANGED <<sock, client, m_fds, last_state, ready, lockdown, m_pending_actions,
                 m_tasks, ws_clients, worker, todo, failed, history>>

-----------------------------------------------------------------------------

ClientStep ==
  \E c \in Conns : Connect(c) \/ Hangup(c) \/ \E k \in Kinds : Send(c, k)

LoopStep ==
  \/ Top \/ DisconnectAll \/ ProcessActions \/ Poll \/ AcceptFails
  \/ \E c \in Conns, d \in Fds : Accept(c, d)
  \/ \E d \in Fds : Receive(d) \/ Disconnected(d)
  \/ SweepStart("loop")

WorkerStep(w) ==
  \/ Take(w) \/ Refuse(w) \/ Route(w) \/ Reply(w) \/ Handshake(w) \/ Register(w)
  \/ Frames(w) \/ Finish(w)

SweepStep == SweepDrops \/ SweepEnd \/ \E d \in Fds : SweepSent(d) \/ SweepFails(d)

Next ==
  \/ ClientStep
  \/ \E s \in Lockdowns : SetLockdown(s)
  \/ LoopStep
  \/ \E w \in Workers : WorkerStep(w)
  \/ SweepStart("other") \/ SweepStep

Safety == Init /\ [][Next]_vars

\* The loop and the walks never stop once started.  The mutexes are held for
\* moments and a walk by another thread starts every two seconds, so a worker
\* that wants ws_mutex again and again gets it.
Fairness ==
  /\ SF_vars(LoopStep)
  /\ WF_vars(SweepStep)
  /\ \A w \in Workers : SF_vars(WorkerStep(w))

Spec == Safety /\ Fairness

-----------------------------------------------------------------------------
(* Properties *)

\* The loop, the workers and the walk hold values of the types the code gives
\* them, and a worker holds a task exactly while it is in the handler.
TypeOK ==
  /\ sock \in [Fds -> Conns \cup {None}]
  /\ backlog \subseteq Conns /\ hungup \subseteq Conns
  /\ stream \in [Conns -> Seq(Kinds)]
  /\ sent \in [Conns -> Nat]
  /\ lpc \in {"top", "log", "actions", "poll", "accept", "scan"}
  /\ DOMAIN m_fds \subseteq Fds /\ m_fds \in [DOMAIN m_fds -> Events]
  /\ last_state \in AllLockdowns /\ lockdown \in AllLockdowns
  /\ ready \subseteq Fds
  /\ m_pending_actions \subseteq ClientAction
  /\ m_tasks \in Seq(Task)
  /\ ws_clients \subseteq Fds
  /\ wpc \in [Workers -> {"idle", "refuse", "route", "reply", "handshake",
                         "register", "frames", "close", "enable"}]
  /\ job \in [Workers -> Task \cup {None}]
  /\ \A w \in Workers : wpc[w] = "idle" <=> job[w] = None
  /\ sweeper \in {"none", "loop", "other"}
  /\ todo \subseteq Fds
  /\ failed \in Fds \cup {None}
  /\ answered \subseteq Conns /\ upgraded \subseteq Conns

\* The pollfd vector and the kernel agree: an entry for every open client
\* connection (else nobody would ever close it) and no entry for a descriptor
\* that is closed (else the loop would read from whatever gets its number).
FdTable == DOMAIN m_fds = {d \in Fds : sock[d] # None}

\* A descriptor names one connection, and a connection has one descriptor.
OneDescriptor == \A d, e \in DOMAIN m_fds : sock[d] = sock[e] => d = e

QueuedFor(d, c) ==
  \E i \in DOMAIN m_tasks : m_tasks[i].fd = d /\ m_tasks[i].conn = c
HandledFor(d, c) ==
  \E w \in Workers : job[w] # None /\ job[w].fd = d /\ job[w].conn = c
ActionFor(d) == \E t \in ActionType : Action(d, t) \in m_pending_actions

\* No connection is forgotten in the suspended state: one whose polling is off
\* has its own chunk queued or in a handler, or an action for its descriptor is
\* on its way to the loop.  Holds across disconnectAll, reuse of descriptors
\* and stale actions.
NoStuckConnection ==
  \A d \in DOMAIN m_fds :
     m_fds[d] = "0" =>
        QueuedFor(d, sock[d]) \/ HandledFor(d, sock[d]) \/ ActionFor(d)

\* A connected WebSocket is broadcast to or is about to be closed: it leaves
\* ws_clients only together with a CLOSE for its descriptor.
WebSocketsTracked ==
  \A d \in DOMAIN m_fds :
     sock[d] \in upgraded =>
        d \in ws_clients \/ Action(d, "CLOSE_CLIENT") \in m_pending_actions

\* Exclusive ownership, for clients that use HTTP only and no IMMEDIATE
\* lockdown: an open connection is being polled, or is owned by one task, or
\* has one action pending, and never two of these; a closed descriptor has
\* none.  So no two handlers ever serve the same connection, and a CLOSE
\* never meets a connection other than the one it is meant for.
Polled(d) == d \in DOMAIN m_fds /\ m_fds[d] = "POLLIN"
QueueOf(d) == {i \in DOMAIN m_tasks : m_tasks[i].fd = d}
WorkersOf(d) == {w \in Workers : job[w] # None /\ job[w].fd = d}
ActionsOf(d) == {t \in ActionType : Action(d, t) \in m_pending_actions}

Held(d, polled, queue, workers, actions) ==
  /\ Polled(d) <=> polled
  /\ QueueOf(d) = queue /\ WorkersOf(d) = workers /\ ActionsOf(d) = actions

OneOwner(d) ==
  \/ Held(d, TRUE, {}, {}, {})
  \/ \E i \in DOMAIN m_tasks : Held(d, FALSE, {i}, {}, {})
  \/ \E w \in Workers : Held(d, FALSE, {}, {w}, {})
  \/ \E t \in ActionType : Held(d, FALSE, {}, {}, {t})

ExclusiveOwner ==
  \A d \in Fds : IF sock[d] = None THEN Held(d, FALSE, {}, {}, {}) ELSE OneOwner(d)

\* Replies reach the client that asked, for clients that use HTTP only and no
\* IMMEDIATE lockdown: as long as a task is queued or handled, its descriptor
\* is still the connection from which the request was read.
TaskKeepsConnection ==
  /\ \A i \in DOMAIN m_tasks : sock[m_tasks[i].fd] = m_tasks[i].conn
  /\ \A w \in Workers : job[w] # None => sock[job[w].fd] = job[w].conn

Closed(c) == sent[c] > 0 /\ c \notin backlog /\ ~ Open(c)

\* Clients that use HTTP only: a request that arrives on a polled connection is
\* answered (a 503 in a lockdown), unless the client goes away first.
HttpWaiting(c) ==
  \E d \in DOMAIN m_fds :
     /\ sock[d] = c /\ m_fds[d] = "POLLIN"
     /\ stream[c] # <<>> /\ Head(stream[c]) = "http"
HttpAnswered == \A c \in Conns : HttpWaiting(c) ~> (c \in answered \/ c \in hungup)

\* A client that went away does not keep its descriptor for good, WebSocket or
\* not.
DescriptorsReleased == \A c \in Conns : (Open(c) /\ c \in hungup) ~> Closed(c)
=============================================================================
