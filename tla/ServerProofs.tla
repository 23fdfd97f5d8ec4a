---------------------------- MODULE ServerProofs ----------------------------
(***************************************************************************)
(* Invariants of Server proved for any number of connections, descriptors  *)
(* and workers, and any number of chunks.                                  *)
(***************************************************************************)
EXTENDS Server, SequenceTheorems, TLAPS

\* What poll reported is still in the table when it is scanned.
ReadyInTable ==
  /\ ready \subseteq DOMAIN m_fds
  /\ lpc \notin {"accept", "scan"} => ready = {}

\* While the loop walks ws_clients it does nothing else.
LoopWalks == sweeper = "loop" => lpc = "log"

\* A connection waits, then is open, and never comes back.
Lifecycle ==
  /\ \A c \in backlog : ~ Open(c) /\ c \notin upgraded
  /\ \A c \in Conns : sent[c] = 0 => c \notin backlog /\ ~ Open(c) /\ c \notin upgraded

ServerInv ==
  /\ TypeOK
  /\ FdTable
  /\ ReadyInTable
  /\ LoopWalks
  /\ Lifecycle
  /\ OneDescriptor
  /\ NoStuckConnection
  /\ WebSocketsTracked

-----------------------------------------------------------------------------
(* Type correctness. *)

LEMMA TypeStep ==
  ASSUME TypeOK, FdTable, ReadyInTable, [Next]_vars
  PROVE  TypeOK'
<1>1. ASSUME NEW c \in Conns, Connect(c)
      PROVE TypeOK'
  BY <1>1 DEF Connect, TypeOK, client, loop, worker, sweep, history, vars
<1>2. ASSUME NEW c \in Conns, Hangup(c)
      PROVE TypeOK'
  <2>1. stream' \in [Conns -> Seq(Kinds)]
    <3>1. <<>> \in Seq(Kinds)
      BY EmptySeq
    <3> QED
      BY <1>2, <3>1 DEF Hangup, TypeOK
  <2> QED
    BY <1>2, <2>1 DEF Hangup, TypeOK, client, loop, worker, sweep, history
<1>3. ASSUME NEW c \in Conns, NEW k \in Kinds, Send(c, k)
      PROVE TypeOK'
  <2>1. Append(stream[c], k) \in Seq(Kinds)
    BY AppendProperties DEF TypeOK
  <2>2. stream' \in [Conns -> Seq(Kinds)]
    BY <1>3, <2>1 DEF Send, TypeOK
  <2> QED
    BY <1>3, <2>2 DEF Send, TypeOK, client, loop, worker, sweep, history
<1>4. ASSUME NEW s \in Lockdowns, SetLockdown(s)
      PROVE TypeOK'
  BY <1>4, ServerAssumption DEF SetLockdown, TypeOK, client, loop, worker, sweep, history, vars
<1>5. CASE Top
  BY <1>5 DEF Top, TypeOK, client, loop, worker, sweep, history, vars
<1>6. CASE DisconnectAll
  BY <1>6 DEF DisconnectAll, TypeOK, client, loop, worker, sweep, history, vars
<1>7. CASE ProcessActions
  BY <1>7 DEF ProcessActions, Asked, Events, TypeOK, client, loop, worker, sweep, history, vars
<1>8. CASE Poll
  BY <1>8 DEF Poll, TypeOK, client, loop, worker, sweep, history, vars
<1>9. CASE AcceptFails
  BY <1>9 DEF AcceptFails, AfterAccept, TypeOK, client, loop, worker, sweep, history, vars
<1>10. ASSUME NEW c \in Conns, NEW d \in Fds, Accept(c, d)
      PROVE TypeOK'
  BY <1>10 DEF Accept, AfterAccept, Events, TypeOK, client, loop, worker, sweep, history, vars
<1>11. ASSUME NEW d \in Fds, Receive(d)
      PROVE TypeOK'
  <2>1. stream[sock[d]] \in Seq(Kinds) /\ sock[d] \in Conns
    BY <1>11, ServerAssumption DEF Receive, Scanned, TypeOK, FdTable, ReadyInTable
  <2>2. Head(stream[sock[d]]) \in Kinds /\ Tail(stream[sock[d]]) \in Seq(Kinds)
    BY <1>11, <2>1, HeadTailProperties DEF Receive
  <2>3. stream' \in [Conns -> Seq(Kinds)]
    BY <1>11, <2>2 DEF Receive, TypeOK
  <2>4. [fd |-> d, conn |-> sock[d], kind |-> Head(stream[sock[d]])] \in Task
    BY <2>1, <2>2 DEF Task
  <2>5. m_tasks' \in Seq(Task)
    BY <1>11, <2>4, AppendProperties DEF Receive, TypeOK
  <2>6. DOMAIN m_fds' \subseteq Fds /\ m_fds' \in [DOMAIN m_fds' -> Events]
    BY <1>11 DEF Receive, TypeOK, Events
  <2> QED
    BY <1>11, <2>3, <2>5, <2>6 DEF Receive, Scanned, TypeOK, client, loop, worker, sweep, history
<1>12. ASSUME NEW d \in Fds, Disconnected(d)
      PROVE TypeOK'
  BY <1>12 DEF Disconnected, Scanned, TypeOK, client, loop, worker, sweep, history, vars
<1>13. ASSUME NEW who \in {"loop", "other"}, SweepStart(who)
      PROVE TypeOK'
  BY <1>13 DEF SweepStart, TypeOK, client, loop, worker, sweep, history, vars
<1>14. ASSUME NEW w \in Workers, Take(w)
      PROVE TypeOK'
  <2>1. Head(m_tasks) \in Task /\ Tail(m_tasks) \in Seq(Task)
    BY <1>14, HeadTailProperties DEF Take, TypeOK
  <2>2. Head(m_tasks) # None
    BY <2>1, ServerAssumption
  <2>3. job' \in [Workers -> Task \cup {None}] /\ m_tasks' \in Seq(Task)
    BY <1>14, <2>1 DEF Take, TypeOK
  <2>4. wpc' = [wpc EXCEPT ![w] = IF lockdown # "NONE" THEN "refuse" ELSE "route"]
        /\ job' = [job EXCEPT ![w] = Head(m_tasks)]
    BY <1>14 DEF Take
  <2>5. \A v \in Workers : wpc'[v] = "idle" <=> job'[v] = None
    BY <2>2, <2>4 DEF TypeOK
  <2>6. wpc' \in [Workers -> {"idle", "refuse", "route", "reply", "handshake",
                         "register", "frames", "close", "enable"}]
    BY <2>4 DEF TypeOK
  <2> QED
    BY <1>14, <2>3, <2>5, <2>6 DEF Take, TypeOK, client, loop, worker, sweep, history
<1>15. ASSUME NEW w \in Workers, Refuse(w)
      PROVE TypeOK'
  <2>1. job[w] \in Task /\ job[w].fd \in Fds
    BY <1>15 DEF Refuse, TypeOK, Task
  <2>2. answered' \subseteq Conns
    BY <1>15, <2>1 DEF Refuse, SendTo, TypeOK
  <2> QED
    BY <1>15, <2>2 DEF Refuse, Goto, TypeOK, client, loop, worker, sweep, history
<1>16. ASSUME NEW w \in Workers, Route(w)
      PROVE TypeOK'
  BY <1>16 DEF Route, Goto, TypeOK, client, loop, worker, sweep, history, vars
<1>17. ASSUME NEW w \in Workers, Reply(w)
      PROVE TypeOK'
  <2>1. job[w] \in Task /\ job[w].fd \in Fds
    BY <1>17 DEF Reply, TypeOK, Task
  <2>2. answered' \subseteq Conns
    BY <1>17, <2>1 DEF Reply, SendTo, TypeOK
  <2> QED
    BY <1>17, <2>2 DEF Reply, Goto, TypeOK, client, loop, worker, sweep, history
<1>18. ASSUME NEW w \in Workers, Handshake(w)
      PROVE TypeOK'
  <2>1. job[w] \in Task /\ job[w].fd \in Fds
    BY <1>18 DEF Handshake, TypeOK, Task
  <2>2. answered' \subseteq Conns
    BY <1>18, <2>1 DEF Handshake, SendTo, TypeOK
  <2> QED
    BY <1>18, <2>2 DEF Handshake, Goto, TypeOK, client, loop, worker, sweep, history
<1>19. ASSUME NEW w \in Workers, Register(w)
      PROVE TypeOK'
  <2>1. job[w] \in Task /\ job[w].fd \in Fds /\ job[w].conn \in Conns
    BY <1>19 DEF Register, TypeOK, Task
  <2> QED
    BY <1>19, <2>1 DEF Register, Goto, TypeOK, client, loop, worker, sweep, history
<1>20. ASSUME NEW w \in Workers, Frames(w)
      PROVE TypeOK'
  <2>1. job[w] \in Task /\ job[w].fd \in Fds
    BY <1>20 DEF Frames, TypeOK, Task
  <2>2. answered' \subseteq Conns
    BY <1>20, <2>1 DEF Frames, SendTo, TypeOK
  <2> QED
    BY <1>20, <2>2 DEF Frames, Goto, TypeOK, client, loop, worker, sweep, history
<1>21. ASSUME NEW w \in Workers, Finish(w)
      PROVE TypeOK'
  <2>1. job[w] \in Task /\ job[w].fd \in Fds
    BY <1>21 DEF Finish, TypeOK, Task
  <2>2. m_pending_actions' \subseteq ClientAction
    BY <1>21, <2>1 DEF Finish, Push, Action, ActionType, ClientAction, TypeOK
  <2> QED
    BY <1>21, <2>2 DEF Finish, Goto, TypeOK, client, loop, worker, sweep, history
<1>22. CASE SweepDrops
  <2>1. failed \in Fds
    BY <1>22 DEF SweepDrops, TypeOK
  <2>2. m_pending_actions' \subseteq ClientAction
    BY <1>22, <2>1 DEF SweepDrops, Push, Action, ActionType, ClientAction, TypeOK
  <2> QED
    BY <1>22, <2>2 DEF SweepDrops, TypeOK, client, loop, worker, sweep, history
<1>23. CASE SweepEnd
  BY <1>23 DEF SweepEnd, TypeOK, client, loop, worker, sweep, history, vars
<1>24. ASSUME NEW d \in Fds, SweepSent(d)
      PROVE TypeOK'
  BY <1>24 DEF SweepSent, TypeOK, client, loop, worker, sweep, history, vars
<1>25. ASSUME NEW d \in Fds, SweepFails(d)
      PROVE TypeOK'
  BY <1>25 DEF SweepFails, TypeOK, client, loop, worker, sweep, history, vars
<1>26. CASE UNCHANGED vars
  BY <1>26 DEF TypeOK, client, loop, worker, sweep, history, vars
<1> QED
  BY <1>1, <1>2, <1>3, <1>4, <1>5, <1>6, <1>7, <1>8, <1>9, <1>10, <1>11, <1>12, <1>13,
     <1>14, <1>15, <1>16, <1>17, <1>18, <1>19, <1>20, <1>21, <1>22, <1>23, <1>24,
     <1>25, <1>26 DEF Next, ClientStep, LoopStep, WorkerStep, SweepStep, client, loop,
     worker, sweep, history, vars

LEMMA InitialState == Init => ServerInv
<1> SUFFICES ASSUME Init PROVE ServerInv
  OBVIOUS
<1>1. <<>> \in Seq(Kinds) /\ <<>> \in Seq(Task)
  BY EmptySeq
<1>2. TypeOK
  BY <1>1, ServerAssumption DEF Init, TypeOK, AllLockdowns, Events
<1>3. \A c \in Conns : ~ Open(c)
  BY ServerAssumption DEF Init, Open
<1>4. DOMAIN m_fds = {}
  BY DEF Init
<1> QED
  BY <1>2, <1>3, <1>4 DEF Init, ServerInv, FdTable, ReadyInTable, LoopWalks, Lifecycle,
     OneDescriptor, NoStuckConnection, WebSocketsTracked

-----------------------------------------------------------------------------
(* The descriptor table. *)

LEMMA FdTableStep ==
  ASSUME TypeOK, FdTable, ReadyInTable, [Next]_vars
  PROVE  FdTable'
<1>1. CASE DisconnectAll
  BY <1>1 DEF DisconnectAll, FdTable, TypeOK
<1>2. CASE ProcessActions
  BY <1>2 DEF ProcessActions, Asked, FdTable, TypeOK
<1>3. ASSUME NEW c \in Conns, NEW d \in Fds, Accept(c, d)
      PROVE FdTable'
  BY <1>3, ServerAssumption DEF Accept, FdTable, TypeOK
<1>4. ASSUME NEW d \in Fds, Receive(d)
      PROVE FdTable'
  BY <1>4 DEF Receive, Scanned, FdTable, ReadyInTable, TypeOK
<1>5. ASSUME NEW d \in Fds, Disconnected(d)
      PROVE FdTable'
  BY <1>5 DEF Disconnected, FdTable, TypeOK
<1>6. CASE UNCHANGED <<sock, m_fds>>
  BY <1>6 DEF FdTable
<1> QED
  BY <1>1, <1>2, <1>3, <1>4, <1>5, <1>6 DEF Next, ClientStep, LoopStep, WorkerStep,
     SweepStep, Connect, Hangup, Send, SetLockdown, Top, Poll, AcceptFails,
     SweepStart, Take, Refuse, Route, Reply, Handshake, Register, Frames, Finish,
     SweepDrops, SweepEnd, SweepSent, SweepFails, client, loop, worker, sweep,
     history, vars

LEMMA ReadyStep ==
  ASSUME TypeOK, FdTable, ReadyInTable, LoopWalks, [Next]_vars
  PROVE  ReadyInTable'
<1>1. CASE Top
  BY <1>1 DEF Top, ReadyInTable
<1>2. CASE DisconnectAll
  BY <1>2 DEF DisconnectAll, ReadyInTable
<1>3. CASE ProcessActions
  BY <1>3 DEF ProcessActions, ReadyInTable
<1>4. CASE Poll
  BY <1>4 DEF Poll, ReadyInTable
<1>5. CASE AcceptFails
  BY <1>5 DEF AcceptFails, AfterAccept, ReadyInTable
<1>6. ASSUME NEW c \in Conns, NEW d \in Fds, Accept(c, d)
      PROVE ReadyInTable'
  BY <1>6 DEF Accept, AfterAccept, ReadyInTable
<1>7. ASSUME NEW d \in Fds, Receive(d)
      PROVE ReadyInTable'
  BY <1>7 DEF Receive, Scanned, ReadyInTable, TypeOK
<1>8. ASSUME NEW d \in Fds, Disconnected(d)
      PROVE ReadyInTable'
  BY <1>8 DEF Disconnected, Scanned, ReadyInTable
<1>9. CASE SweepEnd
  BY <1>9 DEF SweepEnd, ReadyInTable, LoopWalks
<1>10. CASE UNCHANGED <<lpc, m_fds, ready>>
  BY <1>10 DEF ReadyInTable
<1> QED
  BY <1>1, <1>2, <1>3, <1>4, <1>5, <1>6, <1>7, <1>8, <1>9, <1>10 DEF Next, ClientStep,
     LoopStep, WorkerStep, SweepStep, Connect, Hangup, Send, SetLockdown, SweepStart,
     Take, Refuse, Route, Reply, Handshake, Register, Frames, Finish, SweepDrops,
     SweepSent, SweepFails, client, loop, worker, sweep, history, vars

LEMMA LoopWalksStep ==
  ASSUME TypeOK, LoopWalks, [Next]_vars
  PROVE  LoopWalks'
<1>1. CASE Top
  BY <1>1 DEF Top, LoopWalks, sweep
<1>2. CASE DisconnectAll
  BY <1>2 DEF DisconnectAll, LoopWalks, sweep
<1>3. CASE ProcessActions
  BY <1>3 DEF ProcessActions, LoopWalks, sweep
<1>4. CASE Poll
  BY <1>4 DEF Poll, LoopWalks, sweep
<1>5. CASE AcceptFails
  BY <1>5 DEF AcceptFails, LoopWalks, sweep
<1>6. ASSUME NEW c \in Conns, NEW d \in Fds, Accept(c, d)
      PROVE LoopWalks'
  BY <1>6 DEF Accept, LoopWalks, sweep
<1>7. ASSUME NEW d \in Fds, Receive(d)
      PROVE LoopWalks'
  BY <1>7 DEF Receive, Scanned, LoopWalks, sweep
<1>8. ASSUME NEW d \in Fds, Disconnected(d)
      PROVE LoopWalks'
  BY <1>8 DEF Disconnected, Scanned, LoopWalks, sweep
<1>9. ASSUME NEW who \in {"loop", "other"}, SweepStart(who)
      PROVE LoopWalks'
  BY <1>9 DEF SweepStart, LoopWalks, loop
<1>10. CASE SweepEnd
  BY <1>10 DEF SweepEnd, LoopWalks
<1>11. CASE UNCHANGED <<lpc, sweeper>>
  BY <1>11 DEF LoopWalks
<1> QED
  BY <1>1, <1>2, <1>3, <1>4, <1>5, <1>6, <1>7, <1>8, <1>9, <1>10, <1>11 DEF Next,
     ClientStep, LoopStep, WorkerStep, SweepStep, Connect, Hangup, Send, SetLockdown,
     Take, Refuse, Route, Reply, Handshake, Register, Frames, Finish, SweepDrops,
     SweepSent, SweepFails, client, loop, worker, sweep, history, vars

LEMMA LifecycleStep ==
  ASSUME TypeOK, FdTable, Lifecycle, [Next]_vars
  PROVE  Lifecycle'
<1>1. ASSUME NEW c \in Conns, Connect(c)
      PROVE Lifecycle'
  BY <1>1 DEF Connect, Lifecycle, Open, TypeOK, history
<1>2. ASSUME NEW c \in Conns, NEW k \in Kinds, Send(c, k)
      PROVE Lifecycle'
  BY <1>2 DEF Send, Lifecycle, Open, TypeOK, history
<1>3. CASE DisconnectAll
  <2>1. \A c \in Conns : Open(c)' => Open(c)
    BY <1>3, ServerAssumption DEF DisconnectAll, Open, TypeOK
  <2>2. backlog' = backlog /\ sent' = sent /\ upgraded' = upgraded /\ backlog \subseteq Conns
    BY <1>3 DEF DisconnectAll, client, history, TypeOK
  <2> QED
    BY <2>1, <2>2 DEF Lifecycle
<1>4. CASE ProcessActions
  <2>1. \A c \in Conns : Open(c)' => Open(c)
    BY <1>4, ServerAssumption DEF ProcessActions, Open, TypeOK
  <2>2. backlog' = backlog /\ sent' = sent /\ upgraded' = upgraded /\ backlog \subseteq Conns
    BY <1>4 DEF ProcessActions, client, history, TypeOK
  <2> QED
    BY <2>1, <2>2 DEF Lifecycle
<1>5. ASSUME NEW c \in Conns, NEW d \in Fds, Accept(c, d)
      PROVE Lifecycle'
  <2>1. backlog' = backlog \ {c} /\ sent' = sent /\ upgraded' = upgraded /\ sent[c] # 0
    BY <1>5 DEF Accept, Lifecycle, TypeOK, history
  <2>2. \A x \in Conns : Open(x)' => Open(x) \/ x = c
    BY <1>5 DEF Accept, Open, TypeOK
  <2> QED
    BY <2>1, <2>2 DEF Lifecycle, TypeOK
<1>6. ASSUME NEW d \in Fds, Disconnected(d)
      PROVE Lifecycle'
  BY <1>6, ServerAssumption DEF Disconnected, Lifecycle, Open, TypeOK, client, history
<1>7. ASSUME NEW w \in Workers, Register(w)
      PROVE Lifecycle'
  <2>1. job[w].fd \in Fds
    BY <1>7 DEF Register, TypeOK, Task
  <2>2. \A x \in upgraded' : x \in upgraded \/ Open(x)
    BY <1>7, <2>1 DEF Register, Open
  <2> QED
    BY <1>7, <2>2 DEF Register, Lifecycle, Open, client, TypeOK
<1>8. CASE UNCHANGED <<sock, backlog, sent, upgraded>>
  BY <1>8 DEF Lifecycle, Open
<1> QED
  BY <1>1, <1>2, <1>3, <1>4, <1>5, <1>6, <1>7, <1>8 DEF Next, ClientStep, LoopStep,
     WorkerStep, SweepStep, Hangup, SetLockdown, Top, Poll, AcceptFails, Receive,
     SweepStart, Take, Refuse, Route, Reply, Handshake, Frames, Finish, SweepDrops,
     SweepEnd, SweepSent, SweepFails, client, loop, worker, sweep, history, vars

LEMMA OneDescriptorStep ==
  ASSUME TypeOK, FdTable, Lifecycle, OneDescriptor, [Next]_vars
  PROVE  OneDescriptor'
<1>1. CASE DisconnectAll
  BY <1>1 DEF DisconnectAll, OneDescriptor
<1>2. CASE ProcessActions
  BY <1>2 DEF ProcessActions, OneDescriptor, TypeOK, Asked
<1>3. ASSUME NEW c \in Conns, NEW d \in Fds, Accept(c, d)
      PROVE OneDescriptor'
  <2>1. \A e \in DOMAIN m_fds : e # d /\ sock[e] # c
    BY <1>3, ServerAssumption DEF Accept, FdTable, Lifecycle, Open, TypeOK
  <2>2. /\ DOMAIN m_fds' = DOMAIN m_fds \cup {d}
        /\ sock' = [sock EXCEPT ![d] = c]
    BY <1>3 DEF Accept
  <2> QED
    BY <2>1, <2>2 DEF OneDescriptor, TypeOK
<1>4. ASSUME NEW d \in Fds, Receive(d)
      PROVE OneDescriptor'
  BY <1>4 DEF Receive, OneDescriptor
<1>5. ASSUME NEW d \in Fds, Disconnected(d)
      PROVE OneDescriptor'
  BY <1>5 DEF Disconnected, OneDescriptor, TypeOK
<1>6. CASE UNCHANGED <<sock, m_fds>>
  BY <1>6 DEF OneDescriptor
<1> QED
  BY <1>1, <1>2, <1>3, <1>4, <1>5, <1>6 DEF Next, ClientStep, LoopStep, WorkerStep,
     SweepStep, Connect, Hangup, Send, SetLockdown, Top, Poll, AcceptFails,
     SweepStart, Take, Refuse, Route, Reply, Handshake, Register, Frames, Finish,
     SweepDrops, SweepEnd, SweepSent, SweepFails, client, loop, worker, sweep,
     history, vars

-----------------------------------------------------------------------------
(* WebSockets. *)

LEMMA WebSocketsTrackedStep ==
  ASSUME TypeOK, FdTable, Lifecycle, OneDescriptor, WebSocketsTracked, [Next]_vars
  PROVE  WebSocketsTracked'
<1>1. CASE DisconnectAll
  BY <1>1 DEF DisconnectAll, WebSocketsTracked
<1>2. CASE ProcessActions
  BY <1>2 DEF ProcessActions, WebSocketsTracked, TypeOK, Asked, history
<1>3. ASSUME NEW c \in Conns, NEW d \in Fds, Accept(c, d)
      PROVE WebSocketsTracked'
  <2>1. \A e \in DOMAIN m_fds : e # d
    BY <1>3, ServerAssumption DEF Accept, FdTable, TypeOK
  <2>2. c \notin upgraded
    BY <1>3 DEF Accept, Lifecycle
  <2>3. /\ DOMAIN m_fds' = DOMAIN m_fds \cup {d}
        /\ sock' = [sock EXCEPT ![d] = c]
        /\ upgraded' = upgraded /\ ws_clients' = ws_clients
        /\ m_pending_actions' = m_pending_actions
    BY <1>3 DEF Accept, history
  <2> QED
    BY <2>1, <2>2, <2>3 DEF WebSocketsTracked, TypeOK
<1>4. ASSUME NEW d \in Fds, Receive(d)
      PROVE WebSocketsTracked'
  BY <1>4 DEF Receive, WebSocketsTracked, TypeOK, history
<1>5. ASSUME NEW d \in Fds, Disconnected(d)
      PROVE WebSocketsTracked'
  BY <1>5 DEF Disconnected, WebSocketsTracked, TypeOK, history
<1>6. ASSUME NEW w \in Workers, Register(w)
      PROVE WebSocketsTracked'
  <2>1. job[w].fd \in Fds
    BY <1>6 DEF Register, TypeOK, Task
  <2>2. \A e \in DOMAIN m_fds : sock[e] \in upgraded' => sock[e] \in upgraded \/ e = job[w].fd
    BY <1>6, <2>1, ServerAssumption DEF Register, FdTable, OneDescriptor, TypeOK
  <2>3. /\ m_fds' = m_fds /\ sock' = sock /\ m_pending_actions' = m_pending_actions
        /\ ws_clients' = ws_clients \cup {job[w].fd}
    BY <1>6 DEF Register, loop
  <2> QED
    BY <2>2, <2>3 DEF WebSocketsTracked
<1>7. ASSUME NEW w \in Workers, Finish(w)
      PROVE WebSocketsTracked'
  <2>1. m_pending_actions \subseteq m_pending_actions'
    BY <1>7 DEF Finish, Push
  <2> QED
    BY <1>7, <2>1 DEF Finish, WebSocketsTracked, loop, history
<1>8. CASE SweepDrops
  <2>1. /\ m_pending_actions' = m_pending_actions \cup {Action(failed, "CLOSE_CLIENT")}
        /\ ws_clients' = ws_clients \ {failed}
    BY <1>8 DEF SweepDrops, Push
  <2> QED
    BY <1>8, <2>1 DEF SweepDrops, WebSocketsTracked, loop, history
<1>9. CASE UNCHANGED <<sock, m_fds, ws_clients, m_pending_actions, upgraded>>
  BY <1>9 DEF WebSocketsTracked
<1> QED
  BY <1>1, <1>2, <1>3, <1>4, <1>5, <1>6, <1>7, <1>8, <1>9 DEF Next, ClientStep,
     LoopStep, WorkerStep, SweepStep, Connect, Hangup, Send, SetLockdown, Top, Poll,
     AcceptFails, SweepStart, Take, Refuse, Route, Reply, Handshake, Frames, SweepEnd,
     SweepSent, SweepFails, client, loop, worker, sweep, history, vars

-----------------------------------------------------------------------------
(* No connection is forgotten. *)

LEMMA NoStuckStep ==
  ASSUME TypeOK, FdTable, ReadyInTable, NoStuckConnection, [Next]_vars
  PROVE  NoStuckConnection'
<1>1. CASE DisconnectAll
  BY <1>1 DEF DisconnectAll, NoStuckConnection
<1>2. CASE ProcessActions
  <2>1. \A d \in DOMAIN m_fds' : d \in DOMAIN m_fds /\ sock'[d] = sock[d]
    BY <1>2 DEF ProcessActions, TypeOK
  <2>2. \A d \in DOMAIN m_fds' : m_fds'[d] = "0" => m_fds[d] = "0" /\ ~ ActionFor(d)
    BY <1>2 DEF ProcessActions, Asked, ActionFor, ActionType
  <2>3. \A d \in DOMAIN m_fds' : m_fds'[d] = "0" => QueuedFor(d, sock[d]) \/ HandledFor(d, sock[d])
    BY <2>1, <2>2 DEF NoStuckConnection
  <2> QED
    BY <1>2, <2>1, <2>3 DEF ProcessActions, NoStuckConnection, QueuedFor, HandledFor, worker
<1>3. ASSUME NEW c \in Conns, NEW d \in Fds, Accept(c, d)
      PROVE NoStuckConnection'
  <2>1. \A e \in DOMAIN m_fds' : m_fds'[e] = "0" => e \in DOMAIN m_fds /\ e # d
                                  /\ m_fds[e] = "0" /\ sock'[e] = sock[e]
    BY <1>3 DEF Accept, TypeOK
  <2> QED
    BY <1>3, <2>1 DEF Accept, NoStuckConnection, QueuedFor, HandledFor, ActionFor, worker
<1>4. ASSUME NEW d \in Fds, Receive(d)
      PROVE NoStuckConnection'
  <2> DEFINE t == [fd |-> d, conn |-> sock[d], kind |-> Head(stream[sock[d]])]
  <2>0. d \in Fds /\ sock[d] \in Conns /\ t \in Task
    <3>1. sock[d] \in Conns
      BY <1>4, ServerAssumption DEF Receive, Scanned, TypeOK, FdTable, ReadyInTable
    <3>2. Head(stream[sock[d]]) \in Kinds
      BY <1>4, <3>1, HeadTailProperties DEF Receive, TypeOK
    <3> QED
      BY <3>1, <3>2 DEF Task
  <2>1. m_tasks' = Append(m_tasks, t)
    BY <1>4 DEF Receive
  <2> HIDE DEF t
  <2>2. /\ Len(m_tasks) \in Nat /\ DOMAIN m_tasks = 1 .. Len(m_tasks)
        /\ DOMAIN m_tasks' = 1 .. (Len(m_tasks) + 1)
        /\ \A i \in DOMAIN m_tasks : m_tasks'[i] = m_tasks[i]
        /\ m_tasks'[Len(m_tasks) + 1] = t
    BY <2>0, <2>1, AppendProperties, LenProperties DEF TypeOK
  <2>3. /\ sock' = sock /\ job' = job /\ m_pending_actions' = m_pending_actions
        /\ m_fds' = [m_fds EXCEPT ![d] = "0"]
    BY <1>4 DEF Receive, worker
  <2>4. QueuedFor(d, sock[d])'
    BY <2>2, <2>3 DEF QueuedFor, t
  <2>5. \A e \in DOMAIN m_fds : QueuedFor(e, sock[e]) => QueuedFor(e, sock[e])'
    BY <2>2, <2>3 DEF QueuedFor
  <2> QED
    BY <2>3, <2>4, <2>5 DEF NoStuckConnection, HandledFor, ActionFor
<1>5. ASSUME NEW d \in Fds, Disconnected(d)
      PROVE NoStuckConnection'
  <2>1. \A e \in DOMAIN m_fds' : e \in DOMAIN m_fds /\ m_fds'[e] = m_fds[e] /\ sock'[e] = sock[e]
    BY <1>5 DEF Disconnected, TypeOK
  <2> QED
    BY <1>5, <2>1 DEF Disconnected, NoStuckConnection, QueuedFor, HandledFor, ActionFor, worker
<1>6. ASSUME NEW w \in Workers, Take(w)
      PROVE NoStuckConnection'
  <2>1. /\ Head(m_tasks) \in Task /\ Head(m_tasks) = m_tasks[1]
        /\ Len(m_tasks) \in Nat \ {0} /\ DOMAIN m_tasks = 1 .. Len(m_tasks)
        /\ DOMAIN m_tasks' = 1 .. (Len(m_tasks) - 1)
        /\ \A i \in 1 .. (Len(m_tasks) - 1) : m_tasks'[i] = m_tasks[i + 1]
    BY <1>6, HeadTailProperties, LenProperties, EmptySeq DEF Take, TypeOK
  <2>2. /\ sock' = sock /\ m_fds' = m_fds /\ m_pending_actions' = m_pending_actions
        /\ job' = [job EXCEPT ![w] = Head(m_tasks)] /\ job[w] = None
    BY <1>6 DEF Take, TypeOK, loop
  <2>3. Head(m_tasks) # None
    BY <2>1, ServerAssumption
  <2>4. \A d, c : HandledFor(d, c) => HandledFor(d, c)'
    BY <2>2 DEF HandledFor, TypeOK
  <2>5. \A d, c : QueuedFor(d, c) => QueuedFor(d, c)' \/ HandledFor(d, c)'
    <3> TAKE d, c
    <3> SUFFICES ASSUME NEW i \in DOMAIN m_tasks, m_tasks[i].fd = d, m_tasks[i].conn = c
                 PROVE  QueuedFor(d, c)' \/ HandledFor(d, c)'
      BY DEF QueuedFor
    <3>1. CASE i = 1
      BY <2>1, <2>2, <2>3, <3>1 DEF HandledFor, TypeOK
    <3>2. CASE i # 1
      <4>1. i - 1 \in DOMAIN m_tasks' /\ m_tasks'[i - 1] = m_tasks[i]
        BY <2>1, <3>2
      <4> QED
        BY <4>1 DEF QueuedFor
    <3> QED
      BY <3>1, <3>2
  <2> QED
    BY <2>2, <2>4, <2>5 DEF NoStuckConnection, ActionFor
<1>7. ASSUME NEW w \in Workers, Finish(w)
      PROVE NoStuckConnection'
  <2>1. /\ sock' = sock /\ m_fds' = m_fds /\ m_tasks' = m_tasks
        /\ job' = [job EXCEPT ![w] = None]
        /\ \E t \in ActionType :
              m_pending_actions' = m_pending_actions \cup {Action(job[w].fd, t)}
    BY <1>7 DEF Finish, Push, ActionType, loop
  <2>2. \A d, c : HandledFor(d, c) => HandledFor(d, c)' \/ ActionFor(d)'
    BY <2>1 DEF HandledFor, ActionFor, TypeOK
  <2>3. \A d : ActionFor(d) => ActionFor(d)'
    BY <2>1 DEF ActionFor
  <2> QED
    BY <2>1, <2>2, <2>3 DEF NoStuckConnection, QueuedFor
<1>8. CASE SweepDrops
  <2>1. m_pending_actions \subseteq m_pending_actions'
    BY <1>8 DEF SweepDrops, Push
  <2> QED
    BY <1>8, <2>1 DEF SweepDrops, NoStuckConnection, QueuedFor, HandledFor, ActionFor, loop, worker
<1>9. CASE UNCHANGED <<sock, m_fds, m_tasks, job, m_pending_actions>>
  BY <1>9 DEF NoStuckConnection, QueuedFor, HandledFor, ActionFor
<1> QED
  BY <1>1, <1>2, <1>3, <1>4, <1>5, <1>6, <1>7, <1>8, <1>9 DEF Next, ClientStep,
     LoopStep, WorkerStep, SweepStep, Connect, Hangup, Send, SetLockdown, Top, Poll,
     AcceptFails, SweepStart, Refuse, Route, Reply, Handshake, Register, Frames,
     SweepEnd, SweepSent, SweepFails, client, loop, worker, sweep, history, vars

-----------------------------------------------------------------------------
(* The theorems. *)

LEMMA ServerInvStep == ServerInv /\ [Next]_vars => ServerInv'
BY TypeStep, FdTableStep, ReadyStep, LoopWalksStep, LifecycleStep, OneDescriptorStep,
   NoStuckStep, WebSocketsTrackedStep DEF ServerInv

\* The invariant is inductive: together its parts survive every step.
THEOREM ServerInvariant == Spec => []ServerInv
<1> QED
  BY InitialState, ServerInvStep, PTL DEF Spec, Safety

\* The state of the loop, the workers and the walks is well typed, for any
\* number of connections, descriptors, workers and chunks.
THEOREM TypeCorrect == Spec => []TypeOK
<1>1. ServerInv => TypeOK
  BY DEF ServerInv
<1> QED
  BY <1>1, ServerInvariant, PTL

\* The pollfd entries are exactly the open client connections: no connection
\* leaks and no entry names a closed descriptor.
THEOREM TableMatchesKernel == Spec => []FdTable
<1>1. ServerInv => FdTable
  BY DEF ServerInv
<1> QED
  BY <1>1, ServerInvariant, PTL

\* While a descriptor is given out again, it still names one connection, and
\* no connection has two.
THEOREM DescriptorsDistinct == Spec => []OneDescriptor
<1>1. ServerInv => OneDescriptor
  BY DEF ServerInv
<1> QED
  BY <1>1, ServerInvariant, PTL

\* No connection is left suspended: not by disconnectAll, by the reuse of its
\* descriptor, nor by actions meant for an earlier connection.
THEOREM NobodyStuck == Spec => []NoStuckConnection
<1>1. ServerInv => NoStuckConnection
  BY DEF ServerInv
<1> QED
  BY <1>1, ServerInvariant, PTL

\* A connection whose upgrade is complete is broadcast to until it is about to
\* be closed.
THEOREM WebSocketsKept == Spec => []WebSocketsTracked
<1>1. ServerInv => WebSocketsTracked
  BY DEF ServerInv
<1> QED
  BY <1>1, ServerInvariant, PTL

-----------------------------------------------------------------------------
(* Clients that use HTTP only, and no IMMEDIATE lockdown.                  *)

HttpOnly == "upgrade" \notin Kinds /\ "IMMEDIATE" \notin Lockdowns

\* There are no WebSockets, so nobody walks ws_clients, and the loop has no
\* reason to disconnect everybody.
NoWebSockets ==
  /\ ws_clients = {} /\ sweeper = "none" /\ todo = {} /\ failed = None
  /\ lockdown # "IMMEDIATE" /\ lpc # "log"
  /\ \A w \in Workers : wpc[w] \notin {"handshake", "register", "frames"}

\* A reported entry is still polled when it is scanned.
ReadyPolled == \A d \in ready : Polled(d)

HttpInv ==
  /\ ServerInv
  /\ NoWebSockets
  /\ ReadyPolled
  /\ ExclusiveOwner
  /\ TaskKeepsConnection

LEMMA NoWebSocketsStep ==
  ASSUME HttpOnly, TypeOK, NoWebSockets, [Next]_vars
  PROVE  NoWebSockets'
<1>1. ASSUME NEW s \in Lockdowns, SetLockdown(s)
      PROVE NoWebSockets'
  BY <1>1 DEF SetLockdown, HttpOnly, NoWebSockets, loop, worker, sweep
<1>2. CASE Top
  BY <1>2 DEF Top, NoWebSockets, worker, sweep
<1>3. CASE DisconnectAll
  BY <1>3 DEF DisconnectAll, NoWebSockets
<1>4. CASE ProcessActions
  BY <1>4 DEF ProcessActions, NoWebSockets, worker, sweep
<1>5. CASE Poll
  BY <1>5 DEF Poll, NoWebSockets, worker, sweep
<1>6. CASE AcceptFails
  BY <1>6 DEF AcceptFails, AfterAccept, NoWebSockets, worker, sweep
<1>7. ASSUME NEW c \in Conns, NEW d \in Fds, Accept(c, d)
      PROVE NoWebSockets'
  BY <1>7 DEF Accept, AfterAccept, NoWebSockets, worker, sweep
<1>8. ASSUME NEW d \in Fds, Receive(d)
      PROVE NoWebSockets'
  BY <1>8 DEF Receive, Scanned, NoWebSockets, worker, sweep
<1>9. ASSUME NEW d \in Fds, Disconnected(d)
      PROVE NoWebSockets'
  BY <1>9 DEF Disconnected, Scanned, NoWebSockets, worker, sweep
<1>10. ASSUME NEW who \in {"loop", "other"}, SweepStart(who)
      PROVE NoWebSockets'
  BY <1>10 DEF SweepStart, NoWebSockets
<1>11. ASSUME NEW w \in Workers, Take(w)
      PROVE NoWebSockets'
  BY <1>11 DEF Take, NoWebSockets, loop, sweep, TypeOK
<1>12. ASSUME NEW w \in Workers, Route(w)
      PROVE NoWebSockets'
  <2>1. job[w] \in Task /\ job[w].kind # "upgrade"
    BY <1>12 DEF Route, TypeOK, Task, HttpOnly
  <2>2. job[w].fd \notin ws_clients
    BY DEF NoWebSockets
  <2>3. wpc' = [wpc EXCEPT ![w] = IF job[w].kind = "bytes" THEN "close" ELSE "reply"]
    BY <1>12, <2>1, <2>2 DEF Route, Goto
  <2> QED
    BY <1>12, <2>3 DEF Route, NoWebSockets, loop, sweep, TypeOK
<1>13. ASSUME NEW w \in Workers, Refuse(w)
      PROVE NoWebSockets'
  BY <1>13 DEF Refuse, Goto, NoWebSockets, loop, sweep, TypeOK
<1>14. ASSUME NEW w \in Workers, Reply(w)
      PROVE NoWebSockets'
  BY <1>14 DEF Reply, Goto, NoWebSockets, loop, sweep, TypeOK
<1>15. ASSUME NEW w \in Workers, Handshake(w)
      PROVE NoWebSockets'
  BY <1>15 DEF Handshake, Goto, NoWebSockets, loop, sweep, TypeOK
<1>16. ASSUME NEW w \in Workers, Register(w)
      PROVE NoWebSockets'
  BY <1>16 DEF Register, Goto, NoWebSockets, loop, sweep, TypeOK
<1>17. ASSUME NEW w \in Workers, Frames(w)
      PROVE NoWebSockets'
  BY <1>17 DEF Frames, Goto, NoWebSockets, loop, sweep, TypeOK
<1>18. ASSUME NEW w \in Workers, Finish(w)
      PROVE NoWebSockets'
  BY <1>18 DEF Finish, Goto, NoWebSockets, loop, sweep, TypeOK
<1>19. CASE SweepDrops
  BY <1>19 DEF SweepDrops, NoWebSockets
<1>20. CASE SweepEnd
  BY <1>20 DEF SweepEnd, NoWebSockets
<1>21. ASSUME NEW d \in Fds, SweepSent(d)
      PROVE NoWebSockets'
  BY <1>21 DEF SweepSent, NoWebSockets
<1>22. ASSUME NEW d \in Fds, SweepFails(d)
      PROVE NoWebSockets'
  BY <1>22 DEF SweepFails, NoWebSockets
<1>23. CASE UNCHANGED <<lockdown, ws_clients, lpc, wpc, sweeper, todo, failed>>
  BY <1>23 DEF NoWebSockets
<1> QED
  BY <1>1, <1>2, <1>3, <1>4, <1>5, <1>6, <1>7, <1>8, <1>9, <1>10, <1>11, <1>12, <1>13,
     <1>14, <1>15, <1>16, <1>17, <1>18, <1>19, <1>20, <1>21, <1>22, <1>23 DEF Next,
     ClientStep, LoopStep, WorkerStep, SweepStep, Connect, Hangup, Send, client, loop,
     worker, sweep, history, vars

LEMMA ReadyPolledStep ==
  ASSUME TypeOK, ReadyInTable, NoWebSockets, ReadyPolled, [Next]_vars
  PROVE  ReadyPolled'
<1>1. CASE DisconnectAll
  BY <1>1 DEF DisconnectAll, NoWebSockets
<1>2. CASE ProcessActions
  BY <1>2 DEF ProcessActions, ReadyInTable, ReadyPolled
<1>3. CASE Poll
  BY <1>3 DEF Poll, ReadyPolled, Polled
<1>4. ASSUME NEW c \in Conns, NEW d \in Fds, Accept(c, d)
      PROVE ReadyPolled'
  BY <1>4 DEF Accept, ReadyPolled, Polled
<1>5. ASSUME NEW d \in Fds, Receive(d)
      PROVE ReadyPolled'
  BY <1>5 DEF Receive, Scanned, ReadyPolled, Polled
<1>6. ASSUME NEW d \in Fds, Disconnected(d)
      PROVE ReadyPolled'
  BY <1>6 DEF Disconnected, Scanned, ReadyPolled, Polled
<1>7. CASE UNCHANGED <<m_fds, ready>>
  BY <1>7 DEF ReadyPolled, Polled
<1> QED
  BY <1>1, <1>2, <1>3, <1>4, <1>5, <1>6, <1>7 DEF Next, ClientStep, LoopStep,
     WorkerStep, SweepStep, Connect, Hangup, Send, SetLockdown, Top, AcceptFails,
     SweepStart, Take, Refuse, Route, Reply, Handshake, Register, Frames, Finish,
     SweepDrops, SweepEnd, SweepSent, SweepFails, client, loop, worker, sweep,
     history, vars

\* The owners of a descriptor depend on these variables only.
LEMMA OwnersFrame ==
  ASSUME NEW d, (Polled(d))' <=> Polled(d), QueueOf(d)' = QueueOf(d),
         WorkersOf(d)' = WorkersOf(d), ActionsOf(d)' = ActionsOf(d)
  PROVE  /\ Held(d, FALSE, {}, {}, {}) => Held(d, FALSE, {}, {}, {})'
         /\ OneOwner(d) => OneOwner(d)'
<1>1. \A i : QueueOf(d)' = {i} => i \in DOMAIN m_tasks'
  BY DEF QueueOf
<1>2. ASSUME NEW i \in DOMAIN m_tasks, Held(d, FALSE, {i}, {}, {}) PROVE OneOwner(d)'
  BY <1>1, <1>2 DEF Held, OneOwner
<1> QED
  BY <1>2 DEF Held, OneOwner

LEMMA TaskAppended ==
  ASSUME TypeOK, FdTable, ReadyInTable, NEW d \in Fds, Receive(d)
  PROVE  /\ Len(m_tasks) \in Nat /\ DOMAIN m_tasks = 1 .. Len(m_tasks)
         /\ DOMAIN m_tasks' = 1 .. (Len(m_tasks) + 1)
         /\ \A i \in DOMAIN m_tasks : m_tasks'[i] = m_tasks[i]
         /\ m_tasks'[Len(m_tasks) + 1].fd = d
         /\ m_tasks'[Len(m_tasks) + 1].conn = sock[d]
<1> DEFINE t == [fd |-> d, conn |-> sock[d], kind |-> Head(stream[sock[d]])]
<1>1. sock[d] \in Conns
  BY ServerAssumption DEF Receive, Scanned, TypeOK, FdTable, ReadyInTable
<1>2. Head(stream[sock[d]]) \in Kinds
  BY <1>1, HeadTailProperties DEF Receive, TypeOK
<1>3. t \in Task /\ t.fd = d /\ t.conn = sock[d]
  BY <1>1, <1>2 DEF Task
<1>4. m_tasks' = Append(m_tasks, t)
  BY DEF Receive
<1> HIDE DEF t
<1> QED
  BY <1>3, <1>4, AppendProperties, LenProperties DEF TypeOK

LEMMA TaskTaken ==
  ASSUME TypeOK, NEW w \in Workers, Take(w)
  PROVE  /\ Head(m_tasks) \in Task /\ Head(m_tasks) = m_tasks[1] /\ Head(m_tasks) # None
         /\ Len(m_tasks) \in Nat \ {0} /\ DOMAIN m_tasks = 1 .. Len(m_tasks)
         /\ DOMAIN m_tasks' = 1 .. (Len(m_tasks) - 1)
         /\ \A i \in 1 .. (Len(m_tasks) - 1) : m_tasks'[i] = m_tasks[i + 1]
BY HeadTailProperties, LenProperties, EmptySeq, ServerAssumption DEF Take, TypeOK

LEMMA ExclusiveStep ==
  ASSUME TypeOK, FdTable, ReadyInTable, NoWebSockets, ReadyPolled, ExclusiveOwner, [Next]_vars
  PROVE  ExclusiveOwner'
<1>1. CASE DisconnectAll
  BY <1>1 DEF DisconnectAll, NoWebSockets
<1>2. CASE ProcessActions
  <2> SUFFICES ASSUME NEW d \in Fds
               PROVE  IF sock'[d] = None THEN Held(d, FALSE, {}, {}, {})' ELSE OneOwner(d)'
    BY DEF ExclusiveOwner
  <2>1. /\ QueueOf(d)' = QueueOf(d) /\ WorkersOf(d)' = WorkersOf(d) /\ ActionsOf(d)' = {}
    BY <1>2 DEF ProcessActions, QueueOf, WorkersOf, ActionsOf, worker
  <2>2. d \in Asked("CLOSE_CLIENT") <=> d \in DOMAIN m_fds /\ "CLOSE_CLIENT" \in ActionsOf(d)
    BY DEF Asked, ActionsOf, ActionType
  <2>3. d \in Asked("ENABLE_POLLING") <=> d \in DOMAIN m_fds /\ "ENABLE_POLLING" \in ActionsOf(d)
    BY DEF Asked, ActionsOf, ActionType
  <2>4. /\ sock'[d] = IF d \in Asked("CLOSE_CLIENT") THEN None ELSE sock[d]
        /\ Polled(d)' <=> /\ d \in DOMAIN m_fds \ Asked("CLOSE_CLIENT")
                          /\ d \in Asked("ENABLE_POLLING") \/ Polled(d)
    BY <1>2 DEF ProcessActions, Polled
  <2>5. d \in DOMAIN m_fds <=> sock[d] # None
    BY DEF FdTable
  <2>6. CASE ActionsOf(d) = {}
    <3>1. sock'[d] = sock[d] /\ (Polled(d)' <=> Polled(d)) /\ ActionsOf(d)' = ActionsOf(d)
      BY <2>1, <2>2, <2>3, <2>4, <2>6 DEF Polled
    <3> QED
      BY <2>1, <3>1, OwnersFrame DEF ExclusiveOwner
  <2>7. CASE ActionsOf(d) # {}
    <3>1. sock[d] # None
      BY <2>7 DEF ExclusiveOwner, Held
    <3>2. PICK t \in ActionType : Held(d, FALSE, {}, {}, {t})
      BY <2>7, <3>1 DEF ExclusiveOwner, OneOwner, Held
    <3>3. CASE t = "CLOSE_CLIENT"
      <4>1. d \in Asked("CLOSE_CLIENT")
        BY <2>2, <2>5, <3>1, <3>2, <3>3 DEF Held
      <4> QED
        BY <2>1, <2>4, <3>2, <4>1 DEF Held
    <3>4. CASE t = "ENABLE_POLLING"
      <4>1. d \notin Asked("CLOSE_CLIENT") /\ d \in Asked("ENABLE_POLLING")
        BY <2>2, <2>3, <2>5, <3>1, <3>2, <3>4 DEF Held
      <4> QED
        BY <2>1, <2>4, <2>5, <3>1, <3>2, <4>1 DEF Held, OneOwner
    <3> QED
      BY <3>3, <3>4 DEF ActionType
  <2> QED
    BY <2>6, <2>7
<1>3. ASSUME NEW c \in Conns, NEW d \in Fds, Accept(c, d)
      PROVE ExclusiveOwner'
  <2>1. \A e : QueueOf(e)' = QueueOf(e) /\ WorkersOf(e)' = WorkersOf(e) /\ ActionsOf(e)' = ActionsOf(e)
    BY <1>3 DEF Accept, QueueOf, WorkersOf, ActionsOf, worker
  <2>2. Held(d, FALSE, {}, {}, {}) /\ Polled(d)' /\ sock'[d] = c /\ c # None
    BY <1>3, ServerAssumption DEF Accept, ExclusiveOwner, Polled, TypeOK
  <2>3. OneOwner(d)'
    BY <2>1, <2>2 DEF Held, OneOwner
  <2>4. \A e \in Fds \ {d} : sock'[e] = sock[e] /\ (Polled(e)' <=> Polled(e))
    BY <1>3 DEF Accept, Polled, TypeOK
  <2> QED
    BY <2>1, <2>2, <2>3, <2>4, OwnersFrame DEF ExclusiveOwner
<1>4. ASSUME NEW d \in Fds, Receive(d)
      PROVE ExclusiveOwner'
  <2> DEFINE n == Len(m_tasks) + 1
  <2>1. Polled(d) /\ sock[d] # None /\ sock' = sock
    BY <1>4 DEF Receive, Scanned, ReadyPolled, Polled, FdTable
  <2>2. Held(d, TRUE, {}, {}, {})
    BY <2>1 DEF ExclusiveOwner, OneOwner, Held
  <2>3. /\ Len(m_tasks) \in Nat /\ DOMAIN m_tasks = 1 .. Len(m_tasks) /\ DOMAIN m_tasks' = 1 .. n
        /\ \A i \in DOMAIN m_tasks : m_tasks'[i] = m_tasks[i]
        /\ m_tasks'[n].fd = d
    BY <1>4, TaskAppended
  <2>4. \A e : WorkersOf(e)' = WorkersOf(e) /\ ActionsOf(e)' = ActionsOf(e)
    BY <1>4 DEF Receive, WorkersOf, ActionsOf, worker
  <2>5. QueueOf(d)' = {n} /\ n \in DOMAIN m_tasks'
    BY <2>2, <2>3 DEF Held, QueueOf
  <2>6. ~ Polled(d)'
    BY <1>4 DEF Receive, Polled, TypeOK
  <2>7. OneOwner(d)'
    BY <2>2, <2>4, <2>5, <2>6 DEF Held, OneOwner
  <2>8. \A e \in Fds \ {d} : QueueOf(e)' = QueueOf(e) /\ (Polled(e)' <=> Polled(e))
    BY <1>4, <2>3 DEF Receive, QueueOf, Polled, TypeOK
  <2>9. ASSUME NEW e \in Fds \ {d}
        PROVE  IF sock'[e] = None THEN Held(e, FALSE, {}, {}, {})' ELSE OneOwner(e)'
    BY <2>1, <2>4, <2>8, OwnersFrame DEF ExclusiveOwner
  <2> QED
    BY <2>1, <2>7, <2>9 DEF ExclusiveOwner
<1>5. ASSUME NEW d \in Fds, Disconnected(d)
      PROVE ExclusiveOwner'
  <2>1. Polled(d) /\ sock[d] # None
    BY <1>5 DEF Disconnected, Scanned, ReadyPolled, Polled, FdTable
  <2>2. Held(d, TRUE, {}, {}, {})
    BY <2>1 DEF ExclusiveOwner, OneOwner, Held
  <2>3. \A e : QueueOf(e)' = QueueOf(e) /\ WorkersOf(e)' = WorkersOf(e) /\ ActionsOf(e)' = ActionsOf(e)
    BY <1>5 DEF Disconnected, QueueOf, WorkersOf, ActionsOf, worker
  <2>4. sock'[d] = None /\ ~ Polled(d)'
    BY <1>5 DEF Disconnected, Polled, TypeOK
  <2>5. Held(d, FALSE, {}, {}, {})'
    BY <2>2, <2>3, <2>4 DEF Held
  <2>6. \A e \in Fds \ {d} : sock'[e] = sock[e] /\ (Polled(e)' <=> Polled(e))
    BY <1>5 DEF Disconnected, Polled, TypeOK
  <2> QED
    BY <2>3, <2>4, <2>5, <2>6, OwnersFrame DEF ExclusiveOwner
<1>6. ASSUME NEW w \in Workers, Take(w)
      PROVE ExclusiveOwner'
  <2>1. /\ Head(m_tasks) \in Task /\ Head(m_tasks) = m_tasks[1] /\ Head(m_tasks) # None
        /\ Len(m_tasks) \in Nat \ {0} /\ DOMAIN m_tasks = 1 .. Len(m_tasks)
        /\ DOMAIN m_tasks' = 1 .. (Len(m_tasks) - 1)
        /\ \A i \in 1 .. (Len(m_tasks) - 1) : m_tasks'[i] = m_tasks[i + 1]
    BY <1>6, TaskTaken
  <2>2. /\ sock' = sock /\ m_fds' = m_fds /\ m_pending_actions' = m_pending_actions
        /\ job' = [job EXCEPT ![w] = Head(m_tasks)] /\ job[w] = None
    BY <1>6 DEF Take, TypeOK, loop
  <2>3. \A e : (Polled(e)' <=> Polled(e)) /\ ActionsOf(e)' = ActionsOf(e)
    BY <2>2 DEF Polled, ActionsOf
  <2>h. PICK h \in Fds : h = Head(m_tasks).fd
    BY <2>1 DEF Task
  <2>4. 1 \in QueueOf(h)
    BY <2>1, <2>h DEF QueueOf
  <2>5. Held(h, FALSE, {1}, {}, {}) /\ sock[h] # None
    BY <2>4 DEF ExclusiveOwner, OneOwner, Held
  <2>6. WorkersOf(h)' = WorkersOf(h) \cup {w}
    BY <2>1, <2>2, <2>h DEF WorkersOf, TypeOK
  <2>7. QueueOf(h)' = {}
    <3>1. \A i \in DOMAIN m_tasks : m_tasks[i].fd = h => i = 1
      BY <2>5 DEF Held, QueueOf
    <3>2. \A i \in DOMAIN m_tasks' : m_tasks'[i].fd # h
      BY <2>1, <3>1
    <3> QED
      BY <3>2 DEF QueueOf
  <2>8. OneOwner(h)'
    BY <2>3, <2>5, <2>6, <2>7 DEF Held, OneOwner
  <2>9. ASSUME NEW e \in Fds \ {h}
        PROVE  IF sock'[e] = None THEN Held(e, FALSE, {}, {}, {})' ELSE OneOwner(e)'
    <3>1. WorkersOf(e)' = WorkersOf(e)
      BY <2>1, <2>2, <2>h DEF WorkersOf, TypeOK
    <3>2. \A i : i \in QueueOf(e)' <=> i + 1 \in QueueOf(e) /\ i \in DOMAIN m_tasks'
      BY <2>1 DEF QueueOf
    <3>3. 1 \notin QueueOf(e)
      BY <2>1, <2>h DEF QueueOf
    <3>4. CASE QueueOf(e) = {}
      <4>1. QueueOf(e)' = QueueOf(e)
        BY <3>2, <3>4 DEF QueueOf
      <4> QED
        BY <2>2, <2>3, <3>1, <4>1, OwnersFrame DEF ExclusiveOwner
    <3>5. CASE QueueOf(e) # {}
      <4>1. sock[e] # None
        BY <3>5 DEF ExclusiveOwner, Held
      <4>2. PICK i \in DOMAIN m_tasks : Held(e, FALSE, {i}, {}, {})
        BY <3>5, <4>1 DEF ExclusiveOwner, OneOwner, Held
      <4>3. i \in QueueOf(e) /\ i # 1 /\ i - 1 \in DOMAIN m_tasks'
        BY <2>1, <3>3, <4>2 DEF Held
      <4>4. QueueOf(e)' = {i - 1}
        <5>1. \A j \in DOMAIN m_tasks' : j \in QueueOf(e)' <=> j + 1 = i
          BY <3>2, <4>2 DEF Held
        <5>2. QueueOf(e)' \subseteq DOMAIN m_tasks'
          BY DEF QueueOf
        <5> QED
          BY <2>1, <4>3, <5>1, <5>2
      <4>5. Held(e, FALSE, {i - 1}, {}, {})'
        BY <2>3, <3>1, <4>2, <4>4 DEF Held
      <4> QED
        BY <2>2, <4>1, <4>3, <4>5 DEF OneOwner
    <3> QED
      BY <3>4, <3>5
  <2> QED
    BY <2>2, <2>5, <2>8, <2>9 DEF ExclusiveOwner
<1>7. ASSUME NEW w \in Workers, Finish(w)
      PROVE ExclusiveOwner'
  <2>0. PICK d \in Fds : job[w] # None /\ d = job[w].fd
    BY <1>7 DEF Finish, TypeOK, Task
  <2>1. PICK t \in ActionType :
           /\ m_pending_actions' = m_pending_actions \cup {Action(d, t)}
           /\ sock' = sock /\ m_fds' = m_fds /\ m_tasks' = m_tasks
           /\ job' = [job EXCEPT ![w] = None]
    BY <1>7, <2>0 DEF Finish, Push, ActionType, loop
  <2>2. w \in WorkersOf(d)
    BY <2>0 DEF WorkersOf
  <2>3. Held(d, FALSE, {}, {w}, {}) /\ sock[d] # None
    BY <2>2 DEF ExclusiveOwner, OneOwner, Held
  <2>4. \A e : (Polled(e)' <=> Polled(e)) /\ QueueOf(e)' = QueueOf(e)
    BY <2>1 DEF Polled, QueueOf
  <2>5. WorkersOf(d)' = WorkersOf(d) \ {w}
    BY <2>1 DEF WorkersOf, TypeOK
  <2>6. ActionsOf(d)' = ActionsOf(d) \cup {t}
    BY <2>1 DEF ActionsOf, Action, ActionType
  <2>7. OneOwner(d)'
    BY <2>3, <2>4, <2>5, <2>6 DEF Held, OneOwner
  <2>8. \A e \in Fds \ {d} : WorkersOf(e)' = WorkersOf(e) /\ ActionsOf(e)' = ActionsOf(e)
    BY <2>0, <2>1 DEF WorkersOf, ActionsOf, Action, TypeOK
  <2>9. ASSUME NEW e \in Fds \ {d}
        PROVE  IF sock'[e] = None THEN Held(e, FALSE, {}, {}, {})' ELSE OneOwner(e)'
    BY <2>1, <2>4, <2>8, OwnersFrame DEF ExclusiveOwner
  <2> QED
    BY <2>1, <2>3, <2>7, <2>9 DEF ExclusiveOwner
<1>8. CASE SweepDrops
  BY <1>8 DEF SweepDrops, NoWebSockets
<1>9. CASE UNCHANGED <<sock, m_fds, m_tasks, job, m_pending_actions>>
  BY <1>9 DEF ExclusiveOwner, OneOwner, Held, Polled, QueueOf, WorkersOf, ActionsOf
<1> QED
  BY <1>1, <1>2, <1>3, <1>4, <1>5, <1>6, <1>7, <1>8, <1>9 DEF Next, ClientStep,
     LoopStep, WorkerStep, SweepStep, Connect, Hangup, Send, SetLockdown, Top, Poll,
     AcceptFails, SweepStart, Refuse, Route, Reply, Handshake, Register, Frames,
     SweepEnd, SweepSent, SweepFails, client, loop, worker, sweep, history, vars

LEMMA TasksHaveFds ==
  ASSUME TypeOK
  PROVE  /\ \A i \in DOMAIN m_tasks : m_tasks[i].fd \in Fds
         /\ \A w \in Workers : job[w] # None => job[w].fd \in Fds
<1>1. \A i \in DOMAIN m_tasks : m_tasks[i] \in Task
  BY LenProperties DEF TypeOK
<1>2. \A w \in Workers : job[w] # None => job[w] \in Task
  BY DEF TypeOK
<1> QED
  BY <1>1, <1>2 DEF Task

LEMMA TaskKeepsStep ==
  ASSUME TypeOK, FdTable, ReadyInTable, NoWebSockets, ReadyPolled, ExclusiveOwner,
         TaskKeepsConnection, [Next]_vars
  PROVE  TaskKeepsConnection'
<1>1. CASE DisconnectAll
  BY <1>1 DEF DisconnectAll, NoWebSockets
<1>2. CASE ProcessActions
  <2>1. ASSUME NEW d \in Fds, QueueOf(d) # {} \/ WorkersOf(d) # {} PROVE sock'[d] = sock[d]
    <3>1. "CLOSE_CLIENT" \notin ActionsOf(d)
      BY <2>1 DEF ExclusiveOwner, OneOwner, Held
    <3> QED
      BY <1>2, <3>1 DEF ProcessActions, Asked, ActionsOf, ActionType
  <2> QED
    BY <1>2, <2>1, TasksHaveFds DEF ProcessActions, TaskKeepsConnection, QueueOf, WorkersOf, worker
<1>3. ASSUME NEW c \in Conns, NEW d \in Fds, Accept(c, d)
      PROVE TaskKeepsConnection'
  <2>1. QueueOf(d) = {} /\ WorkersOf(d) = {}
    BY <1>3 DEF Accept, ExclusiveOwner, Held
  <2>2. sock' = [sock EXCEPT ![d] = c] /\ m_tasks' = m_tasks /\ job' = job
    BY <1>3 DEF Accept, worker
  <2> QED
    BY <2>1, <2>2, TasksHaveFds DEF TaskKeepsConnection, QueueOf, WorkersOf, TypeOK
<1>4. ASSUME NEW d \in Fds, Receive(d)
      PROVE TaskKeepsConnection'
  <2>1. sock' = sock /\ job' = job
    BY <1>4 DEF Receive, worker
  <2> QED
    BY <1>4, <2>1, TaskAppended DEF TaskKeepsConnection
<1>5. ASSUME NEW d \in Fds, Disconnected(d)
      PROVE TaskKeepsConnection'
  <2>1. Polled(d) /\ sock[d] # None
    BY <1>5 DEF Disconnected, Scanned, ReadyPolled, Polled, FdTable
  <2>2. QueueOf(d) = {} /\ WorkersOf(d) = {}
    BY <2>1 DEF ExclusiveOwner, OneOwner, Held
  <2>3. sock' = [sock EXCEPT ![d] = None] /\ m_tasks' = m_tasks /\ job' = job
    BY <1>5 DEF Disconnected, worker
  <2> QED
    BY <2>2, <2>3, TasksHaveFds DEF TaskKeepsConnection, QueueOf, WorkersOf, TypeOK
<1>6. ASSUME NEW w \in Workers, Take(w)
      PROVE TaskKeepsConnection'
  <2>1. sock' = sock /\ job' = [job EXCEPT ![w] = Head(m_tasks)]
    BY <1>6 DEF Take
  <2>2. \A i \in DOMAIN m_tasks' : sock[m_tasks'[i].fd] = m_tasks'[i].conn
    BY <1>6, TaskTaken DEF TaskKeepsConnection
  <2>3. sock[Head(m_tasks).fd] = Head(m_tasks).conn
    BY <1>6, TaskTaken DEF TaskKeepsConnection
  <2> QED
    BY <2>1, <2>2, <2>3 DEF TaskKeepsConnection, TypeOK
<1>7. ASSUME NEW w \in Workers, Finish(w)
      PROVE TaskKeepsConnection'
  <2>1. sock' = sock /\ m_tasks' = m_tasks /\ job' = [job EXCEPT ![w] = None]
    BY <1>7 DEF Finish
  <2> QED
    BY <2>1 DEF TaskKeepsConnection, TypeOK
<1>8. CASE UNCHANGED <<sock, m_tasks, job>>
  BY <1>8 DEF TaskKeepsConnection
<1> QED
  BY <1>1, <1>2, <1>3, <1>4, <1>5, <1>6, <1>7, <1>8 DEF Next, ClientStep, LoopStep,
     WorkerStep, SweepStep, Connect, Hangup, Send, SetLockdown, Top, Poll,
     AcceptFails, SweepStart, Refuse, Route, Reply, Handshake, Register, Frames,
     SweepDrops, SweepEnd, SweepSent, SweepFails, client, loop, worker, sweep,
     history, vars

LEMMA HttpInvariant ==
  ASSUME HttpOnly
  PROVE  Spec => []HttpInv
<1>1. Init => HttpInv
  <2> SUFFICES ASSUME Init PROVE HttpInv
    OBVIOUS
  <2>1. ServerInv
    BY InitialState
  <2>2. \A d \in Fds : Held(d, FALSE, {}, {}, {})
    BY DEF Init, Held, Polled, QueueOf, WorkersOf, ActionsOf
  <2>3. NoWebSockets /\ ReadyPolled
    BY DEF Init, NoWebSockets, ReadyPolled
  <2>4. ExclusiveOwner
    BY <2>2 DEF Init, ExclusiveOwner
  <2>5. TaskKeepsConnection
    BY DEF Init, TaskKeepsConnection
  <2> QED
    BY <2>1, <2>3, <2>4, <2>5 DEF HttpInv
<1>2. HttpInv /\ [Next]_vars => HttpInv'
  BY ServerInvStep, NoWebSocketsStep, ReadyPolledStep, ExclusiveStep, TaskKeepsStep
  DEF HttpInv, ServerInv
<1> QED
  BY <1>1, <1>2, PTL DEF Spec, Safety

\* With HTTP clients and no IMMEDIATE lockdown, an open connection belongs to
\* the loop, to one queued task, to one handler or to one pending action, and
\* never to two of them.
THEOREM ConnectionHasOneOwner ==
  ASSUME HttpOnly
  PROVE  Spec => []ExclusiveOwner
<1>1. HttpInv => ExclusiveOwner
  BY DEF HttpInv
<1> QED
  BY <1>1, HttpInvariant, PTL

\* So a reply goes to the connection from which the request was read.
THEOREM RepliesReachTheRequester ==
  ASSUME HttpOnly
  PROVE  Spec => []TaskKeepsConnection
<1>1. HttpInv => TaskKeepsConnection
  BY DEF HttpInv
<1> QED
  BY <1>1, HttpInvariant, PTL
=============================================================================
