--------------------------- MODULE LogLocksProofs ---------------------------
(***************************************************************************)
(* Theorems about LogLocks, for every set of descriptors, workers and      *)
(* logging threads: type correctness and the walks' exclusion with and     *)
(* without --debug, the order of the mutexes without.                      *)
(***************************************************************************)
EXTENDS LogLocks, TLAPS

\* A thread works on a descriptor wherever its next step needs one, and
\* comes back from log to such a step.
Targeted ==
  \A t \in Threads :
     /\ pc[t] = "close" => failed[t] \in Fds
     /\ (\/ pc[t] \in {"close_socket", "disconnected", "upgrade", "enable", "reply"}
         \/ ret[t] # "idle")
        => target[t] \in Fds

\* A thread that holds a mutex of a walk is in one.
HoldersWalk ==
  /\ \A t \in Threads : holder["callback"] = t => pc[t] \in {"callback", "walk", "close"}
  /\ \A t \in Threads : pc[t] = "callback" => holder["callback"] = t
  /\ \A t \in Threads : holder["ws"] = t <=> pc[t] \in {"walk", "close"}

\* The rest of a walk is in ws_clients.
RestTracked == \A t \in Threads : pc[t] \in {"walk", "close"} => todo[t] \subseteq ws_clients

\* Nobody but a thread on its way through log has a place to return to.
Returns ==
  \A t \in Threads : ret[t] # "idle" => pc[t] \in {"log", "callback", "walk", "close"}

WalkInv == TypeOK /\ Targeted /\ HoldersWalk /\ RestTracked /\ Returns

\* Without --debug the holder of m_action_mutex is the loop, outside of log.
QuietLoop ==
  /\ \A t \in Threads : holder["action"] = t =>
        t = Loop /\ pc[t] \in {"actions", "close_socket"}
  /\ \A t \in Threads : ret[t] = "idle"

-----------------------------------------------------------------------------

LEMMA Names ==
  /\ Loop \in Threads /\ Broadcaster \in Threads
  /\ Workers \subseteq Threads
  /\ None \notin Threads /\ None \notin Fds
  BY LogLocksAssumption DEF Threads

LEMMA InitWalk == Init => WalkInv /\ QuietLoop
  BY Names DEF Init, WalkInv, TypeOK, Targeted, HoldersWalk, RestTracked, Returns,
               QuietLoop, Mutexes

LEMMA WalkStep == WalkInv /\ [Next]_vars => WalkInv'
<1> SUFFICES ASSUME WalkInv, [Next]_vars PROVE WalkInv'
  OBVIOUS
<1> USE Names DEF WalkInv, TypeOK, Targeted, HoldersWalk, RestTracked, Returns, Mutexes
<1>1. CASE UNCHANGED vars
  BY <1>1 DEF vars
<1>2. ASSUME NEW d \in Fds, Connect(d) PROVE WalkInv'
  BY <1>2 DEF Connect
<1>3. ASSUME NEW d \in Fds, HangUp(d) PROVE WalkInv'
  BY <1>3 DEF HangUp, Sends
<1>4. ASSUME NEW d \in Fds, Disconnected(d) PROVE WalkInv'
  BY <1>4 DEF Disconnected, DebugLog, CallLog, Jump
<1>5. ASSUME NEW t \in Threads, LogError(t) PROVE WalkInv'
  BY <1>5 DEF LogError, CallLog, Jump
<1>6. ASSUME NEW t \in Threads, LockCallback(t) PROVE WalkInv'
  BY <1>6 DEF LockCallback, Free, Jump
<1>7. ASSUME NEW t \in Threads, LockWs(t) PROVE WalkInv'
  BY <1>7 DEF LockWs, Free, Jump
<1>8. ASSUME NEW t \in Threads, CloseUnreachable(t) PROVE WalkInv'
  BY <1>8 DEF CloseUnreachable, Free, Jump
<1>9. ASSUME NEW t \in Threads, WalkDone(t) PROVE WalkInv'
  BY <1>9 DEF WalkDone, Jump
<1>10. ASSUME NEW t \in Threads, NEW d \in Fds, Send(t, d) PROVE WalkInv'
  BY <1>10 DEF Send, Jump
<1>11. ASSUME LockActions PROVE WalkInv'
  BY <1>11 DEF LockActions, Free, Jump
<1>12. ASSUME NEW d \in Fds, TakeAction(d) PROVE WalkInv'
  BY <1>12 DEF TakeAction, DebugLog, CallLog, Jump
<1>13. ASSUME CloseSocket PROVE WalkInv'
  BY <1>13 DEF CloseSocket, Jump
<1>14. ASSUME UnlockActions PROVE WalkInv'
  BY <1>14 DEF UnlockActions, Jump
<1>15. ASSUME CloseDisconnected PROVE WalkInv'
  BY <1>15 DEF CloseDisconnected, Jump
<1>16. ASSUME NEW w \in Workers, NEW d \in Fds, NEW next \in {"upgrade", "reply"},
              Request(w, d, next)
       PROVE WalkInv'
  BY <1>16 DEF Request, DebugLog, CallLog, Jump
<1>17. ASSUME NEW w \in Workers, Register(w) PROVE WalkInv'
  BY <1>17 DEF Register, DebugLog, CallLog, Free, Jump
<1>18. ASSUME NEW w \in Workers, Answer(w) PROVE WalkInv'
  BY <1>18 DEF Answer, Free, Jump
<1>19. ASSUME Tick PROVE WalkInv'
  BY <1>19 DEF Tick, Jump
<1> QED
  BY <1>1, <1>2, <1>3, <1>4, <1>5, <1>6, <1>7, <1>8, <1>9, <1>10, <1>11, <1>12, <1>13,
     <1>14, <1>15, <1>16, <1>17, <1>18, <1>19
     DEF Next, Walk, LoopStep, WorkerStep

LEMMA QuietStep ==
  ASSUME ~ Debug, WalkInv, QuietLoop, [Next]_vars
  PROVE  QuietLoop'
<1> USE Names DEF WalkInv, TypeOK, Mutexes, QuietLoop
<1>1. CASE UNCHANGED vars
  BY <1>1 DEF vars
<1>2. ASSUME NEW d \in Fds, Connect(d) \/ HangUp(d) \/ Disconnected(d) PROVE QuietLoop'
  BY <1>2 DEF Connect, HangUp, Disconnected, DebugLog, CallLog, Jump
<1>3. ASSUME NEW t \in Threads, LogError(t) PROVE QuietLoop'
  BY <1>3 DEF LogError, CallLog, Jump
<1>4. ASSUME NEW t \in Threads,
             LockCallback(t) \/ LockWs(t) \/ CloseUnreachable(t) \/ WalkDone(t)
      PROVE QuietLoop'
  BY <1>4 DEF LockCallback, LockWs, CloseUnreachable, WalkDone, Jump, Free
<1>5. ASSUME NEW t \in Threads, NEW d \in Fds, Send(t, d) PROVE QuietLoop'
  BY <1>5 DEF Send, Jump
<1>6. ASSUME LoopStep PROVE QuietLoop'
  BY <1>6 DEF LoopStep, LockActions, CloseSocket, UnlockActions, CloseDisconnected,
              TakeAction, DebugLog, CallLog, Jump, Free
<1>7. ASSUME NEW w \in Workers, WorkerStep(w) PROVE QuietLoop'
  BY <1>7, LogLocksAssumption
     DEF WorkerStep, Register, Answer, DebugLog, CallLog, Jump, Free
<1>8. ASSUME NEW w \in Workers, NEW d \in Fds, NEW next \in {"upgrade", "reply"},
             Request(w, d, next)
      PROVE QuietLoop'
  BY <1>8, LogLocksAssumption DEF Request, DebugLog, CallLog, Jump
<1>9. ASSUME Tick PROVE QuietLoop'
  BY <1>9, LogLocksAssumption DEF Tick, Jump
<1> QED
  BY <1>1, <1>2, <1>3, <1>4, <1>5, <1>6, <1>7, <1>8, <1>9 DEF Next, Walk

LEMMA WalkAlways == Spec => []WalkInv
  BY InitWalk, WalkStep, PTL DEF Spec

LEMMA QuietAlways == ASSUME ~ Debug PROVE Spec => []QuietLoop
<1>1. Init => QuietLoop
  BY InitWalk
<1>2. WalkInv /\ QuietLoop /\ [Next]_vars => QuietLoop'
  BY QuietStep
<1> QED
  BY WalkAlways, <1>1, <1>2, PTL DEF Spec

\* The state of the mutexes and of the threads has its types, with --debug
\* and without.
THEOREM TypeCorrect == Spec => []TypeOK
<1>1. WalkInv => TypeOK
  BY DEF WalkInv
<1> QED
  BY <1>1, WalkAlways, PTL

\* Broadcasts and log callbacks never iterate over ws_clients at the same
\* time, and an iterator never refers to an erased descriptor, with --debug
\* and without.
THEOREM WalksExclusive == Spec => []OneWalker
<1>1. WalkInv => OneWalker
  BY DEF WalkInv, TypeOK, HoldersWalk, RestTracked, OneWalker, Mutexes
<1> QED
  BY <1>1, WalkAlways, PTL

\* Without --debug the threads take s_callback_mutex, ws_mutex and
\* m_action_mutex in this order, so no set of them waits for each other.
THEOREM NoCircularWait == ASSUME ~ Debug PROVE Spec => []LockOrder
<1>1. WalkInv /\ QuietLoop => LockOrder
  BY Names DEF WalkInv, TypeOK, HoldersWalk, QuietLoop, LockOrder, Mutexes, Wants, Rank
<1> QED
  BY <1>1, WalkAlways, QuietAlways, PTL
=============================================================================
