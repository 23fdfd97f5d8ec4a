------------------------------ MODULE Process ------------------------------
(***************************************************************************)
(* The server process from main's first line to its end: the main thread,  *)
(* the LifecycleManager's thread that follows the vulnerability service,   *)
(* and the broadcast thread whose health check watches the disk.  Both     *)
(* write s_lockdown_state, and log into the pipe of Watchdog.              *)
(*                                                                         *)
(* The poll loop, which reads the state, is Server's; the log callback is  *)
(* LogLocks'.                                                              *)
(* Without --debug: only entries of level ERROR are logged.                *)
(***************************************************************************)
EXTENDS Watchdog

CONSTANTS
  Services,          \* what the service may answer, or "down", or "hung"
  Disks              \* states of the disk of db: "ok", "low" (< 50 MB), "unreadable"

VARIABLES
  main,              \* where main is: see TypeOK
  lifecycle,         \* where backgroundTask is
  new_state,         \* its local of that name
  broadcast,         \* where the broadcast thread is
  s_lockdown_state,
  m_running,         \* of Server
  server_finished,   \* of main
  service,
  disk

threadVars == <<main, lifecycle, new_state, broadcast, s_lockdown_state,
                m_running, server_finished>>
outside == <<service, disk>>
vars == <<wdVars, threadVars, outside>>

Answers == Services \ {"down", "hung"}
\* The state of an answer; anything but CLOSE and IMMEDIATE counts as SAFE.
StateOf(answer) == IF answer \in {"CLOSE", "IMMEDIATE"} THEN answer ELSE "NONE"

Init ==
  /\ WdInit
  /\ main = "init" /\ lifecycle = "off" /\ broadcast = "off"
  /\ s_lockdown_state = "NONE" /\ new_state = "NONE"
  /\ m_running = FALSE /\ server_finished = FALSE
  /\ service \in Services /\ disk \in Disks

-----------------------------------------------------------------------------
(* main *)

MainGoes(from, to) == server = "running" /\ main = from /\ main' = to

InitMonitor ==
  /\ MainGoes("init", "start") /\ Fork
  /\ UNCHANGED <<lifecycle, new_state, broadcast, s_lockdown_state, m_running,
                 server_finished, outside>>

StartLifecycle ==
  /\ MainGoes("start", "shell")
  /\ lifecycle' = "sleep"
  /\ UNCHANGED <<wdVars, new_state, broadcast, s_lockdown_state, m_running,
                 server_finished, outside>>

\* cli.run fails or --help asks for no more than it has done.
ShellReturns ==
  /\ MainGoes("shell", "exit")
  /\ UNCHANGED <<wdVars, lifecycle, new_state, broadcast, s_lockdown_state,
                 m_running, server_finished, outside>>

StartBroadcast ==
  /\ MainGoes("shell", "listen")
  /\ broadcast' = "wait"
  /\ UNCHANGED <<wdVars, lifecycle, new_state, s_lockdown_state, m_running,
                 server_finished, outside>>

\* The first part of Server::start: the port may be in use.
Listen ==
  /\ \/ MainGoes("listen", "loop") /\ m_running' = TRUE
     \/ MainGoes("listen", "finish") /\ UNCHANGED m_running
  /\ UNCHANGED <<wdVars, lifecycle, new_state, broadcast, s_lockdown_state,
                 server_finished, outside>>

\* poll fails and start returns, with m_running as it is.
PollFails ==
  /\ MainGoes("loop", "finish")
  /\ UNCHANGED <<wdVars, lifecycle, new_state, broadcast, s_lockdown_state,
                 m_running, server_finished, outside>>

\* Faulty: joins without telling the broadcast thread.
FinishSilently ==
  /\ MainGoes("finish", "join")
  /\ UNCHANGED <<wdVars, lifecycle, new_state, broadcast, s_lockdown_state,
                 m_running, server_finished, outside>>

Finish ==
  /\ MainGoes("finish", "join")
  /\ server_finished' = TRUE
  /\ UNCHANGED <<wdVars, lifecycle, new_state, broadcast, s_lockdown_state,
                 m_running, outside>>

Join ==
  /\ broadcast = "done" /\ MainGoes("join", "exit")
  /\ UNCHANGED <<wdVars, lifecycle, new_state, broadcast, s_lockdown_state,
                 m_running, server_finished, outside>>

\* The threads of a process end with it.
End ==
  /\ server = "running" /\ Die
  /\ main' = "dead" /\ lifecycle' = "off" /\ broadcast' = "off"
  /\ UNCHANGED <<new_state, s_lockdown_state, m_running, server_finished, outside>>

\* Return from main: s_worker is joinable, so its destructor aborts the process.
Exit == main = "exit" /\ End

\* A signal, or an exception that nothing catches.
Kill == End

-----------------------------------------------------------------------------
(* LifecycleManager::backgroundTask *)

LifecycleGoes(from, to) == server = "running" /\ lifecycle = from /\ lifecycle' = to

\* After 5 s of sleep.  fetchVulnerabilityStatus has no timeout; a service that
\* is restarted closes the connections of the one that hung.
Fetch ==
  /\ service # "hung"
  /\ IF service = "down" THEN LifecycleGoes("sleep", "sleep") /\ UNCHANGED new_state
     ELSE LifecycleGoes("sleep", "compare") /\ new_state' = StateOf(service)
  /\ UNCHANGED <<wdVars, main, broadcast, s_lockdown_state, m_running,
                 server_finished, outside>>

\* Faulty: no way back to NONE.
CompareKeeps ==
  /\ LifecycleGoes("compare", IF new_state \in {s_lockdown_state, "NONE"} THEN "sleep"
                              ELSE "store")
  /\ UNCHANGED <<wdVars, main, new_state, broadcast, s_lockdown_state, m_running,
                 server_finished, outside>>

\* if (new_state != s_lockdown_state.load())
Compare ==
  /\ LifecycleGoes("compare", IF new_state = s_lockdown_state THEN "sleep" ELSE "store")
  /\ UNCHANGED <<wdVars, main, new_state, broadcast, s_lockdown_state, m_running,
                 server_finished, outside>>

Store ==
  /\ LifecycleGoes("store", IF new_state = "NONE" THEN "sleep" ELSE "log")
  /\ s_lockdown_state' = new_state
  /\ UNCHANGED <<wdVars, main, new_state, broadcast, m_running, server_finished,
                 outside>>

LogState ==
  /\ LifecycleGoes("log", "sleep") /\ Log
  /\ UNCHANGED <<main, new_state, broadcast, s_lockdown_state, m_running,
                 server_finished, outside>>

-----------------------------------------------------------------------------
(* The broadcast thread and HealthMonitor::checkHealth *)

BroadcastGoes(from, to) == server = "running" /\ broadcast = from /\ broadcast' = to

\* The conditions of its two loops, between the sleeps of 50 ms and of 2 s.
Await ==
  /\ m_running \/ server_finished
  /\ BroadcastGoes("wait", "round")
  /\ UNCHANGED <<wdVars, main, lifecycle, new_state, s_lockdown_state, m_running,
                 server_finished, outside>>

Round ==
  /\ BroadcastGoes("round", IF m_running /\ ~ server_finished THEN "health" ELSE "done")
  /\ UNCHANGED <<wdVars, main, lifecycle, new_state, s_lockdown_state, m_running,
                 server_finished, outside>>

\* Faulty: leaves a lockdown that there is as it is.
HealthOnce ==
  /\ BroadcastGoes("health", IF disk = "low" /\ s_lockdown_state = "NONE" THEN "trigger"
                             ELSE IF disk = "unreadable" THEN "log" ELSE "round")
  /\ UNCHANGED <<wdVars, main, lifecycle, new_state, s_lockdown_state, m_running,
                 server_finished, outside>>

\* The space on the disk; an exception is caught and logged.
Health ==
  /\ BroadcastGoes("health", IF disk = "low" THEN "trigger"
                             ELSE IF disk = "unreadable" THEN "log" ELSE "round")
  /\ UNCHANGED <<wdVars, main, lifecycle, new_state, s_lockdown_state, m_running,
                 server_finished, outside>>

\* triggerLockdown(IMMEDIATE), which logs, as does the health check after it.
Trigger ==
  /\ BroadcastGoes("trigger", "log_trigger")
  /\ s_lockdown_state' = "IMMEDIATE"
  /\ UNCHANGED <<wdVars, main, lifecycle, new_state, m_running, server_finished,
                 outside>>

LogHealth ==
  /\ BroadcastGoes("log_trigger", "log") \/ BroadcastGoes("log", "round")
  /\ Log
  /\ UNCHANGED <<main, lifecycle, new_state, s_lockdown_state, m_running,
                 server_finished, outside>>

-----------------------------------------------------------------------------

ServiceChanges ==
  /\ service' \in Services
  /\ UNCHANGED <<wdVars, threadVars, disk>>

DiskChanges ==
  /\ disk' \in Disks
  /\ UNCHANGED <<wdVars, threadVars, service>>

MainStep ==
  \/ InitMonitor \/ StartLifecycle \/ ShellReturns \/ StartBroadcast \/ Listen
  \/ Finish \/ Join \/ Exit
LifecycleStep == Fetch \/ Compare \/ Store \/ LogState
BroadcastStep == Await \/ Round \/ Health \/ Trigger \/ LogHealth
WatchdogProcess == WatchdogStep /\ UNCHANGED <<threadVars, outside>>

Next ==
  \/ MainStep \/ PollFails \/ Kill
  \/ LifecycleStep \/ BroadcastStep \/ WatchdogProcess
  \/ Reap /\ UNCHANGED <<threadVars, outside>>
  \/ ServiceChanges \/ DiskChanges

\* Every thread runs on; one that waits for room in the pipe gets it when there
\* is some again and again, as the kernel wakes writers in turn.
Fairness ==
  /\ SF_vars(MainStep) /\ SF_vars(LifecycleStep) /\ SF_vars(BroadcastStep)
  /\ WF_vars(WatchdogProcess)

Spec == Init /\ [][Next]_vars
FairSpec == Spec /\ Fairness

-----------------------------------------------------------------------------
(* Properties *)

TypeOK ==
  /\ WdTypeOK
  /\ main \in {"init", "start", "shell", "listen", "loop", "finish", "join",
               "exit", "dead"}
  /\ lifecycle \in {"off", "sleep", "compare", "store", "log"}
  /\ broadcast \in {"off", "wait", "round", "health", "trigger", "log_trigger", "log", "done"}
  /\ {s_lockdown_state, new_state} \subseteq {"NONE", "CLOSE", "IMMEDIATE"}
  /\ m_running \in BOOLEAN /\ server_finished \in BOOLEAN
  /\ service \in Services /\ disk \in Disks

\* The locals of main that the broadcast thread refers to outlive it, whichever
\* way main leaves (main, broadcast_thread.join); and the thread exists only
\* while main waits for it or serves.
BroadcastOutlived ==
  /\ main \in {"init", "start", "shell", "exit", "dead"} => broadcast \in {"off", "done"}
  /\ main = "join" => server_finished

\* The lockdown state follows the service, also back to NONE and also after the
\* health check has written it in between: with the service's answer and enough
\* space on the disk settled, the state settles on that answer (backgroundTask,
\* triggerLockdown).
StatusReached ==
  \A a \in Answers :
     <>[](service = a /\ disk = "ok" /\ server = "running" /\ lifecycle # "off")
       => <>[](s_lockdown_state = StateOf(a))

\* While the disk is low the health check puts IMMEDIATE back whatever the
\* service says (checkHealth); between its rounds a SAFE or CLOSE may undo it.
LowDiskLocksDown ==
  <>[](disk = "low" /\ server = "running" /\ m_running /\ ~ server_finished)
    => []<>(s_lockdown_state = "IMMEDIATE")

\* Once start has returned the process ends: the broadcast thread notices, also
\* when it never saw the server running or m_running stays set (main).
ShutdownCompletes == (main = "finish") ~> (main = "dead")
=============================================================================
