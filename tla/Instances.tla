----------------------------- MODULE Instances -----------------------------
(***************************************************************************)
(* testsuite/TestFramework: a test program starts servers as child         *)
(* processes, asks for their status, stops and kills them.  The framework  *)
(* has one thread; between two of its system calls a child may end, and    *)
(* the kernel may give a pid that is free to any other process.            *)
(*                                                                         *)
(* The calls createInstance, getExitCode (getStatus), waitForInstance,     *)
(* stopInstance, killInstance, cleanup and runtime are one action per      *)
(* system call.                                                            *)
(***************************************************************************)
EXTENDS Integers, FiniteSets

CONSTANTS Ids,        \* tracker ids
          Pids,
          ExitCodes,  \* statuses with which a child may exit
          MaxTries,   \* polls of stopInstance (20) and of waitForInstance
          None, Stranger

ASSUME InstancesAssumption ==
  /\ None \notin Ids \cup Pids /\ Stranger \notin Ids \cup {None}
  /\ ExitCodes \subseteq Nat
  /\ MaxTries \in Nat \ {0}

VARIABLES
  \* the kernel
  owner,   \* [Pids -> Ids \cup {Stranger, None}]: whose process, None: no process
  state,   \* [Pids -> {"alive", "zombie"}]
  signal,  \* [Pids -> {0, 9, 15}]: the signal sent to the process
  ended,   \* [Ids -> Codes \cup {None}]: how the process of an instance ended
  \* the framework
  m_instances,
  op,      \* what the thread does next
  caller,  \* the call it does it for
  id,
  tries,
  toClean, \* instances cleanup has still to visit
  result   \* what getExitCode or runtime returned last

kernel == <<owner, state, signal, ended>>
call == <<op, caller, id, tries>>
vars == <<kernel, m_instances, call, toClean, result>>

SIGKILL == 9
SIGTERM == 15
Codes == ExitCodes \cup {-SIGKILL, -SIGTERM}

NoResult == [call |-> "none", id |-> None, code |-> -1]

Init ==
  /\ owner = [p \in Pids |-> None]
  /\ state = [p \in Pids |-> "alive"]
  /\ signal = [p \in Pids |-> 0]
  /\ ended = [i \in Ids |-> None]
  /\ m_instances = << >>
  /\ op = "idle" /\ caller = "user" /\ id = None /\ tries = 0
  /\ toClean = {}
  /\ result = NoResult

-----------------------------------------------------------------------------
(* The kernel *)

Pid(i) == m_instances[i].pid

Child(p) == owner[p] \in Ids
Zombie(p) == Child(p) /\ state[p] = "zombie"

\* The kernel does not know of pids that are still in m_instances.
MayGet(p) == owner[p] = None

\* A child exits, or a signal ends it.
End(p) ==
  /\ Child(p) /\ state[p] = "alive"
  /\ \E code \in ExitCodes \cup (IF signal[p] = 0 THEN {} ELSE {-signal[p]}) :
        ended' = [ended EXCEPT ![owner[p]] = code]
  /\ state' = [state EXCEPT ![p] = "zombie"]
  /\ UNCHANGED <<owner, signal, m_instances, call, toClean, result>>

StrangerStarts(p) ==
  /\ MayGet(p)
  /\ owner' = [owner EXCEPT ![p] = Stranger]
  /\ UNCHANGED <<state, signal, ended, m_instances, call, toClean, result>>

StrangerEnds(p) ==
  /\ owner[p] = Stranger
  /\ owner' = [owner EXCEPT ![p] = None]
  /\ signal' = [signal EXCEPT ![p] = 0]
  /\ UNCHANGED <<state, ended, m_instances, call, toClean, result>>

\* What waitpid does to the process table if it returns the pid.
Reap(p) ==
  /\ owner' = [owner EXCEPT ![p] = None]
  /\ state' = [state EXCEPT ![p] = "alive"]
  /\ signal' = [signal EXCEPT ![p] = 0]
  /\ UNCHANGED ended

\* kill; a process that is not there is ESRCH.
Kill(p, sig) ==
  signal' = [signal EXCEPT ![p] = IF owner[p] = None \/ @ = SIGKILL THEN @ ELSE sig]

-----------------------------------------------------------------------------
(* The framework *)

SetStatus(i, status) == m_instances' = [m_instances EXCEPT ![i].status = status]

Begin(next, i, who) ==
  /\ op = "idle"
  /\ op' = next /\ id' = i /\ caller' = who /\ tries' = 0
  /\ result' = NoResult

\* The call of one instance is over: cleanup goes on, runtime has code as
\* its result, the test gets the control.
Return(code) ==
  /\ op' = IF caller = "cleanup" THEN "cleanup" ELSE "idle"
  /\ caller' = IF caller = "cleanup" THEN caller ELSE "user"
  /\ result' = IF caller # "runtime" THEN NoResult
               ELSE [call |-> IF op = "reap" THEN "timeout" ELSE "runtime",
                     id |-> id, code |-> code]
  /\ UNCHANGED id /\ tries' = 0

Goto(next) == op' = next /\ tries' = 0 /\ UNCHANGED <<id, caller, result>>

\* The part of getStatus that changes state: waitpid with WNOHANG.
Observe(i) ==
  IF Pid(i) = None THEN UNCHANGED <<kernel, m_instances>>
  ELSE IF Zombie(Pid(i)) THEN Reap(Pid(i)) /\ SetStatus(i, "stopped")
  ELSE /\ IF Child(Pid(i)) THEN UNCHANGED m_instances ELSE SetStatus(i, "stopped")
       /\ UNCHANGED kernel

\* status.exit_code
ExitCode(i) == IF Pid(i) # None /\ Zombie(Pid(i)) THEN ended[owner[Pid(i)]] ELSE -1

Create(i, who) ==
  /\ i \notin DOMAIN m_instances /\ ended[i] = None
  /\ Begin("fork", i, who)
  /\ m_instances' = [j \in DOMAIN m_instances \cup {i} |->
                       IF j = i THEN [pid |-> None, status |-> "starting"] ELSE m_instances[j]]
  /\ UNCHANGED <<kernel, toClean>>

\* No log file, no binary, no process.
StartFails ==
  /\ op = "fork"
  /\ SetStatus(id, "error")
  /\ op' = "idle" /\ caller' = "user" /\ UNCHANGED <<id, tries, result>>
  /\ UNCHANGED <<kernel, toClean>>

Fork(p) ==
  /\ op = "fork" /\ MayGet(p)
  /\ owner' = [owner EXCEPT ![p] = id]
  /\ m_instances' = [m_instances EXCEPT ![id] = [pid |-> p, status |-> "running"]]
  /\ IF caller = "runtime" THEN Goto("wait") ELSE Return(-1)
  /\ UNCHANGED <<state, signal, ended, toClean>>

\* getExitCode and isRunning of a test.
GetExitCode(i) ==
  /\ op = "idle"
  /\ result' = [call |-> "getExitCode", id |-> i, code |-> ExitCode(i)]
  /\ Observe(i)
  /\ UNCHANGED <<call, toClean>>

WaitForInstance(i) == Begin("wait", i, "user") /\ UNCHANGED <<kernel, m_instances, toClean>>

\* Faulty: runtime gives up with stopInstance.
WaitPollStops(elapsed) ==
  /\ op = "wait"
  /\ tries = MaxTries => elapsed
  /\ Observe(id)
  /\ UNCHANGED toClean
  /\ \/ /\ m_instances'[id].status # "running"
        /\ IF caller = "runtime" THEN Goto("exit_code") ELSE Return(-1)
     \/ /\ m_instances'[id].status = "running"
        /\ IF ~ elapsed THEN tries' = tries + 1 /\ UNCHANGED <<op, id, caller, result>>
           ELSE IF caller = "runtime" THEN Goto("stop") ELSE Return(-1)

\* One isRunning of waitForInstance; a test's own wait is over either way.
WaitPoll(elapsed) ==
  /\ op = "wait"
  /\ tries = MaxTries => elapsed
  /\ Observe(id)
  /\ UNCHANGED toClean
  /\ \/ /\ m_instances'[id].status # "running"
        /\ IF caller = "runtime" THEN Goto("exit_code") ELSE Return(-1)
     \/ /\ m_instances'[id].status = "running"
        /\ IF ~ elapsed THEN tries' = tries + 1 /\ UNCHANGED <<op, id, caller, result>>
           ELSE IF caller = "runtime" THEN Goto("kill") ELSE Return(-1)

\* getExitCode in runtime.
RuntimeExitCode ==
  /\ op = "exit_code"
  /\ result' = [call |-> "runtime", id |-> id, code |-> ExitCode(id)]
  /\ op' = "stop"
  /\ Observe(id)
  /\ UNCHANGED <<caller, id, tries, toClean>>

StopInstance(i) ==
  /\ Pid(i) # None
  /\ Begin("stop", i, "user")
  /\ UNCHANGED <<kernel, m_instances, toClean>>

Stop ==
  /\ op = "stop"
  /\ IF Zombie(Pid(id)) THEN Reap(Pid(id)) /\ SetStatus(id, "stopped") /\ Return(result.code)
     ELSE Goto("term") /\ UNCHANGED <<kernel, m_instances>>
  /\ UNCHANGED toClean

\* Faulty: takes a process for stopped that has got the signal.
TermAndForget ==
  /\ op = "term"
  /\ Kill(Pid(id), SIGTERM)
  /\ SetStatus(id, "stopped") /\ Return(result.code)
  /\ UNCHANGED <<owner, state, ended, toClean>>

\* A stranger's process may be out of reach (EPERM): stopInstance gives up.
Term ==
  /\ op = "term"
  /\ \/ /\ Kill(Pid(id), SIGTERM)
        /\ IF owner[Pid(id)] = None THEN SetStatus(id, "stopped") /\ Return(result.code)
           ELSE Goto("poll") /\ UNCHANGED m_instances
     \/ /\ owner[Pid(id)] = Stranger
        /\ Return(result.code) /\ UNCHANGED <<signal, m_instances>>
  /\ UNCHANGED <<owner, state, ended, toClean>>

StopPoll ==
  /\ op = "poll"
  /\ IF tries = MaxTries THEN Return(result.code) /\ UNCHANGED <<kernel, m_instances>>
     ELSE /\ Observe(id)
          /\ IF m_instances'[id].status = "stopped" THEN Return(result.code)
             ELSE tries' = tries + 1 /\ UNCHANGED <<op, id, caller, result>>
  /\ UNCHANGED toClean

KillInstance(i) ==
  /\ Pid(i) # None
  /\ Begin("kill", i, "user")
  /\ UNCHANGED <<kernel, m_instances, toClean>>

\* Faulty: the wrong signal.
SendTerm ==
  /\ op = "kill"
  /\ Kill(Pid(id), SIGTERM)
  /\ Goto("reap")
  /\ UNCHANGED <<owner, state, ended, m_instances, toClean>>

SendKill ==
  /\ op = "kill"
  /\ Kill(Pid(id), SIGKILL)
  /\ Goto("reap")
  /\ UNCHANGED <<owner, state, ended, m_instances, toClean>>

\* waitpid without WNOHANG: blocks while the child lives.
KillReap ==
  /\ op = "reap"
  /\ IF Child(Pid(id)) THEN Zombie(Pid(id)) /\ Reap(Pid(id)) ELSE UNCHANGED kernel
  /\ SetStatus(id, "stopped")
  /\ Return(-1)
  /\ UNCHANGED toClean

\* cleanup, also called by the destructor.
Cleanup ==
  /\ Begin("cleanup", None, "cleanup")
  /\ toClean' = DOMAIN m_instances
  /\ UNCHANGED <<kernel, m_instances>>

\* Faulty: stops the instances gracefully.
CleanupByStop(i) ==
  /\ op = "cleanup" /\ i \in toClean
  /\ toClean' = toClean \ {i}
  /\ Observe(i)
  /\ IF m_instances'[i].status = "running"
     THEN op' = "stop" /\ id' = i /\ UNCHANGED <<caller, tries, result>>
     ELSE UNCHANGED <<call, result>>

CleanupNext(i) ==
  /\ op = "cleanup" /\ i \in toClean
  /\ toClean' = toClean \ {i}
  /\ Observe(i)
  /\ IF m_instances'[i].status = "running"
     THEN op' = "kill" /\ id' = i /\ UNCHANGED <<caller, tries, result>>
     ELSE UNCHANGED <<call, result>>

CleanupDone ==
  /\ op = "cleanup" /\ toClean = {}
  /\ m_instances' = << >>
  /\ op' = "idle" /\ caller' = "user" /\ id' = None
  /\ UNCHANGED <<kernel, tries, toClean, result>>

-----------------------------------------------------------------------------

\* A call that has begun.
Framework ==
  \/ StartFails \/ \E p \in Pids : Fork(p)
  \/ \E elapsed \in BOOLEAN : WaitPoll(elapsed)
  \/ RuntimeExitCode \/ Stop \/ Term \/ StopPoll \/ SendKill \/ KillReap
  \/ (\E i \in toClean : CleanupNext(i)) \/ CleanupDone

Test ==
  \/ \E i \in Ids, who \in {"user", "runtime"} : Create(i, who)
  \/ \E i \in DOMAIN m_instances :
        GetExitCode(i) \/ WaitForInstance(i) \/ StopInstance(i) \/ KillInstance(i)
  \/ Cleanup

Kernel == \E p \in Pids : End(p) \/ StrangerStarts(p) \/ StrangerEnds(p)

Next == Framework \/ Test \/ Kernel

\* The thread goes on, and a process that got SIGKILL ends.
Fairness ==
  /\ WF_vars(Framework)
  /\ \A p \in Pids : WF_vars(signal[p] = SIGKILL /\ End(p))

Spec == Init /\ [][Next]_vars
FairSpec == Spec /\ Fairness

-----------------------------------------------------------------------------
(* Properties *)

TypeOK ==
  /\ owner \in [Pids -> Ids \cup {Stranger, None}]
  /\ state \in [Pids -> {"alive", "zombie"}]
  /\ signal \in [Pids -> {0, SIGKILL, SIGTERM}]
  /\ ended \in [Ids -> Codes \cup {None}]
  /\ DOMAIN m_instances \subseteq Ids
  /\ \A i \in DOMAIN m_instances :
        m_instances[i] \in [pid : Pids \cup {None},
                            status : {"starting", "running", "stopped", "error"}]
  /\ op \in {"idle", "fork", "wait", "exit_code", "stop", "term", "poll", "kill", "reap",
             "cleanup"}
  /\ caller \in {"user", "runtime", "cleanup"}
  /\ id \in Ids \cup {None}
  /\ tries \in 0 .. MaxTries
  /\ toClean \subseteq DOMAIN m_instances
  /\ result \in [call : {"none", "getExitCode", "runtime", "timeout"},
                 id : Ids \cup {None}, code : Codes \cup {-1}]

\* No instance is "stopped" while its process lives or waits to be reaped,
\* even when pids are given out again.
StoppedIsGone ==
  \A i \in DOMAIN m_instances : m_instances[i].status = "stopped" => \A p \in Pids : owner[p] # i

\* Every child is in the table, so after cleanup, which empties the table,
\* there are none.
ChildrenTracked == \A p \in Pids : owner[p] \in Ids => owner[p] \in DOMAIN m_instances

\* Whatever happens to the server, runtime leaves no process of it behind.
RuntimeLeavesNone ==
  op = "idle" /\ result.call \in {"runtime", "timeout"} => \A p \in Pids : owner[p] # result.id

\* Every call returns; killInstance and cleanup do not wait for a child that
\* ignores them.
CallsReturn == op # "idle" ~> op = "idle"
=============================================================================
