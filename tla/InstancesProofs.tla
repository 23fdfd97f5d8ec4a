-------------------------- MODULE InstancesProofs --------------------------
(***************************************************************************)
(* Instances for every set of tracker ids, pids and exit codes and every   *)
(* number of polls.  All four safety properties follow from one fact about *)
(* the table: a living or unreaped child is the one its instance has the   *)
(* pid of, and that instance is "running" - although pids are given out    *)
(* again while old instances still have them.                              *)
(***************************************************************************)
EXTENDS Instances, TLAPS

Statuses == {"starting", "running", "stopped", "error"}
Entries == [pid : Pids \cup {None}, status : Statuses]

\* A child is where its instance says, and its instance says it runs.
Owned ==
  \A p \in Pids : owner[p] \in Ids =>
     /\ owner[p] \in DOMAIN m_instances
     /\ m_instances[owner[p]].pid = p
     /\ m_instances[owner[p]].status = "running"

\* The kernel and the table.
TableInv ==
  /\ owner \in [Pids -> Ids \cup {Stranger, None}]
  /\ state \in [Pids -> {"alive", "zombie"}]
  /\ signal \in [Pids -> {0, SIGKILL, SIGTERM}]
  /\ ended \in [Ids -> Codes \cup {None}]
  /\ DOMAIN m_instances \subseteq Ids
  /\ \A i \in DOMAIN m_instances : m_instances[i] \in Entries
  /\ \A p \in Pids : state[p] = "zombie" => owner[p] \in Ids /\ ended[owner[p]] \in Codes
  /\ \A i \in DOMAIN m_instances :
        m_instances[i].status = "running" => m_instances[i].pid \in Pids
  /\ Owned

\* The call under way: its instance is in the table, and has a pid wherever the
\* next step needs one.
CallInv ==
  /\ op \in {"idle", "fork", "wait", "exit_code", "stop", "term", "poll", "kill", "reap",
             "cleanup"}
  /\ caller \in {"user", "runtime", "cleanup"}
  /\ id \in Ids \cup {None}
  /\ tries \in 0 .. MaxTries
  /\ toClean \subseteq DOMAIN m_instances
  /\ result \in [call : {"none", "getExitCode", "runtime", "timeout"},
                 id : Ids \cup {None}, code : Codes \cup {-1}]
  /\ result.call \in {"runtime", "timeout"} => result.id \in Ids
  /\ op \notin {"idle", "cleanup"} => id \in DOMAIN m_instances
  /\ op = "fork" => /\ m_instances[id].pid = None /\ caller # "cleanup"
                    /\ result.call = "none"
  /\ op \in {"exit_code", "stop", "term", "poll", "kill", "reap"}
        \/ (op = "wait" /\ caller = "runtime") => m_instances[id].pid \in Pids
  /\ caller = "runtime" /\ op \in {"exit_code", "stop", "term", "poll"} =>
        m_instances[id].status # "running"
  /\ op = "cleanup" => caller = "cleanup"
  /\ caller = "cleanup" => op \in {"cleanup", "kill", "reap"}
  /\ caller = "cleanup" =>
        /\ result.call = "none"
        /\ \A i \in DOMAIN m_instances \ toClean :
              m_instances[i].status = "running" => op # "cleanup" /\ i = id
  /\ op = "idle" => caller = "user"

IInv == TableInv /\ CallInv /\ RuntimeLeavesNone

\* The table after a step that starts nothing: the same instances with the same
\* pids, and what was not running is not running.
Ages ==
  /\ DOMAIN m_instances' = DOMAIN m_instances
  /\ \A i \in DOMAIN m_instances :
        /\ m_instances'[i].pid = m_instances[i].pid
        /\ m_instances'[i].status = "running" => m_instances[i].status = "running"

\* Nothing becomes a child.
NoBirth == \A p \in Pids : owner'[p] \in Ids => owner'[p] = owner[p]

-----------------------------------------------------------------------------

LEMMA Names ==
  /\ None \notin Ids /\ None \notin Pids /\ Stranger \notin Ids /\ Stranger # None
  /\ -1 \in Codes \cup {-1}
  BY InstancesAssumption

\* A change of the status of one entry.
LEMMA StatusChange ==
  ASSUME TableInv, NEW i \in DOMAIN m_instances, NEW s \in {"stopped", "error"},
         SetStatus(i, s)
  PROVE  /\ Ages /\ m_instances'[i].status = s
         /\ \A j \in DOMAIN m_instances : m_instances'[j] \in Entries
         /\ \A j \in DOMAIN m_instances \ {i} : m_instances'[j] = m_instances[j]
  BY SMTT(30) DEF TableInv, SetStatus, Ages, Entries, Statuses

\* The entry of an instance whose process is gone may be marked as such.
LEMMA MarkGone ==
  ASSUME TableInv, NEW i \in DOMAIN m_instances, NEW s \in {"stopped", "error"},
         SetStatus(i, s), UNCHANGED <<owner, state, ended>>,
         signal' \in [Pids -> {0, SIGKILL, SIGTERM}],
         m_instances[i].pid # None => owner[m_instances[i].pid] # i
  PROVE  TableInv' /\ Ages /\ NoBirth /\ m_instances'[i].status = s
<1>1. /\ Ages /\ m_instances'[i].status = s
      /\ \A j \in DOMAIN m_instances : m_instances'[j] \in Entries
      /\ \A j \in DOMAIN m_instances \ {i} : m_instances'[j] = m_instances[j]
  BY StatusChange
<1>2. UNCHANGED <<owner, state, ended>>
  OBVIOUS
<1>3. Owned'
  BY <1>1, <1>2, Names DEF TableInv, Owned, Ages
<1>4. NoBirth
  BY <1>2 DEF NoBirth
<1>5. QED
  BY <1>1, <1>2, <1>3, <1>4 DEF TableInv, Ages

\* waitpid of a child, whosever it is, with its instance or the owner of a stale
\* pid marked as stopped.
LEMMA ReapAndMark ==
  ASSUME TableInv, NEW i \in DOMAIN m_instances, m_instances[i].pid \in Pids,
         Reap(m_instances[i].pid), SetStatus(i, "stopped")
  PROVE  TableInv' /\ Ages /\ NoBirth /\ m_instances'[i].status = "stopped"
<1> DEFINE p == m_instances[i].pid
<1>1. /\ Ages /\ m_instances'[i].status = "stopped"
      /\ \A j \in DOMAIN m_instances : m_instances'[j] \in Entries
      /\ \A j \in DOMAIN m_instances \ {i} : m_instances'[j] = m_instances[j]
  BY StatusChange
<1>2. /\ owner' = [owner EXCEPT ![p] = None]
      /\ state' = [state EXCEPT ![p] = "alive"]
      /\ signal' = [signal EXCEPT ![p] = 0]
      /\ ended' = ended
  BY DEF Reap
<1>3. /\ owner' \in [Pids -> Ids \cup {Stranger, None}]
      /\ state' \in [Pids -> {"alive", "zombie"}]
      /\ signal' \in [Pids -> {0, SIGKILL, SIGTERM}]
  BY <1>2 DEF TableInv
<1>4. NoBirth
  BY <1>2, Names DEF NoBirth, TableInv
<1>5. Owned'
  BY <1>1, <1>2, Names DEF TableInv, Owned, Ages
<1>6. \A q \in Pids : state'[q] = "zombie" => owner'[q] \in Ids /\ ended'[owner'[q]] \in Codes
  BY <1>2 DEF TableInv
<1>7. QED
  BY <1>1, <1>2, <1>3, <1>4, <1>5, <1>6 DEF TableInv, Ages

\* getStatus of any instance.
LEMMA ObserveTable ==
  ASSUME TableInv, NEW i \in DOMAIN m_instances, Observe(i)
  PROVE  TableInv' /\ Ages /\ NoBirth
<1>1. CASE UNCHANGED <<kernel, m_instances>>
  BY <1>1 DEF kernel, TableInv, Owned, Ages, NoBirth
<1>2. CASE /\ Pid(i) # None /\ Zombie(Pid(i))
           /\ Reap(Pid(i)) /\ SetStatus(i, "stopped")
  <2>1. m_instances[i].pid \in Pids
    BY <1>2 DEF TableInv, Pid, Entries
  <2>2. QED
    BY <1>2, <2>1, ReapAndMark DEF Pid
<1>3. CASE Pid(i) # None /\ ~ Child(Pid(i)) /\ SetStatus(i, "stopped") /\ UNCHANGED kernel
  <2>1. owner[m_instances[i].pid] # i
    BY <1>3 DEF Child, Pid, TableInv
  <2>2. UNCHANGED <<owner, state, ended>> /\ signal' \in [Pids -> {0, SIGKILL, SIGTERM}]
    BY <1>3 DEF kernel, TableInv
  <2>3. QED
    BY <1>3, <2>1, <2>2, MarkGone
<1>4. QED
  BY <1>1, <1>2, <1>3 DEF Observe

\* What getExitCode returns is a code.
LEMMA ExitCodeType ==
  ASSUME TableInv, NEW i \in DOMAIN m_instances
  PROVE  ExitCode(i) \in Codes \cup {-1}
  BY DEF TableInv, ExitCode, Pid, Zombie, Child, Entries

\* No process of an instance that is not running.
LEMMA NotRunning ==
  ASSUME TableInv, NEW i, i \in DOMAIN m_instances => m_instances[i].status # "running",
         i \in Ids
  PROVE  \A p \in Pids : owner[p] # i
  BY DEF TableInv, Owned

\* The end of a call: what cleanup and runtime have dealt with runs no more.
LEMMA ReturnCall ==
  ASSUME CallInv, TableInv', Ages, UNCHANGED toClean, op \notin {"idle", "cleanup", "fork"},
         NEW code \in Codes \cup {-1}, Return(code),
         caller # "user" => m_instances'[id].status # "running"
  PROVE  CallInv' /\ RuntimeLeavesNone'
<1>1. id \in DOMAIN m_instances /\ id \in Ids \cup {None} /\ id \in DOMAIN m_instances'
  BY DEF CallInv, Ages
<1>2. id \in Ids
  BY <1>1 DEF TableInv
<1>3. id' = id /\ tries' = 0 /\ tries' \in 0 .. MaxTries
  BY InstancesAssumption DEF Return
<1>4. result' \in [call : {"none", "getExitCode", "runtime", "timeout"},
                   id : Ids \cup {None}, code : Codes \cup {-1}]
  BY <1>1, Names DEF Return, NoResult
<1>5. CASE caller = "cleanup"
  <2>1. op' = "cleanup" /\ caller' = "cleanup" /\ result' = NoResult
    BY <1>5 DEF Return
  <2>2. \A i \in DOMAIN m_instances' \ toClean' : m_instances'[i].status # "running"
    BY <1>5 DEF CallInv, Ages
  <2>3. CallInv'
    BY <1>1, <1>3, <1>4, <2>1, <2>2 DEF CallInv, Ages, NoResult
  <2>4. QED
    BY <2>1, <2>3 DEF RuntimeLeavesNone
<1>6. CASE caller # "cleanup"
  <2>1. op' = "idle" /\ caller' = "user"
    BY <1>6 DEF Return
  <2>3. result'.call \in {"runtime", "timeout"} => caller = "runtime" /\ result'.id = id
    BY DEF Return, NoResult
  <2>2. CallInv'
    BY <1>1, <1>2, <1>3, <1>4, <2>1, <2>3 DEF CallInv, Ages
  <2>4. caller = "runtime" => \A p \in Pids : owner'[p] # id
    BY <1>1, <1>2 DEF TableInv, Owned
  <2>5. QED
    BY <2>2, <2>3, <2>4 DEF RuntimeLeavesNone
<1>7. QED
  BY <1>5, <1>6

\* A step that leaves the call as it is, and starts nothing.
LEMMA SameCall ==
  ASSUME CallInv, RuntimeLeavesNone, TableInv', Ages, NoBirth, UNCHANGED <<call, toClean, result>>
  PROVE  CallInv' /\ RuntimeLeavesNone'
<1>1. UNCHANGED <<op, caller, id, tries, toClean, result>>
  BY DEF call
<1>2. CallInv'
  BY <1>1, SMTT(30) DEF CallInv, Ages
<1>3. RuntimeLeavesNone'
  <2> SUFFICES ASSUME op = "idle", result.call \in {"runtime", "timeout"}, NEW p \in Pids
               PROVE  owner'[p] # result.id
    BY <1>1 DEF RuntimeLeavesNone
  <2>1. owner[p] # result.id
    BY DEF RuntimeLeavesNone
  <2>2. CASE owner'[p] \in Ids
    BY <2>1, <2>2 DEF NoBirth
  <2>3. CASE owner'[p] \notin Ids /\ result.id \in Ids
    BY <2>3
  <2>4. QED
    BY <2>2, <2>3 DEF CallInv
<1>4. QED
  BY <1>2, <1>3

-----------------------------------------------------------------------------
(* Steps of the kernel and of the test *)

LEMMA KernelStep ==
  ASSUME IInv, Kernel
  PROVE  IInv'
<1> USE DEF IInv
<1>1. m_instances' = m_instances /\ UNCHANGED <<call, toClean, result>> /\ Ages
  BY DEF Kernel, End, StrangerStarts, StrangerEnds, Ages
<1>2. TableInv' /\ NoBirth
  <2>1. ASSUME NEW p \in Pids, End(p) PROVE TableInv' /\ NoBirth
    <3>1. PICK code \in ExitCodes \cup (IF signal[p] = 0 THEN {} ELSE {-signal[p]}) :
             ended' = [ended EXCEPT ![owner[p]] = code]
      BY <2>1 DEF End
    <3>2. code \in Codes
      BY <3>1 DEF TableInv, Codes, SIGKILL, SIGTERM
    <3>3. /\ owner' = owner /\ signal' = signal /\ m_instances' = m_instances
          /\ state' = [state EXCEPT ![p] = "zombie"] /\ owner[p] \in Ids
      BY <2>1 DEF End, Child
    <3>4. ended' \in [Ids -> Codes \cup {None}]
      BY <3>1, <3>2, <3>3 DEF TableInv
    <3>5. \A q \in Pids : state'[q] = "zombie" => owner'[q] \in Ids /\ ended'[owner'[q]] \in Codes
      BY <3>1, <3>2, <3>3 DEF TableInv
    <3>6. QED
      BY <3>3, <3>4, <3>5 DEF TableInv, Owned, NoBirth
  <2>2. ASSUME NEW p \in Pids, StrangerStarts(p) PROVE TableInv' /\ NoBirth
    BY <2>2, Names DEF StrangerStarts, MayGet, TableInv, Owned, NoBirth
  <2>3. ASSUME NEW p \in Pids, StrangerEnds(p) PROVE TableInv' /\ NoBirth
    BY <2>3, Names DEF StrangerEnds, TableInv, Owned, NoBirth
  <2>4. QED
    BY <2>1, <2>2, <2>3 DEF Kernel
<1>3. QED
  BY <1>1, <1>2, SameCall

LEMMA TestStep ==
  ASSUME IInv, Test
  PROVE  IInv'
<1> USE DEF IInv
<1>0. NoResult \in [call : {"none", "getExitCode", "runtime", "timeout"},
                     id : Ids \cup {None}, code : Codes \cup {-1}]
      /\ NoResult.call = "none" /\ 0 \in 0 .. MaxTries
  BY Names, InstancesAssumption DEF NoResult
<1>1. ASSUME NEW i \in Ids, NEW who \in {"user", "runtime"}, Create(i, who) PROVE IInv'
  <2>1. /\ i \notin DOMAIN m_instances /\ UNCHANGED <<owner, state, signal, ended, toClean>>
        /\ op = "idle" /\ op' = "fork" /\ id' = i /\ caller' = who /\ tries' = 0
        /\ result' = NoResult
        /\ DOMAIN m_instances' = DOMAIN m_instances \cup {i}
        /\ m_instances'[i] = [pid |-> None, status |-> "starting"]
        /\ \A j \in DOMAIN m_instances : m_instances'[j] = m_instances[j]
    BY <1>1 DEF Create, Begin, kernel
  <2>2. TableInv'
    BY <2>1 DEF TableInv, Owned, Entries, Statuses
  <2>3. CallInv'
    BY <1>0, <2>1 DEF CallInv
  <2>4. QED
    BY <2>1, <2>2, <2>3 DEF RuntimeLeavesNone
<1>2. ASSUME NEW i \in DOMAIN m_instances, GetExitCode(i) PROVE IInv'
  <2>1. TableInv' /\ Ages
    BY <1>2, ObserveTable DEF GetExitCode
  <2>2. /\ UNCHANGED <<op, caller, id, tries, toClean>> /\ op = "idle"
        /\ result' = [call |-> "getExitCode", id |-> i, code |-> ExitCode(i)]
    BY <1>2 DEF GetExitCode, call
  <2>3. result' \in [call : {"none", "getExitCode", "runtime", "timeout"},
                     id : Ids \cup {None}, code : Codes \cup {-1}]
    BY <2>2, ExitCodeType DEF TableInv
  <2>4. CallInv'
    BY <2>1, <2>2, <2>3 DEF CallInv, Ages
  <2>5. QED
    BY <2>1, <2>2, <2>4 DEF RuntimeLeavesNone
<1>3. ASSUME NEW i \in DOMAIN m_instances,
             WaitForInstance(i) \/ StopInstance(i) \/ KillInstance(i)
      PROVE  IInv'
  <2>1. /\ UNCHANGED <<owner, state, signal, ended, m_instances, toClean>>
        /\ id' = i /\ caller' = "user" /\ tries' = 0 /\ result' = NoResult
        /\ \/ op' = "wait"
           \/ op' \in {"stop", "kill"} /\ m_instances[i].pid # None
    BY <1>3 DEF WaitForInstance, StopInstance, KillInstance, Begin, kernel, Pid
  <2>2. TableInv'
    BY <2>1 DEF TableInv, Owned
  <2>3. m_instances[i].pid # None => m_instances[i].pid \in Pids
    BY DEF TableInv, Entries
  <2>4. CallInv'
    BY <1>0, <2>1, <2>3 DEF CallInv, TableInv
  <2>5. QED
    BY <2>1, <2>2, <2>4 DEF RuntimeLeavesNone
<1>4. ASSUME Cleanup PROVE IInv'
  <2>1. /\ UNCHANGED <<owner, state, signal, ended, m_instances>> /\ toClean' = DOMAIN m_instances
        /\ op' = "cleanup" /\ id' = None /\ caller' = "cleanup" /\ tries' = 0
        /\ result' = NoResult
    BY <1>4 DEF Cleanup, Begin, kernel
  <2>2. TableInv'
    BY <2>1 DEF TableInv, Owned
  <2>3. CallInv'
    BY <1>0, <2>1 DEF CallInv
  <2>4. QED
    BY <2>1, <2>2, <2>3 DEF RuntimeLeavesNone
<1>5. QED
  BY <1>1, <1>2, <1>3, <1>4 DEF Test

-----------------------------------------------------------------------------
(* Steps of the framework *)

\* A step within a call: the next system call, with the same instance.
LEMMA GotoStep ==
  ASSUME CallInv, TableInv', Ages, UNCHANGED <<toClean, id, caller>>, tries' \in 0 .. MaxTries,
         op \in {"wait", "exit_code", "stop", "term", "poll", "kill", "reap"},
         op' \in {"wait", "exit_code", "stop", "term", "poll", "kill", "reap"},
         op' # "wait" => m_instances[id].pid \in Pids,
         op' = "wait" => op = "wait",
         result' = result \/ /\ result'.call \in {"none", "getExitCode", "runtime", "timeout"}
                             /\ result' \in [call : {"none", "getExitCode", "runtime", "timeout"},
                                             id : Ids \cup {None}, code : Codes \cup {-1}]
                             /\ result'.id = id /\ caller # "cleanup",
         caller = "cleanup" => op' \in {"kill", "reap"},
         caller = "runtime" /\ op' \in {"exit_code", "stop", "term", "poll"} =>
            m_instances'[id].status # "running"
  PROVE  CallInv' /\ RuntimeLeavesNone'
<1>1. id \in DOMAIN m_instances /\ id \in DOMAIN m_instances' /\ id' = id /\ caller' = caller
  BY DEF CallInv, Ages
<1>2. id \in Ids /\ id # None
  BY <1>1, Names DEF TableInv
<1>3. m_instances'[id].pid = m_instances[id].pid
  BY <1>1 DEF Ages
<1>4. result' \in [call : {"none", "getExitCode", "runtime", "timeout"},
                   id : Ids \cup {None}, code : Codes \cup {-1}]
      /\ (result'.call \in {"runtime", "timeout"} => result'.id \in Ids)
  BY <1>2 DEF CallInv
<1>5. op' = "wait" /\ caller' = "runtime" => m_instances'[id'].pid \in Pids
  BY <1>1, <1>3 DEF CallInv
<1>6. caller' = "cleanup" =>
        /\ op' \in {"cleanup", "kill", "reap"}
        /\ result'.call = "none"
        /\ \A i \in DOMAIN m_instances' \ toClean' :
              m_instances'[i].status = "running" => op' # "cleanup" /\ i = id'
  BY <1>1 DEF CallInv, Ages
<1>7. op' \in {"exit_code", "stop", "term", "poll", "kill", "reap"}
         \/ (op' = "wait" /\ caller' = "runtime") => m_instances'[id'].pid \in Pids
  BY <1>1, <1>3, <1>5
<1>8. toClean' \subseteq DOMAIN m_instances'
  BY DEF CallInv, Ages
<1>9. CallInv'
  BY <1>1, <1>2, <1>4, <1>6, <1>7, <1>8 DEF CallInv
<1>10. QED
  BY <1>9 DEF RuntimeLeavesNone

\* Leaving m_instances and the processes alone.
LEMMA SameTable ==
  ASSUME TableInv, UNCHANGED <<owner, state, ended, m_instances>>,
         signal' \in [Pids -> {0, SIGKILL, SIGTERM}]
  PROVE  TableInv' /\ Ages /\ NoBirth
  BY DEF TableInv, Owned, Ages, NoBirth

\* kill only sets a signal.
LEMMA KillType ==
  ASSUME TableInv, NEW p \in Pids, NEW sig \in {SIGKILL, SIGTERM}, Kill(p, sig)
  PROVE  signal' \in [Pids -> {0, SIGKILL, SIGTERM}]
  BY DEF TableInv, Kill

\* An instance that is not "running" stays so.
LEMMA StaysDown ==
  ASSUME Ages, NEW i \in DOMAIN m_instances, m_instances[i].status # "running"
  PROVE  m_instances'[i].status # "running"
  BY DEF Ages

LEMMA ForkSteps ==
  ASSUME IInv, StartFails \/ \E p \in Pids : Fork(p)
  PROVE  IInv'
<1> USE DEF IInv
<1>1. id \in DOMAIN m_instances /\ id \in Ids /\ m_instances[id].pid = None /\ op = "fork"
      /\ result.call = "none" /\ 0 \in 0 .. MaxTries
  BY InstancesAssumption DEF StartFails, Fork, CallInv, TableInv
<1>2. CASE StartFails
  <2>1. SetStatus(id, "error") /\ UNCHANGED kernel
        /\ op' = "idle" /\ caller' = "user" /\ UNCHANGED <<id, tries, result, toClean>>
    BY <1>2 DEF StartFails
  <2>2. TableInv' /\ Ages
    <3>1. UNCHANGED <<owner, state, ended>> /\ signal' \in [Pids -> {0, SIGKILL, SIGTERM}]
      BY <2>1 DEF kernel, TableInv
    <3>2. QED
      BY <1>1, <2>1, <3>1, MarkGone
  <2>3. CallInv'
    BY <1>1, <2>1, <2>2 DEF CallInv, Ages
  <2>4. QED
    BY <1>1, <2>1, <2>2, <2>3 DEF RuntimeLeavesNone
<1>3. ASSUME NEW p \in Pids, Fork(p) PROVE IInv'
  <2>1. /\ owner[p] = None /\ owner' = [owner EXCEPT ![p] = id]
        /\ m_instances' = [m_instances EXCEPT ![id] = [pid |-> p, status |-> "running"]]
        /\ UNCHANGED <<state, signal, ended, toClean>>
    BY <1>3 DEF Fork, MayGet
  <2>2. \A q \in Pids : owner[q] # id
    BY <1>1, Names DEF TableInv, Owned
  <2>3. /\ DOMAIN m_instances' = DOMAIN m_instances
        /\ m_instances'[id] = [pid |-> p, status |-> "running"]
        /\ \A i \in DOMAIN m_instances \ {id} : m_instances'[i] = m_instances[i]
    BY <1>1, <2>1
  <2>4. /\ owner' \in [Pids -> Ids \cup {Stranger, None}]
        /\ owner'[p] = id /\ \A q \in Pids \ {p} : owner'[q] = owner[q]
    BY <1>1, <2>1 DEF TableInv
  <2>5. Owned'
    BY <2>2, <2>3, <2>4, <1>1 DEF TableInv, Owned
  <2>6. \A i \in DOMAIN m_instances' : m_instances'[i] \in Entries
    BY <2>3 DEF TableInv, Entries, Statuses
  <2>7. \A q \in Pids : state'[q] = "zombie" => owner'[q] \in Ids /\ ended'[owner'[q]] \in Codes
    BY <2>1, <2>4, Names DEF TableInv
  <2>8. \A i \in DOMAIN m_instances' :
           m_instances'[i].status = "running" => m_instances'[i].pid \in Pids
    BY <2>3 DEF TableInv
  <2>9. TableInv'
    BY <2>1, <2>3, <2>4, <2>5, <2>6, <2>7, <2>8 DEF TableInv
  <2>10. CASE caller = "runtime"
    <3>1. op' = "wait" /\ tries' = 0 /\ UNCHANGED <<id, caller, result>>
      BY <1>3, <2>10 DEF Fork, Goto
    <3>2. CallInv'
      BY <1>1, <2>1, <2>3, <2>10, <3>1 DEF CallInv
    <3>3. QED
      BY <2>9, <3>1, <3>2 DEF RuntimeLeavesNone
  <2>11. CASE caller # "runtime"
    <3>1. op' = "idle" /\ caller' = "user" /\ tries' = 0 /\ id' = id /\ result' = NoResult
      BY <1>1, <1>3, <2>11 DEF Fork, Return, CallInv
    <3>2. NoResult \in [call : {"none", "getExitCode", "runtime", "timeout"},
                        id : Ids \cup {None}, code : Codes \cup {-1}]
          /\ NoResult.call = "none"
      BY Names DEF NoResult
    <3>3. CallInv'
      BY <1>1, <2>1, <2>3, <3>1, <3>2 DEF CallInv
    <3>4. QED
      BY <2>9, <3>1, <3>2, <3>3 DEF RuntimeLeavesNone
  <2>12. QED
    BY <2>10, <2>11
<1>4. QED
  BY <1>2, <1>3

\* What every step of a call under way starts from.
LEMMA UnderWay ==
  ASSUME IInv, op \in {"wait", "exit_code", "stop", "term", "poll", "kill", "reap"}
  PROVE  /\ id \in DOMAIN m_instances /\ id \in Ids
         /\ op # "wait" \/ caller = "runtime" => m_instances[id].pid \in Pids
         /\ result.code \in Codes \cup {-1} /\ -1 \in Codes \cup {-1}
         /\ caller = "cleanup" => op \in {"kill", "reap"}
         /\ caller \in {"user", "runtime", "cleanup"}
         /\ 0 \in 0 .. MaxTries /\ tries \in 0 .. MaxTries
         /\ tries # MaxTries => tries + 1 \in 0 .. MaxTries
  BY InstancesAssumption DEF IInv, CallInv, TableInv

LEMMA WaitStep ==
  ASSUME IInv, NEW elapsed \in BOOLEAN, WaitPoll(elapsed)
  PROVE  IInv'
<1>1. op = "wait" /\ Observe(id) /\ UNCHANGED toClean
  BY DEF WaitPoll
<1>2. id \in DOMAIN m_instances /\ TableInv' /\ Ages
  BY <1>1, UnderWay, ObserveTable DEF IInv
<1>3. CASE Return(-1) /\ (m_instances'[id].status # "running" \/ caller # "runtime")
  BY <1>1, <1>2, <1>3, UnderWay, ReturnCall DEF IInv
<1>4. CASE caller = "runtime" /\ (\/ Goto("kill")
                                  \/ m_instances'[id].status # "running" /\ Goto("exit_code"))
  BY <1>1, <1>2, <1>4, UnderWay, GotoStep DEF IInv, Goto
<1>5. CASE tries # MaxTries /\ tries' = tries + 1 /\ UNCHANGED <<op, id, caller, result>>
  BY <1>1, <1>2, <1>5, UnderWay, GotoStep DEF IInv
<1>6. QED
  BY <1>3, <1>4, <1>5 DEF WaitPoll

LEMMA RuntimeExitCodeStep ==
  ASSUME IInv, RuntimeExitCode
  PROVE  IInv'
<1>1. /\ op = "exit_code" /\ Observe(id) /\ UNCHANGED <<caller, id, tries, toClean>>
      /\ op' = "stop" /\ result' = [call |-> "runtime", id |-> id, code |-> ExitCode(id)]
  BY DEF RuntimeExitCode
<1>2. id \in DOMAIN m_instances /\ TableInv' /\ Ages
  BY <1>1, UnderWay, ObserveTable DEF IInv
<1>3. result' \in [call : {"none", "getExitCode", "runtime", "timeout"},
                   id : Ids \cup {None}, code : Codes \cup {-1}]
  BY <1>1, <1>2, UnderWay, ExitCodeType DEF IInv
<1>4. caller = "runtime" => m_instances'[id].status # "running"
  BY <1>1, <1>2, StaysDown DEF IInv, CallInv
<1>5. QED
  BY <1>1, <1>2, <1>3, <1>4, UnderWay, GotoStep DEF IInv

LEMMA StopStep ==
  ASSUME IInv, Stop \/ Term \/ StopPoll
  PROVE  IInv'
<1>1. /\ op \in {"stop", "term", "poll"} /\ UNCHANGED toClean
      /\ id \in DOMAIN m_instances /\ id \in Ids /\ m_instances[id].pid \in Pids
      /\ signal \in [Pids -> {0, SIGKILL, SIGTERM}]
  BY UnderWay DEF Stop, Term, StopPoll, IInv, TableInv
<1>2. caller # "user" => m_instances[id].status # "running"
  BY <1>1 DEF IInv, CallInv
<1>3. ASSUME TableInv', Ages, Return(result.code) PROVE IInv'
  <2>1. caller # "user" => m_instances'[id].status # "running"
    BY <1>1, <1>2, <1>3, StaysDown
  <2>2. QED
    BY <1>1, <1>3, <2>1, UnderWay, ReturnCall DEF IInv
<1>4. ASSUME TableInv', Ages, UNCHANGED <<id, caller, result>>, tries' \in 0 .. MaxTries,
             op' \in {"term", "poll"}
      PROVE  IInv'
  <2>1. caller # "user" => m_instances'[id].status # "running"
    BY <1>1, <1>2, <1>4, StaysDown
  <2>2. QED
    BY <1>1, <1>4, <2>1, UnderWay, GotoStep DEF IInv
<1>5. CASE Stop
  <2>1. CASE Reap(m_instances[id].pid) /\ SetStatus(id, "stopped") /\ Return(result.code)
    BY <1>1, <1>3, <2>1, ReapAndMark DEF IInv
  <2>2. CASE Goto("term") /\ UNCHANGED <<kernel, m_instances>>
    <3>1. TableInv' /\ Ages
      BY <1>1, <2>2, SameTable DEF IInv, kernel
    <3>2. QED
      BY <1>1, <1>4, <2>2, <3>1, UnderWay DEF Goto
  <2>3. QED
    BY <1>5, <2>1, <2>2 DEF Stop, Pid
<1>6. CASE Term
  <2>1. /\ UNCHANGED <<owner, state, ended>>
        /\ signal' \in [Pids -> {0, SIGKILL, SIGTERM}]
    BY <1>1, <1>6, KillType DEF Term, Pid, IInv
  <2>2. CASE owner[m_instances[id].pid] = None /\ SetStatus(id, "stopped") /\ Return(result.code)
    BY <1>1, <1>3, <2>1, <2>2, MarkGone, Names DEF IInv
  <2>3. CASE UNCHANGED m_instances /\ (Goto("poll") \/ Return(result.code))
    <3>1. TableInv' /\ Ages
      BY <2>1, <2>3, SameTable DEF IInv
    <3>2. QED
      BY <1>1, <1>3, <1>4, <2>3, <3>1, UnderWay DEF Goto
  <2>4. QED
    BY <1>6, <2>2, <2>3 DEF Term, Pid
<1>7. CASE StopPoll
  <2>1. CASE Return(result.code) /\ UNCHANGED <<kernel, m_instances>>
    <3>1. TableInv' /\ Ages
      BY <1>1, <2>1, SameTable DEF IInv, kernel
    <3>2. QED
      BY <1>3, <2>1, <3>1
  <2>2. CASE Observe(id) /\ Return(result.code)
    BY <1>1, <1>3, <2>2, ObserveTable DEF IInv
  <2>3. CASE /\ Observe(id) /\ tries # MaxTries
             /\ tries' = tries + 1 /\ UNCHANGED <<op, id, caller, result>>
    <3>1. op' = "poll"
      BY <1>7, <2>3 DEF StopPoll
    <3>2. QED
      BY <1>1, <1>4, <2>3, <3>1, UnderWay, ObserveTable DEF IInv
  <2>4. QED
    BY <1>7, <2>1, <2>2, <2>3 DEF StopPoll
<1>8. QED
  BY <1>5, <1>6, <1>7

LEMMA KillStep ==
  ASSUME IInv, SendKill \/ KillReap
  PROVE  IInv'
<1>1. /\ op \in {"kill", "reap"} /\ UNCHANGED toClean
      /\ id \in DOMAIN m_instances /\ id \in Ids /\ m_instances[id].pid \in Pids
      /\ signal \in [Pids -> {0, SIGKILL, SIGTERM}]
  BY UnderWay DEF SendKill, KillReap, IInv, TableInv
<1>2. CASE SendKill
  <2>1. TableInv' /\ Ages
    BY <1>1, <1>2, KillType, SameTable DEF SendKill, Pid, IInv
  <2>2. QED
    BY <1>1, <1>2, <2>1, UnderWay, GotoStep DEF SendKill, Goto, IInv
<1>3. CASE KillReap
  <2>1. SetStatus(id, "stopped") /\ Return(-1)
    BY <1>3 DEF KillReap
  <2>2. TableInv' /\ Ages /\ m_instances'[id].status = "stopped"
    <3>1. CASE Reap(m_instances[id].pid)
      BY <1>1, <2>1, <3>1, ReapAndMark DEF IInv
    <3>2. CASE ~ Child(m_instances[id].pid) /\ UNCHANGED kernel
      <4>1. /\ UNCHANGED <<owner, state, ended>> /\ signal' = signal
            /\ owner[m_instances[id].pid] # id
        BY <1>1, <3>2 DEF kernel, Child
      <4>2. QED
        BY <1>1, <2>1, <4>1, MarkGone DEF IInv
    <3>3. QED
      BY <1>3, <3>1, <3>2 DEF KillReap, Pid
  <2>3. QED
    BY <1>1, <2>1, <2>2, UnderWay, ReturnCall DEF IInv
<1>4. QED
  BY <1>2, <1>3

LEMMA CleanupStep ==
  ASSUME IInv, (\E i \in toClean : CleanupNext(i)) \/ CleanupDone
  PROVE  IInv'
<1> USE DEF IInv
<1>1. ASSUME NEW i \in toClean, CleanupNext(i) PROVE IInv'
  <2>1. /\ op = "cleanup" /\ toClean' = toClean \ {i} /\ Observe(i) /\ caller = "cleanup"
        /\ i \in DOMAIN m_instances /\ UNCHANGED <<caller, tries, result>>
        /\ result.call = "none"
        /\ \A j \in DOMAIN m_instances \ toClean : m_instances[j].status # "running"
    BY <1>1 DEF CleanupNext, CallInv, call
  <2>2. TableInv' /\ Ages
    BY <2>1, ObserveTable
  <2>3. toClean' \subseteq DOMAIN m_instances'
    BY <2>1, <2>2 DEF Ages, CallInv
  <2>4. \A j \in DOMAIN m_instances' \ toClean' :
           m_instances'[j].status = "running" => j = i
    BY <2>1, <2>2 DEF Ages
  <2>5. CASE m_instances'[i].status = "running" /\ op' = "kill" /\ id' = i
    <3>1. i \in DOMAIN m_instances' /\ i \in Ids /\ m_instances'[i].pid \in Pids
      BY <2>1, <2>2, <2>5 DEF TableInv, Ages
    <3>2. CallInv'
      BY <2>1, <2>3, <2>4, <2>5, <3>1 DEF CallInv
    <3>3. QED
      BY <2>2, <2>5, <3>2 DEF RuntimeLeavesNone
  <2>6. CASE m_instances'[i].status # "running" /\ op' = op /\ id' = id
    <3>1. CallInv'
      BY <2>1, <2>3, <2>4, <2>6 DEF CallInv
    <3>2. QED
      BY <2>1, <2>2, <2>6, <3>1 DEF RuntimeLeavesNone
  <2>7. QED
    BY <1>1, <2>5, <2>6 DEF CleanupNext, call
<1>2. CASE CleanupDone
  <2>1. /\ op = "cleanup" /\ toClean = {} /\ m_instances' = << >> /\ caller = "cleanup"
        /\ op' = "idle" /\ caller' = "user" /\ id' = None
        /\ UNCHANGED <<owner, state, signal, ended, tries, toClean, result>>
        /\ result.call = "none"
    BY <1>2 DEF CleanupDone, kernel, CallInv
  <2>2. \A i \in DOMAIN m_instances : m_instances[i].status # "running"
    BY <2>1 DEF CallInv
  <2>3. \A p \in Pids : owner[p] \notin Ids
    BY <2>2 DEF TableInv, Owned
  <2>4. DOMAIN m_instances' = {}
    BY <2>1
  <2>5. TableInv'
    BY <2>1, <2>3, <2>4 DEF TableInv, Owned
  <2>6. CallInv'
    BY <2>1, <2>4 DEF CallInv
  <2>7. QED
    BY <2>1, <2>5, <2>6 DEF RuntimeLeavesNone
<1>3. QED
  BY <1>1, <1>2

-----------------------------------------------------------------------------

LEMMA InitIInv == Init => IInv
<1> SUFFICES ASSUME Init PROVE IInv
  OBVIOUS
<1>1. DOMAIN m_instances = {}
  BY DEF Init
<1>2. TableInv
  BY <1>1, Names DEF Init, TableInv, Owned
<1>3. CallInv
  BY <1>1, Names, InstancesAssumption DEF Init, CallInv, NoResult
<1>4. QED
  BY <1>2, <1>3 DEF IInv, RuntimeLeavesNone, Init, NoResult

LEMMA StepIInv == IInv /\ [Next]_vars => IInv'
<1> SUFFICES ASSUME IInv, [Next]_vars PROVE IInv'
  OBVIOUS
<1>1. CASE Framework
  BY <1>1, ForkSteps, WaitStep, RuntimeExitCodeStep, StopStep, KillStep, CleanupStep DEF Framework
<1>2. CASE Test
  BY <1>2, TestStep
<1>3. CASE Kernel
  BY <1>3, KernelStep
<1>4. CASE UNCHANGED vars
  <2>1. /\ UNCHANGED <<owner, state, signal, ended, m_instances>>
        /\ UNCHANGED <<op, caller, id, tries, toClean, result>>
    BY <1>4 DEF vars, kernel, call
  <2>2. QED
    BY <2>1 DEF IInv, TableInv, Owned, CallInv, RuntimeLeavesNone
<1>5. QED
  BY <1>1, <1>2, <1>3, <1>4 DEF Next

LEMMA IInvAlways == Spec => []IInv
  BY InitIInv, StepIInv, PTL DEF Spec

\* Every variable has its type, the table and the call under way among them.
THEOREM InstancesTypes == Spec => []TypeOK
<1>1. IInv => TypeOK
  BY DEF IInv, TableInv, CallInv, TypeOK, Entries, Statuses
<1>2. QED
  BY <1>1, IInvAlways, PTL

\* An instance marked "stopped" has no process, although its old pid may by
\* then be another's.
THEOREM InstancesStoppedIsGone == Spec => []StoppedIsGone
<1>1. IInv => StoppedIsGone
  <2> SUFFICES ASSUME IInv, NEW i \in DOMAIN m_instances, m_instances[i].status = "stopped",
                      NEW p \in Pids
               PROVE  owner[p] # i
    BY DEF StoppedIsGone
  <2>1. i \in Ids
    BY DEF IInv, TableInv
  <2>2. QED
    BY <2>1 DEF IInv, TableInv, Owned
<1>2. QED
  BY <1>1, IInvAlways, PTL

\* Every child is in the table, so that cleanup, which empties it, leaves none.
THEOREM InstancesChildrenTracked == Spec => []ChildrenTracked
<1>1. IInv => ChildrenTracked
  BY DEF IInv, TableInv, Owned, ChildrenTracked
<1>2. QED
  BY <1>1, IInvAlways, PTL

\* When runtime returns, by exit code or by timeout, its process is gone.
THEOREM InstancesRuntimeLeavesNone == Spec => []RuntimeLeavesNone
<1>1. IInv => RuntimeLeavesNone
  BY DEF IInv
<1>2. QED
  BY <1>1, IInvAlways, PTL
=============================================================================
