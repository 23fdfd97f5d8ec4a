--------------------------- MODULE ProcessProofs ---------------------------
(***************************************************************************)
(* Theorems about Process and the Watchdog it extends: type correctness,   *)
(* which entries can be lost and which not, and that main outlives the     *)
(* broadcast thread, for any platforms, answers of the service, states of  *)
(* the disk and size of the pipe.                                          *)
(***************************************************************************)
EXTENDS Process, TLAPS

-----------------------------------------------------------------------------
(* The pipe *)

TaggedIn(p) == \E k \in DOMAIN p : p[k] = "tagged"

LEMMA AppendEntry ==
  ASSUME NEW p \in Seq({"entry", "tagged"}), NEW e \in {"entry", "tagged"}
  PROVE  /\ Append(p, e) \in Seq({"entry", "tagged"})
         /\ Len(Append(p, e)) = Len(p) + 1
         /\ TaggedIn(Append(p, e)) <=> TaggedIn(p) \/ e = "tagged"
<1>1. /\ DOMAIN Append(p, e) = DOMAIN p \cup {Len(p) + 1}
      /\ \A k \in DOMAIN p : Append(p, e)[k] = p[k]
      /\ Append(p, e)[Len(p) + 1] = e
  OBVIOUS
<1>2. Append(p, e) \in Seq({"entry", "tagged"}) /\ Len(Append(p, e)) = Len(p) + 1
  OBVIOUS
<1> QED
  BY <1>1, <1>2 DEF TaggedIn

LEMMA ReadEntries ==
  ASSUME NEW p \in Seq({"entry", "tagged"}), NEW n \in 1 .. Len(p)
  PROVE  LET rest == SubSeq(p, n + 1, Len(p))
         IN  /\ rest \in Seq({"entry", "tagged"})
             /\ Len(rest) = Len(p) - n
             /\ \A k \in DOMAIN rest : rest[k] = p[k + n] /\ k + n \in DOMAIN p /\ k + n > n
<1> DEFINE rest == SubSeq(p, n + 1, Len(p))
<1>1. n \in Nat /\ Len(p) \in Nat /\ n <= Len(p)
  OBVIOUS
<1>2. Len(rest) = Len(p) - n
  BY <1>1
<1>3. \A k \in 1 .. Len(p) - n : rest[k] = p[k + n]
  BY <1>1
<1>4. DOMAIN rest = 1 .. (Len(p) - n)
  BY <1>1
<1>5. \A k \in 1 .. (Len(p) - n) : k + n \in 1 .. Len(p) /\ k + n > n
  BY <1>1
<1>6. rest \in Seq({"entry", "tagged"})
  BY <1>1
<1> QED
  BY <1>2, <1>3, <1>4, <1>5, <1>6

-----------------------------------------------------------------------------
(* The watchdog's half of the state, whatever the server's threads do *)

\* At most one entry of the pipe is the tagged one, and what becomes of it says
\* where it is; without a pipe there is no watchdog; a watchdog that ended has
\* outlived the server, or never had a chance to.
FateInv ==
  /\ \A j, k \in DOMAIN pipe : pipe[j] = "tagged" /\ pipe[k] = "tagged" => j = k
  /\ tagged = "piped" => TaggedIn(pipe)
  /\ TaggedIn(pipe) => tagged \in {"piped", "lost"}
  /\ TaggedIn(pipe) /\ tagged = "lost" => watchdog = "ended"
  /\ s_write_fd <=> watchdog # "none"
  /\ watchdog = "ended" => server # "running" \/ platform.pid1
  /\ NotLostWhileRunning

WdInv == WdTypeOK /\ FateInv

\* What the server's threads do to the pipe and the watchdog's state.
WdNext ==
  \/ server = "running" /\ watchdog = "none" /\ Fork
  \/ server = "running" /\ (Log \/ Die)
  \/ Reap \/ WatchdogStep

LEMMA PlatformType == \A p \in Platforms : p.pid1 \in BOOLEAN
  BY WatchdogAssumption

LEMMA WdInitInv == WdInit => WdInv
<1> SUFFICES ASSUME WdInit PROVE WdInv
  OBVIOUS
<1>1. pipe = <<>> /\ DOMAIN pipe = {} /\ Len(pipe) = 0 /\ pipe \in Seq({"entry", "tagged"})
  BY DEF WdInit
<1>2. 0 <= PipeCap
  BY WatchdogAssumption
<1>3. WdTypeOK
  BY <1>1, <1>2 DEF WdInit, WdTypeOK
<1>4. ~ TaggedIn(pipe)
  BY <1>1 DEF TaggedIn
<1>5. FateInv
  BY <1>1, <1>4 DEF WdInit, FateInv, NotLostWhileRunning
<1> QED
  BY <1>3, <1>5 DEF WdInv

LEMMA LogInv == ASSUME WdInv, server = "running", Log PROVE WdInv'
<1> USE DEF WdInv, WdTypeOK, FateInv, NotLostWhileRunning
<1>1. PICK e \in {"entry"} \cup (IF tagged = "unlogged" THEN {"tagged"} ELSE {}) :
        IF ~ s_write_fd \/ watchdog = "ended"
        THEN /\ tagged' = IF e = "entry" THEN tagged
                          ELSE IF s_write_fd THEN "lost" ELSE "written"
             /\ UNCHANGED <<platform, server, s_write_fd, pipe, watchdog, watched>>
        ELSE /\ Len(pipe) < PipeCap
             /\ pipe' = Append(pipe, e)
             /\ tagged' = IF e = "entry" THEN tagged ELSE "piped"
             /\ UNCHANGED <<platform, server, s_write_fd, watchdog, watched>>
  BY DEF Log
<1>2. e \in {"entry", "tagged"} /\ (e = "tagged" => tagged = "unlogged")
  BY <1>1
<1>3. CASE ~ s_write_fd \/ watchdog = "ended"
  <2>1. pipe' = pipe /\ TaggedIn(pipe') = TaggedIn(pipe)
    BY <1>1, <1>3
  <2> QED
    BY <1>1, <1>2, <1>3, <2>1 DEF TaggedIn
<1>4. CASE s_write_fd /\ watchdog # "ended"
  <2>1. /\ Len(pipe) < PipeCap
        /\ pipe' = Append(pipe, e)
        /\ tagged' = IF e = "entry" THEN tagged ELSE "piped"
        /\ UNCHANGED <<platform, server, s_write_fd, watchdog, watched>>
    BY <1>1, <1>4
  <2>2. /\ pipe' \in Seq({"entry", "tagged"})
        /\ TaggedIn(pipe') <=> TaggedIn(pipe) \/ e = "tagged"
    BY <1>2, <2>1, AppendEntry
  <2>3. Len(pipe') <= PipeCap
    <3>1. Len(pipe') = Len(pipe) + 1
      BY <1>2, <2>1, AppendEntry
    <3> QED
      BY <2>1, <3>1, WatchdogAssumption
  <2>4. WdTypeOK'
    BY <1>2, <2>1, <2>2, <2>3
  <2>5. ASSUME NEW j \in DOMAIN pipe', NEW k \in DOMAIN pipe',
               pipe'[j] = "tagged", pipe'[k] = "tagged"
        PROVE  j = k
    <3>1. /\ DOMAIN pipe' = DOMAIN pipe \cup {Len(pipe) + 1}
          /\ \A n \in DOMAIN pipe : pipe'[n] = pipe[n]
          /\ pipe'[Len(pipe) + 1] = e
      BY <2>1
    <3>2. CASE e = "tagged"
      <4>1. ~ TaggedIn(pipe)
        BY <1>2, <3>2
      <4> QED
        BY <2>5, <3>1, <4>1 DEF TaggedIn
    <3>3. CASE e = "entry"
      BY <2>5, <3>1, <3>3
    <3> QED
      BY <1>2, <3>2, <3>3
  <2> HIDE DEF WdTypeOK
  <2>6. FateInv'
    BY <1>2, <1>4, <2>1, <2>2, <2>5
  <2> QED
    BY <2>4, <2>6
<1> QED
  BY <1>3, <1>4

LEMMA ReadInv == ASSUME WdInv, Read PROVE WdInv'
<1> USE DEF WdInv, WdTypeOK, FateInv, NotLostWhileRunning
<1>1. /\ watchdog = "poll" /\ watchdog' = "check"
      /\ UNCHANGED <<platform, server, s_write_fd, watched>>
  BY DEF Read
<1>2. PICK n \in 1 .. Len(pipe) :
        /\ pipe' = SubSeq(pipe, n + 1, Len(pipe))
        /\ tagged' = IF \E k \in 1 .. n : pipe[k] = "tagged" THEN "written" ELSE tagged
  BY DEF Read
<1>3. /\ pipe' \in Seq({"entry", "tagged"})
      /\ Len(pipe') = Len(pipe) - n
      /\ \A k \in DOMAIN pipe' : pipe'[k] = pipe[k + n] /\ k + n \in DOMAIN pipe /\ k + n > n
  BY <1>2, ReadEntries
<1>4. n \in Nat /\ Len(pipe) \in Nat /\ n <= Len(pipe) /\ DOMAIN pipe = 1 .. Len(pipe)
  OBVIOUS
<1>5. Len(pipe') <= PipeCap
  <2>1. PICK len \in Nat : len = Len(pipe)
    BY <1>4
  <2>2. len <= PipeCap /\ PipeCap \in Nat
    BY <2>1, WatchdogAssumption
  <2>3. Len(pipe') = len - n
    BY <1>3, <2>1
  <2> HIDE DEF WdInv
  <2>4. len - n <= PipeCap
    BY <1>4, <2>2
  <2> QED
    BY <2>3, <2>4
<1>6. WdTypeOK'
  BY <1>1, <1>2, <1>3, <1>5
<1>7. \A j, k \in DOMAIN pipe' : pipe'[j] = "tagged" /\ pipe'[k] = "tagged" => j = k
  <2> SUFFICES ASSUME NEW j \in DOMAIN pipe', NEW k \in DOMAIN pipe',
                      pipe'[j] = "tagged", pipe'[k] = "tagged"
               PROVE  j = k
    OBVIOUS
  <2>1. j + n = k + n
    BY <1>3
  <2>2. j \in Nat /\ k \in Nat
    BY <1>3
  <2> QED
    BY <1>4, <2>1, <2>2
<1>8. CASE \E k \in 1 .. n : pipe[k] = "tagged"
  <2>1. PICK k \in 1 .. n : pipe[k] = "tagged"
    BY <1>8
  <2>2. k \in DOMAIN pipe /\ k <= n
    BY <1>4
  <2>3. ~ TaggedIn(pipe')
    <3> SUFFICES ASSUME NEW j \in DOMAIN pipe', pipe'[j] = "tagged" PROVE FALSE
      BY DEF TaggedIn
    <3>1. j + n = k /\ j + n > n
      BY <1>3, <2>1, <2>2
    <3> QED
      BY <1>4, <2>2, <3>1
  <2>4. tagged' = "written"
    BY <1>2, <1>8
  <2> QED
    BY <1>1, <1>6, <1>7, <2>3, <2>4
<1>9. CASE ~ \E k \in 1 .. n : pipe[k] = "tagged"
  <2>1. tagged' = tagged
    BY <1>2, <1>9
  <2>2. TaggedIn(pipe) => TaggedIn(pipe')
    <3> SUFFICES ASSUME NEW k \in DOMAIN pipe, pipe[k] = "tagged" PROVE TaggedIn(pipe')
      BY DEF TaggedIn
    <3>1. k \in Nat /\ k > n /\ k <= Len(pipe)
      BY <1>4, <1>9
    <3>2. DOMAIN pipe' = 1 .. Len(pipe')
      BY <1>3
    <3>3. k - n \in 1 .. (Len(pipe) - n) /\ (k - n) + n = k
      BY <1>4, <3>1
    <3>4. k - n \in DOMAIN pipe'
      BY <1>3, <3>2, <3>3
    <3>5. pipe'[k - n] = pipe[k]
      BY <1>3, <3>3, <3>4
    <3> QED
      BY <3>4, <3>5 DEF TaggedIn
  <2>3. TaggedIn(pipe') => TaggedIn(pipe)
    BY <1>3 DEF TaggedIn
  <2> HIDE DEF WdTypeOK
  <2> QED
    BY <1>1, <1>6, <1>7, <2>1, <2>2, <2>3
<1> QED
  BY <1>8, <1>9

LEMMA WdStep == WdInv /\ (WdNext \/ UNCHANGED wdVars) => WdInv'
<1> SUFFICES ASSUME WdInv, WdNext \/ UNCHANGED wdVars PROVE WdInv'
  OBVIOUS
<1> USE DEF WdInv, WdTypeOK, FateInv, NotLostWhileRunning
<1>1. platform.pid1 \in BOOLEAN
  BY PlatformType
<1>2. CASE UNCHANGED wdVars
  BY <1>2 DEF wdVars, TaggedIn
<1>3. CASE server = "running" /\ watchdog = "none" /\ Fork
  <2>1. TaggedIn(pipe') = TaggedIn(pipe)
    BY <1>3 DEF Fork
  <2>2. WdTypeOK'
    BY <1>3 DEF Fork
  <2>3. UNCHANGED <<platform, server, pipe, tagged>>
    BY <1>3 DEF Fork
  <2>4. \/ s_write_fd' = TRUE /\ watchdog' = "starting"
        \/ s_write_fd' = s_write_fd /\ watchdog' = watchdog
    BY <1>3 DEF Fork
  <2>5. tagged # "lost" \/ platform.pid1
    BY <1>3
  <2>6. ~ (TaggedIn(pipe) /\ tagged = "lost")
    BY <1>3
  <2> HIDE DEF WdTypeOK
  <2>7. FateInv'
    BY <1>3, <2>1, <2>3, <2>4, <2>5, <2>6
  <2> QED
    BY <2>2, <2>7
<1>4. CASE server = "running" /\ Log
  BY <1>4, LogInv
<1>5. CASE server = "running" /\ Die
  BY <1>1, <1>5 DEF Die, TaggedIn
<1>6. CASE Reap
  BY <1>6 DEF Reap, TaggedIn
<1>7. CASE StartWatchdog
  BY <1>7 DEF StartWatchdog, TaggedIn
<1>8. CASE Read
  BY <1>8, ReadInv
<1>9. CASE NothingRead
  BY <1>9 DEF NothingRead, TaggedIn
<1>10. CASE Check
  BY <1>1, <1>10 DEF Check, Orphaned, TaggedIn
<1> QED
  BY <1>2, <1>3, <1>4, <1>5, <1>6, <1>7, <1>8, <1>9, <1>10 DEF WdNext, WatchdogStep

-----------------------------------------------------------------------------
(* The server's threads *)

\* The types of the threads' half of the state.
ThreadsOK ==
  /\ main \in {"init", "start", "shell", "listen", "loop", "finish", "join",
               "exit", "dead"}
  /\ lifecycle \in {"off", "sleep", "compare", "store", "log"}
  /\ broadcast \in {"off", "wait", "round", "health", "trigger", "log_trigger", "log", "done"}
  /\ {s_lockdown_state, new_state} \subseteq {"NONE", "CLOSE", "IMMEDIATE"}
  /\ m_running \in BOOLEAN /\ server_finished \in BOOLEAN
  /\ service \in Services /\ disk \in Disks

\* Only main forks the watchdog, and once.
ForkInv == main = "init" => watchdog = "none"

ProcessInv == WdInv /\ ThreadsOK /\ BroadcastOutlived /\ ForkInv

LEMMA ProcessInit == Init => ProcessInv
<1>1. Init => WdInv
  BY WdInitInv DEF Init
<1>2. Init => ThreadsOK /\ BroadcastOutlived /\ ForkInv
  BY DEF Init, WdInit, ThreadsOK, BroadcastOutlived, ForkInv
<1> QED
  BY <1>1, <1>2 DEF ProcessInv

\* A step of the process is one of the watchdog's half, or leaves that alone.
LEMMA StepOfWatchdog ==
  ASSUME ForkInv, [Next]_vars
  PROVE  WdNext \/ UNCHANGED wdVars
<1>1. CASE UNCHANGED vars
  BY <1>1 DEF vars
<1>2. CASE MainStep \/ PollFails \/ Kill
  BY <1>2 DEF MainStep, ForkInv, WdNext, InitMonitor, StartLifecycle, ShellReturns,
              StartBroadcast, Listen, Finish, Join, Exit, End, PollFails, Kill, MainGoes
<1>3. CASE LifecycleStep
  BY <1>3 DEF LifecycleStep, Fetch, Compare, Store, LogState, LifecycleGoes, WdNext
<1>4. CASE BroadcastStep
  BY <1>4 DEF BroadcastStep, Await, Round, Health, Trigger, LogHealth, BroadcastGoes, WdNext
<1>5. CASE WatchdogProcess \/ (Reap /\ UNCHANGED <<threadVars, outside>>)
  BY <1>5 DEF WatchdogProcess, WdNext
<1>6. CASE ServiceChanges \/ DiskChanges
  BY <1>6 DEF ServiceChanges, DiskChanges
<1> QED
  BY <1>1, <1>2, <1>3, <1>4, <1>5, <1>6 DEF Next

\* The watchdog is started by InitMonitor only, and main never comes back to it.
LEMMA WatchdogStarts == ForkInv /\ [Next]_vars => ForkInv'
<1> SUFFICES ASSUME ForkInv, [Next]_vars, main' = "init" PROVE watchdog' = "none"
  BY DEF ForkInv
<1>1. CASE UNCHANGED vars
  BY <1>1 DEF vars, wdVars, threadVars, ForkInv
<1>2. CASE MainStep \/ PollFails \/ Kill
  BY <1>2 DEF MainStep, InitMonitor, StartLifecycle, ShellReturns,
              StartBroadcast, Listen, Finish, Join, Exit, End, PollFails, Kill, MainGoes
<1>3. CASE LifecycleStep
  BY <1>3 DEF LifecycleStep, Fetch, Compare, Store, LogState, Log, wdVars, ForkInv
<1>4. CASE BroadcastStep
  BY <1>4 DEF BroadcastStep, Await, Round, Health, Trigger, LogHealth, Log, wdVars, ForkInv
<1>5. CASE WatchdogProcess
  BY <1>5 DEF WatchdogProcess, WatchdogStep, StartWatchdog, Read, NothingRead, Check,
              threadVars, ForkInv
<1>6. CASE Reap /\ UNCHANGED <<threadVars, outside>>
  BY <1>6 DEF Reap, threadVars, ForkInv
<1>7. CASE ServiceChanges \/ DiskChanges
  BY <1>7 DEF ServiceChanges, DiskChanges, wdVars, threadVars, ForkInv
<1> QED
  BY <1>1, <1>2, <1>3, <1>4, <1>5, <1>6, <1>7 DEF Next

\* The types of the threads, and what main knows of the broadcast thread.
LEMMA ThreadsStep ==
  ThreadsOK /\ BroadcastOutlived /\ [Next]_vars => ThreadsOK' /\ BroadcastOutlived'
<1> SUFFICES ASSUME ThreadsOK, BroadcastOutlived, [Next]_vars
             PROVE  ThreadsOK' /\ BroadcastOutlived'
  OBVIOUS
<1> USE DEF ThreadsOK, BroadcastOutlived
<1>1. CASE UNCHANGED vars
  BY <1>1 DEF vars, threadVars, outside
<1>2. CASE InitMonitor \/ StartLifecycle \/ ShellReturns \/ StartBroadcast \/ Listen
  BY <1>2 DEF InitMonitor, StartLifecycle, ShellReturns, StartBroadcast, Listen, MainGoes,
              outside
<1>3. CASE Finish \/ Join \/ PollFails \/ Exit \/ Kill
  BY <1>3 DEF Finish, Join, PollFails, Exit, Kill, End, MainGoes, outside
<1>4. CASE LifecycleStep
  BY <1>4 DEF LifecycleStep, Fetch, Compare, Store, LogState, LifecycleGoes, StateOf, outside
<1>5. CASE BroadcastStep
  BY <1>5 DEF BroadcastStep, Await, Round, Health, Trigger, LogHealth, BroadcastGoes, outside
<1>6. CASE WatchdogProcess \/ (Reap /\ UNCHANGED <<threadVars, outside>>)
  BY <1>6 DEF WatchdogProcess, threadVars, outside
<1>7. CASE ServiceChanges \/ DiskChanges
  BY <1>7 DEF ServiceChanges, DiskChanges, threadVars
<1> QED
  BY <1>1, <1>2, <1>3, <1>4, <1>5, <1>6, <1>7 DEF Next, MainStep

LEMMA ProcessStep == ProcessInv /\ [Next]_vars => ProcessInv'
<1> SUFFICES ASSUME ProcessInv, [Next]_vars PROVE ProcessInv'
  OBVIOUS
<1>1. WdInv'
  BY StepOfWatchdog, WdStep DEF ProcessInv
<1>2. ForkInv'
  BY WatchdogStarts DEF ProcessInv
<1>3. ThreadsOK' /\ BroadcastOutlived'
  BY ThreadsStep DEF ProcessInv
<1> QED
  BY <1>1, <1>2, <1>3 DEF ProcessInv

LEMMA ProcessAlways == Spec => []ProcessInv
  BY ProcessInit, ProcessStep, PTL DEF Spec

\* For any pipe, platforms, services and disks: the types of both processes'
\* state, and never more entries in the pipe than it holds (main, runWatchdog).
THEOREM ProcessTypes == Spec => []TypeOK
<1>1. ProcessInv => TypeOK
  BY DEF ProcessInv, WdInv, ThreadsOK, TypeOK
<1> QED
  BY <1>1, ProcessAlways, PTL

\* While the server runs, and is not process 1, no entry that was logged is
\* lost, however small the pipe is and whoever logs when (log, runWatchdog).
THEOREM NothingLostWhileRunning == Spec => []NotLostWhileRunning
<1>1. ProcessInv => NotLostWhileRunning
  BY DEF ProcessInv, WdInv, FateInv
<1> QED
  BY <1>1, ProcessAlways, PTL

\* What is written stays written once, and what is lost stays lost (log,
\* runWatchdog).
THEOREM EntriesSettle == Spec => FateIsFinal
<1>1. ProcessInv /\ [Next]_vars => [(tagged \in {"written", "lost"}) => tagged' = tagged]_wdVars
  <2> SUFFICES ASSUME ProcessInv, WdNext, tagged \in {"written", "lost"}
               PROVE  tagged' = tagged
    BY StepOfWatchdog DEF ProcessInv
  <2>1. CASE server = "running" /\ (Fork \/ Log \/ Die)
    BY <2>1 DEF Fork, Log, Die
  <2>2. CASE Reap \/ StartWatchdog \/ NothingRead \/ Check
    BY <2>2 DEF Reap, StartWatchdog, NothingRead, Check
  <2>3. CASE Read
    <3>1. ~ TaggedIn(pipe)
      BY <2>3 DEF Read, ProcessInv, WdInv, FateInv
    <3>2. PICK n \in 1 .. Len(pipe) :
            tagged' = IF \E k \in 1 .. n : pipe[k] = "tagged" THEN "written" ELSE tagged
      BY <2>3 DEF Read
    <3>3. 1 .. n \subseteq DOMAIN pipe
      BY DEF ProcessInv, WdInv, WdTypeOK
    <3> QED
      BY <3>1, <3>2, <3>3 DEF TaggedIn
  <2> QED
    BY <2>1, <2>2, <2>3 DEF WdNext, WatchdogStep
<1> QED
  BY <1>1, ProcessAlways, PTL DEF Spec, FateIsFinal

\* Whichever way main leaves, the broadcast thread that refers to its locals
\* was never started or has ended (main).
THEOREM LocalsOutliveBroadcast == Spec => []BroadcastOutlived
<1>1. ProcessInv => BroadcastOutlived
  BY DEF ProcessInv
<1> QED
  BY <1>1, ProcessAlways, PTL
=============================================================================
