-------------------------- MODULE ThreadPoolProofs --------------------------
(***************************************************************************)
(* Invariants of ThreadPool proved for any number of workers, callers and  *)
(* tasks, and the step simulation of TaskQueue.                            *)
(***************************************************************************)
EXTENDS ThreadPool, FiniteSetTheorems, SequenceTheorems, TLAPS

\* m_stop is the destructor's first write and is never reset.
StopFlag == m_stop <=> dtor # "alive"

\* The join loop waits for all.
DestroyedMeansReturned == dtor = "destroyed" => At("returned") = Workers

Image(s) == {s[i] : i \in DOMAIN s}

\* Every task is enqueued once, a started one is running in one worker or is
\* finished, never both.
Accounting ==
  /\ \A i, j \in DOMAIN accepted : accepted[i] = accepted[j] => i = j
  /\ Image(started) = Running \cup finished
  /\ Running \cap finished = {}
  /\ \A v, w \in At("running") : task[v] = task[w] => v = w

PoolInv ==
  /\ TypeOK
  /\ Fifo
  /\ StopFlag
  /\ NobodySleepsThroughStop
  /\ ReturnedMeansDrained
  /\ DestroyedMeansReturned
  /\ NoIdleBacklog
  /\ Accounting

-----------------------------------------------------------------------------
(* Type correctness. *)

LEMMA TypeStep == TypeOK /\ [Next]_vars => TypeOK'
<1> SUFFICES ASSUME TypeOK, [Next]_vars PROVE TypeOK'
  OBVIOUS
<1> USE PoolAssumption
<1>1. ASSUME NEW c \in Callers, NotifyOne(c) PROVE TypeOK'
  BY <1>1 DEF NotifyOne, TypeOK, At, Wake
<1>2. ASSUME NEW c \in Callers, NEW t \in Tasks, Accept(c, t) PROVE TypeOK'
  BY <1>2 DEF Accept, TypeOK
<1>3. ASSUME NEW w \in Workers, Wait(w) PROVE TypeOK'
  BY <1>3 DEF Wait, TypeOK
<1>4. ASSUME NEW w \in Workers, Take(w) PROVE TypeOK'
  <2>1. Head(m_tasks) \in Tasks /\ Tail(m_tasks) \in Seq(Tasks)
    BY <1>4, HeadTailProperties DEF Take, TypeOK
  <2>2. started' \in Seq(Tasks)
    BY <1>4, <2>1, AppendProperties DEF Take, TypeOK
  <2> QED
    BY <1>4, <2>1, <2>2 DEF Take, TypeOK
<1>5. ASSUME NEW w \in Workers, Done(w) PROVE TypeOK'
  BY <1>5 DEF Done, TypeOK
<1>6. ASSUME NEW w \in Workers, Return(w) PROVE TypeOK'
  BY <1>6 DEF Return, TypeOK
<1>7. ASSUME NEW w \in Workers, SpuriousWakeup(w) PROVE TypeOK'
  BY <1>7 DEF SpuriousWakeup, Wake, TypeOK
<1>8. CASE Stop
  BY <1>8 DEF Stop, TypeOK
<1>9. CASE NotifyAll
  BY <1>9 DEF NotifyAll, TypeOK
<1>10. CASE Join
  BY <1>10 DEF Join, TypeOK
<1>11. CASE UNCHANGED vars
  BY <1>11 DEF vars, TypeOK
<1> QED
  BY <1>1, <1>2, <1>3, <1>4, <1>5, <1>6, <1>7, <1>8, <1>9, <1>10, <1>11
  DEF Next, WorkerStep

LEMMA InitialTypes == Init => TypeOK
<1> SUFFICES ASSUME Init PROVE TypeOK
  OBVIOUS
<1>1. <<>> \in Seq(Tasks)
  BY EmptySeq
<1>2. \A w \in Workers : wpc[w] = "running" <=> task[w] # NoTask
  BY DEF Init
<1> QED
  BY <1>1, <1>2 DEF Init, TypeOK

\* Every field keeps its type and a worker holds a closure exactly while it
\* calls it, for any number of workers, callers and tasks.
THEOREM TypeCorrect == Spec => []TypeOK
<1> QED
  BY InitialTypes, TypeStep, PTL DEF Spec, Safety

-----------------------------------------------------------------------------
(* The order of the tasks. *)

LEMMA FifoStep == TypeOK /\ Fifo /\ [Next]_vars => Fifo'
<1> SUFFICES ASSUME TypeOK, Fifo, [Next]_vars PROVE Fifo'
  OBVIOUS
<1>1. ASSUME NEW c \in Callers, NEW t \in Tasks, Accept(c, t) PROVE Fifo'
  <2>1. Append(started \o m_tasks, t) = started \o Append(m_tasks, t)
    <3>1. <<t>> \in Seq(Tasks)
      OBVIOUS
    <3>2. started \in Seq(Tasks) /\ m_tasks \in Seq(Tasks) /\ started \o m_tasks \in Seq(Tasks)
      BY ConcatProperties DEF TypeOK
    <3>3. Append(started \o m_tasks, t) = (started \o m_tasks) \o <<t>>
      BY <3>2, AppendIsConcat
    <3>4. (started \o m_tasks) \o <<t>> = started \o (m_tasks \o <<t>>)
      BY <3>1, <3>2, ConcatAssociative
    <3>5. m_tasks \o <<t>> = Append(m_tasks, t)
      BY <3>2, AppendIsConcat
    <3> QED
      BY <3>3, <3>4, <3>5
  <2> QED
    BY <1>1, <2>1 DEF Accept, Fifo
<1>2. ASSUME NEW w \in Workers, Take(w) PROVE Fifo'
  <2> DEFINE h == Head(m_tasks)
             r == Tail(m_tasks)
  <2>1. h \in Tasks /\ r \in Seq(Tasks) /\ m_tasks = <<h>> \o r
    BY <1>2, HeadTailProperties, HeadTailAppend, AppendIsConcat DEF Take, TypeOK
  <2>2. Append(started, h) = started \o <<h>>
    BY <2>1, AppendIsConcat DEF TypeOK
  <2>3. <<h>> \in Seq(Tasks)
    BY <2>1
  <2> HIDE DEF h, r
  <2>4. (started \o <<h>>) \o r = started \o (<<h>> \o r)
    BY <2>1, <2>3, ConcatAssociative DEF TypeOK
  <2>5. accepted' = accepted /\ started' = Append(started, h) /\ m_tasks' = r
    BY <1>2 DEF Take, h, r
  <2> QED
    BY <2>1, <2>2, <2>4, <2>5 DEF Fifo
<1>3. CASE UNCHANGED <<accepted, started, m_tasks>>
  BY <1>3 DEF Fifo
<1> QED
  BY <1>1, <1>2, <1>3 DEF Next, WorkerStep, NotifyOne, Wait, Done, Return,
     SpuriousWakeup, Stop, NotifyAll, Join, vars

-----------------------------------------------------------------------------
(* Stopping. *)

LEMMA StopStep ==
  ASSUME TypeOK, StopFlag, NobodySleepsThroughStop, ReturnedMeansDrained,
         DestroyedMeansReturned, [Next]_vars
  PROVE  StopFlag' /\ NobodySleepsThroughStop' /\ ReturnedMeansDrained'
         /\ DestroyedMeansReturned'
<1> USE DEF StopFlag, NobodySleepsThroughStop, ReturnedMeansDrained,
            DestroyedMeansReturned, At, TypeOK
<1>1. ASSUME NEW c \in Callers, NotifyOne(c)
      PROVE StopFlag' /\ NobodySleepsThroughStop' /\ ReturnedMeansDrained'
            /\ DestroyedMeansReturned'
  BY <1>1 DEF NotifyOne, Wake
<1>2. ASSUME NEW c \in Callers, NEW t \in Tasks, Accept(c, t)
      PROVE StopFlag' /\ NobodySleepsThroughStop' /\ ReturnedMeansDrained'
            /\ DestroyedMeansReturned'
  BY <1>2 DEF Accept
<1>3. ASSUME NEW w \in Workers, Wait(w)
      PROVE StopFlag' /\ NobodySleepsThroughStop' /\ ReturnedMeansDrained'
            /\ DestroyedMeansReturned'
  BY <1>3 DEF Wait
<1>4. ASSUME NEW w \in Workers, Take(w)
      PROVE StopFlag' /\ NobodySleepsThroughStop' /\ ReturnedMeansDrained'
            /\ DestroyedMeansReturned'
  BY <1>4 DEF Take
<1>5. ASSUME NEW w \in Workers, Done(w)
      PROVE StopFlag' /\ NobodySleepsThroughStop' /\ ReturnedMeansDrained'
            /\ DestroyedMeansReturned'
  BY <1>5 DEF Done
<1>6. ASSUME NEW w \in Workers, Return(w)
      PROVE StopFlag' /\ NobodySleepsThroughStop' /\ ReturnedMeansDrained'
            /\ DestroyedMeansReturned'
  BY <1>6 DEF Return
<1>7. ASSUME NEW w \in Workers, SpuriousWakeup(w)
      PROVE StopFlag' /\ NobodySleepsThroughStop' /\ ReturnedMeansDrained'
            /\ DestroyedMeansReturned'
  BY <1>7 DEF SpuriousWakeup, Wake
<1>8. CASE Stop
  BY <1>8 DEF Stop
<1>9. CASE NotifyAll
  BY <1>9 DEF NotifyAll
<1>10. CASE Join
  BY <1>10 DEF Join
<1>11. CASE UNCHANGED vars
  BY <1>11 DEF vars
<1> QED
  BY <1>1, <1>2, <1>3, <1>4, <1>5, <1>6, <1>7, <1>8, <1>9, <1>10, <1>11
  DEF Next, WorkerStep

-----------------------------------------------------------------------------
(* No task waits beside a sleeping worker. *)

LEMMA Counting ==
  ASSUME TypeOK
  PROVE  /\ IsFiniteSet(At("ready")) /\ IsFiniteSet(Notifying)
         /\ Cardinality(At("ready")) \in Nat /\ Cardinality(Notifying) \in Nat
         /\ Len(m_tasks) \in Nat
<1>1. At("ready") \in SUBSET Workers /\ Notifying \in SUBSET Callers
  BY DEF At, Notifying
<1>2. IsFiniteSet(At("ready")) /\ IsFiniteSet(Notifying)
  BY <1>1, FS_Subset, PoolAssumption
<1> QED
  BY <1>2, FS_CardinalityType, LenProperties DEF TypeOK

LEMMA BacklogStep ==
  ASSUME TypeOK, NobodySleepsThroughStop, NoIdleBacklog, [Next]_vars
  PROVE  NoIdleBacklog'
<1> DEFINE R == At("ready")
           W == At("waiting")
           N == Notifying
<1>0. /\ IsFiniteSet(R) /\ IsFiniteSet(N)
      /\ Cardinality(R) \in Nat /\ Cardinality(N) \in Nat /\ Len(m_tasks) \in Nat
      /\ W # {} => Len(m_tasks) <= Cardinality(R) + Cardinality(N)
  BY Counting DEF NoIdleBacklog
<1>a. ASSUME W' # {} => Len(m_tasks)' <= Cardinality(R') + Cardinality(N')
      PROVE NoIdleBacklog'
  BY <1>a DEF NoIdleBacklog
<1>1. ASSUME NEW c \in Callers, NotifyOne(c) PROVE NoIdleBacklog'
  <2>1. N' = N \ {c} /\ c \in N /\ m_tasks' = m_tasks
    BY <1>1 DEF NotifyOne, Notifying, TypeOK
  <2>2. Cardinality(N') = Cardinality(N) - 1
    BY <2>1, <1>0, FS_RemoveElement
  <2>3. CASE W = {}
    <3>1. W' = {}
      BY <1>1, <2>3 DEF NotifyOne, At
    <3> QED
      BY <3>1, <1>a
  <2>4. CASE W # {}
    <3>1. PICK w \in W : wpc' = [wpc EXCEPT ![w] = "ready"]
      BY <1>1, <2>4 DEF NotifyOne, Wake
    <3>2. R' = R \cup {w} /\ w \notin R
      BY <3>1 DEF At, TypeOK
    <3>3. Cardinality(R') = Cardinality(R) + 1
      BY <3>2, <1>0, FS_AddElement
    <3> HIDE DEF R, W, N
    <3>4. Len(m_tasks)' = Len(m_tasks)
      BY <2>1
    <3> QED
      BY <3>3, <3>4, <2>2, <2>4, <1>0, <1>a
  <2> QED
    BY <2>3, <2>4
<1>2. ASSUME NEW c \in Callers, NEW t \in Tasks, Accept(c, t) PROVE NoIdleBacklog'
  <2>1. N' = N \cup {c} /\ c \notin N /\ R' = R /\ W' = W
    BY <1>2 DEF Accept, Notifying, At, TypeOK
  <2>2. Len(m_tasks)' = Len(m_tasks) + 1
    BY <1>2, AppendProperties DEF Accept, TypeOK
  <2>3. Cardinality(N') = Cardinality(N) + 1
    BY <2>1, <1>0, FS_AddElement
  <2> HIDE DEF R, W, N
  <2> QED
    BY <2>1, <2>2, <2>3, <1>0, <1>a
<1>3. ASSUME NEW w \in Workers, Wait(w) PROVE NoIdleBacklog'
  <2>1. Len(m_tasks)' = 0
    BY <1>3 DEF Wait
  <2>2. IsFiniteSet(R') /\ N' = N
    <3>1. wpc' = [wpc EXCEPT ![w] = "waiting"] /\ cpc' = cpc
      BY <1>3 DEF Wait
    <3>2. R' = R \ {w} /\ N' = N
      BY <3>1 DEF At, Notifying, TypeOK
    <3>3. IsFiniteSet(R \ {w})
      BY <1>0, FS_RemoveElement
    <3> QED
      BY <3>2, <3>3
  <2>3. Cardinality(R') \in Nat
    BY <2>2, FS_CardinalityType
  <2> HIDE DEF R, W, N
  <2> QED
    BY <2>1, <2>2, <2>3, <1>0, <1>a
<1>4. ASSUME NEW w \in Workers, Take(w) PROVE NoIdleBacklog'
  <2>1. R' = R \ {w} /\ w \in R /\ W' = W /\ N' = N
    BY <1>4 DEF Take, At, Notifying, TypeOK
  <2>2. Len(m_tasks)' = Len(m_tasks) - 1
    BY <1>4, HeadTailProperties DEF Take, TypeOK
  <2>3. Cardinality(R') = Cardinality(R) - 1
    BY <2>1, <1>0, FS_RemoveElement
  <2> HIDE DEF R, W, N
  <2> QED
    BY <2>1, <2>2, <2>3, <1>0, <1>a
<1>5. ASSUME NEW w \in Workers, Done(w) PROVE NoIdleBacklog'
  <2>1. R' = R \cup {w} /\ w \notin R /\ W' = W /\ N' = N /\ m_tasks' = m_tasks
    BY <1>5 DEF Done, At, Notifying, TypeOK
  <2>2. Cardinality(R') = Cardinality(R) + 1
    BY <2>1, <1>0, FS_AddElement
  <2> HIDE DEF R, W, N
  <2>3. Len(m_tasks)' = Len(m_tasks)
    BY <2>1
  <2> QED
    BY <2>1, <2>2, <2>3, <1>0, <1>a
<1>6. ASSUME NEW w \in Workers, Return(w) PROVE NoIdleBacklog'
  <2>1. Len(m_tasks)' = 0
    BY <1>6 DEF Return
  <2>2. IsFiniteSet(R') /\ N' = N
    <3>1. wpc' = [wpc EXCEPT ![w] = "returned"] /\ cpc' = cpc
      BY <1>6 DEF Return
    <3>2. R' = R \ {w} /\ N' = N
      BY <3>1 DEF At, Notifying, TypeOK
    <3>3. IsFiniteSet(R \ {w})
      BY <1>0, FS_RemoveElement
    <3> QED
      BY <3>2, <3>3
  <2>3. Cardinality(R') \in Nat
    BY <2>2, FS_CardinalityType
  <2> HIDE DEF R, W, N
  <2> QED
    BY <2>1, <2>2, <2>3, <1>0, <1>a
<1>7. ASSUME NEW w \in Workers, SpuriousWakeup(w) PROVE NoIdleBacklog'
  <2>1. R' = R \cup {w} /\ w \notin R /\ w \in W /\ N' = N /\ m_tasks' = m_tasks
    BY <1>7 DEF SpuriousWakeup, Wake, At, Notifying, TypeOK
  <2>2. Cardinality(R') = Cardinality(R) + 1
    BY <2>1, <1>0, FS_AddElement
  <2> HIDE DEF R, W, N
  <2>3. Len(m_tasks)' = Len(m_tasks)
    BY <2>1
  <2> QED
    BY <2>1, <2>2, <2>3, <1>0, <1>a
<1>8. CASE NotifyAll
  <2>1. W' = {}
    BY <1>8 DEF NotifyAll, At
  <2> QED
    BY <2>1, <1>a
<1>9. CASE UNCHANGED <<wpc, cpc, m_tasks>>
  BY <1>9 DEF NoIdleBacklog, At, Notifying
<1> QED
  BY <1>1, <1>2, <1>3, <1>4, <1>5, <1>6, <1>7, <1>8, <1>9
  DEF Next, WorkerStep, Stop, Join, vars

-----------------------------------------------------------------------------
(* Which task is where. *)

LEMMA ImageAppend ==
  ASSUME NEW S, NEW s \in Seq(S), NEW x \in S
  PROVE  Image(Append(s, x)) = Image(s) \cup {x}
<1>1. /\ Len(s) \in Nat /\ DOMAIN s = 1 .. Len(s)
      /\ Append(s, x) \in Seq(S) /\ Len(Append(s, x)) = Len(s) + 1
      /\ \A i \in 1 .. Len(s) : Append(s, x)[i] = s[i]
      /\ Append(s, x)[Len(s) + 1] = x
  BY AppendProperties, LenProperties
<1>2. DOMAIN Append(s, x) = 1 .. (Len(s) + 1)
  BY <1>1, LenProperties
<1> QED
  BY <1>1, <1>2 DEF Image

LEMMA ImageConcat ==
  ASSUME NEW S, NEW s \in Seq(S), NEW t \in Seq(S)
  PROVE  Image(s \o t) = Image(s) \cup Image(t)
<1>1. /\ Len(s) \in Nat /\ DOMAIN s = 1 .. Len(s)
      /\ Len(t) \in Nat /\ DOMAIN t = 1 .. Len(t)
      /\ DOMAIN (s \o t) = 1 .. (Len(s) + Len(t))
      /\ \A i \in 1 .. (Len(s) + Len(t)) :
            (s \o t)[i] = IF i <= Len(s) THEN s[i] ELSE t[i - Len(s)]
  BY LenProperties, ConcatProperties
<1>2. \A i \in DOMAIN s : i \in DOMAIN (s \o t) /\ (s \o t)[i] = s[i]
  BY <1>1
<1>3. \A i \in DOMAIN t : i + Len(s) \in DOMAIN (s \o t) /\ (s \o t)[i + Len(s)] = t[i]
  BY <1>1
<1>4. \A i \in DOMAIN (s \o t) :
        \/ i \in DOMAIN s /\ (s \o t)[i] = s[i]
        \/ i - Len(s) \in DOMAIN t /\ (s \o t)[i] = t[i - Len(s)]
  BY <1>1
<1>5. Image(s) \subseteq Image(s \o t)
  BY <1>2, Zenon DEF Image
<1>6. Image(t) \subseteq Image(s \o t)
  BY <1>3, Zenon DEF Image
<1>7. Image(s \o t) \subseteq Image(s) \cup Image(t)
  BY <1>4, Zenon DEF Image
<1> QED
  BY <1>5, <1>6, <1>7

\* The task at the head of the queue has not been started.
LEMMA HeadIsNew ==
  ASSUME TypeOK, Fifo, Accounting, m_tasks # <<>>
  PROVE  Head(m_tasks) \in Tasks \ Image(started)
<1>1. /\ Len(started) \in Nat /\ DOMAIN started = 1 .. Len(started)
      /\ Len(m_tasks) \in Nat \ {0}
      /\ DOMAIN accepted = 1 .. (Len(started) + Len(m_tasks))
      /\ \A i \in 1 .. (Len(started) + Len(m_tasks)) :
            accepted[i] = IF i <= Len(started) THEN started[i] ELSE m_tasks[i - Len(started)]
  BY LenProperties, ConcatProperties, EmptySeq DEF TypeOK, Fifo
<1>2. accepted[Len(started) + 1] = m_tasks[1]
  BY <1>1
<1>3. Head(m_tasks) = m_tasks[1] /\ Head(m_tasks) \in Tasks
  BY HeadTailProperties DEF TypeOK
<1>4. \A i \in DOMAIN started : started[i] # m_tasks[1]
  <2> TAKE i \in DOMAIN started
  <2>1. accepted[i] = started[i] /\ i \in DOMAIN accepted
        /\ Len(started) + 1 \in DOMAIN accepted /\ i # Len(started) + 1
    BY <1>1
  <2> QED
    BY <2>1, <1>2 DEF Accounting
<1> QED
  BY <1>3, <1>4 DEF Image

LEMMA AccountingStep ==
  ASSUME TypeOK, Fifo, Accounting, [Next]_vars
  PROVE  Accounting'
<1>1. ASSUME NEW c \in Callers, NEW t \in Tasks, Accept(c, t) PROVE Accounting'
  <2>1. /\ Len(accepted) \in Nat /\ DOMAIN accepted = 1 .. Len(accepted)
        /\ DOMAIN accepted' = 1 .. (Len(accepted) + 1)
        /\ \A i \in 1 .. Len(accepted) : accepted'[i] = accepted[i]
        /\ accepted'[Len(accepted) + 1] = t
    BY <1>1, AppendProperties, LenProperties DEF Accept, TypeOK
  <2>2. \A i \in DOMAIN accepted : accepted[i] # t
    BY <1>1 DEF Accept
  <2>3. \A i, j \in DOMAIN accepted' : accepted'[i] = accepted'[j] => i = j
    BY <2>1, <2>2 DEF Accounting
  <2>4. started' = started /\ finished' = finished /\ task' = task /\ wpc' = wpc
    BY <1>1 DEF Accept
  <2> QED
    BY <2>3, <2>4 DEF Accounting, Running, At, Image
<1>2. ASSUME NEW w \in Workers, Take(w) PROVE Accounting'
  <2> DEFINE h == Head(m_tasks)
  <2>1. h \in Tasks \ Image(started)
    BY <1>2, HeadIsNew DEF Take
  <2>2. h \notin Running /\ h \notin finished
    BY <2>1 DEF Accounting
  <2>3. /\ wpc[w] = "ready"
        /\ wpc' = [wpc EXCEPT ![w] = "running"] /\ task' = [task EXCEPT ![w] = h]
        /\ finished' = finished /\ accepted' = accepted /\ started' = Append(started, h)
    BY <1>2 DEF Take
  <2> HIDE DEF h
  <2>4. At("running")' = At("running") \cup {w} /\ w \notin At("running")
    BY <2>3 DEF At, TypeOK
  <2>5. /\ task'[w] = h
        /\ \A v \in At("running") : task'[v] = task[v]
    BY <2>3, <2>4 DEF TypeOK, At
  <2>6. Running' = Running \cup {h}
    BY <2>4, <2>5 DEF Running
  <2>7. Image(started') = Image(started) \cup {h}
    BY <2>1, <2>3, ImageAppend DEF TypeOK
  <2>8. \A u, v \in At("running")' : task'[u] = task'[v] => u = v
    BY <2>2, <2>4, <2>5 DEF Accounting, Running
  <2> QED
    BY <2>2, <2>3, <2>6, <2>7, <2>8 DEF Accounting
<1>3. ASSUME NEW w \in Workers, Done(w) PROVE Accounting'
  <2>1. /\ wpc[w] = "running"
        /\ wpc' = [wpc EXCEPT ![w] = "ready"] /\ task' = [task EXCEPT ![w] = NoTask]
        /\ finished' = finished \cup {task[w]} /\ accepted' = accepted /\ started' = started
    BY <1>3 DEF Done
  <2>2. At("running")' = At("running") \ {w} /\ w \in At("running")
    BY <2>1 DEF At, TypeOK
  <2>3. \A v \in At("running")' : task'[v] = task[v] /\ task[v] # task[w]
    BY <2>1, <2>2 DEF TypeOK, At, Accounting
  <2>4. Running' = Running \ {task[w]} /\ task[w] \in Running
    BY <2>2, <2>3 DEF Running
  <2>5. \A u, v \in At("running")' : task'[u] = task'[v] => u = v
    BY <2>2, <2>3 DEF Accounting
  <2> QED
    BY <2>1, <2>4, <2>5 DEF Accounting
<1>4. ASSUME NEW w \in Workers,
             \/ \E st \in {"waiting", "returned"} :
                   wpc[w] = "ready" /\ wpc' = [wpc EXCEPT ![w] = st]
             \/ wpc[w] = "waiting" /\ Wake(w),
             UNCHANGED <<task, accepted, started, finished>>
      PROVE Accounting'
  <2>1. At("running")' = At("running")
    BY <1>4 DEF At, TypeOK, Wake
  <2> QED
    BY <1>4, <2>1 DEF Accounting, Running
<1>5. CASE NotifyAll
  <2>1. At("running")' = At("running")
    BY <1>5 DEF At, TypeOK, NotifyAll
  <2> QED
    BY <1>5, <2>1 DEF Accounting, Running, NotifyAll
<1>6. CASE UNCHANGED <<wpc, task, accepted, started, finished>>
  BY <1>6 DEF Accounting, Running, At
<1>7. ASSUME NEW c \in Callers, NotifyOne(c) PROVE Accounting'
  <2>1. CASE UNCHANGED wpc
    BY <1>7, <1>6, <2>1 DEF NotifyOne
  <2>2. CASE \E w \in At("waiting") : Wake(w)
    BY <1>7, <1>4, <2>2 DEF NotifyOne, At
  <2> QED
    BY <1>7, <2>1, <2>2 DEF NotifyOne
<1>8. ASSUME NEW w \in Workers, Wait(w) \/ Return(w) \/ SpuriousWakeup(w)
      PROVE Accounting'
  BY <1>8, <1>4 DEF Wait, Return, SpuriousWakeup
<1> QED
  BY <1>1, <1>2, <1>3, <1>5, <1>6, <1>7, <1>8 DEF Next, WorkerStep, Stop, Join, vars

-----------------------------------------------------------------------------
(* The theorems. *)

THEOREM PoolInvariant == Spec => []PoolInv
<1>1. Init => PoolInv
  <2> SUFFICES ASSUME Init PROVE PoolInv
    OBVIOUS
  <2>1. TypeOK
    BY InitialTypes
  <2>2. At("waiting") = {} /\ At("returned") = {}
    BY DEF Init, At
  <2>3. Fifo
    BY ConcatEmptySeq DEF Init, Fifo
  <2>4. Accounting
    BY <2>1 DEF Init, Accounting, Image, Running, At
  <2> QED
    BY <2>1, <2>2, <2>3, <2>4 DEF Init, PoolInv, StopFlag, NobodySleepsThroughStop,
       ReturnedMeansDrained, DestroyedMeansReturned, NoIdleBacklog
<1>2. PoolInv /\ [Next]_vars => PoolInv'
  BY TypeStep, FifoStep, StopStep, BacklogStep, AccountingStep DEF PoolInv
<1> QED
  BY <1>1, <1>2, PTL DEF Spec, Safety

\* A pool whose destructor has returned has run to its end every task it
\* accepted: requests read from a socket are not dropped at shutdown.
THEOREM DrainedBeforeDestroyed == Spec => []DestroyedDrained
<1>1. PoolInv => DestroyedDrained
  <2> SUFFICES ASSUME PoolInv, dtor = "destroyed" PROVE finished = Image(accepted)
    BY DEF DestroyedDrained, Image
  <2>1. At("returned") = Workers /\ Workers # {}
    BY PoolAssumption DEF PoolInv, DestroyedMeansReturned
  <2>2. m_tasks = <<>>
    BY <2>1 DEF PoolInv, ReturnedMeansDrained
  <2>3. Running = {}
    BY <2>1 DEF Running, At
  <2>4. accepted = started
    BY <2>2, ConcatEmptySeq DEF PoolInv, TypeOK, Fifo
  <2> QED
    BY <2>3, <2>4 DEF PoolInv, Accounting
<1> QED
  BY <1>1, PoolInvariant, PTL

-----------------------------------------------------------------------------
(* The pool implements TaskQueue: every step is a TaskQueue step or leaves *)
(* the queue, the running and the finished tasks and the flag alone.       *)

LEMMA ReadyLeavesRoom ==
  ASSUME TypeOK, NEW w \in Workers, wpc[w] = "ready"
  PROVE  Cardinality(Running) < Cardinality(Workers)
<1> DEFINE B == At("running")
           f == [v \in B |-> task[v]]
<1>1. B \in SUBSET (Workers \ {w})
  BY DEF At
<1>2. /\ IsFiniteSet(Workers \ {w})
      /\ Cardinality(Workers \ {w}) = Cardinality(Workers) - 1
      /\ Cardinality(Workers) \in Nat
  BY PoolAssumption, FS_RemoveElement, FS_CardinalityType
<1>3. IsFiniteSet(B) /\ Cardinality(B) <= Cardinality(Workers \ {w})
  BY <1>1, <1>2, FS_Subset
<1>4. f \in Surjection(B, Running)
  BY DEF Running, Surjection
<1>5. IsFiniteSet(Running) /\ Cardinality(Running) <= Cardinality(B)
  BY <1>3, <1>4, FS_Surjection
<1>6. Cardinality(Running) \in Nat /\ Cardinality(B) \in Nat
  BY <1>3, <1>5, FS_CardinalityType
<1> HIDE DEF B
<1> QED
  BY <1>2, <1>3, <1>5, <1>6

LEMMA QueuedAreNew ==
  ASSUME TypeOK, Fifo, Accounting
  PROVE  {accepted[i] : i \in DOMAIN accepted} = Executor!Queued \cup Running \cup finished
<1>1. Image(accepted) = Image(started) \cup Image(m_tasks)
  BY ImageConcat DEF TypeOK, Fifo
<1> QED
  BY <1>1 DEF Accounting, Image, Executor!Queued

LEMMA SimulationStep ==
  ASSUME PoolInv, PoolInv', [Next]_vars
  PROVE  [Executor!Next]_(Executor!qvars)
<1> USE DEF Executor!Next, Executor!qvars
<1>0. TypeOK /\ StopFlag /\ Fifo /\ Accounting /\ StopFlag'
  BY DEF PoolInv
<1>1. ASSUME NEW c \in Callers, NEW t \in Tasks, Accept(c, t)
      PROVE Executor!Submit(t)
  <2>1. Running' = Running
    BY <1>1 DEF Accept, Running, At
  <2>2. t \notin Executor!Queued \cup Running \cup finished
    BY <1>0, <1>1, QueuedAreNew DEF Accept
  <2> QED
    BY <1>1, <2>1, <2>2 DEF Accept, Executor!Submit
<1>2. ASSUME NEW w \in Workers, Take(w)
      PROVE Executor!Start
  <2>1. Cardinality(Running) < Cardinality(Workers)
    BY <1>0, <1>2, ReadyLeavesRoom DEF Take
  <2>2. /\ wpc[w] = "ready"
        /\ wpc' = [wpc EXCEPT ![w] = "running"]
        /\ task' = [task EXCEPT ![w] = Head(m_tasks)]
    BY <1>2 DEF Take
  <2>3. At("running")' = At("running") \cup {w} /\ w \notin At("running")
    BY <1>0, <2>2 DEF At, TypeOK
  <2>4. task'[w] = Head(m_tasks) /\ \A v \in At("running") : task'[v] = task[v]
    BY <1>0, <2>2, <2>3 DEF TypeOK, At
  <2>5. Running' = Running \cup {Head(m_tasks)}
    BY <2>3, <2>4 DEF Running
  <2>6. Executor!Cardinality(Running) = Cardinality(Running)
    BY Zenon DEF Executor!Cardinality, Cardinality
  <2> QED
    BY <1>2, <2>1, <2>5, <2>6 DEF Take, Executor!Start
<1>3. ASSUME NEW w \in Workers, Done(w)
      PROVE task[w] \in Tasks /\ Executor!Finish(task[w])
  <2>1. /\ wpc[w] = "running"
        /\ wpc' = [wpc EXCEPT ![w] = "ready"]
        /\ task' = [task EXCEPT ![w] = NoTask]
    BY <1>3 DEF Done
  <2>2. At("running")' = At("running") \ {w} /\ w \in At("running")
    BY <1>0, <2>1 DEF At, TypeOK
  <2>3. \A v \in At("running")' : task'[v] = task[v] /\ task[v] # task[w]
    BY <1>0, <2>1, <2>2 DEF TypeOK, At, Accounting
  <2>4. Running' = Running \ {task[w]} /\ task[w] \in Running
    BY <2>2, <2>3 DEF Running
  <2>5. task[w] \in Tasks
    BY <1>0, <2>1 DEF TypeOK
  <2> QED
    BY <1>3, <2>4, <2>5 DEF Done, Executor!Finish
<1>4. CASE Stop
  <2>1. ~ m_stop /\ m_stop'
    BY <1>0, <1>4 DEF Stop, StopFlag
  <2>2. Running' = Running
    BY <1>4 DEF Stop, Running, At
  <2>3. Executor!Close
    BY <1>4, <2>1, <2>2 DEF Stop, Executor!Close
  <2> QED
    BY <2>3
<1>5. ASSUME At("running")' = At("running"), UNCHANGED <<m_tasks, m_stop, task, finished>>
      PROVE UNCHANGED Executor!qvars
  BY <1>5 DEF Running
<1>6. ASSUME NEW w \in Workers, Wait(w) \/ Return(w) \/ SpuriousWakeup(w)
      PROVE UNCHANGED Executor!qvars
  <2>1. At("running")' = At("running")
    BY <1>0, <1>6 DEF Wait, Return, SpuriousWakeup, Wake, At, TypeOK
  <2> QED
    BY <1>5, <1>6, <2>1 DEF Wait, Return, SpuriousWakeup
<1>7. ASSUME NEW c \in Callers, NotifyOne(c) PROVE UNCHANGED Executor!qvars
  <2>1. At("running")' = At("running")
    BY <1>0, <1>7 DEF NotifyOne, Wake, At, TypeOK
  <2> QED
    BY <1>5, <1>7, <2>1 DEF NotifyOne
<1>8. CASE NotifyAll
  <2>1. At("running")' = At("running")
    BY <1>0, <1>8 DEF NotifyAll, At, TypeOK
  <2> QED
    BY <1>5, <1>8, <2>1 DEF NotifyAll
<1>9. CASE Join \/ UNCHANGED vars
  <2>1. At("running")' = At("running")
    BY <1>9 DEF Join, vars, At
  <2> QED
    BY <1>5, <1>9, <2>1 DEF Join, vars
<1> QED
  BY <1>1, <1>2, <1>3, <1>4, <1>6, <1>7, <1>8, <1>9 DEF Next, WorkerStep

\* The pool is the ordered executor that the poll loop takes it for: its
\* initial state and all its steps are those of TaskQueue.
THEOREM PoolImplementsTaskQueue == Spec => Executor!Safety
<1>1. Init => Executor!Init
  BY DEF Init, Executor!Init, Running, At
<1>2. PoolInv /\ PoolInv' /\ [Next]_vars => [Executor!Next]_(Executor!qvars)
  BY SimulationStep
<1> QED
  BY <1>1, <1>2, PoolInvariant, PTL DEF Spec, Safety, Executor!Safety

-----------------------------------------------------------------------------

\* Tasks start in the order in which the poll loop enqueued them, none lost
\* and none started twice.
THEOREM TasksInOrder == Spec => []Fifo
<1>1. PoolInv => Fifo
  BY DEF PoolInv
<1> QED
  BY <1>1, PoolInvariant, PTL

\* No wakeup is lost: whatever the interleaving of enqueue's push and
\* notify_one with waits, spurious wakeups and the destructor, a sleeping
\* worker implies that every queued task has somebody about to look for it.
THEOREM NoLostWakeup == Spec => []NoIdleBacklog
<1>1. PoolInv => NoIdleBacklog
  BY DEF PoolInv
<1> QED
  BY <1>1, PoolInvariant, PTL

\* After notify_all nobody sleeps, so the joins of the destructor wait only
\* for workers that run.
THEOREM StopWakesEverybody == Spec => []NobodySleepsThroughStop
<1>1. PoolInv => NobodySleepsThroughStop
  BY DEF PoolInv
<1> QED
  BY <1>1, PoolInvariant, PTL

\* A worker leaves only an empty queue of a pool that accepts no more tasks.
THEOREM WorkersLeaveNothing == Spec => []ReturnedMeansDrained
<1>1. PoolInv => ReturnedMeansDrained
  BY DEF PoolInv
<1> QED
  BY <1>1, PoolInvariant, PTL
=============================================================================
