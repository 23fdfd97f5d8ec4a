----------------------------- MODULE ThreadPool -----------------------------
(***************************************************************************)
(* The ThreadPool of network/Server.h: a queue of closures guarded by      *)
(* m_queue_mutex, a condition variable, a fixed set of workers, any number *)
(* of threads calling enqueue, and one thread running the destructor.      *)
(*                                                                         *)
(* Every section of the code that holds m_queue_mutex is one action, since *)
(* all the fields are read and written under it only; notify_one and       *)
(* notify_all happen after the unlock and are actions of their own.  A     *)
(* thread in m_cv.wait is in wpc "waiting"; it returns to "ready", where   *)
(* it competes for the mutex again and re-evaluates the predicate.         *)
(***************************************************************************)
EXTENDS Naturals, Sequences, FiniteSets

CONSTANTS Workers,  \* the threads of m_workers (THREAD_POOL_SIZE of them)
          Callers,  \* the threads that call enqueue
          Tasks,    \* the closures, each submitted by one call of enqueue
          NoTask    \* a worker's local "task" before it holds one

ASSUME PoolAssumption ==
  /\ IsFiniteSet(Workers) /\ Workers # {}
  /\ IsFiniteSet(Callers)
  /\ NoTask \notin Tasks

VARIABLES
  m_tasks,    \* the queue
  m_stop,     \* set by the destructor
  wpc,        \* [Workers -> "ready" | "waiting" | "running" | "returned"]
  task,       \* [Workers -> Tasks \cup {NoTask}]: the worker's local variable
  cpc,        \* [Callers -> "out" | "notify"]: inside enqueue, after the unlock
  dtor,       \* "alive" | "notify" | "joining" | "destroyed"
  accepted,   \* history: tasks put in the queue, in order
  started,    \* history: tasks taken out of the queue, in order
  finished    \* history: tasks whose call has returned

vars == <<m_tasks, m_stop, wpc, task, cpc, dtor, accepted, started, finished>>

Init ==
  /\ m_tasks = <<>>
  /\ m_stop = FALSE
  /\ wpc = [w \in Workers |-> "ready"]
  /\ task = [w \in Workers |-> NoTask]
  /\ cpc = [c \in Callers |-> "out"]
  /\ dtor = "alive"
  /\ accepted = <<>>
  /\ started = <<>>
  /\ finished = {}

At(state) == {w \in Workers : wpc[w] = state}
Running == {task[w] : w \in At("running")}
Notifying == {c \in Callers : cpc[c] = "notify"}

-----------------------------------------------------------------------------
(* enqueue *)

\* Faulty: notifies only when the queue was empty.
AcceptNotifyIfEmpty(c, t) ==
  /\ cpc[c] = "out"
  /\ t \notin {accepted[i] : i \in DOMAIN accepted}
  /\ ~ m_stop
  /\ m_tasks' = Append(m_tasks, t)
  /\ accepted' = Append(accepted, t)
  /\ cpc' = [cpc EXCEPT ![c] = IF m_tasks = <<>> THEN "notify" ELSE "out"]
  /\ UNCHANGED <<m_stop, wpc, task, dtor, started, finished>>

Accept(c, t) ==
  /\ cpc[c] = "out"
  /\ t \notin {accepted[i] : i \in DOMAIN accepted}
  /\ ~ m_stop
  /\ m_tasks' = Append(m_tasks, t)
  /\ accepted' = Append(accepted, t)
  /\ cpc' = [cpc EXCEPT ![c] = "notify"]
  /\ UNCHANGED <<m_stop, wpc, task, dtor, started, finished>>

\* A call that finds m_stop set returns and leaves everything as it was: it is
\* a stuttering step and needs no action.

Wake(w) == wpc' = [wpc EXCEPT ![w] = "ready"]

NotifyOne(c) ==
  /\ cpc[c] = "notify"
  /\ cpc' = [cpc EXCEPT ![c] = "out"]
  /\ \/ \E w \in At("waiting") : Wake(w)
     \/ At("waiting") = {} /\ UNCHANGED wpc
  /\ UNCHANGED <<m_tasks, m_stop, task, dtor, accepted, started, finished>>

-----------------------------------------------------------------------------
(* The workers *)

\* Faulty: the predicate ignores m_stop.
WaitIgnoringStop(w) ==
  /\ wpc[w] = "ready"
  /\ m_tasks = <<>>
  /\ wpc' = [wpc EXCEPT ![w] = "waiting"]
  /\ UNCHANGED <<m_tasks, m_stop, task, cpc, dtor, accepted, started, finished>>

Wait(w) ==
  /\ wpc[w] = "ready"
  /\ ~ m_stop /\ m_tasks = <<>>
  /\ wpc' = [wpc EXCEPT ![w] = "waiting"]
  /\ UNCHANGED <<m_tasks, m_stop, task, cpc, dtor, accepted, started, finished>>

\* m_cv.wait may return without a notification.
SpuriousWakeup(w) ==
  /\ wpc[w] = "waiting"
  /\ Wake(w)
  /\ UNCHANGED <<m_tasks, m_stop, task, cpc, dtor, accepted, started, finished>>

\* Faulty: takes the newest task.
TakeNewest(w) ==
  /\ wpc[w] = "ready"
  /\ m_tasks # <<>>
  /\ wpc' = [wpc EXCEPT ![w] = "running"]
  /\ task' = [task EXCEPT ![w] = m_tasks[Len(m_tasks)]]
  /\ m_tasks' = SubSeq(m_tasks, 1, Len(m_tasks) - 1)
  /\ started' = Append(started, m_tasks[Len(m_tasks)])
  /\ UNCHANGED <<m_stop, cpc, dtor, accepted, finished>>

Take(w) ==
  /\ wpc[w] = "ready"
  /\ m_tasks # <<>>
  /\ wpc' = [wpc EXCEPT ![w] = "running"]
  /\ task' = [task EXCEPT ![w] = Head(m_tasks)]
  /\ m_tasks' = Tail(m_tasks)
  /\ started' = Append(started, Head(m_tasks))
  /\ UNCHANGED <<m_stop, cpc, dtor, accepted, finished>>

\* Faulty: leaves as soon as m_stop is set.
ReturnOnStop(w) ==
  /\ wpc[w] = "ready"
  /\ m_stop
  /\ wpc' = [wpc EXCEPT ![w] = "returned"]
  /\ UNCHANGED <<m_tasks, m_stop, task, cpc, dtor, accepted, started, finished>>

Return(w) ==
  /\ wpc[w] = "ready"
  /\ m_stop /\ m_tasks = <<>>
  /\ wpc' = [wpc EXCEPT ![w] = "returned"]
  /\ UNCHANGED <<m_tasks, m_stop, task, cpc, dtor, accepted, started, finished>>

\* task() returns; the closure is destroyed at the end of the iteration.
Done(w) ==
  /\ wpc[w] = "running"
  /\ wpc' = [wpc EXCEPT ![w] = "ready"]
  /\ task' = [task EXCEPT ![w] = NoTask]
  /\ finished' = finished \cup {task[w]}
  /\ UNCHANGED <<m_tasks, m_stop, cpc, dtor, accepted, started>>

-----------------------------------------------------------------------------
(* The destructor *)

Stop ==
  /\ dtor = "alive"
  /\ m_stop' = TRUE
  /\ dtor' = "notify"
  /\ UNCHANGED <<m_tasks, wpc, task, cpc, accepted, started, finished>>

NotifyAll ==
  /\ dtor = "notify"
  /\ dtor' = "joining"
  /\ wpc' = [w \in Workers |-> IF wpc[w] = "waiting" THEN "ready" ELSE wpc[w]]
  /\ UNCHANGED <<m_tasks, m_stop, task, cpc, accepted, started, finished>>

\* The join loop ends when every worker has returned.  No call of enqueue may
\* still be inside the object then: main's poll loop has ended before ~Server.
Join ==
  /\ dtor = "joining"
  /\ At("returned") = Workers
  /\ Notifying = {}
  /\ dtor' = "destroyed"
  /\ UNCHANGED <<m_tasks, m_stop, wpc, task, cpc, accepted, started, finished>>

-----------------------------------------------------------------------------

WorkerStep(w) == Wait(w) \/ Take(w) \/ Done(w) \/ Return(w)

Next ==
  \/ \E c \in Callers : NotifyOne(c) \/ \E t \in Tasks : Accept(c, t)
  \/ \E w \in Workers : WorkerStep(w) \/ SpuriousWakeup(w)
  \/ Stop \/ NotifyAll \/ Join

Safety == Init /\ [][Next]_vars

\* Threads that can run do run and tasks return: the handlers of main.cpp only
\* make non-blocking sends and short critical sections.  Nobody has to call
\* enqueue or the destructor.
Fairness ==
  /\ \A w \in Workers : WF_vars(WorkerStep(w))
  /\ \A c \in Callers : WF_vars(NotifyOne(c))
  /\ WF_vars(NotifyAll) /\ WF_vars(Join)

Spec == Safety /\ Fairness

-----------------------------------------------------------------------------
(* Properties *)

\* The fields have the types the code gives them; a worker holds a closure
\* exactly while it is calling it.
TypeOK ==
  /\ m_tasks \in Seq(Tasks)
  /\ m_stop \in BOOLEAN
  /\ wpc \in [Workers -> {"ready", "waiting", "running", "returned"}]
  /\ task \in [Workers -> Tasks \cup {NoTask}]
  /\ cpc \in [Callers -> {"out", "notify"}]
  /\ dtor \in {"alive", "notify", "joining", "destroyed"}
  /\ accepted \in Seq(Tasks)
  /\ started \in Seq(Tasks)
  /\ finished \subseteq Tasks
  /\ \A w \in Workers : wpc[w] = "running" <=> task[w] # NoTask

\* Requests leave the queue in the order in which the poll loop put them in,
\* none lost and none run twice (the move out of front() and the pop are one
\* critical section).
Fifo == accepted = started \o m_tasks

\* No lost wakeup: while some worker sleeps in m_cv.wait, every queued task is
\* covered by a worker that is about to look at the queue or by a notify_one
\* still to come.  No task waits behind a busy worker beside a sleeping one.
NoIdleBacklog ==
  At("waiting") # {} =>
     Len(m_tasks) <= Cardinality(At("ready")) + Cardinality(Notifying)

\* Once the destructor has called notify_all no worker sleeps any more (the
\* predicate is true for good), so the joins cannot wait for a sleeper.
NobodySleepsThroughStop ==
  dtor \in {"joining", "destroyed"} => At("waiting") = {}

\* A pool that is gone has run everything it accepted: a worker leaves only
\* when m_stop is set and the queue is empty.
DestroyedDrained ==
  dtor = "destroyed" => finished = {accepted[i] : i \in DOMAIN accepted}

\* Once a worker has left, no task can be in the queue or enter it.
ReturnedMeansDrained == At("returned") # {} => m_stop /\ m_tasks = <<>>

\* The destructor, once called, returns.
DtorReturns == dtor = "notify" ~> dtor = "destroyed"

\* The pool implements the ordered executor of TaskQueue.
Executor == INSTANCE TaskQueue WITH
  Width <- Cardinality(Workers),
  pending <- m_tasks,
  running <- Running,
  open <- ~ m_stop

ImplementsTaskQueue == Executor!Spec
=============================================================================
