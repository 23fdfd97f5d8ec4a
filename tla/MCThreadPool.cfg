\* THREAD_POOL_SIZE is 8: three workers are the least with one running, one
\* sleeping and one on its way; three tasks outnumber two callers.
CONSTANTS
  w1 = w1  w2 = w2  w3 = w3
  c1 = c1  c2 = c2
  t1 = t1  t2 = t2  t3 = t3
  NoTask = NoTask
  Workers = {w1, w2, w3}
  Callers = {c1, c2}
  Tasks = {t1, t2, t3}
SPECIFICATION Spec
INVARIANTS NoIdleBacklog DestroyedDrained
PROPERTIES DtorReturns ImplementsTaskQueue
CHECK_DEADLOCK FALSE
