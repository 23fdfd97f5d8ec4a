----------------------------- MODULE TaskQueue -----------------------------
(***************************************************************************)
(* What a caller may rely on when it hands closures to the thread pool of  *)
(* network/Server.h: tasks are started in the order in which they were     *)
(* accepted, each exactly once, at most Width at a time; once the pool is  *)
(* closed no task is accepted any more, and what was accepted still runs.  *)
(***************************************************************************)
EXTENDS Naturals, Sequences, FiniteSets

CONSTANTS Tasks,  \* the closures callers may submit
          Width   \* how many tasks may run at the same time

VARIABLES pending,   \* accepted and not started, oldest first
          running,   \* started and not finished
          finished,  \* finished
          open       \* the queue still accepts tasks

qvars == <<pending, running, finished, open>>

Queued == {pending[i] : i \in DOMAIN pending}

Init ==
  /\ pending = <<>>
  /\ running = {}
  /\ finished = {}
  /\ open = TRUE

Submit(t) ==
  /\ open
  /\ t \notin Queued \cup running \cup finished
  /\ pending' = Append(pending, t)
  /\ UNCHANGED <<running, finished, open>>

Start ==
  /\ pending # <<>>
  /\ Cardinality(running) < Width
  /\ pending' = Tail(pending)
  /\ running' = running \cup {Head(pending)}
  /\ UNCHANGED <<finished, open>>

Finish(t) ==
  /\ t \in running
  /\ running' = running \ {t}
  /\ finished' = finished \cup {t}
  /\ UNCHANGED <<pending, open>>

Close ==
  /\ open
  /\ open' = FALSE
  /\ UNCHANGED <<pending, running, finished>>

Next ==
  \/ \E t \in Tasks : Submit(t) \/ Finish(t)
  \/ Start
  \/ Close

Safety == Init /\ [][Next]_qvars

\* Accepted tasks start and started tasks finish.
Spec == Safety /\ WF_qvars(Start) /\ \A t \in Tasks : WF_qvars(Finish(t))
=============================================================================
