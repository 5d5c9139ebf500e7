------------------------------ MODULE TaskPool ------------------------------
(***************************************************************************)
(* What a caller of threadpool<T> is promised, with no lock, no ring and   *)
(* no condition variable: a bounded FIFO of tasks, each started at most    *)
(* once and in the order it was accepted, at most one per runner at a      *)
(* time, and none after the pool was closed.  ThreadPool implements it.    *)
(***************************************************************************)
EXTENDS Naturals, Sequences

CONSTANTS Task,        \* the tasks that may be submitted
          Runner,      \* who executes tasks
          Idle,        \* what a runner executes when it executes nothing
          Capacity     \* most tasks waiting at any time

VARIABLES pending,     \* accepted tasks that have not started, oldest first
          running,     \* the task each runner executes, or Idle
          finished,    \* tasks whose execution is over
          closed       \* the pool was told to shut down

poolVars == <<pending, running, finished, closed>>

Known(t) ==
    \/ \E i \in DOMAIN pending : pending[i] = t
    \/ \E r \in Runner : running[r] = t
    \/ t \in finished

Init ==
    /\ pending = << >>
    /\ running = [r \in Runner |-> Idle]
    /\ finished = {}
    /\ closed = FALSE

Submit(t) ==
    /\ ~closed
    /\ ~Known(t)
    /\ Len(pending) < Capacity
    /\ pending' = Append(pending, t)
    /\ UNCHANGED <<running, finished, closed>>

Start(r) ==
    /\ ~closed
    /\ pending # << >>
    /\ running[r] = Idle
    /\ running' = [running EXCEPT ![r] = Head(pending)]
    /\ pending' = Tail(pending)
    /\ UNCHANGED <<finished, closed>>

Finish(r) ==
    /\ running[r] # Idle
    /\ running' = [running EXCEPT ![r] = Idle]
    /\ finished' = finished \cup {running[r]}
    /\ UNCHANGED <<pending, closed>>

Close ==
    /\ closed' = TRUE
    /\ UNCHANGED <<pending, running, finished>>

Next ==
    \/ \E t \in Task : Submit(t)
    \/ \E r \in Runner : Start(r) \/ Finish(r)
    \/ Close

Spec == Init /\ [][Next]_poolVars
=============================================================================
