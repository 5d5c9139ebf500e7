----------------------------- MODULE ThreadPool -----------------------------
(***************************************************************************)
(* threadpool<T> (threadpool/threadpool.hpp): a fixed set of pthreads, a   *)
(* ring of task pointers, one mutex and one condition variable.            *)
(*                                                                         *)
(* Every section under the mutex is one or more steps of the thread that   *)
(* holds `lock`, so that the order of the writes inside it (the signal is  *)
(* sent before the count is raised) is part of the model.  The condition   *)
(* variable is the set of workers at "wait"; it may wake them for nothing. *)
(*                                                                         *)
(* The model starts when the constructor has returned: the workers run,    *)
(* none has reached the mutex.  `accepted` and `done` are history          *)
(* variables; the code keeps neither.                                      *)
(***************************************************************************)
EXTENDS Integers, Sequences, FiniteSets

CONSTANTS Workers,     \* the POOLCOUNT threads running routine()
          Producers,   \* threads that call push()
          Owner,       \* the thread that runs ~threadpool()
          QueueSize,   \* max_count of the task queue
          MaxPush,     \* bound of the model: calls of push() in a behaviour
          None         \* no thread, no task

ASSUME PoolAssumption ==
    /\ IsFiniteSet(Workers)
    /\ Workers # {}
    /\ Workers \cap Producers = {}
    /\ Owner \notin Workers \cup Producers
    /\ None \notin Workers \cup Producers \cup {Owner}
    /\ QueueSize \in Nat \ {0}
    /\ MaxPush \in Nat

Task == 1 .. MaxPush
Thread == Workers \cup Producers \cup {Owner}

VARIABLES
    lock,       \* the thread inside the mutex, or None
    close,      \* the flag the destructor raises
    head, tail, cur_count, queue,   \* task_queue_t
    wpc,        \* where each worker is in routine()
    wtask,      \* the task a worker took out of the ring
    ppc,        \* where each producer is in push()
    ptask,      \* the task a producer is pushing
    opc,        \* where the owner is in the destructor
    started,    \* workers that have not left routine()
    pool,       \* "array" while the resources are held, "null" once freed
    pushes,     \* calls of push() so far; a call's number names its task
    accepted,   \* tasks push() returned 0 for
    done        \* tasks whose task_cb() returned

ring  == <<head, tail, cur_count, queue>>
hist  == <<accepted, done>>
vars  == <<lock, close, ring, wpc, wtask, ppc, ptask, opc, started, pool,
           pushes, hist>>

TypeOK ==
    /\ lock \in Thread \cup {None}
    /\ close \in BOOLEAN
    /\ head \in 0 .. QueueSize - 1
    /\ tail \in 0 .. QueueSize - 1
    /\ cur_count \in 0 .. QueueSize
    /\ queue \in [0 .. QueueSize - 1 -> Task \cup {0}]
    /\ wpc \in [Workers -> {"lock", "check", "wait", "run", "exited"}]
    /\ wtask \in [Workers -> Task \cup {0}]
    /\ ppc \in [Producers -> {"idle", "enter", "put", "count"}]
    /\ ptask \in [Producers -> Task \cup {0}]
    /\ opc \in {"alive", "enter", "join", "free", "destroyed"}
    /\ started \in Int
    /\ pool \in {"array", "null"}
    /\ pushes \in 0 .. MaxPush
    /\ accepted \subseteq Task
    /\ done \subseteq Task

Init ==
    /\ lock = None
    /\ close = FALSE
    /\ head = 0 /\ tail = 0 /\ cur_count = 0
    /\ queue = [i \in 0 .. QueueSize - 1 |-> 0]
    /\ wpc = [w \in Workers |-> "lock"]
    /\ wtask = [w \in Workers |-> 0]
    /\ ppc = [p \in Producers |-> "idle"]
    /\ ptask = [p \in Producers |-> 0]
    /\ opc = "alive"
    /\ started = Cardinality(Workers)
    /\ pool = "array"
    /\ pushes = 0
    /\ accepted = {} /\ done = {}

-----------------------------------------------------------------------------
\* The pieces of routine(), push() and the destructor that the actions share.

NextSlot(i) == (i + 1) % QueueSize

\* pthread_cond_wait's loop condition in routine().
MustWaitIgnoringClose == cur_count = 0     \* faulty: forgets the flag
MustWait == cur_count = 0 /\ ~close

\* push() turns the caller away.
RefusesOnlyClosed == close     \* faulty: never full
Refuses == close \/ cur_count = QueueSize

Sleeping == {w \in Workers : wpc[w] = "wait"}

\* pthread_cond_signal: some sleeper, if there is one, goes for the mutex.
\* faulty: signals only for the first task of an empty ring
SignalIfEmpty ==
    \/ (Sleeping = {} \/ cur_count > 0) /\ UNCHANGED wpc
    \/ \E w \in Sleeping : cur_count = 0 /\ wpc' = [wpc EXCEPT ![w] = "lock"]

\* faulty: no signal at all
SignalNobody == UNCHANGED wpc

SignalOne ==
    \/ Sleeping = {} /\ UNCHANGED wpc
    \/ \E w \in Sleeping : wpc' = [wpc EXCEPT ![w] = "lock"]

\* pthread_cond_broadcast.

SignalAll ==
    wpc' = [w \in Workers |-> IF w \in Sleeping THEN "lock" ELSE wpc[w]]

-----------------------------------------------------------------------------
\* push()

\* A thread calls push() with a task of its own.
PushCall(p) ==
    /\ ppc[p] = "idle"
    /\ opc # "destroyed"
    /\ pushes < MaxPush
    /\ pushes' = pushes + 1
    /\ ptask' = [ptask EXCEPT ![p] = pushes + 1]
    /\ ppc' = [ppc EXCEPT ![p] = "enter"]
    /\ UNCHANGED <<lock, close, ring, wpc, wtask, opc, started, pool, hist>>

PushLock(p) ==
    /\ ppc[p] = "enter"
    /\ opc # "destroyed"
    /\ lock = None
    /\ lock' = p
    /\ ppc' = [ppc EXCEPT ![p] = "put"]
    /\ UNCHANGED <<close, ring, wpc, wtask, ptask, opc, started, pool, pushes,
                   hist>>

\* Closed or full: unlock and return -1.
PushRefuse(p) ==
    /\ ppc[p] = "put"
    /\ Refuses
    /\ lock' = None
    /\ ppc' = [ppc EXCEPT ![p] = "idle"]
    /\ ptask' = [ptask EXCEPT ![p] = 0]
    /\ UNCHANGED <<close, ring, wpc, wtask, opc, started, pool, pushes, hist>>

\* The slot is written and one sleeper is signalled; the count is still old.
PushSignal(p) ==
    /\ ppc[p] = "put"
    /\ ~Refuses
    /\ queue' = [queue EXCEPT ![tail] = ptask[p]]
    /\ SignalOne
    /\ ppc' = [ppc EXCEPT ![p] = "count"]
    /\ UNCHANGED <<lock, close, head, tail, cur_count, wtask, ptask, opc,
                   started, pool, pushes, hist>>

\* Tail and count are advanced, the mutex is released, push() returns 0.
PushCount(p) ==
    /\ ppc[p] = "count"
    /\ tail' = NextSlot(tail)
    /\ cur_count' = cur_count + 1
    /\ lock' = None
    /\ accepted' = accepted \cup {ptask[p]}
    /\ ppc' = [ppc EXCEPT ![p] = "idle"]
    /\ ptask' = [ptask EXCEPT ![p] = 0]
    /\ UNCHANGED <<close, head, queue, wpc, wtask, opc, started, pool, pushes,
                   done>>

-----------------------------------------------------------------------------
\* routine()

\* The worker gets the mutex, on entry of the loop or on return from the wait.
WorkerLock(w) ==
    /\ wpc[w] = "lock"
    /\ lock = None
    /\ lock' = w
    /\ wpc' = [wpc EXCEPT ![w] = "check"]
    /\ UNCHANGED <<close, ring, wtask, ppc, ptask, opc, started, pool, pushes,
                   hist>>

WorkerWait(w) ==
    /\ wpc[w] = "check"
    /\ MustWait
    /\ lock' = None
    /\ wpc' = [wpc EXCEPT ![w] = "wait"]
    /\ UNCHANGED <<close, ring, wtask, ppc, ptask, opc, started, pool, pushes,
                   hist>>

\* POSIX lets pthread_cond_wait return without a signal.
WorkerSpurious(w) ==
    /\ wpc[w] = "wait"
    /\ wpc' = [wpc EXCEPT ![w] = "lock"]
    /\ UNCHANGED <<lock, close, ring, wtask, ppc, ptask, opc, started, pool,
                   pushes, hist>>

\* faulty: head is not advanced
WorkerTakeSameSlot(w) ==
    /\ wpc[w] = "check" /\ ~MustWait /\ ~close
    /\ wtask' = [wtask EXCEPT ![w] = queue[head]]
    /\ cur_count' = cur_count - 1
    /\ lock' = None
    /\ wpc' = [wpc EXCEPT ![w] = "run"]
    /\ UNCHANGED <<close, head, tail, queue, ppc, ptask, opc, started, pool, pushes,
                   hist>>

\* faulty: takes the newest task, not the oldest
WorkerTakeNewest(w) ==
    /\ wpc[w] = "check" /\ ~MustWait /\ ~close
    /\ LET last == (tail + QueueSize - 1) % QueueSize
       IN  wtask' = [wtask EXCEPT ![w] = queue[last]] /\ tail' = last
    /\ cur_count' = cur_count - 1
    /\ lock' = None
    /\ wpc' = [wpc EXCEPT ![w] = "run"]
    /\ UNCHANGED <<close, head, queue, ppc, ptask, opc, started, pool, pushes,
                   hist>>

\* Takes the task at the head and releases the mutex.
WorkerTake(w) ==
    /\ wpc[w] = "check"
    /\ ~MustWait
    /\ ~close
    /\ wtask' = [wtask EXCEPT ![w] = queue[head]]
    /\ head' = NextSlot(head)
    /\ cur_count' = cur_count - 1
    /\ lock' = None
    /\ wpc' = [wpc EXCEPT ![w] = "run"]
    /\ UNCHANGED <<close, tail, queue, ppc, ptask, opc, started, pool, pushes,
                   hist>>

\* task_cb() returns.
WorkerRan(w) ==
    /\ wpc[w] = "run"
    /\ done' = done \cup {wtask[w]}
    /\ wtask' = [wtask EXCEPT ![w] = 0]
    /\ wpc' = [wpc EXCEPT ![w] = "lock"]
    /\ UNCHANGED <<lock, close, ring, ppc, ptask, opc, started, pool, pushes,
                   accepted>>

\* The flag is tested before the ring: whatever is queued stays there.
WorkerExit(w) ==
    /\ wpc[w] = "check"
    /\ close
    /\ started' = started - 1
    /\ lock' = None
    /\ wpc' = [wpc EXCEPT ![w] = "exited"]
    /\ UNCHANGED <<close, ring, wtask, ppc, ptask, opc, pool, pushes, hist>>

-----------------------------------------------------------------------------
\* ~threadpool(), wait_all_done(), thread_pool_free()

DtorLock ==
    /\ opc = "alive"
    /\ lock = None
    /\ lock' = Owner
    /\ opc' = "enter"
    /\ UNCHANGED <<close, ring, wpc, wtask, ppc, ptask, started, pool, pushes,
                   hist>>

DtorClose ==
    /\ opc = "enter"
    /\ close' = TRUE
    /\ SignalAll
    /\ lock' = None
    /\ opc' = "join"
    /\ UNCHANGED <<ring, wtask, ppc, ptask, started, pool, pushes, hist>>

\* wait_all_done: pthread_join on every worker.
DtorJoin ==
    /\ opc = "join"
    /\ \A w \in Workers : wpc[w] = "exited"
    /\ opc' = "free"
    /\ UNCHANGED <<lock, close, ring, wpc, wtask, ppc, ptask, started, pool,
                   pushes, hist>>

\* thread_pool_free gives up when `pool` is set OR a worker is left.
StillInUse == pool # "null" \/ started > 0

DtorFree ==
    /\ opc = "free"
    /\ pool' = IF StillInUse THEN pool ELSE "null"
    /\ opc' = "destroyed"
    /\ UNCHANGED <<lock, close, ring, wpc, wtask, ppc, ptask, started, pushes,
                   hist>>

-----------------------------------------------------------------------------
Push(p) ==
    PushCall(p) \/ PushLock(p) \/ PushRefuse(p) \/ PushSignal(p) \/ PushCount(p)

\* routine() without the moment it gets the mutex.
Routine(w) ==
    WorkerWait(w) \/ WorkerTake(w) \/ WorkerRan(w) \/ WorkerExit(w)

Destructor == DtorLock \/ DtorClose \/ DtorJoin \/ DtorFree

Next ==
    \/ \E p \in Producers : Push(p)
    \/ \E w \in Workers : WorkerLock(w) \/ WorkerSpurious(w) \/ Routine(w)
    \/ Destructor

Spec == Init /\ [][Next]_vars

\* A thread that holds the mutex or runs a task goes on; a thread that asks
\* for the mutex again and again is not passed over for ever.  Nobody has to
\* call push() or to destroy the pool.
Fairness ==
    /\ \A w \in Workers : SF_vars(WorkerLock(w)) /\ WF_vars(Routine(w))
    /\ \A p \in Producers : SF_vars(PushLock(p))
                            /\ WF_vars(PushRefuse(p) \/ PushSignal(p) \/ PushCount(p))
    /\ WF_vars(DtorClose \/ DtorJoin \/ DtorFree)

FairSpec == Spec /\ Fairness
-----------------------------------------------------------------------------
(* Properties *)

\* The task i places after the head of the ring, and all that are queued.
Queued(i) == queue[(head + i) % QueueSize]
InRing    == {Queued(i) : i \in 0 .. cur_count - 1}
Running   == {w \in Workers : wpc[w] = "run"}

\* The mutex and the program counters agree: at most one thread is inside
\* push(), the loop of routine() or the destructor's critical section.
MutexHeld ==
    /\ \A w \in Workers : lock = w <=> wpc[w] = "check"
    /\ \A p \in Producers : lock = p <=> ppc[p] \in {"put", "count"}
    /\ lock = Owner <=> opc = "enter"

\* head, tail and cur_count describe one contiguous stretch of the ring,
\* also while push() sits between its signal and its update of the count,
\* where the slot already written is the first one past the stretch.
RingCoherent ==
    /\ tail = (head + cur_count) % QueueSize
    /\ \A p \in Producers :
          ppc[p] = "count" => cur_count < QueueSize /\ queue[tail] = ptask[p]

\* A task that push() accepted is in exactly one place: in one slot of the
\* ring, at one worker, or done.  No index arithmetic loses, repeats or
\* overwrites one.
TaskInOnePlace ==
    /\ accepted = InRing \cup {wtask[w] : w \in Running} \cup done
    /\ \A i, j \in 0 .. cur_count - 1 : i # j => Queued(i) # Queued(j)
    /\ \A v, w \in Running : v # w => wtask[v] # wtask[w]
    /\ \A w \in Running : wtask[w] \notin InRing \cup done
    /\ InRing \cap done = {}

\* No wake-up is lost, although push() signals before it raises cur_count:
\* while a worker sleeps, each queued task has a worker of its own that is
\* awake and on its way to the ring.
Coming == {w \in Workers : wpc[w] \in {"lock", "check"}}
NoLostWakeup == Sleeping # {} /\ ~close => cur_count <= Cardinality(Coming)

\* Closing wakes everybody: nobody sleeps once the destructor left its
\* critical section, so wait_all_done() is not left joining a sleeper.
NobodySleepsThroughClose == close => Sleeping = {}

\* Once the flag is up no worker starts another task, whatever is queued.
NothingStartsAfterClose ==
    [][close => \A w \in Workers : wpc'[w] = "run" => wpc[w] = "run"]_vars

\* The pool behaves as the bounded FIFO its callers count on.
Abstract == INSTANCE TaskPool WITH
    Runner   <- Workers,
    Idle     <- 0,
    Capacity <- QueueSize,
    pending  <- [i \in 1 .. cur_count |-> Queued(i - 1)],
    running  <- wtask,
    finished <- done,
    closed   <- close
ImplementsTaskPool == Abstract!Spec

\* An accepted task is run, unless the pool is closed first.
AcceptedTaskRuns ==
    \A t \in Task : t \in accepted ~> (t \in done \/ close)

\* The destructor returns: every worker it joins leaves routine().
DestructorReturns == opc = "enter" ~> opc = "destroyed"

=============================================================================
