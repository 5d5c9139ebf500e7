-------------------------- MODULE ThreadPoolProofs --------------------------
(***************************************************************************)
(* Proofs about ThreadPool for every number of workers, producers, tasks   *)
(* and every ring size.                                                    *)
(***************************************************************************)
EXTENDS ThreadPool, FiniteSetTheorems, SequenceTheorems, TLAPS

-----------------------------------------------------------------------------
\* The arithmetic of the indices of a ring of n slots.

\* Stepping an index of a ring of n slots: the next one, or back to 0.
LEMMA NextIndex ==
    ASSUME NEW n \in Nat \ {0}, NEW x \in 0 .. n - 1
    PROVE  /\ (x + 1) % n \in 0 .. n - 1
           /\ (x + 1) % n = IF x + 1 = n THEN 0 ELSE x + 1
  OBVIOUS

\* The slot k places after x, for k at most n.
LEMMA SlotAfter ==
    ASSUME NEW n \in Nat \ {0}, NEW x \in 0 .. n - 1, NEW k \in 0 .. n
    PROVE  /\ (x + k) % n \in 0 .. n - 1
           /\ (x + k) % n = IF x + k < n THEN x + k ELSE x + k - n
  OBVIOUS

\* The first place of a stretch is where it starts.
LEMMA SlotZero ==
    ASSUME NEW n \in Nat \ {0}, NEW x \in 0 .. n - 1
    PROVE  (x + 0) % n = x
  OBVIOUS

\* The stretch of k slots after x ends one further when a slot is added ...
LEMMA StretchGrows ==
    ASSUME NEW n \in Nat \ {0}, NEW x \in 0 .. n - 1, NEW k \in 0 .. n - 1
    PROVE  (((x + k) % n) + 1) % n = (x + (k + 1)) % n
  <1>1. (x + k) % n = IF x + k < n THEN x + k ELSE x + k - n
    BY SlotAfter, k \in 0 .. n
  <1>2. (x + (k + 1)) % n = IF x + (k + 1) < n THEN x + (k + 1) ELSE x + (k + 1) - n
    BY SlotAfter, k + 1 \in 0 .. n
  <1>3. (x + k) % n \in 0 .. n - 1
    BY SlotAfter, k \in 0 .. n
  <1>4. (((x + k) % n) + 1) % n = IF ((x + k) % n) + 1 = n THEN 0 ELSE ((x + k) % n) + 1
    BY <1>3, NextIndex
  <1> QED
    BY <1>1, <1>2, <1>4

\* ... and slot i + 1 after x is slot i after the one that follows x.
LEMMA StretchShifts ==
    ASSUME NEW n \in Nat \ {0}, NEW x \in 0 .. n - 1, NEW i \in 0 .. n - 1
    PROVE  (((x + 1) % n) + i) % n = (x + (i + 1)) % n
  <1>1. /\ (x + 1) % n \in 0 .. n - 1
        /\ (x + 1) % n = IF x + 1 = n THEN 0 ELSE x + 1
    BY NextIndex
  <1>2. (x + (i + 1)) % n = IF x + (i + 1) < n THEN x + (i + 1) ELSE x + (i + 1) - n
    BY SlotAfter, i + 1 \in 0 .. n
  <1>3. (((x + 1) % n) + i) % n = IF ((x + 1) % n) + i < n THEN ((x + 1) % n) + i
                                                    ELSE ((x + 1) % n) + i - n
    BY <1>1, SlotAfter, i \in 0 .. n
  <1> QED
    BY <1>1, <1>2, <1>3

\* Two places of the stretch are two slots.
LEMMA SlotsDiffer ==
    ASSUME NEW n \in Nat \ {0}, NEW x \in 0 .. n - 1,
           NEW i \in 0 .. n - 1, NEW j \in 0 .. n - 1, i # j
    PROVE  (x + i) % n # (x + j) % n
  <1>1. /\ (x + i) % n = IF x + i < n THEN x + i ELSE x + i - n
        /\ (x + j) % n = IF x + j < n THEN x + j ELSE x + j - n
    BY SlotAfter, i \in 0 .. n, j \in 0 .. n
  <1> QED
    BY <1>1

-----------------------------------------------------------------------------
(* Types, mutual exclusion and the shape of the ring.                       *)
(* The three need each other: that the count stays within the ring rests on *)
(* the producer being alone between its test and its update of the count.   *)

\* Where a task is expected there is one; push() goes on only while open.
RealTasks ==
    /\ \A w \in Workers : IF w \in Running THEN wtask[w] \in Task ELSE wtask[w] = 0
    /\ \A p \in Producers : ppc[p] # "idle" => ptask[p] \in Task
    /\ \A i \in 0 .. cur_count - 1 : Queued(i) \in Task
    /\ \A p \in Producers : ppc[p] = "count" => ~close

LockInv == TypeOK /\ MutexHeld /\ RingCoherent /\ RealTasks

LEMMA LockInvInit == Init => LockInv
  <1> SUFFICES ASSUME Init PROVE LockInv
    OBVIOUS
  <1> USE PoolAssumption
  <1>1. Cardinality(Workers) \in Nat
    BY FS_CardinalityType
  <1>2. TypeOK
    <2>1. /\ head \in 0 .. QueueSize - 1 /\ tail \in 0 .. QueueSize - 1
          /\ cur_count \in 0 .. QueueSize /\ pushes \in 0 .. MaxPush
          /\ started \in Int
      BY <1>1 DEF Init
    <2>2. /\ queue \in [0 .. QueueSize - 1 -> Task \cup {0}]
          /\ wtask \in [Workers -> Task \cup {0}]
          /\ ptask \in [Producers -> Task \cup {0}]
          /\ wpc \in [Workers -> {"lock", "check", "wait", "run", "exited"}]
          /\ ppc \in [Producers -> {"idle", "enter", "put", "count"}]
      BY DEF Init
    <2> QED
      BY <2>1, <2>2 DEF Init, TypeOK
  <1>3. MutexHeld
    BY DEF Init, MutexHeld
  <1>4. RingCoherent
    BY DEF Init, RingCoherent
  <1>5. RealTasks
    BY DEF Init, RealTasks, Running
  <1> QED
    BY <1>2, <1>3, <1>4, <1>5 DEF LockInv

LEMMA LockInvStep == LockInv /\ [Next]_vars => LockInv'
  <1> SUFFICES ASSUME LockInv, [Next]_vars PROVE LockInv'
    OBVIOUS
  <1> USE PoolAssumption DEF LockInv, TypeOK, MutexHeld, RingCoherent, RealTasks,
          Running, Queued, Thread, ring, hist
  <1>1. ASSUME NEW p \in Producers, PushCall(p) PROVE LockInv'
    BY <1>1 DEF PushCall, Task
  <1>2. ASSUME NEW p \in Producers, PushLock(p) PROVE LockInv'
    BY <1>2 DEF PushLock
  <1>3. ASSUME NEW p \in Producers, PushRefuse(p) PROVE LockInv'
    BY <1>3 DEF PushRefuse
  <1>4. ASSUME NEW p \in Producers, PushSignal(p) PROVE LockInv'
    <2>1. cur_count \in 0 .. QueueSize - 1 /\ ptask[p] \in Task
      BY <1>4 DEF PushSignal, Refuses
    <2>2. \A i \in 0 .. cur_count - 1 : (head + i) % QueueSize # tail
      <3>1. ASSUME NEW i \in 0 .. cur_count - 1
            PROVE  (head + i) % QueueSize # (head + cur_count) % QueueSize
        <4>1. /\ i \in 0 .. QueueSize - 1
              /\ i # cur_count
              /\ head \in 0 .. QueueSize - 1
          BY <2>1
        <4> HIDE DEF LockInv, TypeOK, MutexHeld, RingCoherent, RealTasks
        <4> QED
          BY <2>1, <4>1, SlotsDiffer
      <3> QED
        BY <3>1
    <2>3. TypeOK'
      BY <1>4, <2>1 DEF PushSignal, SignalOne, Sleeping
    <2>4. MutexHeld'
      BY <1>4 DEF PushSignal, SignalOne, Sleeping
    <2>5. RingCoherent'
      BY <1>4, <2>1 DEF PushSignal
    <2>6. \A i \in 0 .. cur_count - 1 :
             /\ (head + i) % QueueSize \in 0 .. QueueSize - 1
             /\ queue'[(head + i) % QueueSize] = queue[(head + i) % QueueSize]
      <3>1. ASSUME NEW i \in 0 .. cur_count - 1
            PROVE  (head + i) % QueueSize \in 0 .. QueueSize - 1
        BY <2>1, SlotAfter, i \in 0 .. QueueSize
      <3> QED
        BY <1>4, <2>2, <3>1 DEF PushSignal
    <2>7. RealTasks'
      <3>1. \A w \in Workers : w \in Running' <=> w \in Running
        BY <1>4 DEF PushSignal, SignalOne, Sleeping
      <3>2. wtask' = wtask /\ close' = close /\ ptask' = ptask /\ ~close
        BY <1>4 DEF PushSignal, Refuses
      <3>3. \A q \in Producers : ppc'[q] # "idle" => ptask[q] \in Task
        BY <1>4 DEF PushSignal
      <3>4. \A i \in (0 .. cur_count - 1)' : Queued(i)' \in Task
        BY <1>4, <2>1, <2>6 DEF PushSignal
      <3> QED
        BY <3>1, <3>2, <3>3, <3>4
    <2> QED
      BY <2>3, <2>4, <2>5, <2>7
  <1>5. ASSUME NEW p \in Producers, PushCount(p) PROVE LockInv'
    <2>1. cur_count \in 0 .. QueueSize - 1 /\ ptask[p] \in Task
      BY <1>5 DEF PushCount
    <2>2. /\ NextSlot(tail) \in 0 .. QueueSize - 1
          /\ NextSlot(tail) = (head + (cur_count + 1)) % QueueSize
      <3>1. NextSlot(tail) \in 0 .. QueueSize - 1
        BY NextIndex DEF NextSlot
      <3>2. (((head + cur_count) % QueueSize) + 1) % QueueSize
              = (head + (cur_count + 1)) % QueueSize
        BY <2>1, StretchGrows
      <3> QED
        BY <3>1, <3>2 DEF NextSlot
    <2>3. TypeOK'
      BY <1>5, <2>1, <2>2 DEF PushCount
    <2>4. MutexHeld'
      BY <1>5 DEF PushCount
    <2>5. RingCoherent'
      BY <1>5, <2>2 DEF PushCount
    <2>6. RealTasks'
      <3>1. queue[(head + cur_count) % QueueSize] \in Task
        BY <1>5, <2>1 DEF PushCount
      <3>2. ASSUME NEW i \in 0 .. cur_count
            PROVE  queue[(head + i) % QueueSize] \in Task
        BY <3>1, <2>1, i = cur_count \/ i \in 0 .. cur_count - 1
      <3> QED
        BY <1>5, <2>1, <3>2 DEF PushCount
    <2> QED
      BY <2>3, <2>4, <2>5, <2>6
  <1>6. ASSUME NEW w \in Workers, WorkerLock(w) PROVE LockInv'
    BY <1>6 DEF WorkerLock
  <1>7. ASSUME NEW w \in Workers, WorkerWait(w) PROVE LockInv'
    BY <1>7 DEF WorkerWait
  <1>8. ASSUME NEW w \in Workers, WorkerSpurious(w) PROVE LockInv'
    BY <1>8 DEF WorkerSpurious
  <1>9. ASSUME NEW w \in Workers, WorkerTake(w) PROVE LockInv'
    <2>1. /\ cur_count - 1 \in 0 .. QueueSize - 1
          /\ NextSlot(head) \in 0 .. QueueSize - 1
      BY <1>9, NextIndex DEF WorkerTake, MustWait, NextSlot
    <2>2. \A i \in 0 .. QueueSize - 1 :
             (NextSlot(head) + i) % QueueSize = (head + (i + 1)) % QueueSize
      BY StretchShifts DEF NextSlot
    <2>3. queue[head] \in Task
      <3>1. (head + 0) % QueueSize = head
        BY SlotZero
      <3> QED
        BY <2>1, <3>1, 0 \in 0 .. cur_count - 1
    <2>4. TypeOK'
      BY <1>9, <2>1, <2>3 DEF WorkerTake
    <2>5. MutexHeld'
      BY <1>9 DEF WorkerTake
    <2>6. RingCoherent'
      <3>1. (NextSlot(head) + (cur_count - 1)) % QueueSize = (head + cur_count) % QueueSize
        BY <2>1, <2>2
      <3> QED
        BY <1>9, <3>1 DEF WorkerTake
    <2>7. RealTasks'
      <3>1. ASSUME NEW i \in 0 .. cur_count - 2
            PROVE  queue[(NextSlot(head) + i) % QueueSize] \in Task
        <4>1. (NextSlot(head) + i) % QueueSize = (head + (i + 1)) % QueueSize
          BY <2>1, <2>2, i \in 0 .. QueueSize - 1
        <4> QED
          BY <2>1, <4>1, i + 1 \in 0 .. cur_count - 1
      <3>2. ASSUME NEW i \in (0 .. cur_count - 1)'
            PROVE  Queued(i)' \in Task
        BY <1>9, <2>1, <3>1, i \in 0 .. cur_count - 2 DEF WorkerTake
      <3>3. \A v \in Workers : IF v \in Running' THEN wtask'[v] \in Task
                                                 ELSE wtask'[v] = 0
        BY <1>9, <2>3 DEF WorkerTake
      <3>4. \A p \in Producers : ppc'[p] # "idle" => ptask'[p] \in Task
        BY <1>9 DEF WorkerTake
      <3>5. ~close'
        BY <1>9 DEF WorkerTake
      <3> QED
        BY <3>2, <3>3, <3>4, <3>5
    <2> QED
      BY <2>4, <2>5, <2>6, <2>7
  <1>10. ASSUME NEW w \in Workers, WorkerRan(w) PROVE LockInv'
    BY <1>10 DEF WorkerRan
  <1>11. ASSUME NEW w \in Workers, WorkerExit(w) PROVE LockInv'
    BY <1>11 DEF WorkerExit
  <1>12. CASE DtorLock
    BY <1>12 DEF DtorLock
  <1>13. CASE DtorClose
    BY <1>13 DEF DtorClose, SignalAll, Sleeping
  <1>14. CASE DtorJoin
    BY <1>14 DEF DtorJoin
  <1>15. CASE DtorFree
    BY <1>15 DEF DtorFree
  <1>16. CASE UNCHANGED vars
    BY <1>16 DEF vars
  <1> QED
    BY <1>1, <1>2, <1>3, <1>4, <1>5, <1>6, <1>7, <1>8, <1>9, <1>10, <1>11,
       <1>12, <1>13, <1>14, <1>15, <1>16
    DEF Next, Push, Routine, Destructor

\* Types, mutual exclusion and the coherence of head, tail and cur_count hold
\* for every set of threads and every ring size (push(), routine(),
\* ~threadpool()).
THEOREM PoolLockInv == Spec => [](TypeOK /\ MutexHeld /\ RingCoherent)
  <1>1. Init => LockInv
    BY LockInvInit
  <1>2. LockInv /\ [Next]_vars => LockInv'
    BY LockInvStep
  <1>3. LockInv => TypeOK /\ MutexHeld /\ RingCoherent
    BY DEF LockInv
  <1> QED
    BY <1>1, <1>2, <1>3, PTL DEF Spec

-----------------------------------------------------------------------------
(* What the three steps that touch the ring do to its contents.             *)

\* Writing the slot at tail leaves every queued task where it is.
LEMMA PutKeepsQueued ==
    ASSUME LockInv, NEW p \in Producers, PushSignal(p)
    PROVE  /\ cur_count' = cur_count
           /\ \A i \in 0 .. cur_count - 1 : Queued(i)' = Queued(i)
  <1> USE PoolAssumption DEF LockInv, TypeOK, RingCoherent
  <1>1. cur_count \in 0 .. QueueSize - 1
    BY DEF PushSignal, Refuses
  <1>2. ASSUME NEW i \in 0 .. cur_count - 1
        PROVE  Queued(i)' = Queued(i)
    <2>1. (head + i) % QueueSize # (head + cur_count) % QueueSize
      BY <1>1, SlotsDiffer, i \in 0 .. QueueSize - 1, i # cur_count
    <2>2. (head + i) % QueueSize \in 0 .. QueueSize - 1
      BY <1>1, SlotAfter, i \in 0 .. QueueSize
    <2> QED
      BY <2>1, <2>2 DEF Queued, PushSignal
  <1> QED
    BY <1>2 DEF PushSignal

\* Raising the count appends the producer's task.
LEMMA CountAppends ==
    ASSUME LockInv, NEW p \in Producers, PushCount(p)
    PROVE  /\ cur_count' = cur_count + 1
           /\ \A i \in 0 .. cur_count - 1 : Queued(i)' = Queued(i)
           /\ \A i \in Nat : i = cur_count => Queued(i)' = ptask[p]
  BY DEF LockInv, TypeOK, RingCoherent, PushCount, Queued

\* Taking a task removes the first one and shifts the others up.
LEMMA TakeRemovesFirst ==
    ASSUME LockInv, NEW w \in Workers, WorkerTake(w)
    PROVE  /\ cur_count > 0
           /\ cur_count' = cur_count - 1
           /\ wtask' = [wtask EXCEPT ![w] = Queued(0)]
           /\ \A i \in 0 .. cur_count - 2 : Queued(i)' = Queued(i + 1)
  <1> USE PoolAssumption DEF LockInv, TypeOK
  <1>1. cur_count > 0 /\ cur_count' = cur_count - 1
    BY DEF WorkerTake, MustWait
  <1>2. Queued(0) = queue[head]
    BY SlotZero DEF Queued
  <1>3. ASSUME NEW i \in 0 .. cur_count - 2
        PROVE  Queued(i)' = Queued(i + 1)
    <2>1. (((head + 1) % QueueSize) + i) % QueueSize = (head + (i + 1)) % QueueSize
      BY StretchShifts, i \in 0 .. QueueSize - 1
    <2> QED
      BY <2>1 DEF Queued, WorkerTake, NextSlot
  <1> QED
    BY <1>1, <1>2, <1>3 DEF WorkerTake

-----------------------------------------------------------------------------
(* No task is lost, repeated or overwritten.  Inductive because a task that *)
(* is being pushed is new: no other producer and no place of the pool has   *)
(* it.                                                                      *)

FreshTasks ==
    /\ accepted \subseteq 1 .. pushes
    /\ \A p \in Producers : ppc[p] # "idle" =>
          ptask[p] \in 1 .. pushes /\ ptask[p] \notin accepted
    /\ \A p, q \in Producers :
          p # q /\ ppc[p] # "idle" /\ ppc[q] # "idle" => ptask[p] # ptask[q]

PlaceInv == FreshTasks /\ TaskInOnePlace

\* Steps that move no task keep the invariant.
LEMMA PlaceFrame ==
    ASSUME PlaceInv, LockInv, UNCHANGED <<ring, wtask, hist, pushes, ptask>>,
           Running' = Running,
           \A p \in Producers : ppc'[p] # "idle" => ppc[p] # "idle"
    PROVE  PlaceInv'
  <1>1. FreshTasks'
    BY DEF PlaceInv, FreshTasks, hist
  <1>2. /\ InRing' = InRing
        /\ \A i \in 0 .. cur_count - 1 : Queued(i)' = Queued(i)
        /\ cur_count' = cur_count /\ wtask' = wtask
        /\ accepted' = accepted /\ done' = done
    BY DEF InRing, Queued, ring, hist
  <1>3. TaskInOnePlace'
    BY <1>2 DEF PlaceInv, TaskInOnePlace
  <1> QED
    BY <1>1, <1>3 DEF PlaceInv

LEMMA PlaceInvStep == PlaceInv /\ LockInv /\ [Next]_vars => PlaceInv'
  <1> SUFFICES ASSUME PlaceInv, LockInv, [Next]_vars PROVE PlaceInv'
    OBVIOUS
  <1> USE PoolAssumption
  <1>1. ASSUME NEW p \in Producers, PushCall(p) PROVE PlaceInv'
    <2>1. FreshTasks'
      BY <1>1 DEF PushCall, PlaceInv, FreshTasks, LockInv, TypeOK, hist
    <2>2. UNCHANGED <<ring, wtask, wpc, hist>>
      BY <1>1 DEF PushCall
    <2>3. /\ InRing' = InRing /\ Running' = Running
          /\ \A i \in 0 .. cur_count - 1 : Queued(i)' = Queued(i)
          /\ cur_count' = cur_count /\ wtask' = wtask
          /\ accepted' = accepted /\ done' = done
      BY <2>2 DEF InRing, Running, Queued, ring, hist
    <2>4. TaskInOnePlace'
      BY <2>3 DEF PlaceInv, TaskInOnePlace
    <2> QED
      BY <2>1, <2>4 DEF PlaceInv
  <1>2. ASSUME NEW p \in Producers, PushLock(p) PROVE PlaceInv'
    BY <1>2, PlaceFrame DEF PushLock, Running, LockInv, TypeOK
  <1>3. ASSUME NEW p \in Producers, PushRefuse(p) PROVE PlaceInv'
    <2>1. FreshTasks'
      BY <1>3 DEF PushRefuse, PlaceInv, FreshTasks, LockInv, TypeOK, hist
    <2>2. UNCHANGED <<ring, wtask, wpc, hist>>
      BY <1>3 DEF PushRefuse
    <2>3. /\ InRing' = InRing /\ Running' = Running
          /\ \A i \in 0 .. cur_count - 1 : Queued(i)' = Queued(i)
          /\ cur_count' = cur_count /\ wtask' = wtask
          /\ accepted' = accepted /\ done' = done
      BY <2>2 DEF InRing, Running, Queued, ring, hist
    <2>4. TaskInOnePlace'
      BY <2>3 DEF PlaceInv, TaskInOnePlace
    <2> QED
      BY <2>1, <2>4 DEF PlaceInv
  <1>4. ASSUME NEW p \in Producers, PushSignal(p) PROVE PlaceInv'
    <2>1. FreshTasks'
      BY <1>4 DEF PushSignal, PlaceInv, FreshTasks, LockInv, TypeOK, hist
    <2>2. /\ cur_count' = cur_count
          /\ \A i \in 0 .. cur_count - 1 : Queued(i)' = Queued(i)
      BY <1>4, PutKeepsQueued
    <2>3. InRing' = InRing
      BY <2>2 DEF InRing
    <2>4. Running' = Running
      BY <1>4 DEF PushSignal, SignalOne, Sleeping, Running, LockInv, TypeOK
    <2>5. wtask' = wtask /\ accepted' = accepted /\ done' = done
      BY <1>4 DEF PushSignal, hist
    <2>6. TaskInOnePlace'
      BY <2>2, <2>3, <2>4, <2>5 DEF PlaceInv, TaskInOnePlace
    <2> QED
      BY <2>1, <2>6 DEF PlaceInv
  <1>5. ASSUME NEW p \in Producers, PushCount(p) PROVE PlaceInv'
    <2>1. FreshTasks'
      BY <1>5 DEF PushCount, PlaceInv, FreshTasks, LockInv, TypeOK
    <2>2. /\ cur_count' = cur_count + 1
          /\ \A i \in 0 .. cur_count - 1 : Queued(i)' = Queued(i)
          /\ \A i \in Nat : i = cur_count => Queued(i)' = ptask[p]
      BY <1>5, CountAppends
    <2>3. InRing' = InRing \cup {ptask[p]}
      <3>1. cur_count \in Nat /\ 0 .. cur_count' - 1 = (0 .. cur_count - 1) \cup {cur_count}
        BY <2>2 DEF LockInv, TypeOK
      <3>2. InRing' = {Queued(i)' : i \in (0 .. cur_count - 1) \cup {cur_count}}
        BY <3>1 DEF InRing
      <3> QED
        BY <2>2, <3>1, <3>2 DEF InRing
    <2>4. ptask[p] \notin accepted
      BY <1>5 DEF PushCount, PlaceInv, FreshTasks
    <2>5. /\ Running' = Running /\ wtask' = wtask /\ done' = done
          /\ accepted' = accepted \cup {ptask[p]}
      BY <1>5 DEF PushCount, Running
    <2>6. \A i, j \in (0 .. cur_count - 1)' : i # j => Queued(i)' # Queued(j)'
      <3>1. \A i \in 0 .. cur_count - 1 : Queued(i) \in InRing
        BY DEF InRing
      <3>2. \A i \in 0 .. cur_count - 1 : Queued(i) # ptask[p]
        BY <2>4, <3>1 DEF PlaceInv, TaskInOnePlace
      <3>3. \A i \in (0 .. cur_count - 1)' :
               (i = cur_count /\ i \in Nat) \/ i \in 0 .. cur_count - 1
        BY <2>2 DEF LockInv, TypeOK
      <3> QED
        BY <2>2, <3>2, <3>3 DEF PlaceInv, TaskInOnePlace
    <2>7. TaskInOnePlace'
      BY <2>3, <2>4, <2>5, <2>6 DEF PlaceInv, TaskInOnePlace
    <2> QED
      BY <2>1, <2>7 DEF PlaceInv
  <1>6. ASSUME NEW w \in Workers, WorkerLock(w) PROVE PlaceInv'
    BY <1>6, PlaceFrame DEF WorkerLock, Running, LockInv, TypeOK
  <1>7. ASSUME NEW w \in Workers, WorkerWait(w) PROVE PlaceInv'
    BY <1>7, PlaceFrame DEF WorkerWait, Running, LockInv, TypeOK
  <1>8. ASSUME NEW w \in Workers, WorkerSpurious(w) PROVE PlaceInv'
    BY <1>8, PlaceFrame DEF WorkerSpurious, Running, LockInv, TypeOK
  <1>9. ASSUME NEW w \in Workers, WorkerTake(w) PROVE PlaceInv'
    <2>1. FreshTasks'
      BY <1>9 DEF WorkerTake, PlaceInv, FreshTasks, hist
    <2>2. /\ cur_count > 0
          /\ cur_count' = cur_count - 1
          /\ wtask' = [wtask EXCEPT ![w] = Queued(0)]
          /\ \A i \in 0 .. cur_count - 2 : Queued(i)' = Queued(i + 1)
      BY <1>9, TakeRemovesFirst
    <2>3. /\ w \notin Running /\ Running' = Running \cup {w}
          /\ accepted' = accepted /\ done' = done
      BY <1>9 DEF WorkerTake, Running, LockInv, TypeOK, hist
    <2>4. /\ wtask'[w] = Queued(0)
          /\ \A v \in Running : wtask'[v] = wtask[v]
      BY <2>2, <2>3 DEF LockInv, TypeOK, Running
    <2>5. cur_count \in Nat
      BY DEF LockInv, TypeOK
    <2>6. InRing = InRing' \cup {Queued(0)} /\ Queued(0) \notin InRing'
      <3>1. InRing' = {Queued(i + 1) : i \in 0 .. cur_count - 2}
        BY <2>2, <2>5 DEF InRing
      <3>2. \A i \in 0 .. cur_count - 1 : i = 0 \/ i - 1 \in 0 .. cur_count - 2
        BY <2>5
      <3>3. \A i \in 0 .. cur_count - 2 : i + 1 \in 0 .. cur_count - 1 /\ i + 1 # 0
        BY <2>5
      <3>4. Queued(0) \notin InRing'
        BY <2>2, <2>5, <3>1, <3>3 DEF PlaceInv, TaskInOnePlace
      <3>5. \A i \in 0 .. cur_count - 1 : Queued(i) \in InRing' \cup {Queued(0)}
        <4>1. ASSUME NEW i \in 0 .. cur_count - 1, i # 0
              PROVE  Queued(i) \in InRing'
          BY <3>1, <3>2, <4>1, (i - 1) + 1 = i
        <4> QED
          BY <4>1
      <3> QED
        BY <2>2, <2>5, <3>1, <3>3, <3>4, <3>5 DEF InRing
    <2>7. \A i, j \in (0 .. cur_count - 1)' : i # j => Queued(i)' # Queued(j)'
      <3>1. ASSUME NEW i \in 0 .. cur_count - 2, NEW j \in 0 .. cur_count - 2, i # j
            PROVE  Queued(i + 1) # Queued(j + 1)
        BY <2>5, <3>1, i + 1 \in 0 .. cur_count - 1, j + 1 \in 0 .. cur_count - 1,
           i + 1 # j + 1 DEF PlaceInv, TaskInOnePlace
      <3> QED
        BY <2>2, <2>5, <3>1
    <2>8. TaskInOnePlace'
      BY <2>3, <2>4, <2>6, <2>7 DEF PlaceInv, TaskInOnePlace
    <2> QED
      BY <2>1, <2>8 DEF PlaceInv
  <1>10. ASSUME NEW w \in Workers, WorkerRan(w) PROVE PlaceInv'
    <2>1. FreshTasks'
      BY <1>10 DEF WorkerRan, PlaceInv, FreshTasks
    <2>2. /\ InRing' = InRing /\ cur_count' = cur_count
          /\ \A i \in 0 .. cur_count - 1 : Queued(i)' = Queued(i)
      BY <1>10 DEF WorkerRan, InRing, Queued, ring
    <2>3. /\ w \in Running /\ Running' = Running \ {w}
          /\ accepted' = accepted /\ done' = done \cup {wtask[w]}
          /\ \A v \in Running \ {w} : wtask'[v] = wtask[v]
      BY <1>10 DEF WorkerRan, Running, LockInv, TypeOK
    <2>4. TaskInOnePlace'
      BY <2>2, <2>3 DEF PlaceInv, TaskInOnePlace
    <2> QED
      BY <2>1, <2>4 DEF PlaceInv
  <1>11. ASSUME NEW w \in Workers, WorkerExit(w) PROVE PlaceInv'
    BY <1>11, PlaceFrame DEF WorkerExit, Running, LockInv, TypeOK
  <1>12. CASE DtorLock
    BY <1>12, PlaceFrame DEF DtorLock, Running
  <1>13. CASE DtorClose
    BY <1>13, PlaceFrame DEF DtorClose, SignalAll, Sleeping, Running, LockInv, TypeOK
  <1>14. CASE DtorJoin
    BY <1>14, PlaceFrame DEF DtorJoin, Running
  <1>15. CASE DtorFree
    BY <1>15, PlaceFrame DEF DtorFree, Running
  <1>16. CASE UNCHANGED vars
    BY <1>16, PlaceFrame DEF vars, Running
  <1> QED
    BY <1>1, <1>2, <1>3, <1>4, <1>5, <1>6, <1>7, <1>8, <1>9, <1>10, <1>11,
       <1>12, <1>13, <1>14, <1>15, <1>16
    DEF Next, Push, Routine, Destructor

\* Every task push() accepted is in the ring, at one worker or done, and
\* nowhere twice, whatever the threads and the ring size.
THEOREM PoolKeepsTasks == Spec => []TaskInOnePlace
  <1>1. Init => PlaceInv
    BY PoolAssumption
    DEF Init, PlaceInv, FreshTasks, TaskInOnePlace, InRing, Running, Queued
  <1>2. PlaceInv /\ LockInv /\ [Next]_vars => PlaceInv'
    BY PlaceInvStep
  <1>3. PlaceInv => TaskInOnePlace
    BY DEF PlaceInv
  <1>4. Init => LockInv
    BY LockInvInit
  <1>5. LockInv /\ [Next]_vars => LockInv'
    BY LockInvStep
  <1> QED
    BY <1>1, <1>2, <1>3, <1>4, <1>5, PTL DEF Spec

-----------------------------------------------------------------------------
(* No wake-up is lost.  push() signals before it raises the count, so in    *)
(* between one more worker must be on its way than the count asks for.      *)

WakeInv ==
    /\ NoLostWakeup
    /\ Sleeping # {} /\ ~close =>
         \A p \in Producers : ppc[p] = "count" => cur_count + 1 <= Cardinality(Coming)

\* Adding a worker to a set of workers, or taking one out, counts.
LEMMA WorkerCount ==
    ASSUME NEW S \in SUBSET Workers, NEW w \in Workers
    PROVE  /\ Cardinality(S) \in Nat
           /\ w \notin S => Cardinality(S \cup {w}) = Cardinality(S) + 1
           /\ w \in S => Cardinality(S \ {w}) = Cardinality(S) - 1
  <1>1. IsFiniteSet(S)
    BY PoolAssumption, FS_Subset
  <1> QED
    BY <1>1, FS_CardinalityType, FS_AddElement, FS_RemoveElement

\* Steps that neither put a worker to sleep nor take one off its way, and
\* leave the count and the producers inside push() alone.
LEMMA WakeFrame ==
    ASSUME WakeInv, LockInv, Sleeping' \subseteq Sleeping, Coming' = Coming,
           close' = close, cur_count' = cur_count,
           \A p \in Producers : ppc'[p] = "count" => ppc[p] = "count"
    PROVE  WakeInv'
  BY DEF WakeInv, NoLostWakeup

LEMMA WakeInvStep == WakeInv /\ LockInv /\ [Next]_vars => WakeInv'
  <1> SUFFICES ASSUME WakeInv, LockInv, [Next]_vars PROVE WakeInv'
    OBVIOUS
  <1> USE PoolAssumption DEF LockInv, TypeOK
  <1>0. cur_count \in Nat /\ Coming \in SUBSET Workers /\ Cardinality(Coming) \in Nat
    <2>1. Coming \in SUBSET Workers
      BY DEF Coming
    <2>2. IsFiniteSet(Coming)
      BY <2>1, FS_Subset
    <2> QED
      BY <2>1, <2>2, FS_CardinalityType
  <1>1. ASSUME NEW p \in Producers, PushCall(p) PROVE WakeInv'
    BY <1>1, WakeFrame DEF PushCall, Sleeping, Coming, ring
  <1>2. ASSUME NEW p \in Producers, PushLock(p) PROVE WakeInv'
    BY <1>2, WakeFrame DEF PushLock, Sleeping, Coming, ring
  <1>3. ASSUME NEW p \in Producers, PushRefuse(p) PROVE WakeInv'
    BY <1>3, WakeFrame DEF PushRefuse, Sleeping, Coming, ring
  <1>4. ASSUME NEW p \in Producers, PushSignal(p) PROVE WakeInv'
    <2>1. /\ close' = close /\ cur_count' = cur_count
          /\ ppc' = [ppc EXCEPT ![p] = "count"]
      BY <1>4 DEF PushSignal
    <2>2. CASE Sleeping = {} /\ UNCHANGED wpc
      <3>1. Sleeping' = {}
        BY <2>2 DEF Sleeping
      <3> QED
        BY <3>1 DEF WakeInv, NoLostWakeup
    <2>3. ASSUME NEW w \in Sleeping, wpc' = [wpc EXCEPT ![w] = "lock"]
          PROVE  WakeInv'
      <3>1. w \in Workers /\ w \notin Coming /\ Coming' = Coming \cup {w}
        BY <2>3 DEF Sleeping, Coming
      <3>2. Cardinality(Coming') = Cardinality(Coming) + 1
        BY <1>0, <3>1, WorkerCount
      <3>3. ~close => cur_count <= Cardinality(Coming)
        BY <2>3 DEF WakeInv, NoLostWakeup
      <3> QED
        BY <1>0, <2>1, <3>2, <3>3 DEF WakeInv, NoLostWakeup
    <2> QED
      BY <1>4, <2>2, <2>3 DEF PushSignal, SignalOne
  <1>5. ASSUME NEW p \in Producers, PushCount(p) PROVE WakeInv'
    <2>1. /\ close' = close /\ cur_count' = cur_count + 1
          /\ ppc[p] = "count" /\ wpc' = wpc
          /\ ppc' = [ppc EXCEPT ![p] = "idle"]
      BY <1>5 DEF PushCount
    <2>2. \A q \in Producers : ppc'[q] # "count"
      BY <2>1 DEF MutexHeld, Thread
    <2>3. Sleeping' = Sleeping /\ Coming' = Coming
      BY <2>1 DEF Sleeping, Coming
    <2> QED
      BY <2>1, <2>2, <2>3 DEF WakeInv, NoLostWakeup
  <1>6. ASSUME NEW w \in Workers, WorkerLock(w) PROVE WakeInv'
    BY <1>6, WakeFrame DEF WorkerLock, Sleeping, Coming, ring
  <1>7. ASSUME NEW w \in Workers, WorkerWait(w) PROVE WakeInv'
    <2>1. /\ close' = close /\ cur_count' = 0 /\ ppc' = ppc
          /\ lock = w
      BY <1>7 DEF WorkerWait, MustWait, ring, MutexHeld
    <2>2. \A q \in Producers : ppc'[q] # "count"
      BY <2>1 DEF MutexHeld
    <2>3. Coming' \in SUBSET Workers
      BY DEF Coming
    <2>4. Cardinality(Coming') \in Nat
      BY <2>3, WorkerCount
    <2> QED
      BY <2>1, <2>2, <2>4 DEF WakeInv, NoLostWakeup
  <1>8. ASSUME NEW w \in Workers, WorkerSpurious(w) PROVE WakeInv'
    <2>1. /\ close' = close /\ cur_count' = cur_count /\ ppc' = ppc
          /\ w \in Sleeping /\ w \notin Coming
          /\ Sleeping' = Sleeping \ {w} /\ Coming' = Coming \cup {w}
      BY <1>8 DEF WorkerSpurious, Sleeping, Coming, ring
    <2>2. Cardinality(Coming') = Cardinality(Coming) + 1
      BY <1>0, <2>1, WorkerCount
    <2>3. Sleeping' # {} /\ ~close' => Sleeping # {} /\ ~close
      BY <2>1
    <2>4. NoLostWakeup'
      BY <1>0, <2>1, <2>2, <2>3 DEF WakeInv, NoLostWakeup
    <2>5. ASSUME Sleeping' # {}, ~close', NEW p \in Producers, ppc'[p] = "count"
          PROVE  cur_count' + 1 <= Cardinality(Coming')
      BY <1>0, <2>1, <2>2, <2>3, <2>5 DEF WakeInv
    <2> QED
      BY <2>4, <2>5 DEF WakeInv
  <1>9. ASSUME NEW w \in Workers, WorkerTake(w) PROVE WakeInv'
    <2>1. /\ close' = close /\ cur_count' = cur_count - 1 /\ ppc' = ppc
          /\ w \in Coming /\ lock = w
          /\ Sleeping' = Sleeping /\ Coming' = Coming \ {w}
      BY <1>9 DEF WorkerTake, Sleeping, Coming, MutexHeld
    <2>2. \A q \in Producers : ppc'[q] # "count"
      BY <2>1 DEF MutexHeld
    <2>3. Cardinality(Coming') = Cardinality(Coming) - 1
      BY <1>0, <2>1, WorkerCount
    <2> QED
      BY <1>0, <2>1, <2>2, <2>3 DEF WakeInv, NoLostWakeup
  <1>10. ASSUME NEW w \in Workers, WorkerRan(w) PROVE WakeInv'
    <2>1. /\ close' = close /\ cur_count' = cur_count /\ ppc' = ppc
          /\ w \notin Coming
          /\ Sleeping' = Sleeping /\ Coming' = Coming \cup {w}
      BY <1>10 DEF WorkerRan, Sleeping, Coming, ring
    <2>2. Cardinality(Coming') = Cardinality(Coming) + 1
      BY <1>0, <2>1, WorkerCount
    <2>3. Sleeping' # {} /\ ~close' => Sleeping # {} /\ ~close
      BY <2>1
    <2>4. NoLostWakeup'
      BY <1>0, <2>1, <2>2, <2>3 DEF WakeInv, NoLostWakeup
    <2>5. ASSUME Sleeping' # {}, ~close', NEW p \in Producers, ppc'[p] = "count"
          PROVE  cur_count' + 1 <= Cardinality(Coming')
      BY <1>0, <2>1, <2>2, <2>3, <2>5 DEF WakeInv
    <2> QED
      BY <2>4, <2>5 DEF WakeInv
  <1>11. ASSUME NEW w \in Workers, WorkerExit(w) PROVE WakeInv'
    BY <1>11 DEF WorkerExit, WakeInv, NoLostWakeup
  <1>12. CASE DtorLock
    BY <1>12, WakeFrame DEF DtorLock, Sleeping, Coming, ring
  <1>13. CASE DtorClose
    BY <1>13 DEF DtorClose, WakeInv, NoLostWakeup
  <1>14. CASE DtorJoin
    BY <1>14, WakeFrame DEF DtorJoin, Sleeping, Coming, ring
  <1>15. CASE DtorFree
    BY <1>15, WakeFrame DEF DtorFree, Sleeping, Coming, ring
  <1>16. CASE UNCHANGED vars
    BY <1>16, WakeFrame DEF vars, Sleeping, Coming, ring
  <1> QED
    BY <1>1, <1>2, <1>3, <1>4, <1>5, <1>6, <1>7, <1>8, <1>9, <1>10, <1>11,
       <1>12, <1>13, <1>14, <1>15, <1>16
    DEF Next, Push, Routine, Destructor

\* As long as the pool is open and a worker sleeps, every queued task has an
\* awake worker coming for it, although push() signals before it counts.
THEOREM PoolLosesNoWakeup == Spec => []NoLostWakeup
  <1>1. Init => WakeInv
    BY DEF Init, WakeInv, NoLostWakeup, Sleeping
  <1>2. WakeInv /\ LockInv /\ [Next]_vars => WakeInv'
    BY WakeInvStep
  <1>3. WakeInv => NoLostWakeup
    BY DEF WakeInv
  <1> QED
    BY <1>1, <1>2, <1>3, LockInvInit, LockInvStep, PTL DEF Spec

\* Nobody sleeps once the pool is closing, so the joins of wait_all_done()
\* wait for no sleeper.
THEOREM PoolCloseWakesAll == Spec => []NobodySleepsThroughClose
  <1>1. Init => NobodySleepsThroughClose
    BY DEF Init, NobodySleepsThroughClose
  <1>2. NobodySleepsThroughClose /\ LockInv /\ [Next]_vars
          => NobodySleepsThroughClose'
    BY DEF NobodySleepsThroughClose, Sleeping, LockInv, TypeOK, Next, vars,
       Push, PushCall, PushLock, PushRefuse, PushSignal, PushCount, SignalOne,
       WorkerLock, WorkerSpurious, Routine, WorkerWait, MustWait, WorkerTake,
       WorkerRan, WorkerExit, Destructor, DtorLock, DtorClose, SignalAll,
       DtorJoin, DtorFree
  <1> QED
    BY <1>1, <1>2, LockInvInit, LockInvStep, PTL DEF Spec

\* A worker that is running after a step on a closed pool was running before.
THEOREM PoolStartsNothingClosed == Spec => NothingStartsAfterClose
  <1>1. LockInv /\ [Next]_vars
          => [close => \A w \in Workers : wpc'[w] = "run" => wpc[w] = "run"]_vars
    BY DEF LockInv, TypeOK, Next, vars,
       Push, PushCall, PushLock, PushRefuse, PushSignal, PushCount, SignalOne,
       Sleeping, WorkerLock, WorkerSpurious, Routine, WorkerWait, WorkerTake,
       WorkerRan, WorkerExit, Destructor, DtorLock, DtorClose, SignalAll,
       DtorJoin, DtorFree
  <1> QED
    BY <1>1, LockInvInit, LockInvStep, PTL DEF Spec, NothingStartsAfterClose

-----------------------------------------------------------------------------
(* The pool implements the bounded FIFO of TaskPool.                        *)

\* The mapped queue.
Pending == [i \in 1 .. cur_count |-> Queued(i - 1)]

LEMMA PendingIsSeq ==
    ASSUME LockInv
    PROVE  Pending \in Seq(Task) /\ Len(Pending) = cur_count
  <1>1. \A i \in 1 .. cur_count : Queued(i - 1) \in Task
    <2>1. \A i \in 1 .. cur_count : i - 1 \in 0 .. cur_count - 1
      BY DEF LockInv, TypeOK
    <2> QED
      BY <2>1 DEF LockInv, RealTasks
  <1> QED
    BY <1>1 DEF LockInv, TypeOK, Pending

\* A step that keeps the ring, the running tasks, done and close stutters.
LEMMA AbstractStutter ==
    ASSUME UNCHANGED <<ring, wtask, done, close>>
    PROVE  UNCHANGED Abstract!poolVars
  BY DEF ring, Abstract!poolVars, Queued

LEMMA AbstractSubmit ==
    ASSUME LockInv, LockInv', PlaceInv, NEW p \in Producers, PushCount(p)
    PROVE  Abstract!Submit(ptask[p])
  <1>1. /\ cur_count' = cur_count + 1
        /\ \A i \in 0 .. cur_count - 1 : Queued(i)' = Queued(i)
        /\ \A i \in Nat : i = cur_count => Queued(i)' = ptask[p]
    BY CountAppends
  <1>2. cur_count \in Nat /\ cur_count < QueueSize
    BY DEF PushCount, LockInv, TypeOK, RingCoherent
  <1>3. Pending' = Append(Pending, ptask[p])
    <2>1. Len(Pending) = cur_count /\ Pending \in Seq(Task)
      BY PendingIsSeq
    <2>2. Append(Pending, ptask[p])
            = [i \in 1 .. cur_count + 1 |-> IF i <= cur_count THEN Pending[i] ELSE ptask[p]]
      BY <1>2, <2>1
    <2>3. \A i \in 1 .. cur_count + 1 :
             Queued(i - 1)' = IF i <= cur_count THEN Pending[i] ELSE ptask[p]
      BY <1>1, <1>2 DEF Pending
    <2>4. Pending' = [i \in 1 .. cur_count + 1 |-> Queued(i - 1)']
      BY <1>1 DEF Pending
    <2> QED
      BY <2>2, <2>3, <2>4
  <1>4. ~close
    BY DEF LockInv, RealTasks, PushCount
  <1>8. /\ ptask[p] \in Task
        /\ \A w \in Workers : w \notin Running => wtask[w] = 0
    BY DEF PushCount, LockInv, RealTasks
  <1>5. ~Abstract!Known(ptask[p])
    <2>1. ptask[p] \notin accepted
      BY DEF PlaceInv, FreshTasks, PushCount
    <2>2. \A i \in 1 .. cur_count : Pending[i] \in InRing
      <3>1. \A i \in 1 .. cur_count : i - 1 \in 0 .. cur_count - 1
        BY <1>2
      <3> QED
        BY <3>1 DEF Pending, InRing
    <2>3. DOMAIN Pending = 1 .. cur_count
      BY DEF Pending
    <2>4. InRing \subseteq accepted /\ done \subseteq accepted
      BY DEF PlaceInv, TaskInOnePlace
    <2>5. \A w \in Workers : wtask[w] # ptask[p]
      <3>1. \A w \in Running : wtask[w] \in accepted
        BY DEF PlaceInv, TaskInOnePlace
      <3>2. ptask[p] # 0
        BY <1>8 DEF Task
      <3> QED
        BY <1>8, <2>1, <3>1, <3>2
    <2>6. \A i \in DOMAIN Pending : Pending[i] # ptask[p]
      BY <2>1, <2>2, <2>3, <2>4
    <2> QED
      BY <2>1, <2>4, <2>5, <2>6 DEF Abstract!Known, Pending
  <1>6. wtask' = wtask /\ done' = done /\ close' = close
    BY DEF PushCount
  <1>7. Len(Pending) < QueueSize
    BY <1>2, PendingIsSeq
  <1> QED
    BY <1>3, <1>4, <1>5, <1>6, <1>7 DEF Abstract!Submit, Pending

LEMMA AbstractStart ==
    ASSUME LockInv, LockInv', PlaceInv, NEW w \in Workers, WorkerTake(w)
    PROVE  Abstract!Start(w)
  <1>1. /\ cur_count > 0
        /\ cur_count' = cur_count - 1
        /\ wtask' = [wtask EXCEPT ![w] = Queued(0)]
        /\ \A i \in 0 .. cur_count - 2 : Queued(i)' = Queued(i + 1)
    BY TakeRemovesFirst
  <1>2. cur_count \in Nat /\ Len(Pending) = cur_count /\ Pending \in Seq(Task)
    BY PendingIsSeq DEF LockInv, TypeOK
  <1>3. Pending # << >> /\ Head(Pending) = Queued(0)
    <2>1. Pending[1] = Queued(0)
      BY <1>1, <1>2, 1 - 1 = 0 DEF Pending
    <2> QED
      BY <1>1, <1>2, <2>1
  <1>4. Pending' = Tail(Pending)
    <2>1. /\ Tail(Pending) \in Seq(Task) /\ Len(Tail(Pending)) = cur_count - 1
          /\ \A i \in 1 .. cur_count - 1 : Tail(Pending)[i] = Pending[i + 1]
      BY <1>2, <1>3, HeadTailProperties
    <2>2. Pending' = [i \in 1 .. cur_count - 1 |-> Queued(i - 1)']
      BY <1>1 DEF Pending
    <2>3. ASSUME NEW i \in 1 .. cur_count - 1
          PROVE  Queued(i - 1)' = Pending[i + 1]
      <3>1. i - 1 \in 0 .. cur_count - 2 /\ (i - 1) + 1 = i
        BY <1>2
      <3>2. i + 1 \in 1 .. cur_count /\ (i + 1) - 1 = i
        BY <1>2
      <3> QED
        BY <1>1, <3>1, <3>2 DEF Pending
    <2>4. /\ Pending' \in Seq(Task) /\ Len(Pending') = cur_count - 1
          /\ \A i \in 1 .. cur_count - 1 : Pending'[i] = Pending[i + 1]
      <3>1. \A i \in 1 .. cur_count - 1 : Pending[i + 1] \in Task
        BY <1>2, <2>1, ElementOfSeq
      <3> QED
        BY <1>1, <1>2, <2>2, <2>3, <3>1
    <2> QED
      BY <2>1, <2>4, SeqEqual
  <1>5. wtask[w] = 0
    BY DEF WorkerTake, Running, LockInv, RealTasks
  <1>8. ~close /\ close' = close /\ done' = done
    BY DEF WorkerTake, hist
  <1> QED
    BY <1>1, <1>3, <1>4, <1>5, <1>8 DEF Abstract!Start, Pending

LEMMA AbstractFinish ==
    ASSUME LockInv, NEW w \in Workers, WorkerRan(w)
    PROVE  Abstract!Finish(w)
  <1>1. wtask[w] # 0
    BY DEF WorkerRan, Running, LockInv, RealTasks, Task
  <1>2. /\ Pending' = Pending /\ close' = close /\ done' = done \cup {wtask[w]}
        /\ wtask' = [wtask EXCEPT ![w] = 0]
    BY DEF WorkerRan, Pending, Queued, ring
  <1> QED
    BY <1>1, <1>2 DEF Abstract!Finish, Pending

LEMMA AbstractStep ==
    LockInv /\ LockInv' /\ PlaceInv /\ [Next]_vars
      => [Abstract!Next]_Abstract!poolVars
  <1> SUFFICES ASSUME LockInv, LockInv', PlaceInv, [Next]_vars
               PROVE  [Abstract!Next]_Abstract!poolVars
    OBVIOUS
  <1> USE DEF LockInv, TypeOK
  <1>1. ASSUME NEW p \in Producers, PushCall(p) PROVE UNCHANGED Abstract!poolVars
    BY <1>1, AbstractStutter DEF PushCall, hist
  <1>2. ASSUME NEW p \in Producers, PushLock(p) PROVE UNCHANGED Abstract!poolVars
    BY <1>2, AbstractStutter DEF PushLock, hist
  <1>3. ASSUME NEW p \in Producers, PushRefuse(p) PROVE UNCHANGED Abstract!poolVars
    BY <1>3, AbstractStutter DEF PushRefuse, hist
  <1>4. ASSUME NEW p \in Producers, PushSignal(p) PROVE UNCHANGED Abstract!poolVars
    <2>1. /\ cur_count' = cur_count
          /\ \A i \in 0 .. cur_count - 1 : Queued(i)' = Queued(i)
      BY <1>4, PutKeepsQueued
    <2>2. \A i \in 1 .. cur_count : i - 1 \in 0 .. cur_count - 1
      OBVIOUS
    <2>3. Pending' = Pending
      BY <2>1, <2>2 DEF Pending
    <2>4. wtask' = wtask /\ done' = done /\ close' = close
      BY <1>4 DEF PushSignal, hist
    <2> QED
      BY <2>3, <2>4 DEF Abstract!poolVars, Pending
  <1>5. ASSUME NEW p \in Producers, PushCount(p) PROVE Abstract!Next
    <2>1. ptask[p] \in Task
      BY <1>5 DEF RealTasks, PushCount
    <2> QED
      BY <1>5, <2>1, AbstractSubmit DEF Abstract!Next
  <1>6. ASSUME NEW w \in Workers, WorkerLock(w) PROVE UNCHANGED Abstract!poolVars
    BY <1>6, AbstractStutter DEF WorkerLock, hist
  <1>7. ASSUME NEW w \in Workers, WorkerWait(w) PROVE UNCHANGED Abstract!poolVars
    BY <1>7, AbstractStutter DEF WorkerWait, hist
  <1>8. ASSUME NEW w \in Workers, WorkerSpurious(w) PROVE UNCHANGED Abstract!poolVars
    BY <1>8, AbstractStutter DEF WorkerSpurious, hist
  <1>9. ASSUME NEW w \in Workers, WorkerTake(w) PROVE Abstract!Next
    BY <1>9, AbstractStart DEF Abstract!Next
  <1>10. ASSUME NEW w \in Workers, WorkerRan(w) PROVE Abstract!Next
    BY <1>10, AbstractFinish DEF Abstract!Next
  <1>11. ASSUME NEW w \in Workers, WorkerExit(w) PROVE UNCHANGED Abstract!poolVars
    BY <1>11, AbstractStutter DEF WorkerExit, hist
  <1>12. CASE DtorLock
    BY <1>12, AbstractStutter DEF DtorLock, hist
  <1>13. CASE DtorClose
    <2>1. Pending' = Pending /\ close' = TRUE /\ done' = done
      BY <1>13 DEF DtorClose, Pending, Queued, ring, hist
    <2>2. wtask' = wtask
      BY <1>13 DEF DtorClose
    <2> QED
      BY <2>1, <2>2 DEF Abstract!Next, Abstract!Close, Pending
  <1>14. CASE DtorJoin
    BY <1>14, AbstractStutter DEF DtorJoin, hist
  <1>15. CASE DtorFree
    BY <1>15, AbstractStutter DEF DtorFree, hist
  <1>16. CASE UNCHANGED vars
    BY <1>16, AbstractStutter DEF vars, hist
  <1> QED
    BY <1>1, <1>2, <1>3, <1>4, <1>5, <1>6, <1>7, <1>8, <1>9, <1>10, <1>11,
       <1>12, <1>13, <1>14, <1>15, <1>16
    DEF Next, Push, Routine, Destructor

\* threadpool<T> is a bounded FIFO of tasks: every behaviour of the pool is,
\* through the mapping of `Abstract`, a behaviour of TaskPool.
THEOREM PoolImplementsTaskPool == Spec => ImplementsTaskPool
  <1>1. Init => Abstract!Init
    BY PoolAssumption DEF Init, Abstract!Init, Running
  <1>2. Init => PlaceInv
    BY PoolAssumption
    DEF Init, PlaceInv, FreshTasks, TaskInOnePlace, InRing, Running, Queued
  <1> QED
    BY <1>1, <1>2, LockInvInit, LockInvStep, PlaceInvStep, AbstractStep, PTL
    DEF Spec, ImplementsTaskPool, Abstract!Spec
=============================================================================
