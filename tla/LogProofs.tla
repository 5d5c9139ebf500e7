------------------------------ MODULE LogProofs ------------------------------
(***************************************************************************)
(* Proofs about Log for every number of writers, every length of the queue *)
(* and of the files, and any number of days and lines.                     *)
(***************************************************************************)
EXTENDS Log, FiniteSetTheorems, SequenceTheorems, TLAPS

-----------------------------------------------------------------------------
(* Arithmetic. *)

\* The quotient and the remainder of a division.
LEMMA Divided ==
    ASSUME NEW n \in Nat \ {0}, NEW m \in Nat
    PROVE  /\ m \div n \in Nat
           /\ m = n * (m \div n) + (m % n)
           /\ m % n \in 0 .. n - 1
  OBVIOUS

\* Multiples of n are n apart.
LEMMA Product ==
    ASSUME NEW n \in Nat \ {0}, NEW a \in Int, NEW b \in Int, a < b
    PROVE  n * a + n <= n * b
  <1>1. b - a \in Nat /\ b - a >= 1
    OBVIOUS
  <1>2. n * (b - a) >= n
    BY <1>1
  <1>3. n * (b - a) = n * b - n * a
    OBVIOUS
  <1> QED
    BY <1>2, <1>3

\* A remainder grows by one, or starts again.
LEMMA ModNext ==
    ASSUME NEW n \in Nat \ {0}, NEW m \in Nat, (m + 1) % n # 0
    PROVE  (m + 1) % n = (m % n) + 1
  <1> DEFINE q == m \div n
             r == m % n
             q1 == (m + 1) \div n
             r1 == (m + 1) % n
  <1>1. m + 1 \in Nat
    OBVIOUS
  <1>2. q \in Nat /\ m = n * q + r /\ r \in 0 .. n - 1
    BY Divided
  <1>3. q1 \in Nat /\ m + 1 = n * q1 + r1 /\ r1 \in 0 .. n - 1
    BY ONLY Divided, <1>1, n \in Nat \ {0}
  <1> HIDE DEF q, r, q1, r1
  <1>4. r1 # 0
    BY DEF r1
  <1>5. n * q + r + 1 = n * q1 + r1
    BY <1>2, <1>3
  <1>6. ASSUME q < q1 PROVE FALSE
    <2>1. n * q + n <= n * q1
      BY <1>2, <1>3, <1>6, Product
    <2> QED
      BY <1>2, <1>3, <1>4, <1>5, <2>1
  <1>7. ASSUME q1 < q PROVE FALSE
    <2>1. n * q1 + n <= n * q
      BY <1>2, <1>3, <1>7, Product
    <2> QED
      BY <1>2, <1>3, <1>5, <2>1
  <1>8. q = q1
    BY <1>2, <1>3, <1>6, <1>7
  <1>9. r1 = r + 1
    BY <1>2, <1>3, <1>5, <1>8
  <1> QED
    BY <1>9 DEF r, r1

\* The slot k places after x, where x may be the -1 of an unused ring.
LEMMA Slot ==
    ASSUME NEW n \in Nat \ {0}, NEW x \in -1 .. n - 1, NEW k \in 1 .. n
    PROVE  /\ (x + k) % n \in 0 .. n - 1
           /\ (x + k) % n = IF x + k < n THEN x + k ELSE x + k - n
  OBVIOUS

\* Places of the ring up to n after x are different slots.
LEMMA SlotsDiffer ==
    ASSUME NEW n \in Nat \ {0}, NEW x \in -1 .. n - 1,
           NEW i \in 1 .. n, NEW j \in 1 .. n, i # j
    PROVE  (x + i) % n # (x + j) % n
  <1>1. (x + i) % n = IF x + i < n THEN x + i ELSE x + i - n
    BY Slot
  <1>2. (x + j) % n = IF x + j < n THEN x + j ELSE x + j - n
    BY Slot
  <1> QED
    BY <1>1, <1>2

\* The slot after place k of the ring is place k + 1 ...
LEMMA SlotAfter ==
    ASSUME NEW n \in Nat \ {0}, NEW x \in -1 .. n - 1, NEW k \in 1 .. n - 1
    PROVE  (((x + k) % n) + 1) % n = (x + (k + 1)) % n
  <1>1. (x + k) % n = IF x + k < n THEN x + k ELSE x + k - n
    BY Slot, k \in 1 .. n
  <1>2. (x + (k + 1)) % n = IF x + (k + 1) < n THEN x + (k + 1) ELSE x + (k + 1) - n
    BY Slot, k + 1 \in 1 .. n
  <1>3. (x + k) % n \in 0 .. n - 1
    BY Slot, k \in 1 .. n
  <1>4. (((x + k) % n) + 1) % n = IF ((x + k) % n) + 1 < n THEN ((x + k) % n) + 1
                                                      ELSE ((x + k) % n) + 1 - n
    BY <1>3, Slot, 1 \in 1 .. n, (x + k) % n \in -1 .. n - 1
  <1> QED
    BY <1>1, <1>2, <1>4

\* ... and place k counted from the slot after x is place k + 1 from x.
LEMMA SlotShifts ==
    ASSUME NEW n \in Nat \ {0}, NEW x \in -1 .. n - 1, NEW k \in 1 .. n - 1
    PROVE  (((x + 1) % n) + k) % n = (x + (k + 1)) % n
  <1>1. (x + 1) % n = IF x + 1 < n THEN x + 1 ELSE x + 1 - n
    BY Slot, 1 \in 1 .. n
  <1>2. (x + (k + 1)) % n = IF x + (k + 1) < n THEN x + (k + 1) ELSE x + (k + 1) - n
    BY Slot, k + 1 \in 1 .. n
  <1>3. (x + 1) % n \in 0 .. n - 1
    BY Slot, 1 \in 1 .. n
  <1>4. (((x + 1) % n) + k) % n = IF ((x + 1) % n) + k < n THEN ((x + 1) % n) + k
                                                      ELSE ((x + 1) % n) + k - n
    BY <1>3, Slot, k \in 1 .. n, (x + 1) % n \in -1 .. n - 1
  <1> QED
    BY <1>1, <1>2, <1>4

-----------------------------------------------------------------------------
(* The inductive invariant: types, and the ring against what is owed.      *)
(* `m_front` and `m_back` are -1 in a ring that was never used, so m_back  *)
(* is the slot m_size after m_front only when m_size is not 0.             *)

HeldCount == IF flusher = "put" THEN 1 ELSE 0

CallsInv ==
    \A w \in Writers : /\ pc[w] # "idle" => line[w] \in Lines
                       /\ pc[w] = "push" => MaxQueueSize >= 1

RingInv ==
    /\ Len(owed) = HeldCount + m_size
    /\ flusher = "put" => owed[1] = single_log
    /\ \A i \in 1 .. m_size :
          owed[HeldCount + i] = m_array[(m_front + i) % MaxQueueSize]
    /\ m_back = IF m_size = 0 THEN m_front ELSE (m_front + m_size) % MaxQueueSize

LogInv == TypeOK /\ CallsInv /\ RingInv /\ NoLineBesideSleeper

-----------------------------------------------------------------------------
\* Initially there is nothing.
LEMMA InitLogInv == Init => LogInv
  <1> SUFFICES ASSUME Init PROVE LogInv
    OBVIOUS
  <1>1. TypeOK
    BY LogAssumption DEF Init, TypeOK, Days, Steps
  <1>2. CallsInv
    BY DEF Init, CallsInv
  <1>3. RingInv
    BY DEF Init, RingInv, HeldCount
  <1>4. NoLineBesideSleeper
    BY DEF Init, NoLineBesideSleeper
  <1> QED
    BY <1>1, <1>2, <1>3, <1>4 DEF LogInv

Files == [day : Days, part : Nat, late : Nat, put : Nat]

\* What fputs does to the open file.
LEMMA FputsCounts ==
    ASSUME m_fp \in Files, Fputs
    PROVE  m_fp' \in Files /\ m_fp'.put = m_fp.put + 1 /\ m_fp'.late = m_fp.late
  <1>1. m_fp = [day |-> m_fp.day, part |-> m_fp.part, late |-> m_fp.late, put |-> m_fp.put]
        /\ m_fp.put \in Nat
    BY DEF Files
  <1>2. m_fp.put + 1 \in Nat
    BY <1>1
  <1>3. m_fp' = [day |-> m_fp.day, part |-> m_fp.part, late |-> m_fp.late, put |-> m_fp.put + 1]
    BY <1>1 DEF Fputs
  <1> QED
    BY <1>2, <1>3 DEF Files

\* A step of a writer that touches neither the queue nor the log's thread.
LEMMA CallKeeps ==
    ASSUME LogInv, NEW w \in Writers, Call(w)
    PROVE  TypeOK' /\ CallsInv'
  <1>1. lines + 1 \in Lines
    <2>1. lines \in 0 .. MaxLines /\ lines < MaxLines /\ MaxLines \in Nat
      BY LogAssumption DEF LogInv, TypeOK, Call
    <2> QED
      BY <2>1 DEF Lines
  <1>2. TypeOK'
    <2>1. PICK day \in {clock} \cup {myTm[v] : v \in {u \in Writers : pc[u] = "count"}} :
             myTm' = [myTm EXCEPT ![w] = day]
      BY DEF Call
    <2>2. day \in Days
      BY DEF LogInv, TypeOK
    <2> QED
      BY <1>1, <2>1, <2>2 DEF LogInv, TypeOK, Call, Lines, Steps, GoTo,
         log, queue, thread
  <1>3. CallsInv'
    BY <1>1 DEF LogInv, TypeOK, CallsInv, Call, GoTo
  <1> QED
    BY <1>2, <1>3

\* Opening a file, or not, keeps the types.
LEMMA CountKeeps ==
    ASSUME LogInv, NEW w \in Writers, Count(w)
    PROVE  TypeOK' /\ CallsInv'
  <1> USE LogAssumption
  <1>1. Cardinality({v \in Writers : pc[v] \in {"room", "push", "put"}}) \in Nat
    <2>1. IsFiniteSet({v \in Writers : pc[v] \in {"room", "push", "put"}})
      BY FS_Subset
    <2> QED
      BY <2>1, FS_CardinalityType
  <1>2. OnTheirWay \in Nat
    BY <1>1 DEF OnTheirWay, LogInv, TypeOK
  <1>3. m_count + 1 \in Nat /\ (m_count + 1) \div SplitLines \in Nat
    <2>1. m_count + 1 \in Nat /\ SplitLines \in Nat \ {0}
      BY DEF LogInv, TypeOK, LogAssumption
    <2> QED
      BY <2>1, Divided
  <1>4. /\ m_fp' \in [day : Days, part : Nat, late : Nat, put : Nat]
        /\ buffered' \subseteq Writers /\ onDisk' \subseteq Writers
        /\ m_count' \in Nat /\ m_today' \in Days
    <2>1. CASE NewDay(w)
      BY <1>2, <2>1 DEF NewDay, Reopen, Fflush, LogInv, TypeOK
    <2>2. CASE NewPart(w)
      BY <1>2, <1>3, <2>2 DEF NewPart, Reopen, Fflush, LogInv, TypeOK
    <2>3. CASE SameFile(w)
      BY <1>3, <2>3 DEF SameFile, file, LogInv, TypeOK
    <2> QED
      BY <2>1, <2>2, <2>3 DEF Count
  <1>5. /\ pc' = [pc EXCEPT ![w] = "room"] /\ myTm' = [myTm EXCEPT ![w] = 0]
        /\ UNCHANGED <<clock, lines, line, queue, thread, history>>
    BY DEF Count, GoTo
  <1>6. pc' \in [Writers -> Steps] /\ myTm' \in [Writers -> Days]
    BY <1>5 DEF LogInv, TypeOK, Steps, Days
  <1>7. TypeOK'
    BY <1>4, <1>5, <1>6 DEF LogInv, TypeOK, queue, thread, history
  <1>8. CallsInv'
    BY <1>5 DEF LogInv, TypeOK, CallsInv, Count
  <1> QED
    BY <1>7, <1>8

\* The log's mutex protects nothing of the queue.
LEMMA QueueUntouched ==
    ASSUME RingInv, NoLineBesideSleeper, UNCHANGED <<queue, thread, owed>>
    PROVE  RingInv' /\ NoLineBesideSleeper'
  BY DEF RingInv, NoLineBesideSleeper, HeldCount, queue, thread

-----------------------------------------------------------------------------
\* push() puts a line behind the others, and the log's thread is awake.
LEMMA PushKeeps ==
    ASSUME LogInv, NEW w \in Writers, Push(w)
    PROVE  LogInv'
  <1> USE LogAssumption
  <1> DEFINE n == MaxQueueSize
  <1>1. /\ n \in Nat \ {0} /\ m_size \in 0 .. n - 1 /\ m_front \in -1 .. n - 1
        /\ m_back \in -1 .. n - 1 /\ line[w] \in Lines
        /\ owed \in Seq(Lines) /\ Len(owed) = HeldCount + m_size
        /\ m_array \in [0 .. n - 1 -> 0 .. MaxLines]
        /\ HeldCount \in 0 .. 1
    BY DEF LogInv, TypeOK, CallsInv, RingInv, Push, HeldCount
  <1>2. m_back' = (m_front + (m_size + 1)) % n
    <2>1. CASE m_size = 0
      BY <1>1, <2>1 DEF LogInv, RingInv, Push, After
    <2>2. CASE m_size # 0
      <3>1. m_size \in 1 .. n - 1
        BY <1>1, <2>2
      <3>2. (((m_front + m_size) % n) + 1) % n = (m_front + (m_size + 1)) % n
        BY <1>1, <3>1, SlotAfter
      <3> QED
        BY <2>2, <3>2 DEF LogInv, RingInv, Push, After
    <2> QED
      BY <2>1, <2>2
  <1>3. m_size + 1 \in 1 .. n /\ m_back' \in 0 .. n - 1
    BY <1>1, <1>2, Slot
  <1>4. /\ owed' \in Seq(Lines) /\ Len(owed') = Len(owed) + 1
        /\ \A i \in 1 .. Len(owed) : owed'[i] = owed[i]
        /\ owed'[Len(owed) + 1] = line[w]
    BY <1>1, AppendProperties DEF Push
  <1>5. /\ flusher' \in {"pop", "put"} /\ HeldCount' = HeldCount
        /\ (flusher' = "put" <=> flusher = "put")
    BY DEF LogInv, TypeOK, Push, Broadcast, HeldCount
  <1>6. TypeOK'
    <2>1. /\ m_back' \in -1 .. n - 1 /\ m_size' \in 0 .. n
          /\ m_array' \in [0 .. n - 1 -> 0 .. MaxLines]
      <3>1. line[w] \in 0 .. MaxLines
        BY <1>1 DEF Lines
      <3>2. /\ m_array' = [m_array EXCEPT ![m_back'] = line[w]]
            /\ m_size' = m_size + 1
        BY DEF Push
      <3> QED
        BY <1>1, <1>3, <3>1, <3>2
    <2>2. /\ pc' \in [Writers -> Steps] /\ overtaken' \subseteq Writers
          /\ route' \in [Writers -> {"none", "queue", "file", "lost"}]
      BY DEF LogInv, TypeOK, Push, GoTo, Steps
    <2>3. UNCHANGED <<clock, lines, line, myTm, log, file, m_front, single_log>>
      BY DEF Push
    <2> QED
      BY <1>4, <1>5, <2>1, <2>2, <2>3 DEF LogInv, TypeOK, log, file
  <1>7. CallsInv'
    BY DEF LogInv, TypeOK, CallsInv, Push, GoTo
  <1>8. RingInv'
    <2>1. Len(owed') = HeldCount' + m_size'
      BY <1>1, <1>4, <1>5 DEF Push
    <2>2. flusher' = "put" => owed'[1] = single_log'
      BY <1>1, <1>4, <1>5 DEF LogInv, RingInv, Push, HeldCount
    <2>3. ASSUME NEW i \in 1 .. m_size'
          PROVE  owed'[HeldCount' + i] = m_array'[(m_front' + i) % n]
      <3>1. m_front' = m_front /\ m_size' = m_size + 1
            /\ m_array' = [m_array EXCEPT ![m_back'] = line[w]]
        BY DEF Push
      <3>2. i \in 1 .. n /\ (m_front + i) % n \in 0 .. n - 1
        BY <1>1, <1>3, <3>1, Slot
      <3>3. CASE i = m_size + 1
        BY <1>1, <1>2, <1>3, <1>4, <1>5, <3>1, <3>3
      <3>4. CASE i \in 1 .. m_size
        <4>1. (m_front + i) % n # m_back'
          <5>1. m_size + 1 \in 1 .. n /\ i # m_size + 1
            BY <1>1, <1>3, <3>4
          <5> QED
            BY <1>1, <1>2, <3>2, <5>1, SlotsDiffer
        <4>2. HeldCount + i \in 1 .. Len(owed)
          BY <1>1, <3>4
        <4>3. owed[HeldCount + i] = m_array[(m_front + i) % n]
          BY <3>4 DEF LogInv, RingInv
        <4> QED
          BY <1>1, <1>4, <1>5, <3>1, <3>2, <4>1, <4>2, <4>3
      <3> QED
        BY <1>1, <3>1, <3>3, <3>4
    <2>4. m_back' = IF m_size' = 0 THEN m_front' ELSE (m_front' + m_size') % n
      BY <1>1, <1>2 DEF Push
    <2> QED
      BY <2>1, <2>2, <2>3, <2>4 DEF RingInv
  <1>9. NoLineBesideSleeper'
    BY <1>5 DEF NoLineBesideSleeper
  <1> QED
    BY <1>6, <1>7, <1>8, <1>9 DEF LogInv

\* pop() takes the oldest line.
LEMMA PopKeeps ==
    ASSUME LogInv, Pop
    PROVE  LogInv'
  <1> USE LogAssumption
  <1> DEFINE n == MaxQueueSize
  <1>1. /\ n \in Nat \ {0} /\ m_size \in 1 .. n /\ m_front \in -1 .. n - 1
        /\ m_back \in -1 .. n - 1
        /\ owed \in Seq(Lines) /\ Len(owed) = m_size
        /\ m_array \in [0 .. n - 1 -> 0 .. MaxLines]
        /\ HeldCount = 0
    BY DEF LogInv, TypeOK, RingInv, Pop, HeldCount
  <1>2. /\ m_front' = (m_front + 1) % n /\ m_size' = m_size - 1
        /\ single_log' = m_array[m_front'] /\ flusher' = "put"
        /\ UNCHANGED <<m_array, m_back, owed>>
    BY DEF Pop, After, history
  <1>3. m_front' \in 0 .. n - 1
    BY <1>1, <1>2, Slot, 1 \in 1 .. n
  <1>4. HeldCount' = 1
    BY <1>2 DEF HeldCount
  <1>5. TypeOK'
    <2>1. UNCHANGED <<clock, calls, log, file, history>>
      BY DEF Pop
    <2> QED
      BY <1>1, <1>2, <1>3, <2>1 DEF LogInv, TypeOK, calls, log, file, history
  <1>6. CallsInv'
    BY DEF LogInv, CallsInv, Pop, calls
  <1>7. RingInv'
    <2>1. Len(owed') = HeldCount' + m_size'
      BY <1>1, <1>2, <1>4
    <2>2. \A i \in 1 .. m_size : owed[i] = m_array[(m_front + i) % n]
      <3>1. \A i \in 1 .. m_size : owed[HeldCount + i] = m_array[(m_front + i) % n]
        BY DEF LogInv, RingInv
      <3>2. \A i \in 1 .. m_size : HeldCount + i = i
        BY <1>1
      <3> QED
        BY <3>1, <3>2
    <2>3. owed'[1] = single_log'
      BY <1>1, <1>2, <2>2, 1 \in 1 .. m_size
    <2>4. ASSUME NEW i \in 1 .. m_size'
          PROVE  owed'[HeldCount' + i] = m_array'[(m_front' + i) % n]
      <3>1. i \in 1 .. n - 1 /\ i + 1 \in 1 .. m_size /\ HeldCount' + i = i + 1
        BY <1>1, <1>2, <1>4
      <3>2. (m_front' + i) % n = (m_front + (i + 1)) % n
        BY <1>1, <1>2, <3>1, SlotShifts
      <3> QED
        BY <1>2, <2>2, <3>1, <3>2
    <2>5. m_back' = IF m_size' = 0 THEN m_front' ELSE (m_front' + m_size') % n
      <3>1. m_back = (m_front + m_size) % n
        BY <1>1 DEF LogInv, RingInv
      <3>2. CASE m_size = 1
        BY <1>2, <3>1, <3>2
      <3>3. CASE m_size # 1
        <4>1. m_size - 1 \in 1 .. n - 1 /\ (m_size - 1) + 1 = m_size
          BY <1>1, <3>3
        <4>2. (m_front' + (m_size - 1)) % n = (m_front + ((m_size - 1) + 1)) % n
          BY <1>1, <1>2, <4>1, SlotShifts
        <4> QED
          BY <1>2, <3>1, <3>3, <4>1, <4>2
      <3> QED
        BY <3>2, <3>3
    <2> QED
      BY <1>2, <2>1, <2>3, <2>4, <2>5 DEF RingInv
  <1>8. NoLineBesideSleeper'
    BY <1>2 DEF NoLineBesideSleeper
  <1> QED
    BY <1>5, <1>6, <1>7, <1>8 DEF LogInv

\* The line the log's thread writes is the one owed longest.
LEMMA FlusherPutKeeps ==
    ASSUME LogInv, FlusherPut
    PROVE  LogInv'
  <1> USE LogAssumption
  <1>1. /\ HeldCount = 1 /\ m_size \in 0 .. MaxQueueSize
        /\ owed \in Seq(Lines) /\ Len(owed) = 1 + m_size
    BY DEF LogInv, TypeOK, RingInv, FlusherPut, HeldCount
  <1>2. /\ flusher' = "pop" /\ owed' = Tail(owed) /\ Fputs
        /\ UNCHANGED <<clock, calls, log, buffered, onDisk, queue, single_log, route, overtaken>>
    BY DEF FlusherPut
  <1>3. HeldCount' = 0
    BY <1>2 DEF HeldCount
  <1>4. /\ owed' \in Seq(Lines) /\ Len(owed') = m_size
        /\ \A i \in 1 .. m_size : owed'[i] = owed[i + 1]
    <2>1. owed # << >>
      BY <1>1
    <2>2. /\ Tail(owed) \in Seq(Lines) /\ Len(Tail(owed)) = Len(owed) - 1
          /\ \A i \in 1 .. Len(Tail(owed)) : Tail(owed)[i] = owed[i + 1]
      BY <1>1, <2>1, HeadTailProperties
    <2> QED
      BY <1>1, <1>2, <2>2
  <1>5. TypeOK'
    <2>1. m_fp' \in [day : Days, part : Nat, late : Nat, put : Nat]
      BY <1>2, FputsCounts DEF LogInv, TypeOK, Files
    <2> QED
      BY <1>2, <1>4, <2>1 DEF LogInv, TypeOK, calls, log, queue
  <1>6. CallsInv'
    BY <1>2 DEF LogInv, CallsInv, calls
  <1>7. RingInv'
    <2>1. ASSUME NEW i \in 1 .. m_size
          PROVE  owed'[HeldCount' + i] = m_array[(m_front + i) % MaxQueueSize]
      <3>1. owed[HeldCount + i] = m_array[(m_front + i) % MaxQueueSize]
        BY DEF LogInv, RingInv
      <3>2. HeldCount' + i = i /\ HeldCount + i = i + 1
        BY <1>1, <1>3
      <3> QED
        BY <1>4, <3>1, <3>2
    <2>2. Len(owed') = HeldCount' + m_size
      BY <1>1, <1>3, <1>4
    <2>3. m_back = IF m_size = 0 THEN m_front ELSE (m_front + m_size) % MaxQueueSize
      BY DEF LogInv, RingInv
    <2> QED
      BY <1>2, <2>1, <2>2, <2>3 DEF RingInv, queue
  <1>8. NoLineBesideSleeper'
    BY <1>2 DEF NoLineBesideSleeper
  <1> QED
    BY <1>5, <1>6, <1>7, <1>8 DEF LogInv

-----------------------------------------------------------------------------
\* Every step keeps the invariant.
LEMMA NextLogInv == LogInv /\ [Next]_vars => LogInv'
  <1> SUFFICES ASSUME LogInv, [Next]_vars PROVE LogInv'
    OBVIOUS
  <1> USE LogAssumption
  <1>1. TypeOK /\ CallsInv /\ RingInv /\ NoLineBesideSleeper
    BY DEF LogInv
  <1>2. CASE Midnight
    <2>1. TypeOK'
      BY <1>1, <1>2 DEF Midnight, TypeOK, Days, calls, log, file, queue, thread, history
    <2>2. CallsInv'
      BY <1>1, <1>2 DEF Midnight, CallsInv, calls
    <2>3. RingInv' /\ NoLineBesideSleeper'
      BY <1>1, <1>2, QueueUntouched DEF Midnight, history
    <2> QED
      BY <2>1, <2>2, <2>3 DEF LogInv
  <1>3. ASSUME NEW w \in Writers, Call(w) PROVE LogInv'
    <2>1. RingInv' /\ NoLineBesideSleeper'
      BY <1>1, <1>3, QueueUntouched DEF Call
    <2> QED
      BY <1>3, <2>1, CallKeeps DEF LogInv
  <1>4. ASSUME NEW w \in Writers, Count(w) PROVE LogInv'
    <2>1. RingInv' /\ NoLineBesideSleeper'
      BY <1>1, <1>4, QueueUntouched DEF Count, history
    <2> QED
      BY <1>4, <2>1, CountKeeps DEF LogInv
  <1>5. ASSUME NEW w \in Writers, SeeRoom(w) PROVE LogInv'
    <2>1. TypeOK'
      BY <1>1, <1>5 DEF SeeRoom, TypeOK, GoTo, Steps, log, file, queue, thread, history
    <2>2. CallsInv'
      BY <1>1, <1>5 DEF SeeRoom, TypeOK, CallsInv, GoTo, m_is_async
    <2>3. RingInv' /\ NoLineBesideSleeper'
      BY <1>1, <1>5, QueueUntouched DEF SeeRoom, history
    <2> QED
      BY <2>1, <2>2, <2>3 DEF LogInv
  <1>6. ASSUME NEW w \in Writers, Push(w) PROVE LogInv'
    BY <1>6, PushKeeps
  <1>7. ASSUME NEW w \in Writers, PushRefused(w) PROVE LogInv'
    <2>1. TypeOK'
      BY <1>1, <1>7 DEF PushRefused, TypeOK, GoTo, Steps, Broadcast, log, file, queue
    <2>2. CallsInv'
      BY <1>1, <1>7 DEF PushRefused, TypeOK, CallsInv, GoTo
    <2>3. flusher' # "wait" /\ HeldCount' = HeldCount
          /\ (flusher' = "put" <=> flusher = "put")
      BY <1>1, <1>7 DEF PushRefused, Broadcast, HeldCount, TypeOK
    <2>4. RingInv'
      BY <1>1, <1>7, <2>3 DEF PushRefused, RingInv, queue
    <2>5. NoLineBesideSleeper'
      BY <2>3 DEF NoLineBesideSleeper
    <2> QED
      BY <2>1, <2>2, <2>4, <2>5 DEF LogInv
  <1>8. ASSUME NEW w \in Writers, Put(w) PROVE LogInv'
    <2>1. TypeOK'
      <3>1. /\ m_fp' \in [day : Days, part : Nat, late : Nat, put : Nat]
            /\ buffered' \subseteq Writers
        BY <1>1, <1>8, FputsCounts DEF Put, TypeOK, Files
      <3> QED
        BY <1>1, <1>8, <3>1 DEF Put, TypeOK, GoTo, Steps, log, queue, thread
    <2>2. CallsInv'
      BY <1>1, <1>8 DEF Put, TypeOK, CallsInv, GoTo
    <2>3. RingInv' /\ NoLineBesideSleeper'
      BY <1>1, <1>8, QueueUntouched DEF Put
    <2> QED
      BY <2>1, <2>2, <2>3 DEF LogInv
  <1>9. ASSUME NEW w \in Writers, Flush(w) PROVE LogInv'
    <2>1. TypeOK'
      BY <1>1, <1>9 DEF Flush, Fflush, TypeOK, GoTo, Steps, log, queue, thread, history
    <2>2. CallsInv'
      BY <1>1, <1>9 DEF Flush, TypeOK, CallsInv, GoTo
    <2>3. RingInv' /\ NoLineBesideSleeper'
      BY <1>1, <1>9, QueueUntouched DEF Flush, history
    <2> QED
      BY <2>1, <2>2, <2>3 DEF LogInv
  <1>10. CASE Pop
    BY <1>10, PopKeeps
  <1>11. CASE PopWait \/ PopSpurious
    <2>1. HeldCount' = HeldCount /\ flusher' # "put" /\ flusher # "put"
      BY <1>11 DEF PopWait, PopSpurious, HeldCount
    <2>2. UNCHANGED <<clock, calls, log, file, queue, single_log, history>>
      BY <1>11 DEF PopWait, PopSpurious
    <2>3. TypeOK'
      BY <1>1, <1>11, <2>2 DEF PopWait, PopSpurious, TypeOK, calls, log, file, queue, history
    <2>4. CallsInv'
      BY <1>1, <2>2 DEF CallsInv, calls
    <2>5. RingInv'
      BY <1>1, <2>1, <2>2 DEF RingInv, queue, history
    <2>6. NoLineBesideSleeper'
      BY <1>1, <1>11, <2>2 DEF PopWait, PopSpurious, NoLineBesideSleeper, TypeOK, queue
    <2> QED
      BY <2>3, <2>4, <2>5, <2>6 DEF LogInv
  <1>12. CASE FlusherPut
    BY <1>12, FlusherPutKeeps
  <1>13. CASE UNCHANGED vars
    <2>1. TypeOK' /\ CallsInv'
      BY <1>1, <1>13 DEF vars, TypeOK, CallsInv, calls, log, file, queue, thread, history
    <2>2. RingInv' /\ NoLineBesideSleeper'
      BY <1>1, <1>13, QueueUntouched DEF vars, history
    <2> QED
      BY <2>1, <2>2 DEF LogInv
  <1> QED
    BY <1>2, <1>3, <1>4, <1>5, <1>6, <1>7, <1>8, <1>9, <1>10, <1>11, <1>12, <1>13
       DEF Next, Writer, Flusher

\* LogInv holds in every state.
THEOREM LogAlways == Spec => []LogInv
  BY InitLogInv, NextLogInv, PTL DEF Spec

\* The variables keep their types.
THEOREM LogTypes == Spec => []TypeOK
  BY LogAlways, PTL DEF LogInv

\* The log's thread does not sleep beside a line, for any length of the queue.
THEOREM LogThreadAwake == Spec => []NoLineBesideSleeper
  BY LogAlways, PTL DEF LogInv

-----------------------------------------------------------------------------
(* What follows from the ring. *)

\* RingInv says of each place what QueuedInOrder says of the sequences.
LEMMA RingInOrder == LogInv => QueuedInOrder
  <1> SUFFICES ASSUME LogInv PROVE QueuedInOrder
    OBVIOUS
  <1>1. /\ m_size \in 0 .. MaxQueueSize /\ MaxQueueSize \in Nat
        /\ m_front \in -1 .. MaxQueueSize - 1 /\ single_log \in 0 .. MaxLines
        /\ m_array \in [0 .. MaxQueueSize - 1 -> 0 .. MaxLines]
        /\ owed \in Seq(Lines) /\ Len(owed) = HeldCount + m_size
    BY LogAssumption DEF LogInv, TypeOK, RingInv
  <1>2. Queued \in Seq(0 .. MaxLines) /\ Len(Queued) = m_size
        /\ \A i \in 1 .. m_size : Queued[i] = owed[HeldCount + i]
    <2>1. ASSUME NEW i \in 1 .. m_size
          PROVE  m_array[(m_front + i) % MaxQueueSize] \in 0 .. MaxLines
      <3>1. MaxQueueSize \in Nat \ {0} /\ i \in 1 .. MaxQueueSize
        BY <1>1
      <3>2. (m_front + i) % MaxQueueSize \in 0 .. MaxQueueSize - 1
        BY <1>1, <3>1, Slot
      <3> QED
        BY <1>1, <3>2
    <2>2. Queued \in [1 .. m_size -> 0 .. MaxLines]
      BY <2>1 DEF Queued
    <2>3. m_size \in Nat
      BY <1>1
    <2>4. Queued \in Seq(0 .. MaxLines) /\ Len(Queued) = m_size
      <3>1. Queued \in Seq(0 .. MaxLines)
        BY <2>2, <2>3, SeqDef
      <3>2. DOMAIN Queued = 1 .. m_size /\ DOMAIN Queued = 1 .. Len(Queued)
            /\ Len(Queued) \in Nat
        BY <2>2, <3>1, LenProperties
      <3> HIDE DEF Queued
      <3> QED
        BY <2>3, <3>1, <3>2
    <2>5. \A i \in 1 .. m_size : Queued[i] = owed[HeldCount + i]
      BY DEF Queued, LogInv, RingInv
    <2> QED
      BY <2>4, <2>5
  <1>3. Held \in Seq(0 .. MaxLines) /\ Len(Held) = HeldCount
        /\ \A i \in 1 .. HeldCount : Held[i] = owed[i]
    <2>1. CASE flusher = "put"
      <3>1. Held = <<single_log>> /\ HeldCount = 1 /\ owed[1] = single_log
        BY <2>1 DEF Held, HeldCount, LogInv, RingInv
      <3> QED
        BY <1>1, <3>1
    <2>2. CASE flusher # "put"
      <3>1. Held = << >> /\ HeldCount = 0
        BY <2>2 DEF Held, HeldCount
      <3> QED
        BY <3>1, EmptySeq
    <2> QED
      BY <2>1, <2>2
  <1>4. /\ Held \o Queued \in Seq(0 .. MaxLines)
        /\ Len(Held \o Queued) = HeldCount + m_size
        /\ \A i \in 1 .. HeldCount + m_size :
              (Held \o Queued)[i] = IF i <= HeldCount THEN Held[i] ELSE Queued[i - HeldCount]
    BY <1>2, <1>3, ConcatProperties
  <1>5. HeldCount \in Nat /\ m_size \in Nat
    BY <1>1 DEF HeldCount
  <1>6. ASSUME NEW i \in 1 .. Len(owed)
        PROVE  owed[i] = (Held \o Queued)[i]
    <2>1. CASE i <= HeldCount
      <3>1. i \in 1 .. HeldCount /\ i \in 1 .. HeldCount + m_size
        BY <1>1, <1>5, <2>1
      <3> QED
        BY <1>3, <1>4, <2>1, <3>1
    <2>2. CASE ~ (i <= HeldCount)
      <3>1. /\ i - HeldCount \in 1 .. m_size /\ i \in 1 .. HeldCount + m_size
            /\ HeldCount + (i - HeldCount) = i
        BY <1>1, <1>5, <2>2
      <3>2. Queued[i - HeldCount] = owed[HeldCount + (i - HeldCount)]
        BY <1>2, <3>1
      <3> QED
        BY <1>4, <2>2, <3>1, <3>2
    <2> QED
      BY <2>1, <2>2
  <1>7. owed \in Seq(0 .. MaxLines)
    <2>1. Lines \subseteq 0 .. MaxLines
      BY DEF Lines
    <2> QED
      BY <1>1, <2>1, SeqMonotonic
  <1>8. owed = Held \o Queued
    BY <1>1, <1>4, <1>6, <1>7, SeqEqual
  <1> QED
    BY <1>8 DEF QueuedInOrder

\* What push() took and is not written is what the thread holds and the ring
\* holds, in order, for any number of writers and any length of the queue.
THEOREM LogQueuedInOrder == Spec => []QueuedInOrder
  BY LogAlways, RingInOrder, PTL

-----------------------------------------------------------------------------
(* Lost lines: a writer before push() saw room, and only the pushes of the *)
(* others, which mark it, can have taken it.                               *)

RivalInv ==
    /\ overtaken \subseteq Writers
    /\ \A w \in Writers : /\ pc[w] = "push" => m_size < MaxQueueSize \/ w \in overtaken
                          /\ route[w] = "lost" => w \in overtaken /\ pc[w] \in {"flush", "idle"}

\* Every step keeps it.
LEMMA NextRivalInv == LogInv /\ RivalInv /\ [Next]_vars => RivalInv'
  <1> SUFFICES ASSUME LogInv, RivalInv, [Next]_vars PROVE RivalInv'
    OBVIOUS
  <1> USE LogAssumption
  <1>1. /\ m_size \in 0 .. MaxQueueSize /\ pc \in [Writers -> Steps]
        /\ route \in [Writers -> {"none", "queue", "file", "lost"}]
    BY DEF LogInv, TypeOK
  <1>2. CASE Midnight \/ UNCHANGED vars
    BY <1>2 DEF Midnight, vars, RivalInv, calls, queue, history
  <1>3. ASSUME NEW w \in Writers, Call(w) PROVE RivalInv'
    BY <1>1, <1>3 DEF Call, GoTo, RivalInv, queue
  <1>4. ASSUME NEW w \in Writers, Count(w) PROVE RivalInv'
    BY <1>1, <1>4 DEF Count, GoTo, RivalInv, queue, history
  <1>5. ASSUME NEW w \in Writers, SeeRoom(w) PROVE RivalInv'
    BY <1>1, <1>5 DEF SeeRoom, GoTo, RivalInv, queue, history, Full
  <1>6. ASSUME NEW w \in Writers, Push(w) PROVE RivalInv'
    BY <1>1, <1>6 DEF Push, GoTo, RivalInv
  <1>7. ASSUME NEW w \in Writers, PushRefused(w) PROVE RivalInv'
    BY <1>1, <1>7 DEF PushRefused, GoTo, RivalInv, queue
  <1>8. ASSUME NEW w \in Writers, Put(w) PROVE RivalInv'
    BY <1>1, <1>8 DEF Put, GoTo, RivalInv, queue
  <1>9. ASSUME NEW w \in Writers, Flush(w) PROVE RivalInv'
    BY <1>1, <1>9 DEF Flush, GoTo, RivalInv, queue, history
  <1>10. CASE Pop
    <2>1. m_size' < MaxQueueSize
      BY <1>1, <1>10 DEF Pop
    <2> QED
      BY <1>10, <2>1 DEF Pop, RivalInv, calls, history
  <1>11. CASE PopWait \/ PopSpurious
    BY <1>11 DEF PopWait, PopSpurious, RivalInv, calls, queue, history
  <1>12. CASE FlusherPut
    BY <1>12 DEF FlusherPut, RivalInv, calls, queue
  <1> QED
    BY <1>2, <1>3, <1>4, <1>5, <1>6, <1>7, <1>8, <1>9, <1>10, <1>11, <1>12
       DEF Next, Writer, Flusher

\* A line is lost only when a rival's push came between full() and push(), for
\* any number of writers and any length of the queue.
THEOREM LogLosesToRivals == Spec => []LostOnlyToARival
  <1>1. Init => RivalInv
    BY DEF Init, RivalInv
  <1>2. RivalInv => LostOnlyToARival
    BY DEF RivalInv, LostOnlyToARival
  <1> QED
    BY <1>1, <1>2, LogAlways, NextRivalInv, PTL DEF Spec

-----------------------------------------------------------------------------
(* The buffer of the file: a line that its caller put waits there, at the  *)
(* latest until the caller's own flush(), whoever changes the file.        *)

DiskInv ==
    \A w \in Writers : route[w] = "file" =>
        w \in onDisk \/ (w \in buffered /\ pc[w] = "flush")

\* Every step keeps it.
LEMMA NextDiskInv == LogInv /\ DiskInv /\ [Next]_vars => DiskInv'
  <1> SUFFICES ASSUME LogInv, DiskInv, [Next]_vars PROVE DiskInv'
    OBVIOUS
  <1>1. /\ pc \in [Writers -> Steps]
        /\ route \in [Writers -> {"none", "queue", "file", "lost"}]
    BY DEF LogInv, TypeOK
  <1>2. CASE Midnight \/ UNCHANGED vars
    BY <1>2 DEF Midnight, vars, DiskInv, calls, file, history
  <1>3. ASSUME NEW w \in Writers, Call(w) PROVE DiskInv'
    BY <1>1, <1>3 DEF Call, GoTo, DiskInv
  <1>4. ASSUME NEW w \in Writers, Count(w) PROVE DiskInv'
    <2>1. \/ onDisk' = onDisk \cup buffered
          \/ UNCHANGED <<onDisk, buffered>>
      BY <1>4 DEF Count, NewDay, NewPart, SameFile, Reopen, Fflush, file
    <2> QED
      BY <1>1, <1>4, <2>1 DEF Count, GoTo, DiskInv, history
  <1>5. ASSUME NEW w \in Writers, SeeRoom(w) PROVE DiskInv'
    BY <1>1, <1>5 DEF SeeRoom, GoTo, DiskInv, file, history
  <1>6. ASSUME NEW w \in Writers, Push(w) PROVE DiskInv'
    BY <1>1, <1>6 DEF Push, GoTo, DiskInv, file
  <1>7. ASSUME NEW w \in Writers, PushRefused(w) PROVE DiskInv'
    BY <1>1, <1>7 DEF PushRefused, GoTo, DiskInv, file
  <1>8. ASSUME NEW w \in Writers, Put(w) PROVE DiskInv'
    BY <1>1, <1>8 DEF Put, GoTo, DiskInv
  <1>9. ASSUME NEW w \in Writers, Flush(w) PROVE DiskInv'
    BY <1>1, <1>9 DEF Flush, Fflush, GoTo, DiskInv, history
  <1>10. CASE Flusher
    BY <1>10 DEF Flusher, Pop, PopWait, PopSpurious, FlusherPut, DiskInv, calls, file, history
  <1> QED
    BY <1>2, <1>3, <1>4, <1>5, <1>6, <1>7, <1>8, <1>9, <1>10 DEF Next, Writer

\* When LOG_ returns, a line its writer put into the file is on the disk, for
\* any number of writers that change the file in between.
THEOREM LogCallersLineOnDisk == Spec => []CallersLineOnDisk
  <1>1. Init => DiskInv
    BY DEF Init, DiskInv
  <1>2. DiskInv => CallersLineOnDisk
    BY DEF DiskInv, CallersLineOnDisk
  <1> QED
    BY <1>1, <1>2, LogAlways, NextDiskInv, PTL DEF Spec

-----------------------------------------------------------------------------
(* The lengths of files: each line counted since the file was opened, and  *)
(* each one that was on its way then, is in the file, on its way, or lost. *)

Coming == {w \in Writers : pc[w] \in {"room", "push", "put"}}

LengthInv == m_fp.put + OnTheirWay <= m_fp.late + (m_count % SplitLines) + 1

\* There are finitely many writers, so those coming can be counted.
LEMMA ComingFinite == IsFiniteSet(Coming) /\ Cardinality(Coming) \in Nat
  <1>1. IsFiniteSet(Coming)
    BY LogAssumption, FS_Subset DEF LogAssumption, Coming
  <1> QED
    BY <1>1, FS_CardinalityType

\* A writer's step from one place to another, and the writers that are coming.
LEMMA ComingSteps ==
    ASSUME LogInv, NEW w \in Writers, NEW step \in Steps, GoTo(w, step)
    PROVE  /\ step \in {"room", "push", "put"} /\ w \in Coming => Coming' = Coming
           /\ step \notin {"room", "push", "put"} /\ w \notin Coming => Coming' = Coming
           /\ step \in {"room", "push", "put"} /\ w \notin Coming
                => Cardinality(Coming)' = Cardinality(Coming) + 1
           /\ step \notin {"room", "push", "put"} /\ w \in Coming
                => Cardinality(Coming)' = Cardinality(Coming) - 1
  <1>1. pc \in [Writers -> Steps] /\ pc' = [pc EXCEPT ![w] = step]
    BY DEF LogInv, TypeOK, GoTo
  <1>2. Coming' = IF step \in {"room", "push", "put"} THEN Coming \cup {w} ELSE Coming \ {w}
    BY <1>1 DEF Coming
  <1>3. w \notin Coming => Cardinality(Coming \cup {w}) = Cardinality(Coming) + 1
    BY ComingFinite, FS_AddElement
  <1>4. w \in Coming => Cardinality(Coming \ {w}) = Cardinality(Coming) - 1
    BY ComingFinite, FS_RemoveElement
  <1> QED
    BY <1>2, <1>3, <1>4

\* Every step keeps it.
LEMMA NextLengthInv == LogInv /\ LengthInv /\ [Next]_vars => LengthInv'
  <1> SUFFICES ASSUME LogInv, LengthInv, [Next]_vars PROVE LengthInv'
    OBVIOUS
  <1> DEFINE c == Cardinality(Coming)
             r == m_count % SplitLines
             held == IF flusher = "put" THEN 1 ELSE 0
  <1>1. /\ m_size \in Nat /\ m_count \in Nat /\ SplitLines \in Nat \ {0}
        /\ m_fp \in Files /\ flusher \in {"pop", "wait", "put"}
        /\ r \in 0 .. SplitLines - 1 /\ c \in Nat /\ held \in 0 .. 1
    BY LogAssumption, Divided, ComingFinite DEF LogAssumption, LogInv, TypeOK, Files
  <1>2. m_fp.put \in Nat /\ m_fp.late \in Nat
    BY <1>1 DEF Files
  <1>3. /\ OnTheirWay = c + m_size + held
        /\ OnTheirWay' = c' + m_size' + held'
    BY DEF OnTheirWay, Coming
  <1>4. m_fp.put + (c + m_size + held) <= m_fp.late + r + 1
    BY <1>3 DEF LengthInv
  <1>5. SUFFICES m_fp'.put + (c' + m_size' + held') <= m_fp'.late + r' + 1
    BY <1>3 DEF LengthInv
  <1>6. CASE Midnight \/ UNCHANGED vars
    <2>1. UNCHANGED <<pc, m_size, flusher, m_count, m_fp>>
      BY <1>6 DEF Midnight, vars, calls, log, file, queue, thread
    <2> QED
      BY <1>4, <2>1 DEF Coming
  <1>7. ASSUME NEW w \in Writers, Call(w) PROVE m_fp'.put + (c' + m_size' + held') <= m_fp'.late + r' + 1
    <2>1. /\ UNCHANGED <<m_size, flusher, m_count, m_fp>>
          /\ GoTo(w, "count") /\ w \notin Coming
      BY <1>7 DEF Call, log, queue, thread, Coming
    <2>2. c' = c
      BY <2>1, ComingSteps DEF Steps
    <2> QED
      BY <1>4, <2>1, <2>2
  <1>8. ASSUME NEW w \in Writers, Count(w) PROVE m_fp'.put + (c' + m_size' + held') <= m_fp'.late + r' + 1
    <2>1. /\ UNCHANGED <<m_size, flusher>>
          /\ GoTo(w, "room") /\ w \notin Coming
      BY <1>8 DEF Count, queue, thread, Coming
    <2>2. c' = c + 1
      BY <2>1, ComingSteps DEF Steps
    <2>3. m_size' = m_size /\ held' = held
      BY <2>1
    <2>4. CASE NewDay(w)
      <3>1. m_fp'.put = 0 /\ m_fp'.late = c + m_size + held /\ m_count' = 0
        BY <1>3, <2>4 DEF NewDay, Reopen
      <3>2. r' = 0
        BY <1>1, <3>1
      <3> QED
        BY <1>1, <2>2, <2>3, <3>1, <3>2
    <2>5. CASE NewPart(w)
      <3>1. /\ m_fp'.put = 0 /\ m_fp'.late = c + m_size + held
            /\ r' = 0
        BY <1>3, <2>5 DEF NewPart, Reopen
      <3> QED
        BY <1>1, <2>2, <2>3, <3>1
    <2>6. CASE SameFile(w)
      <3>1. m_fp' = m_fp /\ m_count' = m_count + 1 /\ (m_count + 1) % SplitLines # 0
        BY <2>6 DEF SameFile, file
      <3>2. r' = r + 1
        BY <1>1, <3>1, ModNext
      <3> QED
        BY <1>1, <1>2, <1>4, <2>2, <2>3, <3>1, <3>2
    <2> QED
      BY <1>8, <2>4, <2>5, <2>6 DEF Count
  <1>9. ASSUME NEW w \in Writers, SeeRoom(w) PROVE m_fp'.put + (c' + m_size' + held') <= m_fp'.late + r' + 1
    <2>1. /\ UNCHANGED <<m_size, flusher, m_count, m_fp>>
          /\ GoTo(w, "push") \/ GoTo(w, "put")
          /\ w \in Coming
      BY <1>9 DEF SeeRoom, log, file, queue, thread, Coming
    <2>2. c' = c
      BY <2>1, ComingSteps DEF Steps
    <2> QED
      BY <1>4, <2>1, <2>2
  <1>10. ASSUME NEW w \in Writers, Push(w) PROVE m_fp'.put + (c' + m_size' + held') <= m_fp'.late + r' + 1
    <2>1. /\ m_size' = m_size + 1 /\ UNCHANGED <<m_count, m_fp>>
          /\ GoTo(w, "flush") /\ w \in Coming
      BY <1>10 DEF Push, log, file, Coming
    <2>2. c' = c - 1
      BY <2>1, ComingSteps DEF Steps
    <2>3. held' = held
      BY <1>10 DEF Push, Broadcast
    <2> QED
      BY <1>1, <1>2, <1>4, <2>1, <2>2, <2>3
  <1>11. ASSUME NEW w \in Writers, PushRefused(w) PROVE m_fp'.put + (c' + m_size' + held') <= m_fp'.late + r' + 1
    <2>1. /\ UNCHANGED <<m_size, m_count, m_fp>>
          /\ GoTo(w, "flush") /\ w \in Coming
      BY <1>11 DEF PushRefused, log, file, queue, Coming
    <2>2. c' = c - 1
      BY <2>1, ComingSteps DEF Steps
    <2>3. held' = held
      BY <1>11 DEF PushRefused, Broadcast
    <2> QED
      BY <1>1, <1>2, <1>4, <2>1, <2>2, <2>3
  <1>12. ASSUME NEW w \in Writers, Put(w) PROVE m_fp'.put + (c' + m_size' + held') <= m_fp'.late + r' + 1
    <2>1. /\ UNCHANGED <<m_size, flusher, m_count>> /\ Fputs
          /\ GoTo(w, "flush") /\ w \in Coming
      BY <1>12 DEF Put, log, queue, thread, Coming
    <2>2. c' = c - 1
      BY <2>1, ComingSteps DEF Steps
    <2>3. m_fp'.put = m_fp.put + 1 /\ m_fp'.late = m_fp.late
      BY <1>1, <2>1, FputsCounts
    <2> QED
      BY <1>1, <1>2, <1>4, <2>1, <2>2, <2>3
  <1>13. ASSUME NEW w \in Writers, Flush(w) PROVE m_fp'.put + (c' + m_size' + held') <= m_fp'.late + r' + 1
    <2>1. /\ UNCHANGED <<m_size, flusher, m_count, m_fp>>
          /\ GoTo(w, "idle") /\ w \notin Coming
      BY <1>13 DEF Flush, log, queue, thread, Coming
    <2>2. c' = c
      BY <2>1, ComingSteps DEF Steps
    <2> QED
      BY <1>4, <2>1, <2>2
  <1>14. CASE Pop
    <2>1. /\ UNCHANGED <<pc, m_count, m_fp>> /\ m_size' = m_size - 1
          /\ held = 0 /\ held' = 1
      BY <1>14 DEF Pop, calls, log, file
    <2>2. c' = c
      BY <2>1 DEF Coming
    <2> QED
      BY <1>1, <1>2, <1>4, <2>1, <2>2
  <1>15. CASE PopWait \/ PopSpurious
    <2>1. UNCHANGED <<pc, m_count, m_fp, m_size>> /\ held' = held
      BY <1>15 DEF PopWait, PopSpurious, calls, log, file, queue
    <2>2. c' = c
      BY <2>1 DEF Coming
    <2> QED
      BY <1>1, <1>2, <1>4, <2>1, <2>2
  <1>16. CASE FlusherPut
    <2>1. /\ UNCHANGED <<pc, m_count, m_size>> /\ Fputs
          /\ held = 1 /\ held' = 0
      BY <1>16 DEF FlusherPut, calls, log, queue
    <2>2. c' = c
      BY <2>1 DEF Coming
    <2>3. m_fp'.put = m_fp.put + 1 /\ m_fp'.late = m_fp.late
      BY <1>1, <2>1, FputsCounts
    <2> QED
      BY <1>1, <1>2, <1>4, <2>1, <2>2, <2>3
  <1> QED
    BY <1>6, <1>7, <1>8, <1>9, <1>10, <1>11, <1>12, <1>13, <1>14, <1>15, <1>16
       DEF Next, Writer, Flusher

\* A file takes at most split_lines lines from one fopen to the next, besides
\* those on their way then, for any number of writers and lines.
THEOREM LogFileLengths == Spec => []FileLengths
  <1>1. Init => LengthInv
    <2> SUFFICES ASSUME Init PROVE LengthInv
      OBVIOUS
    <2>1. {w \in Writers : pc[w] \in {"room", "push", "put"}} = {}
      BY DEF Init
    <2>2. OnTheirWay = 0
      <3>1. Cardinality({w \in Writers : pc[w] \in {"room", "push", "put"}}) = 0
        BY <2>1, FS_EmptySet
      <3>2. m_size = 0 /\ flusher = "pop"
        BY DEF Init
      <3> QED
        BY <3>1, <3>2 DEF OnTheirWay
    <2>3. m_count % SplitLines \in Nat /\ m_count = 0
      BY LogAssumption, Divided DEF LogAssumption, Init
    <2> QED
      BY <2>2, <2>3 DEF LengthInv, Init
  <1>2. LogInv /\ LengthInv => FileLengths
    <2> SUFFICES ASSUME LogInv, LengthInv PROVE FileLengths
      OBVIOUS
    <2>1. m_fp.put \in Nat /\ m_fp.late \in Nat /\ m_size \in Nat /\ m_count \in Nat
      BY DEF LogInv, TypeOK
    <2>2. m_count % SplitLines \in 0 .. SplitLines - 1 /\ SplitLines \in Nat \ {0}
      BY <2>1, LogAssumption, Divided DEF LogAssumption
    <2>3. OnTheirWay \in Nat
      BY <2>1, ComingFinite DEF OnTheirWay, Coming
    <2> QED
      BY <2>1, <2>2, <2>3 DEF LengthInv, FileLengths
  <1> QED
    BY <1>1, <1>2, LogAlways, NextLengthInv, PTL DEF Spec
=============================================================================
