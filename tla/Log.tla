-------------------------------- MODULE Log --------------------------------
(***************************************************************************)
(* The log (log/log.cpp, log/log.h) and its blocking queue                 *)
(* (log/block_queue.h): threads that call LOG_INFO and its like, that is   *)
(* write_log() and then flush(), and the thread that takes lines from the  *)
(* queue and writes them to the file.                                      *)
(*                                                                         *)
(* Each critical section, of the log's mutex or of the queue's, is one     *)
(* action: none of them waits inside but pop(), which gives the mutex up   *)
(* while it waits.  The section that formats a line has no effect outside  *)
(* the call and belongs to the step before it.                             *)
(*                                                                         *)
(* Lines are numbered by the calls.  Four variables are history: `owed`,   *)
(* the lines that push() took and the log's thread has still to write, in  *)
(* the order push() took them; and, of the writers' latest calls, `route`, *)
(* which way the line went, `onDisk`, whose line left the file's buffer,   *)
(* and `overtaken`, which of them waited for push() while it took another. *)
(***************************************************************************)
EXTENDS Integers, Sequences, SequencesExt, FiniteSets

CONSTANTS Writers,       \* threads that log
          MaxQueueSize,  \* max_queue_size of init(); 0 is the synchronous log
          SplitLines,    \* split_lines of init()
          MaxDay,        \* bound on the days that pass
          MaxLines       \* bound on the lines logged

ASSUME LogAssumption ==
    /\ IsFiniteSet(Writers)
    /\ MaxQueueSize \in Nat /\ SplitLines \in Nat \ {0}
    /\ MaxDay \in Nat /\ MaxLines \in Nat

VARIABLES
    clock,       \* the day
    lines,       \* number of calls of write_log() so far
    pc,          \* where each writer is
    line,        \* its line
    myTm,        \* its my_tm
    m_count, m_today,
    m_fp,        \* the open file: its name, the lines on their way when it was
                 \* opened (`late`, history), and those put into it since
    buffered,    \* the writers that have their line in the buffer of m_fp
    onDisk,
    m_array, m_front, m_back, m_size,
    flusher,     \* the log's thread: "pop", asleep in "wait", or about to "put"
    single_log,  \* the line it holds
    owed, route, overtaken

calls   == <<lines, pc, line, myTm>>
log     == <<m_count, m_today>>
file    == <<m_fp, buffered, onDisk>>
queue   == <<m_array, m_front, m_back, m_size>>
thread  == <<flusher, single_log>>
history == <<owed, route, overtaken>>
vars    == <<clock, calls, log, file, queue, thread, history>>

m_is_async == MaxQueueSize >= 1
Days  == 0 .. MaxDay
Lines == 1 .. MaxLines
Steps == {"idle", "count", "room", "push", "put", "flush"}

TypeOK ==
    /\ clock \in Days /\ lines \in 0 .. MaxLines
    /\ pc \in [Writers -> Steps]
    /\ line \in [Writers -> 0 .. MaxLines]
    /\ myTm \in [Writers -> Days]
    /\ m_count \in Nat /\ m_today \in Days
    /\ m_fp \in [day : Days, part : Nat, late : Nat, put : Nat]
    /\ buffered \subseteq Writers /\ onDisk \subseteq Writers
    /\ m_array \in [0 .. MaxQueueSize - 1 -> 0 .. MaxLines]
    /\ m_front \in -1 .. MaxQueueSize - 1 /\ m_back \in -1 .. MaxQueueSize - 1
    /\ m_size \in 0 .. MaxQueueSize
    /\ flusher \in {"pop", "wait", "put"} /\ single_log \in 0 .. MaxLines
    /\ owed \in Seq(Lines)
    /\ overtaken \subseteq Writers
    /\ route \in [Writers -> {"none", "queue", "file", "lost"}]

Init ==
    /\ clock = 0 /\ lines = 0
    /\ pc = [w \in Writers |-> "idle"]
    /\ line = [w \in Writers |-> 0]
    /\ myTm = [w \in Writers |-> 0]
    /\ m_count = 0 /\ m_today = 0
    /\ m_fp = [day |-> 0, part |-> 0, late |-> 0, put |-> 0]
    /\ buffered = {} /\ onDisk = {}
    /\ m_array = [i \in 0 .. MaxQueueSize - 1 |-> 0]
    /\ m_front = -1 /\ m_back = -1 /\ m_size = 0
    /\ flusher = "pop" /\ single_log = 0
    /\ owed = << >> /\ overtaken = {}
    /\ route = [w \in Writers |-> "none"]

-----------------------------------------------------------------------------
(* The file. *)

GoTo(w, step) == pc' = [pc EXCEPT ![w] = step]

Fputs == m_fp' = [m_fp EXCEPT !.put = @ + 1]

Fflush ==
    /\ onDisk' = onDisk \cup buffered
    /\ buffered' = {}

\* Lines that are counted and not in a file.
OnTheirWay ==
    Cardinality({w \in Writers : pc[w] \in {"room", "push", "put"}})
      + m_size + (IF flusher = "put" THEN 1 ELSE 0)

\* faulty: the old file is dropped with what its buffer holds
ReopenUnclosed(day, part) ==
    /\ buffered' = {}
    /\ m_fp' = [day |-> day, part |-> part, late |-> OnTheirWay, put |-> 0]
    /\ UNCHANGED onDisk

\* fflush and fclose the open file, fopen the next one.
Reopen(day, part) ==
    /\ Fflush
    /\ m_fp' = [day |-> day, part |-> part, late |-> OnTheirWay, put |-> 0]

-----------------------------------------------------------------------------
(* write_log(): the time. *)

Midnight ==
    /\ clock < MaxDay
    /\ clock' = clock + 1
    /\ UNCHANGED <<calls, log, file, queue, thread, history>>

\* localtime() fills a structure that belongs to all threads and is copied
\* without a lock: the time may be that of another thread on its way.
Call(w) ==
    /\ pc[w] = "idle" /\ lines < MaxLines
    /\ lines' = lines + 1
    /\ line' = [line EXCEPT ![w] = lines + 1]
    /\ \E day \in {clock} \cup {myTm[v] : v \in {u \in Writers : pc[u] = "count"}} :
         myTm' = [myTm EXCEPT ![w] = day]
    /\ GoTo(w, "count")
    /\ onDisk' = onDisk \ {w}
    /\ overtaken' = overtaken \ {w}
    /\ route' = [route EXCEPT ![w] = "none"]
    /\ UNCHANGED <<clock, log, m_fp, buffered, queue, thread, owed>>

-----------------------------------------------------------------------------
(* write_log(): count the line, and change the file when it is time. *)

NewDay(w) ==
    /\ m_today # myTm[w]
    /\ Reopen(myTm[w], 0)
    /\ m_today' = myTm[w] /\ m_count' = 0

NewPart(w) ==
    /\ m_today = myTm[w] /\ (m_count + 1) % SplitLines = 0
    /\ Reopen(m_today, (m_count + 1) \div SplitLines)
    /\ m_count' = m_count + 1
    /\ UNCHANGED m_today

SameFile(w) ==
    /\ m_today = myTm[w] /\ (m_count + 1) % SplitLines # 0
    /\ m_count' = m_count + 1
    /\ UNCHANGED <<m_today, file>>

Count(w) ==
    /\ pc[w] = "count"
    /\ NewDay(w) \/ NewPart(w) \/ SameFile(w)
    /\ GoTo(w, "room")
    /\ myTm' = [myTm EXCEPT ![w] = 0]    \* only the text of the line has it now
    /\ UNCHANGED <<clock, lines, line, queue, thread, history>>

-----------------------------------------------------------------------------
(* write_log(): hand the line over, or write it. *)

\* faulty: one line too many is let through
FullOffByOne == m_size > MaxQueueSize

Full == m_size >= MaxQueueSize

\* The test releases the queue's mutex before push() takes it again.
SeeRoom(w) ==
    /\ pc[w] = "room"
    /\ GoTo(w, IF m_is_async /\ ~Full THEN "push" ELSE "put")
    /\ UNCHANGED <<clock, lines, line, myTm, log, file, queue, thread, history>>

\* faulty: only a queue that was full is announced
BroadcastIfFull ==
    flusher' = IF flusher = "wait" /\ m_size >= MaxQueueSize THEN "pop" ELSE flusher

\* m_cond.broadcast()
Broadcast == flusher' = IF flusher = "wait" THEN "pop" ELSE flusher

After(i) == (i + 1) % MaxQueueSize

Push(w) ==
    /\ pc[w] = "push" /\ m_size < MaxQueueSize
    /\ m_back' = After(m_back)
    /\ m_array' = [m_array EXCEPT ![m_back'] = line[w]]
    /\ m_size' = m_size + 1
    /\ Broadcast
    /\ GoTo(w, "flush")
    /\ owed' = Append(owed, line[w])
    /\ overtaken' = (overtaken \cup {v \in Writers : pc[v] = "push"}) \ {w}
    /\ route' = [route EXCEPT ![w] = "queue"]
    /\ UNCHANGED <<clock, lines, line, myTm, log, file, m_front, single_log>>

\* The result of push() is ignored: the line is gone.
PushRefused(w) ==
    /\ pc[w] = "push" /\ m_size >= MaxQueueSize
    /\ Broadcast
    /\ GoTo(w, "flush")
    /\ route' = [route EXCEPT ![w] = "lost"]
    /\ UNCHANGED <<clock, lines, line, myTm, log, file, queue, single_log, owed, overtaken>>

Put(w) ==
    /\ pc[w] = "put"
    /\ Fputs
    /\ buffered' = buffered \cup {w}
    /\ GoTo(w, "flush")
    /\ route' = [route EXCEPT ![w] = "file"]
    /\ UNCHANGED <<clock, lines, line, myTm, log, onDisk, queue, thread, owed, overtaken>>

\* flush(), which the LOG_ macros call after write_log().
Flush(w) ==
    /\ pc[w] = "flush"
    /\ Fflush
    /\ GoTo(w, "idle")
    /\ line' = [line EXCEPT ![w] = 0]
    /\ UNCHANGED <<clock, lines, myTm, log, m_fp, queue, thread, history>>

-----------------------------------------------------------------------------
(* async_write_log(). *)

\* faulty: the line is taken from the other end
PopNewest ==
    /\ flusher = "pop" /\ m_size > 0
    /\ m_front' = After(m_front)
    /\ single_log' = m_array[m_back]
    /\ m_size' = m_size - 1
    /\ flusher' = "put"
    /\ UNCHANGED <<clock, calls, log, file, m_array, m_back, history>>

Pop ==
    /\ flusher = "pop" /\ m_size > 0
    /\ m_front' = After(m_front)
    /\ single_log' = m_array[m_front']
    /\ m_size' = m_size - 1
    /\ flusher' = "put"
    /\ UNCHANGED <<clock, calls, log, file, m_array, m_back, history>>

PopWait ==
    /\ flusher = "pop" /\ m_size <= 0 /\ m_is_async
    /\ flusher' = "wait"
    /\ UNCHANGED <<clock, calls, log, file, queue, single_log, history>>

PopSpurious ==
    /\ flusher = "wait"
    /\ flusher' = "pop"
    /\ UNCHANGED <<clock, calls, log, file, queue, single_log, history>>

FlusherPut ==
    /\ flusher = "put"
    /\ Fputs
    /\ flusher' = "pop"
    /\ owed' = Tail(owed)
    /\ UNCHANGED <<clock, calls, log, buffered, onDisk, queue, single_log, route, overtaken>>

-----------------------------------------------------------------------------
Writer(w) ==
    \/ Call(w) \/ Count(w)
    \/ SeeRoom(w) \/ Push(w) \/ PushRefused(w) \/ Put(w) \/ Flush(w)

Flusher == Pop \/ PopWait \/ PopSpurious \/ FlusherPut

Next == Midnight \/ Flusher \/ \E w \in Writers : Writer(w)

Spec == Init /\ [][Next]_vars

\* The log's thread runs when it can.  Nobody has to log.
FairSpec == Spec /\ WF_vars(Pop) /\ WF_vars(FlusherPut)

-----------------------------------------------------------------------------
(* Properties. *)

Queued == [i \in 1 .. m_size |-> m_array[(m_front + i) % MaxQueueSize]]
Held == IF flusher = "put" THEN <<single_log>> ELSE << >>

\* What push() took and the log's thread has not written is, in the order it
\* was taken, the line the thread holds and the ring from m_front to m_back: no
\* line is lost in the ring, repeated or overtaken.
QueuedInOrder == owed = Held \o Queued

\* A line is lost only if push() took somebody else's line after full() had
\* promised room for it.
LostOnlyToARival == \A w \in Writers : route[w] = "lost" => w \in overtaken

\* A file takes at most split_lines lines from one fopen to the next, besides
\* those that were on their way when it was opened.
FileLengths == m_fp.put <= m_fp.late + SplitLines

\* When LOG_ returns, a line that its writer put into the file itself is on the
\* disk, although other threads may have changed the file before the flush().
CallersLineOnDisk ==
    \A w \in Writers : route[w] = "file" /\ pc[w] = "idle" => w \in onDisk

\* The log's thread does not sleep beside a line.
NoLineBesideSleeper == flusher = "wait" => m_size = 0

\* Every line that push() took is written in the end.
AcceptedIsWritten ==
    \A l \in Lines : (l \in Range(owed)) ~> (l \notin Range(owed))
=============================================================================
