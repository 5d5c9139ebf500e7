------------------------------ MODULE ConnPool ------------------------------
(***************************************************************************)
(* CDBPool (MysqlPool/DBPool.cpp) and CachePool (RedisPool/CachePool.cpp): *)
(* a list of free connections that grows on demand up to a maximum, one    *)
(* mutex, one condition variable.  The two classes share every line of     *)
(* their logic but the destructor's critical sections (OneSection) and the *)
(* list of used connections that only CDBPool keeps.                       *)
(*                                                                         *)
(* A critical section of the mutex is one step: nothing outside it sees    *)
(* its intermediate states.  A connection is opened inside the section,    *)
(* and may fail to open.  The model starts after `InitCalls` calls of      *)
(* Init(), any of which may have stopped early on an error the caller      *)
(* ignored.  main.cc calls it twice on one pool: the second call lists     *)
(* connections that m_cur_conn_cnt does not count, the surplus.            *)
(***************************************************************************)
EXTENDS Integers, Sequences, FiniteSets

CONSTANTS Users,       \* threads that borrow connections
          Timed,       \* those that pass a timeout
          Managed,     \* those that release through the manager, which drops NULL
          Conn,        \* connections that may ever be opened
          Null,        \* the NULL a failed call returns
          MinConns,    \* MIN_DB_CONN_CNT, MIN_CACHE_CONN_CNT
          MaxConns,    \* m_db_max_conn_cnt, m_max_conn_cnt
          InitCalls,   \* calls of Init() on this pool at start-up
          OneSection   \* the destructor holds the mutex throughout (CDBPool)

ASSUME ConnPoolAssumption ==
    /\ IsFiniteSet(Users)
    /\ Timed \subseteq Users
    /\ Managed \subseteq Users
    /\ Null \notin Conn
    /\ MinConns \in Nat /\ MaxConns \in Nat /\ InitCalls \in Nat
    /\ OneSection \in BOOLEAN

VARIABLES free,     \* m_free_list
          used,     \* m_used_list
          cur,      \* m_cur_conn_cnt
          abort,    \* m_abort_request
          surplus,  \* connections Init() listed beyond the count, for ever
          phase,    \* where the destructor is
          pc,       \* where each user is
          conn      \* the pointer a user holds

vars == <<free, used, cur, abort, surplus, phase, pc, conn>>

Listed == {free[i] : i \in DOMAIN free}
Holders == {u \in Users : pc[u] = "hold"}
Open == (Listed \cup {conn[u] : u \in Holders}) \ {Null}
Sleeping == {u \in Users : pc[u] = "wait"}
Woken == {u \in Users : pc[u] = "woken"}

TypeOK ==
    /\ free \in Seq(Conn \cup {Null})
    /\ used \subseteq Conn \cup {Null}
    /\ cur \in Nat
    /\ abort \in BOOLEAN
    /\ surplus \in Nat
    /\ phase \in {"alive", "aborted", "deleted", "cleared", "gone"}
    /\ pc \in [Users -> {"idle", "wait", "woken", "hold"}]
    /\ conn \in [Users -> Conn \cup {Null}]

\* Each call of Init() opened up to MinConns connections.
Opened == {s \in UNION {[1 .. k -> Conn] : k \in 0 .. InitCalls * MinConns} :
             \A i, j \in DOMAIN s : i # j => s[i] # s[j]}

Init ==
    /\ free \in Opened
    /\ used = {}
    /\ cur = MinConns
    /\ abort = FALSE
    /\ surplus = IF Len(free) > MinConns THEN Len(free) - MinConns ELSE 0
    /\ phase = "alive"
    /\ pc = [u \in Users |-> "idle"]
    /\ conn = [u \in Users |-> Null]

-----------------------------------------------------------------------------
\* The mutex is free for a user: the pool exists, and its destructor is not
\* inside its only critical section.
Reachable == phase # "gone" /\ (phase = "aborted" => ~OneSection)

\* The call returns NULL.  A managed user forgets it, the others hold it and
\* will give it back like a connection.
ReturnNull(u) ==
    /\ pc' = [pc EXCEPT ![u] = IF u \in Managed THEN "idle" ELSE "hold"]
    /\ conn' = [conn EXCEPT ![u] = Null]
    /\ UNCHANGED <<free, used>>

\* Pops the front of the list.  It may be a NULL that somebody gave back.
TakeFront(u) ==
    /\ conn' = [conn EXCEPT ![u] = Head(free)]
    /\ free' = Tail(free)
    /\ used' = used \cup {Head(free)}
    /\ IF Head(free) = Null /\ u \in Managed
         THEN pc' = [pc EXCEPT ![u] = "idle"]
         ELSE pc' = [pc EXCEPT ![u] = "hold"]

\* What follows the wait: an empty list or an aborted pool gives NULL.
LeaveWait(u) ==
    \/ (free = << >> \/ abort) /\ ReturnNull(u)
    \/ free # << >> /\ ~abort /\ TakeFront(u)

\* faulty: never notifies
NotifyNobody(p) == pc' = p

\* faulty: notifies only if the list was empty before
NotifyIfEmpty(p) ==
    IF free = << >>
      THEN \/ Sleeping = {} /\ pc' = p
           \/ \E v \in Sleeping : pc' = [p EXCEPT ![v] = "woken"]
      ELSE pc' = p

\* notify_one, with p the other users' new places.
NotifyOne(p) ==
    \/ Sleeping = {} /\ pc' = p
    \/ \E v \in Sleeping : pc' = [p EXCEPT ![v] = "woken"]

-----------------------------------------------------------------------------
\* GetDBConn(timeout_ms), GetCacheConn(timeout_ms)

GetAborted(u) ==
    /\ pc[u] = "idle" /\ Reachable /\ abort
    /\ ReturnNull(u)
    /\ UNCHANGED <<cur, abort, surplus, phase>>

GetFree(u) ==
    /\ pc[u] = "idle" /\ Reachable /\ ~abort
    /\ free # << >>
    /\ TakeFront(u)
    /\ UNCHANGED <<cur, abort, surplus, phase>>

\* faulty: compares with >
AtMaxOffByOne == cur > MaxConns
AtMax == cur >= MaxConns

\* A connection is opened, listed, and popped from the list at once.
GetNew(u) ==
    /\ pc[u] = "idle" /\ Reachable /\ ~abort
    /\ free = << >> /\ ~AtMax
    /\ \E c \in Conn \ Open :
          /\ conn' = [conn EXCEPT ![u] = c]
          /\ used' = used \cup {c}
    /\ pc' = [pc EXCEPT ![u] = "hold"]
    /\ cur' = cur + 1
    /\ UNCHANGED <<free, abort, surplus, phase>>

\* The new connection cannot be opened.
GetFailed(u) ==
    /\ pc[u] = "idle" /\ Reachable /\ ~abort
    /\ free = << >> /\ ~AtMax
    /\ ReturnNull(u)
    /\ UNCHANGED <<cur, abort, surplus, phase>>

GetWait(u) ==
    /\ pc[u] = "idle" /\ Reachable /\ ~abort
    /\ free = << >> /\ AtMax
    /\ pc' = [pc EXCEPT ![u] = "wait"]
    /\ UNCHANGED <<free, used, cur, abort, surplus, phase, conn>>

\* A condition variable may wake a sleeper for nothing.
Spurious(u) ==
    /\ pc[u] = "wait" /\ phase # "gone"
    /\ pc' = [pc EXCEPT ![u] = "woken"]
    /\ UNCHANGED <<free, used, cur, abort, surplus, phase, conn>>

\* A woken user has the mutex again and finds the wait's predicate true ...
WakeLeaves(u) ==
    /\ pc[u] = "woken" /\ Reachable
    /\ free # << >> \/ abort
    /\ LeaveWait(u)
    /\ UNCHANGED <<cur, abort, surplus, phase>>

\* ... or false: somebody was faster.
WakeWaits(u) ==
    /\ pc[u] = "woken" /\ Reachable
    /\ free = << >> /\ ~abort
    /\ pc' = [pc EXCEPT ![u] = "wait"]
    /\ UNCHANGED <<free, used, cur, abort, surplus, phase, conn>>

\* The time is over, before or after a notification reached the user.
TimesOut(u) ==
    /\ u \in Timed /\ pc[u] \in {"wait", "woken"} /\ Reachable
    /\ LeaveWait(u)
    /\ UNCHANGED <<cur, abort, surplus, phase>>

\* faulty: the pointer is not looked for in the list
ReleaseBlindly(u) ==
    /\ pc[u] = "hold" /\ Reachable
    /\ conn' = [conn EXCEPT ![u] = Null]
    /\ used' = used \ {conn[u]}
    /\ free' = Append(free, conn[u])
    /\ NotifyOne([pc EXCEPT ![u] = "idle"])
    /\ UNCHANGED <<cur, abort, surplus, phase>>

\* RelDBConn, RelCacheConn: a pointer that is in the list is not put there
\* again.
Release(u) ==
    /\ pc[u] = "hold" /\ Reachable
    /\ conn' = [conn EXCEPT ![u] = Null]
    /\ IF conn[u] \in Listed
         THEN /\ pc' = [pc EXCEPT ![u] = "idle"]
              /\ UNCHANGED <<free, used>>
         ELSE /\ used' = used \ {conn[u]}
              /\ free' = Append(free, conn[u])
              /\ NotifyOne([pc EXCEPT ![u] = "idle"])
    /\ UNCHANGED <<cur, abort, surplus, phase>>

-----------------------------------------------------------------------------
\* ~CDBPool(), ~CachePool()

\* faulty: nobody is told
DtorAbortSilent ==
    /\ phase = "alive"
    /\ phase' = "aborted" /\ abort' = TRUE
    /\ UNCHANGED <<free, used, cur, surplus, pc, conn>>

DtorAbort ==
    /\ phase = "alive"
    /\ phase' = "aborted"
    /\ abort' = TRUE
    /\ pc' = [u \in Users |-> IF u \in Sleeping THEN "woken" ELSE pc[u]]
    /\ UNCHANGED <<free, used, cur, surplus, conn>>

\* The free connections are deleted.  CDBPool clears its list in the same
\* section; CachePool leaves the mutex with the deleted ones still listed.
DtorDelete ==
    /\ phase = "aborted"
    /\ IF OneSection
         THEN phase' = "cleared" /\ free' = << >>
         ELSE phase' = "deleted" /\ free' = free
    /\ UNCHANGED <<used, cur, abort, surplus, pc, conn>>

\* CachePool clears its list and its count without the mutex.
DtorClear ==
    /\ phase = "deleted"
    /\ phase' = "cleared"
    /\ free' = << >>
    /\ cur' = 0
    /\ UNCHANGED <<used, abort, surplus, pc, conn>>

DtorReturn ==
    /\ phase = "cleared"
    /\ phase' = "gone"
    /\ UNCHANGED <<free, used, cur, abort, surplus, pc, conn>>

-----------------------------------------------------------------------------
Wake(u) == WakeLeaves(u) \/ WakeWaits(u)

Get(u) ==
    \/ GetAborted(u) \/ GetFree(u) \/ GetNew(u) \/ GetFailed(u) \/ GetWait(u)
    \/ Spurious(u) \/ Wake(u) \/ TimesOut(u)

Next ==
    \/ \E u \in Users : Get(u) \/ Release(u)
    \/ DtorAbort \/ DtorDelete \/ DtorClear \/ DtorReturn

Spec == Init /\ [][Next]_vars

\* A woken thread gets the mutex some time; nobody has to release, to time
\* out, or to destroy the pool.
FairSpec == Spec /\ \A u \in Users : WF_vars(Wake(u))
-----------------------------------------------------------------------------
(* Properties *)

\* A connection has one place: one position of the list or one user.  Two
\* users never send commands over the same socket.
Exclusive ==
    /\ \A i, j \in DOMAIN free : i # j => free[i] # free[j]
    /\ \A u, v \in Holders : u # v /\ conn[u] # Null => conn[u] # conn[v]
    /\ \A u \in Holders : conn[u] # Null => conn[u] \notin Listed

\* What the calls of Init() listed beyond the count stays the pool's only
\* excess: whatever fails and whoever races for the last connection, no more
\* are open than the count, nor than the maximum, and that surplus.
WithinMax ==
    phase = "alive" => /\ Cardinality(Open) <= cur + surplus
                       /\ Cardinality(Open) <= MaxConns + surplus

\* A connection in the list while somebody sleeps always has a woken user
\* coming for it, also when the notified user is overtaken or times out.
NoLostWakeup == Sleeping # {} => Len(free) <= Cardinality(Woken)

\* Nobody goes on sleeping on a pool that is being destroyed.
NobodySleepsThroughAbort == abort => Sleeping = {}

\* Free connections do not sit in the list while users sleep: the list is
\* emptied or the sleepers are gone, sooner or later.
FreeConnTaken ==
    (Sleeping # {} /\ free # << >>) ~> (Sleeping = {} \/ free = << >>)
=============================================================================
