--------------------------- MODULE ConnPoolProofs ---------------------------
(***************************************************************************)
(* Proofs about the pools of connections and about the Redis connection    *)
(* one of them hands out (RedisPool/CachePool.cpp has both).               *)
(*                                                                         *)
(* First ConnPool, for any number of users and connections:                *)
(*                                                                         *)
(*   TypeOK              types; the base of everything else.               *)
(*   Exclusive           inductive with TypeOK: a pointer moves between    *)
(*                       the list and one user.                            *)
(*   Counted             at most `cur` and the surplus of Init() are open  *)
(*                       and `cur` does not pass the maximum while the     *)
(*                       pool is alive; with Exclusive it gives WithinMax. *)
(*   NobodySleepsThroughAbort                                              *)
(*   NoLostWakeup        the woken users cover the list; it needs the      *)
(*                       property above, because the destructor empties    *)
(*                       the list.                                         *)
(*                                                                         *)
(* Then RedisClient, for any texts, answers and addresses, any cut of the  *)
(* bytes and any number of calls:                                          *)
(*                                                                         *)
(*   Settles, Ahead      what the reader of read.c makes of its bytes it   *)
(*                       makes of them with more bytes behind, one element *)
(*                       and one turn of the loop after another.           *)
(*   Holds               a reader is as good as a new one that was given   *)
(*                       all the bytes so far at once; every call of       *)
(*                       redisReaderGetReply keeps that or ends the reply. *)
(*   ClientInv           inductive: where the bytes of the one command and *)
(*                       of its answer are, at each step of the call.      *)
(***************************************************************************)
EXTENDS ConnPool, RedisClient, FiniteSetTheorems, SequenceTheorems, WellFoundedInduction, TLAPS

-----------------------------------------------------------------------------
\* The free list as a set: it holds no pointer twice.

\* The elements of a list, and a list without repetitions.
Elems(s) == {s[i] : i \in DOMAIN s}
Distinct(s) == \A i, j \in DOMAIN s : i # j => s[i] # s[j]

\* What Append does to the elements of a list.
LEMMA AppendElems ==
    ASSUME NEW X, NEW s \in Seq(X), NEW x \in X
    PROVE  /\ Append(s, x) \in Seq(X)
           /\ Len(Append(s, x)) = Len(s) + 1
           /\ Elems(Append(s, x)) = Elems(s) \cup {x}
           /\ Distinct(s) /\ x \notin Elems(s) => Distinct(Append(s, x))
  <1>1. /\ Append(s, x) \in Seq(X)
        /\ Len(Append(s, x)) = Len(s) + 1
        /\ \A i \in 1 .. Len(s) : Append(s, x)[i] = s[i]
        /\ Append(s, x)[Len(s) + 1] = x
    BY AppendProperties
  <1>2. Len(s) \in Nat /\ DOMAIN s = 1 .. Len(s)
        /\ DOMAIN Append(s, x) = 1 .. Len(s) + 1
    BY <1>1, LenProperties
  <1>3. Elems(Append(s, x)) = Elems(s) \cup {x}
    <2>1. Elems(Append(s, x)) \subseteq Elems(s) \cup {x}
      <3>1. ASSUME NEW i \in 1 .. Len(s) + 1
            PROVE  Append(s, x)[i] \in Elems(s) \cup {x}
        <4>1. CASE i = Len(s) + 1
          BY <1>1, <4>1
        <4>2. CASE i \in 1 .. Len(s)
          BY <1>1, <1>2, <4>2 DEF Elems
        <4> QED
          BY <1>2, <4>1, <4>2
      <3> QED
        BY <1>2, <3>1 DEF Elems
    <2>2. \A i \in 1 .. Len(s) : i \in 1 .. Len(s) + 1
      BY <1>2
    <2>3. Len(s) + 1 \in 1 .. Len(s) + 1
      BY <1>2
    <2> QED
      BY <1>1, <1>2, <2>1, <2>2, <2>3 DEF Elems
  <1>4. ASSUME Distinct(s), x \notin Elems(s) PROVE Distinct(Append(s, x))
    <2>1. \A i \in 1 .. Len(s) : s[i] # x
      BY <1>2, <1>4 DEF Elems
    <2>2. SUFFICES ASSUME NEW i \in 1 .. Len(s) + 1, NEW j \in 1 .. Len(s) + 1, i # j
                   PROVE  Append(s, x)[i] # Append(s, x)[j]
      BY <1>2 DEF Distinct
    <2>3. CASE i = Len(s) + 1
      <3>1. j \in 1 .. Len(s)
        BY <1>2, <2>2, <2>3
      <3> QED
        BY <1>1, <2>1, <2>3, <3>1
    <2>4. CASE j = Len(s) + 1
      <3>1. i \in 1 .. Len(s)
        BY <1>2, <2>2, <2>4
      <3> QED
        BY <1>1, <2>1, <2>4, <3>1
    <2>5. CASE i \in 1 .. Len(s) /\ j \in 1 .. Len(s)
      BY <1>1, <1>2, <1>4, <2>2, <2>5 DEF Distinct
    <2> QED
      BY <1>2, <2>3, <2>4, <2>5
  <1> QED
    BY <1>1, <1>3, <1>4

\* What Tail does to the elements of a list without repetitions.
LEMMA TailElems ==
    ASSUME NEW X, NEW s \in Seq(X), s # << >>, Distinct(s)
    PROVE  /\ Tail(s) \in Seq(X)
           /\ Len(Tail(s)) = Len(s) - 1
           /\ Head(s) \in X /\ Head(s) \in Elems(s)
           /\ Elems(Tail(s)) = Elems(s) \ {Head(s)}
           /\ Distinct(Tail(s))
  <1>1. /\ Tail(s) \in Seq(X) /\ Head(s) \in X
        /\ Len(Tail(s)) = Len(s) - 1
        /\ \A i \in 1 .. Len(Tail(s)) : Tail(s)[i] = s[i + 1]
    BY HeadTailProperties
  <1>2. /\ Len(s) \in Nat \ {0} /\ DOMAIN s = 1 .. Len(s) /\ Head(s) = s[1]
        /\ DOMAIN Tail(s) = 1 .. Len(s) - 1
    BY <1>1, LenProperties, EmptySeq
  <1>3. \A i \in 1 .. Len(s) - 1 :
           i + 1 \in 1 .. Len(s) /\ i + 1 # 1 /\ Tail(s)[i] = s[i + 1]
    BY <1>1, <1>2
  <1>4. \A j \in 1 .. Len(s) : j # 1 => /\ j - 1 \in 1 .. Len(s) - 1
                                        /\ Tail(s)[j - 1] = s[j]
    <2>1. ASSUME NEW j \in 1 .. Len(s), j # 1
          PROVE  j - 1 \in 1 .. Len(s) - 1 /\ (j - 1) + 1 = j
      BY <1>2, <2>1
    <2> QED
      BY <1>3, <2>1
  <1>5. 1 \in 1 .. Len(s)
    BY <1>2
  <1>6. Elems(Tail(s)) \subseteq Elems(s) \ {Head(s)}
    <2>1. \A i \in 1 .. Len(s) - 1 : s[i + 1] # s[1]
      BY <1>2, <1>3, <1>5 DEF Distinct
    <2> QED
      BY <1>2, <1>3, <2>1 DEF Elems
  <1>7. Elems(s) \ {Head(s)} \subseteq Elems(Tail(s))
    <2>1. ASSUME NEW j \in 1 .. Len(s), s[j] # s[1] PROVE s[j] \in Elems(Tail(s))
      <3>1. j - 1 \in 1 .. Len(s) - 1 /\ Tail(s)[j - 1] = s[j]
        BY <1>4, <2>1
      <3> QED
        BY <1>2, <3>1 DEF Elems
    <2> QED
      BY <1>2, <2>1 DEF Elems
  <1>8. Distinct(Tail(s))
    <2>1. ASSUME NEW i \in 1 .. Len(s) - 1, NEW j \in 1 .. Len(s) - 1, i # j
          PROVE  i + 1 # j + 1
      BY <1>2, <2>1
    <2> QED
      BY <1>2, <1>3, <2>1 DEF Distinct
  <1>9. Head(s) \in Elems(s)
    BY <1>2, <1>5 DEF Elems
  <1> QED
    BY <1>1, <1>6, <1>7, <1>8, <1>9

-----------------------------------------------------------------------------
(* The pointers: types and exclusivity.                                     *)

PlaceInv ==
    /\ TypeOK
    /\ Exclusive

\* Every pointer the pool gave out and not got back is in one place.
LEMMA PlaceInvInit == Init => PlaceInv
  <1> SUFFICES ASSUME Init PROVE PlaceInv
    OBVIOUS
  <1>1. PICK k \in 0 .. InitCalls * MinConns : free \in [1 .. k -> Conn]
    BY DEF Init, Opened
  <1>2. free \in Seq(Conn \cup {Null})
    <2>1. InitCalls * MinConns \in Nat
      BY ConnPoolAssumption
    <2>2. k \in Nat
      BY <2>1
    <2>3. free \in [1 .. k -> Conn \cup {Null}]
      BY <1>1
    <2> QED
      BY <2>2, <2>3, SeqDef
  <1>3. Exclusive
    BY DEF Init, Opened, Exclusive, Holders
  <1>4. surplus \in Nat
    BY <1>2, LenProperties, ConnPoolAssumption DEF Init
  <1> QED
    BY <1>2, <1>3, <1>4, ConnPoolAssumption DEF Init, PlaceInv, TypeOK

\* A step that leaves the list and the holders alone.
LEMMA ExclusiveFrame ==
    ASSUME Exclusive, free' = free, conn' = conn, Holders' = Holders
    PROVE  Exclusive'
  BY DEF Exclusive, Listed

\* A user that holds nothing is given NULL.
LEMMA ReturnNullExclusive ==
    ASSUME PlaceInv, NEW u \in Users, u \notin Holders, ReturnNull(u)
    PROVE  /\ Exclusive'
           /\ Open' = Open
           /\ UNCHANGED <<cur, abort, surplus, phase>> => TypeOK'
  <1> USE DEF PlaceInv, TypeOK
  <1>1. /\ \A v \in Users : v # u => /\ conn'[v] = conn[v]
                                     /\ v \in Holders' <=> v \in Holders
        /\ conn'[u] = Null
    BY DEF ReturnNull, Holders
  <1>2. Holders' \subseteq Users
    BY DEF Holders
  <1>3. Listed' = Listed
    BY DEF ReturnNull, Listed
  <1>4. Exclusive'
    BY <1>1, <1>2, <1>3 DEF Exclusive, ReturnNull
  <1>5. Open' = Open
    BY <1>1, <1>2, <1>3 DEF Open, Holders
  <1> QED
    BY <1>4, <1>5 DEF ReturnNull

\* A user that holds nothing pops the front of the list.
LEMMA TakeFrontExclusive ==
    ASSUME PlaceInv, NEW u \in Users, u \notin Holders, free # << >>, TakeFront(u)
    PROVE  /\ UNCHANGED <<cur, abort, surplus, phase>> => TypeOK'
           /\ Exclusive'
           /\ Open' = Open
           /\ Len(free') = Len(free) - 1
  <1> USE DEF PlaceInv, TypeOK
  <1>1. Distinct(free) /\ Listed = Elems(free) /\ Listed' = Elems(free')
    BY DEF Exclusive, Distinct, Listed, Elems
  <1>2. /\ free' \in Seq(Conn \cup {Null})
        /\ Len(free') = Len(free) - 1
        /\ Head(free) \in Conn \cup {Null}
        /\ Head(free) \in Listed
        /\ Listed' = Listed \ {Head(free)}
        /\ Distinct(free')
    BY <1>1, TailElems DEF TakeFront
  <1>3. /\ \A v \in Users : v # u => /\ conn'[v] = conn[v]
                                     /\ v \in Holders' <=> v \in Holders
        /\ conn'[u] = Head(free)
        /\ u \in Holders' \/ Head(free) = Null
    BY DEF TakeFront, Holders
  <1>4. Holders' \subseteq Users /\ Holders \subseteq Users
    BY DEF Holders
  <1>5. Exclusive'
    <2>1. \A i, j \in DOMAIN free' : i # j => free'[i] # free'[j]
      BY <1>2 DEF Distinct
    <2>2. \A v, w \in Holders' : v # w /\ conn'[v] # Null => conn'[v] # conn'[w]
      BY <1>2, <1>3, <1>4 DEF Exclusive
    <2>3. \A v \in Holders' : conn'[v] # Null => conn'[v] \notin Listed'
      BY <1>2, <1>3, <1>4 DEF Exclusive
    <2> QED
      BY <2>1, <2>2, <2>3 DEF Exclusive
  <1>6. Open' = Open
    BY <1>2, <1>3, <1>4 DEF Open
  <1>7. /\ conn' \in [Users -> Conn \cup {Null}]
        /\ pc' \in [Users -> {"idle", "wait", "woken", "hold"}]
        /\ used' \subseteq Conn \cup {Null}
    BY <1>2 DEF TakeFront
  <1> QED
    BY <1>2, <1>5, <1>6, <1>7

\* A holder gives its pointer back.
LEMMA ReleaseExclusive ==
    ASSUME PlaceInv, NEW u \in Users, Release(u)
    PROVE  /\ TypeOK'
           /\ Exclusive'
           /\ Open' = Open
  <1> USE DEF PlaceInv, TypeOK
  <1>1. u \in Holders /\ conn[u] \in Conn \cup {Null} /\ conn'[u] = Null
    BY DEF Release, Holders
  <1>2. /\ pc' \in [Users -> {"idle", "wait", "woken", "hold"}]
        /\ conn' \in [Users -> Conn \cup {Null}]
        /\ used' \subseteq Conn \cup {Null}
    BY DEF Release, NotifyOne, Sleeping
  <1>3. Holders' = Holders \ {u} /\ \A v \in Users : v # u => conn'[v] = conn[v]
    BY DEF Release, NotifyOne, Sleeping, Holders
  <1>4. /\ free' \in Seq(Conn \cup {Null})
        /\ Listed' = Listed \cup {conn[u]}
        /\ Distinct(free')
    <2>1. Distinct(free) /\ Listed = Elems(free) /\ Listed' = Elems(free')
      BY DEF Exclusive, Distinct, Listed, Elems
    <2>2. CASE conn[u] \in Listed
      BY <2>1, <2>2 DEF Release
    <2>3. CASE conn[u] \notin Listed
      <3>1. free' = Append(free, conn[u])
        BY <2>3 DEF Release
      <3> QED
        BY <1>1, <2>1, <2>3, <3>1, AppendElems
    <2> QED
      BY <2>2, <2>3
  <1>5. Holders \subseteq Users
    BY DEF Holders
  <1>6. Exclusive'
    <2>1. \A i, j \in DOMAIN free' : i # j => free'[i] # free'[j]
      BY <1>4 DEF Distinct
    <2>2. \A v, w \in Holders' : v # w /\ conn'[v] # Null => conn'[v] # conn'[w]
      BY <1>3, <1>5 DEF Exclusive
    <2>3. \A v \in Holders' : conn'[v] # Null => conn'[v] \notin Listed'
      BY <1>1, <1>3, <1>4, <1>5 DEF Exclusive
    <2> QED
      BY <2>1, <2>2, <2>3 DEF Exclusive
  <1>7. Open' = Open
    BY <1>1, <1>3, <1>4, <1>5 DEF Open
  <1> QED
    BY <1>2, <1>4, <1>6, <1>7 DEF Release

\* A connection is opened for a user that holds nothing.
LEMMA GetNewExclusive ==
    ASSUME PlaceInv, NEW u \in Users, GetNew(u)
    PROVE  /\ TypeOK'
           /\ Exclusive'
           /\ \E c \in Conn : Open' = Open \cup {c}
           /\ cur' = cur + 1
  <1> USE DEF PlaceInv, TypeOK
  <1>1. PICK c \in Conn \ Open : conn' = [conn EXCEPT ![u] = c] /\ used' = used \cup {c}
    BY DEF GetNew
  <1>2. /\ u \notin Holders /\ Holders' = Holders \cup {u}
        /\ Holders \subseteq Users
    BY DEF GetNew, Holders
  <1>3. free' = free /\ Listed' = Listed
    BY DEF GetNew, Listed
  <1>4. \A v \in Users : conn'[v] = IF v = u THEN c ELSE conn[v]
    BY <1>1
  <1>5. c # Null /\ c \notin Listed /\ \A v \in Holders : conn[v] # c
    BY <1>1, ConnPoolAssumption DEF Open
  <1>6. Exclusive'
    BY <1>2, <1>3, <1>4, <1>5 DEF Exclusive
  <1>7. Open' = Open \cup {c}
    BY <1>2, <1>3, <1>4, <1>5 DEF Open
  <1>8. TypeOK'
    BY <1>1 DEF GetNew
  <1> QED
    BY <1>1, <1>6, <1>7, <1>8 DEF GetNew

\* A wait that is over.
LEMMA LeaveWaitExclusive ==
    ASSUME PlaceInv, NEW u \in Users, u \notin Holders, LeaveWait(u)
    PROVE  /\ UNCHANGED <<cur, abort, surplus, phase>> => TypeOK'
           /\ Exclusive'
           /\ Open' = Open
  BY ReturnNullExclusive, TakeFrontExclusive DEF LeaveWait

LEMMA PlaceInvStep == PlaceInv /\ [Next]_vars => PlaceInv'
  <1> SUFFICES ASSUME PlaceInv, [Next]_vars PROVE PlaceInv'
    OBVIOUS
  <1>1. ASSUME NEW u \in Users, GetAborted(u) PROVE PlaceInv'
    BY <1>1, ReturnNullExclusive DEF GetAborted, Holders, PlaceInv
  <1>2. ASSUME NEW u \in Users, GetFree(u) PROVE PlaceInv'
    BY <1>2, TakeFrontExclusive DEF GetFree, Holders, PlaceInv
  <1>3. ASSUME NEW u \in Users, GetNew(u) PROVE PlaceInv'
    BY <1>3, GetNewExclusive DEF PlaceInv
  <1>4. ASSUME NEW u \in Users, GetFailed(u) PROVE PlaceInv'
    BY <1>4, ReturnNullExclusive DEF GetFailed, Holders, PlaceInv
  <1>5. ASSUME NEW u \in Users, GetWait(u) \/ Spurious(u) \/ WakeWaits(u)
        PROVE  PlaceInv'
    <2>1. Holders' = Holders
      BY <1>5 DEF GetWait, Spurious, WakeWaits, Holders, PlaceInv, TypeOK
    <2>2. TypeOK'
      BY <1>5 DEF GetWait, Spurious, WakeWaits, PlaceInv, TypeOK
    <2> QED
      BY <1>5, <2>1, <2>2, ExclusiveFrame DEF GetWait, Spurious, WakeWaits, PlaceInv
  <1>6. ASSUME NEW u \in Users, WakeLeaves(u) PROVE PlaceInv'
    BY <1>6, LeaveWaitExclusive DEF WakeLeaves, Holders, PlaceInv
  <1>7. ASSUME NEW u \in Users, TimesOut(u) PROVE PlaceInv'
    BY <1>7, LeaveWaitExclusive DEF TimesOut, Holders, PlaceInv
  <1>8. ASSUME NEW u \in Users, Release(u) PROVE PlaceInv'
    BY <1>8, ReleaseExclusive DEF PlaceInv
  <1>9. CASE DtorAbort \/ DtorReturn \/ UNCHANGED vars
    <2>1. Holders' = Holders
      BY <1>9 DEF DtorAbort, DtorReturn, vars, Sleeping, Holders, PlaceInv, TypeOK
    <2>2. TypeOK'
      BY <1>9 DEF DtorAbort, DtorReturn, vars, PlaceInv, TypeOK
    <2> QED
      BY <1>9, <2>1, <2>2, ExclusiveFrame DEF DtorAbort, DtorReturn, vars, PlaceInv
  <1>10. CASE DtorDelete \/ DtorClear
    <2>1. TypeOK'
      <3>1. free' \in Seq(Conn \cup {Null})
        BY <1>10, EmptySeq DEF DtorDelete, DtorClear, PlaceInv, TypeOK
      <3> QED
        BY <1>10, <3>1 DEF DtorDelete, DtorClear, PlaceInv, TypeOK
    <2>2. Exclusive'
      BY <1>10 DEF DtorDelete, DtorClear, PlaceInv, Exclusive, Listed, Holders
    <2> QED
      BY <2>1, <2>2 DEF PlaceInv
  <1> QED
    BY <1>1, <1>2, <1>3, <1>4, <1>5, <1>6, <1>7, <1>8, <1>9, <1>10
       DEF Next, Get, Wake

\* The model's variables keep their types.
THEOREM PoolTypes == Spec => []TypeOK
  BY PlaceInvInit, PlaceInvStep, PTL DEF Spec, PlaceInv

\* No connection is ever handed to two users, nor listed while one has it.
THEOREM PoolIsExclusive == Spec => []Exclusive
  BY PlaceInvInit, PlaceInvStep, PTL DEF Spec, PlaceInv

-----------------------------------------------------------------------------
(* The count: at most `cur` connections and the surplus are open.           *)

Counted ==
    phase = "alive" =>
       /\ IsFiniteSet(Open)
       /\ Cardinality(Open) <= cur + surplus
       /\ cur <= MaxConns

\* The calls of Init() open what is counted and the surplus.
LEMMA CountedInit ==
    ASSUME MinConns <= MaxConns, Init
    PROVE  Counted
  <1>1. PICK k \in 0 .. InitCalls * MinConns : free \in [1 .. k -> Conn]
    BY DEF Init, Opened
  <1>2. k \in Nat /\ k <= MinConns + surplus /\ surplus \in Nat
    <2>1. InitCalls * MinConns \in Nat
      BY ConnPoolAssumption
    <2>2. k \in Nat
      BY <2>1
    <2>3. Len(free) = k
      BY <1>1, <2>2, LenProperties, PlaceInvInit DEF PlaceInv, TypeOK
    <2> QED
      BY <2>2, <2>3, ConnPoolAssumption DEF Init
  <1>3. Open \subseteq Listed
    BY DEF Open, Init, Holders
  <1>4. DOMAIN free = 1 .. k
    BY <1>1
  <1>5. IsFiniteSet(1 .. k) /\ Cardinality(1 .. k) = k
    BY <1>2, FS_Interval
  <1>6. IsFiniteSet(Listed) /\ Cardinality(Listed) <= k
    <2>1. free \in Surjection(1 .. k, Listed)
      BY <1>1, <1>4 DEF Surjection, Listed
    <2> QED
      BY <1>5, <2>1, FS_Surjection
  <1>7. /\ IsFiniteSet(Open)
        /\ Cardinality(Open) \in Nat /\ Cardinality(Open) <= Cardinality(Listed)
    BY <1>3, <1>6, FS_Subset, FS_CardinalityType
  <1>8. Cardinality(Listed) \in Nat
    BY <1>6, FS_CardinalityType
  <1> QED
    BY <1>2, <1>6, <1>7, <1>8, ConnPoolAssumption DEF Counted, Init

LEMMA CountedStep ==
    ASSUME PlaceInv, Counted, [Next]_vars
    PROVE  Counted'
  <1> SUFFICES ASSUME phase' = "alive" PROVE Counted'
    BY DEF Counted
  <1>1. phase = "alive"
    BY DEF Next, Get, Wake, vars, GetAborted, GetFree, GetNew, GetFailed, GetWait,
       Spurious, WakeLeaves, WakeWaits, TimesOut, Release, DtorAbort, DtorDelete,
       DtorClear, DtorReturn
  <1>2. CASE \E u \in Users : GetNew(u)
    <2>1. PICK u \in Users : GetNew(u)
      BY <1>2
    <2>2. PICK c \in Conn : Open' = Open \cup {c}
      BY <2>1, GetNewExclusive
    <2>3. /\ cur' = cur + 1 /\ cur < MaxConns /\ cur \in Nat
          /\ surplus' = surplus /\ surplus \in Nat
      BY <2>1, ConnPoolAssumption DEF GetNew, AtMax, PlaceInv, TypeOK
    <2>4. /\ IsFiniteSet(Open) /\ Cardinality(Open) <= cur + surplus
          /\ Cardinality(Open) \in Nat
      BY <1>1, FS_CardinalityType DEF Counted
    <2>5. /\ IsFiniteSet(Open')
          /\ Cardinality(Open') <= Cardinality(Open) + 1
      <3>1. /\ IsFiniteSet(Open \cup {c})
            /\ Cardinality(Open \cup {c})
                 = IF c \in Open THEN Cardinality(Open) ELSE Cardinality(Open) + 1
        BY <2>4, FS_AddElement
      <3> HIDE DEF Open
      <3> QED
        BY <2>2, <2>4, <3>1
    <2>6. Cardinality(Open') \in Nat
      BY <2>5, FS_CardinalityType
    <2> QED
      BY <2>3, <2>4, <2>5, <2>6, ConnPoolAssumption DEF Counted
  <1>3. CASE ~ \E u \in Users : GetNew(u)
    <2>1. Open' = Open /\ UNCHANGED <<cur, surplus>>
      <3>1. ASSUME NEW u \in Users, GetAborted(u) \/ GetFailed(u) PROVE Open' = Open /\ UNCHANGED <<cur, surplus>>
        BY <3>1, ReturnNullExclusive DEF GetAborted, GetFailed, Holders
      <3>2. ASSUME NEW u \in Users, GetFree(u) PROVE Open' = Open /\ UNCHANGED <<cur, surplus>>
        BY <3>2, TakeFrontExclusive DEF GetFree, Holders
      <3>3. ASSUME NEW u \in Users, GetWait(u) \/ Spurious(u) \/ WakeWaits(u)
            PROVE  Open' = Open /\ UNCHANGED <<cur, surplus>>
        BY <3>3 DEF GetWait, Spurious, WakeWaits, Open, Listed, Holders, PlaceInv, TypeOK
      <3>4. ASSUME NEW u \in Users, WakeLeaves(u) \/ TimesOut(u)
            PROVE  Open' = Open /\ UNCHANGED <<cur, surplus>>
        BY <3>4, LeaveWaitExclusive DEF WakeLeaves, TimesOut, Holders
      <3>5. ASSUME NEW u \in Users, Release(u) PROVE Open' = Open /\ UNCHANGED <<cur, surplus>>
        BY <3>5, ReleaseExclusive DEF Release
      <3>6. CASE UNCHANGED vars
        BY <3>6 DEF vars, Open, Listed, Holders
      <3>7. ~DtorAbort /\ ~DtorDelete /\ ~DtorClear /\ ~DtorReturn
        BY <1>1 DEF DtorAbort, DtorDelete, DtorClear, DtorReturn
      <3> QED
        BY <1>3, <3>1, <3>2, <3>3, <3>4, <3>5, <3>6, <3>7 DEF Next, Get, Wake
    <2> QED
      BY <1>1, <2>1 DEF Counted
  <1> QED
    BY <1>2, <1>3

\* However often Init() was called, the pool outgrows its count and its
\* maximum by what those calls listed too much and by nothing else.
THEOREM PoolWithinMax ==
    ASSUME MinConns <= MaxConns
    PROVE  Spec => []WithinMax
  <1>1. Init => Counted
    BY CountedInit
  <1>2. Counted /\ PlaceInv => WithinMax
    <2> SUFFICES ASSUME Counted, PlaceInv, phase = "alive"
                 PROVE  /\ Cardinality(Open) <= cur + surplus
                        /\ Cardinality(Open) <= MaxConns + surplus
      BY DEF WithinMax
    <2>1. /\ Cardinality(Open) \in Nat
          /\ Cardinality(Open) <= cur + surplus /\ cur <= MaxConns
      BY FS_CardinalityType DEF Counted
    <2>2. cur \in Nat /\ surplus \in Nat /\ MaxConns \in Nat
      BY ConnPoolAssumption DEF PlaceInv, TypeOK
    <2> QED
      BY <2>1, <2>2
  <1> QED
    BY <1>1, <1>2, PlaceInvInit, PlaceInvStep, CountedStep, PTL DEF Spec

-----------------------------------------------------------------------------
(* The sleepers.                                                            *)

WakeInv ==
    /\ NobodySleepsThroughAbort
    /\ NoLostWakeup

\* The number of woken users, before and after one joins or leaves them.
LEMMA WokenCount ==
    /\ IsFiniteSet(Woken) /\ Cardinality(Woken) \in Nat
    /\ IsFiniteSet(Woken') /\ Cardinality(Woken') \in Nat
    /\ \A u : u \notin Woken /\ Woken' = Woken \cup {u}
                => Cardinality(Woken') = Cardinality(Woken) + 1
    /\ \A u : u \in Woken /\ Woken' = Woken \ {u}
                => Cardinality(Woken') = Cardinality(Woken) - 1
  <1>1. Woken \in SUBSET Users /\ Woken' \in SUBSET Users
    BY DEF Woken
  <1>2. IsFiniteSet(Woken) /\ IsFiniteSet(Woken')
    BY <1>1, FS_Subset, ConnPoolAssumption
  <1>3. Cardinality(Woken) \in Nat /\ Cardinality(Woken') \in Nat
    BY <1>2, FS_CardinalityType
  <1> HIDE DEF Woken
  <1>4. \A u : Cardinality(Woken \cup {u})
                = IF u \in Woken THEN Cardinality(Woken) ELSE Cardinality(Woken) + 1
    BY <1>2, FS_AddElement
  <1>5. \A u : Cardinality(Woken \ {u})
                = IF u \in Woken THEN Cardinality(Woken) - 1 ELSE Cardinality(Woken)
    BY <1>2, FS_RemoveElement
  <1> QED
    BY <1>2, <1>3, <1>4, <1>5

\* A step that wakes nobody, puts nobody to sleep and lists nothing more.
LEMMA WakeFrame ==
    ASSUME WakeInv, PlaceInv, Sleeping' \subseteq Sleeping, Woken' = Woken,
           abort' = abort, Len(free') \in Nat, Len(free') <= Len(free)
    PROVE  WakeInv'
  <1>1. Cardinality(Woken) \in Nat /\ Len(free) \in Nat
    BY WokenCount, LenProperties DEF PlaceInv, TypeOK
  <1> QED
    BY <1>1 DEF WakeInv, NobodySleepsThroughAbort, NoLostWakeup

\* A woken user that leaves takes a connection with it, or finds none.
LEMMA WakeLeave ==
    ASSUME WakeInv, PlaceInv, NEW u \in Users, pc[u] \in {"wait", "woken"},
           LeaveWait(u), abort' = abort
    PROVE  WakeInv'
  <1> USE DEF PlaceInv, TypeOK
  <1>1. Len(free) \in Nat /\ (free = << >> => Len(free) = 0)
    BY LenProperties, EmptySeq
  <1>2. Sleeping' \subseteq Sleeping /\ Woken' = Woken \ {u}
    BY DEF LeaveWait, ReturnNull, TakeFront, Sleeping, Woken
  <1>3. CASE (free = << >> \/ abort) /\ ReturnNull(u)
    BY <1>1, <1>2, <1>3, WokenCount
       DEF WakeInv, NobodySleepsThroughAbort, NoLostWakeup, ReturnNull
  <1>4. CASE free # << >> /\ ~abort /\ TakeFront(u)
    <2>1. Len(free') = Len(free) - 1 /\ Len(free) > 0
      <3>1. u \notin Holders
        BY DEF Holders
      <3>2. Len(free) > 0
        BY <1>1, <1>4, EmptySeq
      <3> QED
        BY <1>4, <3>1, <3>2, TakeFrontExclusive
    <2>2. /\ Cardinality(Woken) \in Nat /\ Cardinality(Woken') \in Nat
          /\ Cardinality(Woken') >= Cardinality(Woken) - 1
      <3>1. CASE u \in Woken
        <4>1. Woken' = Woken \ {u}
          BY <1>2
        <4>2. Cardinality(Woken') = Cardinality(Woken) - 1
          BY ONLY <3>1, <4>1, WokenCount
        <4> QED
          BY <4>2, WokenCount
      <3>2. CASE u \notin Woken
        <4>1. Woken' = Woken
          BY <1>2, <3>2
        <4> QED
          BY <4>1, WokenCount
      <3> QED
        BY <3>1, <3>2
    <2> QED
      BY <1>1, <1>2, <1>4, <2>1, <2>2
         DEF WakeInv, NobodySleepsThroughAbort, NoLostWakeup
  <1> QED
    BY <1>3, <1>4 DEF LeaveWait

LEMMA WakeInvInit == Init => WakeInv
  BY DEF Init, WakeInv, NobodySleepsThroughAbort, NoLostWakeup, Sleeping

LEMMA WakeInvStep ==
    ASSUME PlaceInv, WakeInv, [Next]_vars
    PROVE  WakeInv'
  <1> USE DEF PlaceInv, TypeOK
  <1>1. Len(free) \in Nat /\ Len(<< >>) = 0
    BY LenProperties, EmptySeq
  <1>2. ASSUME NEW u \in Users, GetAborted(u) \/ GetFailed(u) \/ GetNew(u)
        PROVE  WakeInv'
    <2>1. Sleeping' = Sleeping /\ Woken' = Woken
      BY <1>2 DEF GetAborted, GetFailed, GetNew, ReturnNull, Sleeping, Woken
    <2> QED
      BY <1>1, <1>2, <2>1, WakeFrame DEF GetAborted, GetFailed, GetNew, ReturnNull
  <1>3. ASSUME NEW u \in Users, GetFree(u) PROVE WakeInv'
    <2>1. Sleeping' = Sleeping /\ Woken' = Woken
      BY <1>3 DEF GetFree, TakeFront, Sleeping, Woken
    <2>2. Len(free') = Len(free) - 1 /\ Len(free) > 0
      <3>1. u \notin Holders
        BY <1>3 DEF GetFree, Holders
      <3>2. Len(free) > 0
        BY <1>1, <1>3, EmptySeq DEF GetFree
      <3> QED
        BY <1>3, <3>1, <3>2, TakeFrontExclusive DEF GetFree
    <2> QED
      BY <1>1, <1>3, <2>1, <2>2, WakeFrame DEF GetFree
  <1>4. ASSUME NEW u \in Users, GetWait(u) \/ WakeWaits(u) PROVE WakeInv'
    BY <1>1, <1>4, WokenCount
       DEF GetWait, WakeWaits, WakeInv, NobodySleepsThroughAbort, NoLostWakeup
  <1>5. ASSUME NEW u \in Users, Spurious(u) PROVE WakeInv'
    <2>1. /\ Sleeping' = Sleeping \ {u} /\ u \in Sleeping
          /\ u \notin Woken /\ Woken' = Woken \cup {u}
      BY <1>5 DEF Spurious, Sleeping, Woken
    <2>2. Cardinality(Woken') = Cardinality(Woken) + 1
      BY ONLY <2>1, WokenCount
    <2>3. Cardinality(Woken) \in Nat
      BY WokenCount
    <2> QED
      BY <1>1, <1>5, <2>1, <2>2, <2>3
         DEF Spurious, WakeInv, NobodySleepsThroughAbort, NoLostWakeup
  <1>6. ASSUME NEW u \in Users, WakeLeaves(u) PROVE WakeInv'
    BY <1>6, WakeLeave DEF WakeLeaves
  <1>7. ASSUME NEW u \in Users, TimesOut(u) PROVE WakeInv'
    BY <1>7, WakeLeave DEF TimesOut
  <1>8. ASSUME NEW u \in Users, Release(u) PROVE WakeInv'
    <2>1. CASE conn[u] \in Listed \/ Sleeping = {}
      <3>1. Sleeping' \subseteq Sleeping /\ Woken' = Woken
        BY <1>8, <2>1 DEF Release, NotifyOne, Sleeping, Woken
      <3>2. CASE Sleeping = {}
        BY <1>8, <3>1, <3>2 DEF WakeInv, NobodySleepsThroughAbort, NoLostWakeup
      <3>3. CASE conn[u] \in Listed
        BY <1>1, <1>8, <3>1, <3>3, WakeFrame DEF Release
      <3> QED
        BY <2>1, <3>2, <3>3
    <2>2. CASE conn[u] \notin Listed /\ Sleeping # {}
      <3>1. PICK v \in Sleeping : pc' = [[pc EXCEPT ![u] = "idle"] EXCEPT ![v] = "woken"]
        BY <1>8, <2>2 DEF Release, NotifyOne
      <3>2. /\ Sleeping' \subseteq Sleeping
            /\ v \notin Woken /\ Woken' = Woken \cup {v}
        BY <1>8, <3>1 DEF Release, Sleeping, Woken
      <3>3. Len(free') = Len(free) + 1
        <4>1. free' = Append(free, conn[u]) /\ conn[u] \in Conn \cup {Null}
          BY <1>8, <2>2 DEF Release
        <4> QED
          BY <4>1, AppendProperties
      <3>4. Cardinality(Woken') = Cardinality(Woken) + 1 /\ Cardinality(Woken) \in Nat
        BY <3>2, WokenCount
      <3> QED
        BY <1>1, <1>8, <2>2, <3>2, <3>3, <3>4
           DEF Release, WakeInv, NobodySleepsThroughAbort, NoLostWakeup
    <2> QED
      BY <2>1, <2>2
  <1>9. CASE DtorAbort
    BY <1>9 DEF DtorAbort, WakeInv, NobodySleepsThroughAbort, NoLostWakeup, Sleeping
  <1>10. CASE DtorDelete \/ DtorClear \/ DtorReturn \/ UNCHANGED vars
    <2>1. Sleeping' = Sleeping /\ Woken' = Woken
      BY <1>10 DEF DtorDelete, DtorClear, DtorReturn, vars, Sleeping, Woken
    <2>2. Len(free') \in Nat /\ Len(free') <= Len(free)
      BY <1>1, <1>10 DEF DtorDelete, DtorClear, DtorReturn, vars
    <2> QED
      BY <1>10, <2>1, <2>2, WakeFrame DEF DtorDelete, DtorClear, DtorReturn, vars
  <1> QED
    BY <1>2, <1>3, <1>4, <1>5, <1>6, <1>7, <1>8, <1>9, <1>10 DEF Next, Get, Wake

\* A listed connection has a woken user of its own while anybody sleeps.
THEOREM PoolLosesNoNotification == Spec => []NoLostWakeup
  BY PlaceInvInit, PlaceInvStep, WakeInvInit, WakeInvStep, PTL DEF Spec, WakeInv

\* Once the destructor raised the flag nobody sleeps.
THEOREM AbortWakesAll == Spec => []NobodySleepsThroughAbort
  BY PlaceInvInit, PlaceInvStep, WakeInvInit, WakeInvStep, PTL DEF Spec, WakeInv

-----------------------------------------------------------------------------
\* A piece of a sequence.
LEMMA PieceOf ==
  ASSUME NEW X, NEW s \in Seq(X), NEW m \in Nat \ {0}, NEW n \in Int, n <= Len(s)
  PROVE  /\ SubSeq(s, m, n) \in Seq(X)
         /\ Len(SubSeq(s, m, n)) = IF m <= n THEN n - m + 1 ELSE 0
         /\ \A i \in 1..n - m + 1 : SubSeq(s, m, n)[i] = s[m + i - 1]
  <1>1. Len(s) \in Nat /\ \A i \in m..n : s[i] \in X
    BY LenProperties
  <1> QED BY <1>1, SubSeqProperties

\* What a sequence begins with does not change when it grows.
LEMMA PieceOfGrown ==
  ASSUME NEW X, NEW s \in Seq(X), NEW t \in Seq(X), NEW m \in Nat \ {0}, NEW n \in Int, n <= Len(s)
  PROVE  SubSeq(s \o t, m, n) = SubSeq(s, m, n)
  <1>1. /\ s \o t \in Seq(X) /\ Len(s \o t) = Len(s) + Len(t) /\ Len(s) \in Nat /\ Len(t) \in Nat
        /\ \A i \in 1..Len(s) : (s \o t)[i] = s[i]
    BY ConcatProperties, LenProperties
  <1>2. n <= Len(s \o t)
    BY <1>1
  <1>3. /\ SubSeq(s, m, n) \in Seq(X)
        /\ Len(SubSeq(s, m, n)) = IF m <= n THEN n - m + 1 ELSE 0
        /\ \A i \in 1..n - m + 1 : SubSeq(s, m, n)[i] = s[m + i - 1]
    BY PieceOf
  <1>4. /\ SubSeq(s \o t, m, n) \in Seq(X)
        /\ Len(SubSeq(s \o t, m, n)) = IF m <= n THEN n - m + 1 ELSE 0
        /\ \A i \in 1..n - m + 1 : SubSeq(s \o t, m, n)[i] = (s \o t)[m + i - 1]
    BY <1>1, <1>2, PieceOf
  <1>5. \A i \in 1..Len(SubSeq(s, m, n)) : SubSeq(s, m, n)[i] = SubSeq(s \o t, m, n)[i]
    BY <1>1, <1>3, <1>4
  <1> QED BY <1>3, <1>4, <1>5, SeqEqual

\* What is left behind the first n elements.
LEMMA RestOf ==
  ASSUME NEW X, NEW s \in Seq(X), NEW n \in 0..Len(s)
  PROVE  /\ SubSeq(s, n + 1, Len(s)) \in Seq(X)
         /\ Len(SubSeq(s, n + 1, Len(s))) = Len(s) - n
         /\ \A i \in 1..Len(s) - n : SubSeq(s, n + 1, Len(s))[i] = s[n + i]
  <1>1. Len(s) \in Nat /\ n + 1 \in Nat \ {0}
    BY LenProperties
  <1>2. /\ SubSeq(s, n + 1, Len(s)) \in Seq(X)
        /\ Len(SubSeq(s, n + 1, Len(s))) = IF n + 1 <= Len(s) THEN Len(s) - (n + 1) + 1 ELSE 0
        /\ \A i \in 1..Len(s) - (n + 1) + 1 : SubSeq(s, n + 1, Len(s))[i] = s[n + 1 + i - 1]
    BY <1>1, PieceOf
  <1>3. \A i \in 1..Len(s) - n : i \in 1..Len(s) - (n + 1) + 1 /\ n + 1 + i - 1 = n + i
    BY <1>1
  <1> QED BY <1>1, <1>2, <1>3

\* What is left of a sequence grows with it.
LEMMA RestOfGrown ==
  ASSUME NEW X, NEW s \in Seq(X), NEW t \in Seq(X), NEW n \in 0..Len(s)
  PROVE  SubSeq(s \o t, n + 1, Len(s \o t)) = SubSeq(s, n + 1, Len(s)) \o t
  <1> DEFINE r == SubSeq(s, n + 1, Len(s))
             g == SubSeq(s \o t, n + 1, Len(s \o t))
  <1>1. /\ s \o t \in Seq(X) /\ Len(s \o t) = Len(s) + Len(t) /\ Len(s) \in Nat /\ Len(t) \in Nat
        /\ \A i \in 1..Len(s) + Len(t) : (s \o t)[i] = IF i <= Len(s) THEN s[i] ELSE t[i - Len(s)]
    BY ConcatProperties, LenProperties
  <1>2. r \in Seq(X) /\ Len(r) = Len(s) - n /\ \A i \in 1..Len(s) - n : r[i] = s[n + i]
    BY RestOf
  <1>3. n \in 0..Len(s \o t)
    BY <1>1
  <1>4. /\ g \in Seq(X) /\ Len(g) = Len(s \o t) - n
        /\ \A i \in 1..Len(s \o t) - n : g[i] = (s \o t)[n + i]
    BY <1>1, <1>3, RestOf
  <1>5. /\ r \o t \in Seq(X) /\ Len(r \o t) = Len(r) + Len(t)
        /\ \A i \in 1..Len(r) + Len(t) : (r \o t)[i] = IF i <= Len(r) THEN r[i] ELSE t[i - Len(r)]
    BY <1>2, ConcatProperties
  <1> HIDE DEF r, g
  <1>6. Len(g) = Len(r \o t)
    BY <1>1, <1>2, <1>4, <1>5
  <1>7. ASSUME NEW i \in 1..Len(g) PROVE g[i] = (r \o t)[i]
    <2>1. i \in 1..Len(s) + Len(t) - n /\ n + i \in 1..Len(s) + Len(t) /\ i \in 1..Len(r) + Len(t)
      BY <1>1, <1>2, <1>4
    <2>2. g[i] = (s \o t)[n + i]
      BY <1>1, <1>4, <2>1
    <2>3. CASE i <= Len(r)
      <3>1. n + i <= Len(s) /\ i \in 1..Len(s) - n
        BY <1>1, <1>2, <2>1, <2>3
      <3>2. (s \o t)[n + i] = s[n + i] /\ r[i] = s[n + i]
        BY <1>1, <1>2, <2>1, <3>1
      <3> QED BY <1>5, <2>1, <2>2, <2>3, <3>2
    <2>4. CASE ~(i <= Len(r))
      <3>1. ~(n + i <= Len(s)) /\ n + i - Len(s) = i - Len(r)
        BY <1>1, <1>2, <2>1, <2>4
      <3>2. (s \o t)[n + i] = t[n + i - Len(s)]
        BY <1>1, <2>1, <3>1
      <3> QED BY <1>5, <2>1, <2>2, <2>4, <3>1, <3>2
    <2> QED BY <2>3, <2>4
  <1>8. g = r \o t
    BY <1>4, <1>5, <1>6, <1>7, SeqEqual
  <1> QED BY <1>8 DEF r, g

\* The rest of the rest.
LEMMA RestOfRest ==
  ASSUME NEW X, NEW s \in Seq(X), NEW n \in 0..Len(s), NEW k \in 0..Len(s) - n
  PROVE  LET r == SubSeq(s, n + 1, Len(s))
         IN SubSeq(r, k + 1, Len(r)) = SubSeq(s, n + k + 1, Len(s))
  <1> DEFINE r == SubSeq(s, n + 1, Len(s))
             g == SubSeq(r, k + 1, Len(r))
             h == SubSeq(s, n + k + 1, Len(s))
  <1>1. Len(s) \in Nat /\ n + k \in 0..Len(s)
    BY LenProperties
  <1>2. r \in Seq(X) /\ Len(r) = Len(s) - n /\ \A i \in 1..Len(s) - n : r[i] = s[n + i]
    BY RestOf
  <1>3. h \in Seq(X) /\ Len(h) = Len(s) - (n + k) /\ \A i \in 1..Len(s) - (n + k) : h[i] = s[n + k + i]
    BY <1>1, RestOf
  <1>4. k \in 0..Len(r)
    BY <1>2
  <1> HIDE DEF r, h
  <1>5. g \in Seq(X) /\ Len(g) = Len(r) - k /\ \A i \in 1..Len(r) - k : g[i] = r[k + i]
    BY <1>2, <1>4, RestOf
  <1> HIDE DEF g
  <1>6. ASSUME NEW i \in 1..Len(g) PROVE g[i] = h[i]
    <2>1. i \in 1..Len(r) - k /\ k + i \in 1..Len(s) - n /\ i \in 1..Len(s) - (n + k) /\ n + (k + i) = n + k + i
      BY <1>1, <1>2, <1>5
    <2> QED BY <1>2, <1>3, <1>5, <2>1
  <1>7. Len(g) = Len(h)
    BY <1>1, <1>2, <1>3, <1>5
  <1>8. g = h
    BY <1>3, <1>5, <1>6, <1>7, SeqEqual
  <1> QED BY <1>8 DEF g, h, r

\* The first elements, and what is behind them, are the sequence.
LEMMA CutAt ==
  ASSUME NEW X, NEW s \in Seq(X), NEW n \in 0..Len(s)
  PROVE  s = SubSeq(s, 1, n) \o SubSeq(s, n + 1, Len(s))
  <1> DEFINE p == SubSeq(s, 1, n)
             r == SubSeq(s, n + 1, Len(s))
  <1>1. Len(s) \in Nat
    BY LenProperties
  <1>2. p \in Seq(X) /\ Len(p) = n /\ \A i \in 1..n : p[i] = s[i]
    <2>1. /\ p \in Seq(X)
          /\ Len(p) = IF 1 <= n THEN n - 1 + 1 ELSE 0
          /\ \A i \in 1..n - 1 + 1 : p[i] = s[1 + i - 1]
      BY <1>1, PieceOf
    <2>2. \A i \in 1..n : i \in 1..n - 1 + 1 /\ 1 + i - 1 = i
      BY <1>1
    <2> HIDE DEF p
    <2> QED BY <1>1, <2>1, <2>2
  <1>3. r \in Seq(X) /\ Len(r) = Len(s) - n /\ \A i \in 1..Len(s) - n : r[i] = s[n + i]
    BY RestOf
  <1> HIDE DEF p, r
  <1>4. /\ p \o r \in Seq(X) /\ Len(p \o r) = Len(p) + Len(r)
        /\ \A i \in 1..Len(p) + Len(r) : (p \o r)[i] = IF i <= Len(p) THEN p[i] ELSE r[i - Len(p)]
    BY <1>2, <1>3, ConcatProperties
  <1>5. ASSUME NEW i \in 1..Len(s) PROVE s[i] = (p \o r)[i]
    <2>1. CASE i <= n
      BY <1>1, <1>2, <1>3, <1>4, <2>1
    <2>2. CASE ~(i <= n)
      <3>1. i - n \in 1..Len(s) - n /\ n + (i - n) = i
        BY <1>1, <2>2
      <3>2. r[i - n] = s[i]
        BY <1>3, <3>1
      <3> QED BY <1>1, <1>2, <1>3, <1>4, <2>2, <3>2
    <2> QED BY <2>1, <2>2
  <1>6. Len(s) = Len(p \o r)
    BY <1>1, <1>2, <1>3, <1>4
  <1>7. s = p \o r
    BY <1>4, <1>5, <1>6, SeqEqual
  <1> QED BY <1>7 DEF p, r

\* A longer beginning is a shorter one and a piece of the rest.
LEMMA LongerBeginning ==
  ASSUME NEW X, NEW s \in Seq(X), NEW n \in 0..Len(s), NEW k \in 0..Len(s) - n
  PROVE  LET r == SubSeq(s, n + 1, Len(s))
         IN SubSeq(s, 1, n + k) = SubSeq(s, 1, n) \o SubSeq(r, 1, k)
  <1> DEFINE r == SubSeq(s, n + 1, Len(s))
             p == SubSeq(s, 1, n + k)
  <1>1. Len(s) \in Nat /\ n + k \in 0..Len(s)
    BY LenProperties
  <1>2. /\ p \in Seq(X) /\ Len(p) = n + k /\ \A i \in 1..n + k : p[i] = s[i]
    <2>1. /\ p \in Seq(X)
          /\ Len(p) = IF 1 <= n + k THEN n + k - 1 + 1 ELSE 0
          /\ \A i \in 1..n + k - 1 + 1 : p[i] = s[1 + i - 1]
      BY <1>1, PieceOf
    <2>2. \A i \in 1..n + k : i \in 1..n + k - 1 + 1 /\ 1 + i - 1 = i
      BY <1>1
    <2> HIDE DEF p
    <2> QED BY <1>1, <2>1, <2>2
  <1>3. r \in Seq(X) /\ Len(r) = Len(s) - n /\ \A i \in 1..Len(s) - n : r[i] = s[n + i]
    BY RestOf
  <1>4. SubSeq(p, 1, n) = SubSeq(s, 1, n)
    <2>1. s = p \o SubSeq(s, n + k + 1, Len(s)) /\ SubSeq(s, n + k + 1, Len(s)) \in Seq(X)
      BY <1>1, CutAt, RestOf
    <2> HIDE DEF p
    <2>2. n <= Len(p) /\ n \in Int /\ 1 \in Nat \ {0}
      BY <1>1, <1>2
    <2> QED BY <1>2, <2>1, <2>2, PieceOfGrown
  <1>5. SubSeq(p, n + 1, Len(p)) = SubSeq(r, 1, k)
    <2> HIDE DEF p, r
    <2>1. n \in 0..Len(p) /\ k <= Len(r) /\ k \in Int /\ 1 \in Nat \ {0}
      BY <1>1, <1>2, <1>3
    <2>2. /\ SubSeq(p, n + 1, Len(p)) \in Seq(X) /\ Len(SubSeq(p, n + 1, Len(p))) = k
          /\ \A i \in 1..k : SubSeq(p, n + 1, Len(p))[i] = p[n + i]
      BY <1>1, <1>2, <2>1, RestOf
    <2>3. /\ SubSeq(r, 1, k) \in Seq(X)
          /\ Len(SubSeq(r, 1, k)) = IF 1 <= k THEN k - 1 + 1 ELSE 0
          /\ \A i \in 1..k - 1 + 1 : SubSeq(r, 1, k)[i] = r[1 + i - 1]
      BY <1>3, <2>1, PieceOf
    <2>4. Len(SubSeq(r, 1, k)) = k
      BY <2>3
    <2>5. ASSUME NEW i \in 1..k PROVE SubSeq(p, n + 1, Len(p))[i] = SubSeq(r, 1, k)[i]
      <3>1. i \in 1..k - 1 + 1 /\ 1 + i - 1 = i /\ i \in 1..Len(s) - n /\ n + i \in 1..n + k
        BY <1>1
      <3>2. SubSeq(r, 1, k)[i] = s[n + i]
        BY <1>3, <2>3, <3>1
      <3> QED BY <1>2, <2>2, <3>1, <3>2
    <2> QED BY <2>2, <2>3, <2>4, <2>5, SeqEqual
  <1>6. p = SubSeq(p, 1, n) \o SubSeq(p, n + 1, Len(p))
    <2> HIDE DEF p
    <2>1. n \in 0..Len(p)
      BY <1>1, <1>2
    <2> QED BY <1>2, <2>1, CutAt
  <1> QED BY <1>4, <1>5, <1>6

\* A set of naturals has a least element.
LEMMA Least == ASSUME NEW N, N \subseteq Nat, N # {}
               PROVE  \E x \in N : \A y \in N : x <= y
  <1> DEFINE R == OpToRel(<, Nat)
  <1>1. IsWellFoundedOn(R, Nat) /\ R = {ss \in Nat \X Nat : ss[1] < ss[2]}
    BY NatLessThanWellFounded, Zenon DEF OpToRel
  <1> HIDE DEF R
  <1>2. PICK x \in N : \A y \in N : ~(<<y, x>> \in R)
    BY <1>1, WFMin
  <1>3. ASSUME NEW y \in N PROVE x <= y
    <2>1. x \in Nat /\ y \in Nat /\ <<y, x>> \notin R
      BY <1>2
    <2>2. y < x => <<y, x>> \in R
      BY <2>1, <1>1
    <2> QED BY <2>1, <2>2
  <1> QED BY <1>3

\* Min finds it.
LEMMA MinIsLeast ==
  ASSUME NEW N, N \subseteq Nat, N # {}
  PROVE  Min(N) \in N /\ \A y \in N : Min(N) <= y
  <1>1. \E x \in N : \A y \in N : x =< y
    BY Least
  <1> QED BY <1>1 DEF Min

\* Max finds an element of a bounded set.
LEMMA MaxIsThere ==
  ASSUME NEW n \in Nat, NEW N, N \subseteq 0..n, N # {}
  PROVE  Max(N) \in N
  <1> DEFINE Below == {n - x : x \in N}
  <1>1. Below \subseteq Nat /\ Below # {}
    OBVIOUS
  <1>2. PICK d \in Below : \A y \in Below : d <= y
    BY <1>1, Least
  <1>3. PICK x \in N : d = n - x
    BY <1>2
  <1>4. ASSUME NEW y \in N PROVE x >= y
    <2>1. n - y \in Below /\ x \in Nat /\ y \in Nat
      OBVIOUS
    <2>2. n - x <= n - y
      BY <1>2, <1>3, <2>1
    <2> QED BY <2>1, <2>2
  <1>5. \E z \in N : \A y \in N : z >= y
    BY <1>4
  <1> QED BY <1>5 DEF Max

-----------------------------------------------------------------------------
(* The reader: what it does with the bytes it has, it does with more.      *)

\* A line that has ended stays as it is when bytes arrive behind it.
LEMMA LineStays ==
  ASSUME NEW u \in Seq(Nat), NEW b \in Seq(Nat), SeekNewline(u) # 0
  PROVE  /\ SeekNewline(u) \in 1..Len(u) - 1
         /\ SeekNewline(u \o b) = SeekNewline(u)
         /\ Line(u \o b) = Line(u)
  <1> DEFINE E(s) == {i \in 1..Len(s) - 1 : s[i] = CR /\ s[i + 1] = LF}
             end == Min(E(u))
  <1>1. SeekNewline(u) = IF E(u) = {} THEN 0 ELSE end
    BY DEF SeekNewline
  <1>2. SeekNewline(u \o b) = IF E(u \o b) = {} THEN 0 ELSE Min(E(u \o b))
    BY DEF SeekNewline
  <1>3. /\ u \o b \in Seq(Nat) /\ Len(u \o b) = Len(u) + Len(b) /\ Len(u) \in Nat /\ Len(b) \in Nat
        /\ \A i \in 1..Len(u) : (u \o b)[i] = u[i]
    BY ConcatProperties, LenProperties
  <1>4. E(u) # {} /\ E(u) \subseteq Nat /\ E(u) \subseteq 1..Len(u) - 1
    <2>1. E(u) # {}
      BY <1>1
    <2>2. E(u) \subseteq 1..Len(u) - 1
      OBVIOUS
    <2>3. 1..Len(u) - 1 \subseteq Nat
      BY <1>3
    <2> QED BY <2>1, <2>2, <2>3
  <1>5. end \in E(u) /\ \A y \in E(u) : end <= y
    BY <1>4, MinIsLeast
  <1>6. end \in E(u \o b)
    BY <1>3, <1>5
  <1>7. E(u \o b) \subseteq Nat /\ E(u \o b) # {}
    <2>1. Len(u \o b) - 1 \in Int
      BY <1>3
    <2>2. \A i \in 1..Len(u \o b) - 1 : i \in Nat
      BY <2>1
    <2> QED BY <2>2, <1>6
  <1>8. Min(E(u \o b)) \in E(u \o b) /\ \A y \in E(u \o b) : Min(E(u \o b)) <= y
    BY <1>7, MinIsLeast
  <1>9. Min(E(u \o b)) = end
    <2> DEFINE m == Min(E(u \o b))
    <2>1. m \in E(u \o b) /\ m <= end
      BY <1>6, <1>8
    <2>2. end \in E(u)
      BY <1>5
    <2> HIDE DEF m, end
    <2>9. m \in 1..Len(u \o b) - 1 /\ end \in 1..Len(u) - 1
      BY <2>1, <2>2
    <2>10. m \in Nat
      BY <1>3, <2>9
    <2>3. m \in 1..Len(u) /\ m + 1 \in 1..Len(u) /\ m \in 1..Len(u) - 1
      BY <1>3, <2>1, <2>9, <2>10
    <2>4. u[m] = CR /\ u[m + 1] = LF
      BY <1>3, <2>1, <2>3
    <2>5. m \in E(u)
      BY <2>3, <2>4
    <2>6. end <= m
      BY <1>5, <2>5
    <2>7. m = end
      BY <1>3, <2>1, <2>6, <2>9, <2>10
    <2> QED BY <2>7 DEF m, end
  <1> HIDE DEF E, end
  <1>10. SeekNewline(u) = end /\ SeekNewline(u \o b) = end /\ end \in 1..Len(u) - 1
    BY <1>1, <1>2, <1>4, <1>5, <1>7, <1>9 DEF E
  <1>11. Line(u \o b) = Line(u)
    <2>1. end - 1 <= Len(u) /\ end - 1 \in Int /\ 1 \in Nat \ {0}
      BY <1>3, <1>10
    <2>2. SubSeq(u \o b, 1, end - 1) = SubSeq(u, 1, end - 1)
      BY <2>1, PieceOfGrown
    <2> QED BY <1>10, <2>2 DEF Line
  <1> QED BY <1>10, <1>11

\* A number that was read is one.
LEMMA NumberRead ==
  ASSUME NEW s, String2ll(s).ok
  PROVE  String2ll(s).value \in Int
  <1> DEFINE neg == s # <<>> /\ Head(s) = MINUS
             digits == IF neg THEN Tail(s) ELSE s
             v == FoldLeft(LAMBDA acc, b : 10 * acc + (b - ZERO), 0, digits)
             top == LLongMax + (IF neg THEN 1 ELSE 0)
  <1>1. v \in 0..top
    BY DEF String2ll
  <1>2. String2ll(s).value = IF neg THEN -v ELSE v
    BY DEF String2ll
  <1>3. top \in Int
    BY WidthAssumption
  <1> HIDE DEF v, top, neg
  <1>4. v \in Int
    BY <1>1, <1>3
  <1> QED BY <1>2, <1>4

\* What an element comes to, unless it is incomplete, it comes to with more
\* bytes too; and it takes some of the bytes it has.
Settles(u, b, item, grown) ==
  item.is # "incomplete" =>
    /\ grown = item
    /\ item.is \in {"object", "array"} => item.used \in 1..Len(u)
    /\ item.is = "array" => Len(item.obj.element) \in Int
    /\ item.is \in {"wrong", "object", "array"}

\* processLineItem settles what it reads: more bytes change nothing.
LEMMA LineItemSettles ==
  ASSUME NEW u \in Seq(Nat), NEW b \in Seq(Nat), NEW type
  PROVE  Settles(u, b, ProcessLineItem(u, type), ProcessLineItem(u \o b, type))
  <1>1. CASE SeekNewline(u) = 0
    <2>1. ProcessLineItem(u, type).is = "incomplete"
      BY <1>1 DEF ProcessLineItem, Waits
    <2> QED BY <2>1 DEF Settles
  <1>2. CASE SeekNewline(u) # 0
    <2>1. /\ SeekNewline(u) \in 1..Len(u) - 1 /\ Len(u) \in Nat
          /\ SeekNewline(u \o b) = SeekNewline(u) /\ Line(u \o b) = Line(u)
      BY <1>2, LineStays, LenProperties
    <2>2. ProcessLineItem(u \o b, type) = ProcessLineItem(u, type)
      BY <2>1 DEF ProcessLineItem
    <2>3. SeekNewline(u) + 1 \in 1..Len(u)
      BY <2>1
    <2> DEFINE item == ProcessLineItem(u, type)
    <2>4. item \in {Fails, Makes(StringObject(type, Line(u)), SeekNewline(u) + 1),
                    Makes(IntegerObject(String2ll(Line(u)).value), SeekNewline(u) + 1)}
      <3>1. CASE type # "integer"
        BY <1>2, <3>1 DEF ProcessLineItem
      <3>2. CASE type = "integer" /\ String2ll(Line(u)).ok
        BY <1>2, <3>2 DEF ProcessLineItem
      <3>3. CASE type = "integer" /\ ~String2ll(Line(u)).ok
        BY <1>2, <3>3 DEF ProcessLineItem
      <3> QED BY <3>1, <3>2, <3>3
    <2> HIDE DEF item
    <2>5. item.is = "wrong" \/ (item.is = "object" /\ item.used = SeekNewline(u) + 1)
      BY <2>4 DEF Fails, Makes
    <2>6. Settles(u, b, item, item)
      BY <2>3, <2>5 DEF Settles
    <2> QED BY <2>2, <2>6 DEF item
  <1> QED BY <1>1, <1>2

\* So does processBulkItem,
LEMMA BulkItemSettles ==
  ASSUME NEW u \in Seq(Nat), NEW b \in Seq(Nat)
  PROVE  Settles(u, b, ProcessBulkItem(u), ProcessBulkItem(u \o b))
  <1> DEFINE end == SeekNewline(u)
             len == String2ll(Line(u))
             item == ProcessBulkItem(u)
  <1>1. CASE end = 0
    <2>1. item.is = "incomplete"
      BY <1>1 DEF ProcessBulkItem, Waits
    <2> QED BY <2>1 DEF Settles
  <1>2. ASSUME end # 0
        PROVE  /\ end \in 1..Len(u) - 1 /\ Len(u) \in Nat
               /\ SeekNewline(u \o b) = end /\ Line(u \o b) = Line(u)
    BY <1>2, LineStays, LenProperties
  <1>3. CASE end # 0 /\ (~len.ok \/ len.value < -1)
    <2>0. SeekNewline(u \o b) = end /\ Line(u \o b) = Line(u)
      BY <1>2, <1>3
    <2> HIDE DEF end, len
    <2>1. item = Fails /\ ProcessBulkItem(u \o b) = Fails
      <3>1. CASE ~len.ok
        BY <1>3, <2>0, <3>1 DEF ProcessBulkItem, end, len
      <3>2. CASE len.ok /\ len.value < -1
        <4>1. len.value \in Int
          BY <3>2, NumberRead DEF len
        <4>2. len.value # -1 /\ ~(len.value >= 0)
          BY <3>2, <4>1
        <4> QED BY <1>3, <2>0, <3>2, <4>2 DEF ProcessBulkItem, end, len
      <3> QED BY <1>3, <3>1, <3>2
    <2>2. ProcessBulkItem(u \o b) = Fails
      BY <2>1
    <2> HIDE DEF item
    <2>3. Settles(u, b, item, Fails)
      BY <2>1 DEF Settles, Fails
    <2> QED BY <2>2, <2>3 DEF item
  <1>4. CASE end # 0 /\ len.ok /\ len.value = -1
    <2>1. item = Makes(NilObject, end + 1)
      BY <1>4 DEF ProcessBulkItem
    <2>2. ProcessBulkItem(u \o b) = Makes(NilObject, end + 1)
      BY <1>2, <1>4 DEF ProcessBulkItem
    <2>3. end + 1 \in 1..Len(u)
      BY <1>2, <1>4
    <2> HIDE DEF item, end, len
    <2>4. Settles(u, b, item, Makes(NilObject, end + 1))
      BY <2>1, <2>3 DEF Settles, Makes
    <2> QED BY <2>2, <2>4 DEF item
  <1>5. CASE end # 0 /\ len.ok /\ len.value >= 0 /\ ~BulkIsThere(u, len.value)
    <2>1. len.value \in Int
      BY <1>5, NumberRead
    <2> HIDE DEF end, len
    <2>2. ~(len.value < -1) /\ len.value # -1
      BY <2>1, <1>5
    <2>3. item.is = "incomplete"
      BY <1>5, <2>2 DEF ProcessBulkItem, Waits, end, len
    <2> QED BY <2>3 DEF Settles
  <1>6. CASE end # 0 /\ len.ok /\ len.value >= 0 /\ BulkIsThere(u, len.value)
    <2> DEFINE made == Makes(StringObject("string", SubSeq(u, end + 2, end + 1 + len.value)),
                             end + 1 + len.value + 2)
    <2>1. len.value \in Int
      BY <1>6, NumberRead
    <2>2. /\ end \in 1..Len(u) - 1 /\ Len(u) \in Nat
          /\ SeekNewline(u \o b) = end /\ Line(u \o b) = Line(u)
      BY <1>2, <1>6
    <2>3. end + 1 + len.value + 2 <= Len(u)
      BY <1>6 DEF BulkIsThere
    <2>4. Len(u \o b) = Len(u) + Len(b) /\ Len(b) \in Nat
      BY ConcatProperties, LenProperties
    <2> HIDE DEF end, len
    <2>5. ~(len.value < -1) /\ len.value # -1
      BY <2>1, <1>6
    <2>6. item = made
      BY <1>6, <2>5 DEF ProcessBulkItem, end, len
    <2>7. BulkIsThere(u \o b, len.value)
      BY <2>1, <2>2, <2>3, <2>4 DEF BulkIsThere, end, len
    <2>8. SubSeq(u \o b, end + 2, end + 1 + len.value) = SubSeq(u, end + 2, end + 1 + len.value)
      <3>1. end + 2 \in Nat \ {0} /\ end + 1 + len.value \in Int /\ end + 1 + len.value <= Len(u)
        BY <2>1, <2>2, <2>3
      <3> QED BY <3>1, PieceOfGrown
    <2>9. ProcessBulkItem(u \o b) = made
      BY <1>6, <2>2, <2>5, <2>7, <2>8 DEF ProcessBulkItem, end, len
    <2>10. end + 1 + len.value + 2 \in 1..Len(u)
      BY <1>6, <2>1, <2>2, <2>3
    <2>11. made.is = "object" /\ made.used = end + 1 + len.value + 2
      BY DEF Makes
    <2> HIDE DEF item, made
    <2>12. Settles(u, b, made, made)
      BY <2>10, <2>11 DEF Settles
    <2> QED BY <2>6, <2>9, <2>12 DEF item
  <1>7. end # 0 /\ len.ok => (len.value < -1 \/ len.value = -1 \/ len.value >= 0)
    <2>1. len.ok => len.value \in Int
      BY NumberRead
    <2> HIDE DEF len, end
    <2> QED BY <2>1
  <1> HIDE DEF end, len, item
  <1> QED BY <1>1, <1>3, <1>4, <1>5, <1>6, <1>7 DEF item

\* and processMultiBulkItem,
LEMMA MultiBulkItemSettles ==
  ASSUME NEW u \in Seq(Nat), NEW b \in Seq(Nat), NEW depth
  PROVE  Settles(u, b, ProcessMultiBulkItem(u, depth), ProcessMultiBulkItem(u \o b, depth))
  <1> DEFINE end == SeekNewline(u)
             n == String2ll(Line(u))
             item == ProcessMultiBulkItem(u, depth)
             grown == ProcessMultiBulkItem(u \o b, depth)
  <1>1. CASE depth = StackTop + 1
    <2>1. item = Fails /\ grown = Fails
      BY <1>1 DEF ProcessMultiBulkItem
    <2> HIDE DEF item, grown
    <2>2. Settles(u, b, item, grown)
      BY <2>1 DEF Settles, Fails
    <2> QED BY <2>2 DEF item, grown
  <1>2. CASE depth # StackTop + 1 /\ end = 0
    <2>1. item.is = "incomplete"
      BY <1>2 DEF ProcessMultiBulkItem, Waits
    <2> QED BY <2>1 DEF Settles
  <1>3. CASE depth # StackTop + 1 /\ end # 0
    <2>1. /\ end \in 1..Len(u) - 1 /\ Len(u) \in Nat
          /\ SeekNewline(u \o b) = end /\ Line(u \o b) = Line(u)
      BY <1>3, LineStays, LenProperties
    <2>2. grown = item
      BY <2>1 DEF ProcessMultiBulkItem
    <2>3. end + 1 \in 1..Len(u)
      BY <2>1
    <2>4. n.ok => n.value \in Int
      BY NumberRead
    <2> HIDE DEF end, n
    <2>5. \/ ~n.ok \/ n.value < -1 \/ n.value > IntMax
          \/ n.ok /\ n.value = -1 /\ ~(n.value > IntMax) /\ ~(n.value < -1)
          \/ n.ok /\ n.value = 0 /\ ~(n.value > IntMax) /\ ~(n.value < -1)
          \/ n.ok /\ n.value \in 1..IntMax /\ ~(n.value > IntMax) /\ ~(n.value < -1)
      BY <2>4, WidthAssumption
    <2>6. \/ item = Fails
          \/ item = Makes(NilObject, end + 1)
          \/ item = Makes(ArrayObject(0), end + 1)
          \/ n.value \in 1..IntMax /\ item = Opens(n.value, end + 1)
      <3>1. CASE ~n.ok \/ n.value < -1 \/ n.value > IntMax
        BY <1>3, <3>1 DEF ProcessMultiBulkItem, end, n
      <3>2. CASE n.ok /\ n.value = -1 /\ ~(n.value > IntMax) /\ ~(n.value < -1)
        BY <1>3, <3>2 DEF ProcessMultiBulkItem, end, n
      <3>3. CASE n.ok /\ n.value = 0 /\ ~(n.value > IntMax) /\ ~(n.value < -1)
        BY <1>3, <3>3 DEF ProcessMultiBulkItem, end, n
      <3>4. CASE n.ok /\ n.value \in 1..IntMax /\ ~(n.value > IntMax) /\ ~(n.value < -1)
        <4>1. n.value # -1 /\ n.value # 0
          BY <3>4, WidthAssumption
        <4> QED BY <1>3, <3>4, <4>1 DEF ProcessMultiBulkItem, end, n
      <3> QED BY <2>5, <3>1, <3>2, <3>3, <3>4
    <2>7. n.value \in 1..IntMax => Len(Opens(n.value, end + 1).obj.element) \in Int
      <3>1. SUFFICES ASSUME n.value \in 1..IntMax PROVE Len(Opens(n.value, end + 1).obj.element) \in Int
        OBVIOUS
      <3>2. Opens(n.value, end + 1).obj.element = [i \in 1..n.value |-> NoReply]
        BY DEF Opens, ArrayObject, ReplyObject
      <3>3. n.value \in Nat
        BY <3>1, WidthAssumption
      <3>4. [i \in 1..n.value |-> NoReply] \in Seq({NoReply})
        BY <3>3
      <3> QED BY <3>2, <3>4, LenProperties
    <2> HIDE DEF item, grown
    <2>8. ASSUME item = Fails PROVE Settles(u, b, item, grown)
      BY <2>2, <2>8 DEF Settles, Fails
    <2>9. ASSUME item = Makes(NilObject, end + 1) \/ item = Makes(ArrayObject(0), end + 1)
          PROVE  Settles(u, b, item, grown)
      BY <2>2, <2>3, <2>9 DEF Settles, Makes
    <2>10. ASSUME n.value \in 1..IntMax, item = Opens(n.value, end + 1)
           PROVE  Settles(u, b, item, grown)
      <3>1. item.is = "array" /\ item.used = end + 1
        BY <2>10 DEF Opens
      <3> QED BY <2>2, <2>3, <2>7, <2>10, <3>1 DEF Settles
    <2> QED BY <2>6, <2>8, <2>9, <2>10 DEF item, grown
  <1> QED BY <1>1, <1>2, <1>3

\* and processItem behind the type byte.
LEMMA ItemSettles ==
  ASSUME NEW u \in Seq(Nat), NEW b \in Seq(Nat), NEW type, NEW depth
  PROVE  Settles(u, b, ProcessTyped(u, type, depth), ProcessTyped(u \o b, type, depth))
  <1>1. CASE type \in {"error", "status", "integer"}
    BY <1>1, LineItemSettles DEF ProcessTyped
  <1>2. CASE type = "string"
    BY <1>2, BulkItemSettles DEF ProcessTyped
  <1>3. CASE type = "array"
    BY <1>3, MultiBulkItemSettles DEF ProcessTyped
  <1>4. CASE type \notin {"error", "status", "integer", "string", "array"}
    <2>1. ProcessTyped(u, type, depth) = Fails /\ ProcessTyped(u \o b, type, depth) = Fails
      BY <1>4 DEF ProcessTyped
    <2> QED BY <2>1 DEF Settles, Fails
  <1> QED BY <1>1, <1>2, <1>3, <1>4

-----------------------------------------------------------------------------
(* One step of the reader, with the bytes it has and with more.            *)

\* A reader between two steps.
Types == {"unread", "error", "status", "integer", "string", "array", "unknown"}
Tasks == [type : Types, elements : Int, idx : Int]
IsReader(r) ==
  /\ DOMAIN r = {"buf", "pos", "stack", "reply", "err"}
  /\ r.buf \in Seq(Nat)
  /\ r.pos \in 0..Len(r.buf)
  /\ r.stack \in Seq(Tasks)

\* The two readers agree, but the second has the bytes b behind its own.
Ahead(r, q, b) == /\ Unread(q) = Unread(r) \o b
                  /\ q.stack = r.stack /\ q.reply = r.reply /\ q.err = r.err

\* The unread bytes, and what is left of them when some are consumed.
LEMMA UnreadBytes ==
  ASSUME NEW r, IsReader(r)
  PROVE  Unread(r) \in Seq(Nat) /\ Len(Unread(r)) = Len(r.buf) - r.pos /\ Len(Unread(r)) \in Nat
  <1>1. r.buf \in Seq(Nat) /\ r.pos \in 0..Len(r.buf) /\ Len(r.buf) \in Nat
    BY LenProperties DEF IsReader
  <1>2. /\ SubSeq(r.buf, r.pos + 1, Len(r.buf)) \in Seq(Nat)
        /\ Len(SubSeq(r.buf, r.pos + 1, Len(r.buf))) = Len(r.buf) - r.pos
    BY <1>1, RestOf
  <1> QED BY <1>1, <1>2 DEF Unread

\* A reader that moves on by n bytes: what is unread then.
LEMMA Consumed ==
  ASSUME NEW r, IsReader(r), NEW n \in 0..Len(Unread(r)), NEW q, q.buf = r.buf, q.pos = r.pos + n
  PROVE  /\ q.pos \in 0..Len(q.buf)
         /\ Unread(q) = SubSeq(Unread(r), n + 1, Len(Unread(r)))
         /\ Len(Unread(q)) = Len(Unread(r)) - n
  <1>1. r.buf \in Seq(Nat) /\ r.pos \in 0..Len(r.buf) /\ Len(r.buf) \in Nat
    BY LenProperties DEF IsReader
  <1>2. Unread(r) \in Seq(Nat) /\ Len(Unread(r)) = Len(r.buf) - r.pos
    BY UnreadBytes
  <1>3. n \in 0..Len(r.buf) - r.pos /\ q.pos \in 0..Len(q.buf)
    BY <1>1, <1>2
  <1>4. SubSeq(Unread(r), n + 1, Len(Unread(r))) = SubSeq(r.buf, r.pos + n + 1, Len(r.buf))
    BY <1>1, <1>3, RestOfRest DEF Unread
  <1>5. Unread(q) = SubSeq(r.buf, r.pos + n + 1, Len(r.buf))
    BY DEF Unread
  <1>6. Len(SubSeq(Unread(r), n + 1, Len(Unread(r)))) = Len(Unread(r)) - n
    BY <1>2, RestOf
  <1> QED BY <1>3, <1>4, <1>5, <1>6

\* The same n bytes taken by a reader that has more.
LEMMA ConsumedAhead ==
  ASSUME NEW r, IsReader(r), NEW q, IsReader(q), NEW b \in Seq(Nat),
         Unread(q) = Unread(r) \o b, NEW n \in 0..Len(Unread(r))
  PROVE  /\ n \in 0..Len(Unread(q))
         /\ SubSeq(Unread(q), n + 1, Len(Unread(q))) = SubSeq(Unread(r), n + 1, Len(Unread(r))) \o b
  <1>1. Unread(r) \in Seq(Nat) /\ Len(Unread(r)) \in Nat /\ Len(b) \in Nat
    BY UnreadBytes, LenProperties
  <1>2. Len(Unread(q)) = Len(Unread(r)) + Len(b)
    BY <1>1, ConcatProperties
  <1>3. n \in 0..Len(Unread(q))
    BY <1>1, <1>2
  <1> QED BY <1>1, <1>3, RestOfGrown

\* Every byte gives a type.
LEMMA TypesOfBytes == \A x : TypeOfByte(x) \in Types \ {"unread"}
  BY DEF TypeOfByte, Types

\* A stack of tasks, and its top.
LEMMA TopTask ==
  ASSUME NEW stack \in Seq(Tasks), stack # <<>>
  PROVE  /\ Len(stack) \in Nat \ {0} /\ Len(stack) \in 1..Len(stack)
         /\ Top(stack) \in Tasks /\ Top(stack) = stack[Len(stack)]
  <1>1. Len(stack) \in Nat \ {0}
    BY EmptySeq
  <1> QED BY <1>1, ElementOfSeq DEF Top

\* The stack with the type of its top set,
LEMMA TypedStack ==
  ASSUME NEW stack \in Seq(Tasks), stack # <<>>, NEW type \in Types
  PROVE  LET s == [stack EXCEPT ![Len(stack)].type = type]
         IN s \in Seq(Tasks) /\ s # <<>> /\ Top(s).type = type /\ Len(s) = Len(stack)
  <1> DEFINE task == [stack[Len(stack)] EXCEPT !.type = type]
             s == [stack EXCEPT ![Len(stack)] = task]
  <1>1. Len(stack) \in 1..Len(stack) /\ Len(stack) \in Nat \ {0} /\ stack[Len(stack)] \in Tasks
    BY TopTask
  <1>2. task \in Tasks /\ task.type = type
    BY <1>1 DEF Tasks
  <1>3. [stack EXCEPT ![Len(stack)].type = type] = s
    OBVIOUS
  <1> HIDE DEF task
  <1>4. s \in Seq(Tasks) /\ Len(s) = Len(stack) /\ s[Len(stack)] = task
    BY <1>1, <1>2, ExceptSeq
  <1> HIDE DEF s
  <1>5. s # <<>> /\ Top(s) = task
    BY <1>1, <1>4, EmptySeq DEF Top
  <1> QED BY <1>2, <1>3, <1>4, <1>5

\* with a task for the first element of an array,
LEMMA OpenedStack ==
  ASSUME NEW stack \in Seq(Tasks), stack # <<>>, NEW n \in Int
  PROVE  LET s == Append([stack EXCEPT ![Len(stack)].elements = n], Task(0))
         IN s \in Seq(Tasks) /\ s # <<>>
  <1> DEFINE task == [stack[Len(stack)] EXCEPT !.elements = n]
             s == [stack EXCEPT ![Len(stack)] = task]
  <1>1. Len(stack) \in 1..Len(stack) /\ stack[Len(stack)] \in Tasks
    BY TopTask
  <1>2. task \in Tasks
    BY <1>1 DEF Tasks
  <1>3. [stack EXCEPT ![Len(stack)].elements = n] = s
    OBVIOUS
  <1>4. Task(0) \in Tasks
    BY DEF Task, Tasks, Types
  <1> HIDE DEF task
  <1>5. s \in Seq(Tasks)
    BY <1>1, <1>2, ExceptSeq
  <1> HIDE DEF s
  <1>6. Append(s, Task(0)) \in Seq(Tasks) /\ Append(s, Task(0)) # <<>>
    <2>1. Len(Append(s, Task(0))) = Len(s) + 1 /\ Len(s) \in Nat /\ Append(s, Task(0)) \in Seq(Tasks)
      BY <1>4, <1>5, AppendProperties, LenProperties
    <2> QED BY <2>1, EmptySeq
  <1> QED BY <1>3, <1>6

\* and with the finished tasks popped is a stack of tasks.
LEMMA MovedStack ==
  ASSUME NEW stack \in Seq(Tasks)
  PROVE  MoveToNextTask(stack) \in Seq(Tasks)
  <1> DEFINE open == {k \in 2..Len(stack) : stack[k].idx # stack[k - 1].elements - 1}
             k == Max(open)
             kept == SubSeq(stack, 1, k)
             next == Task(kept[k].idx + 1)
  <1>1. CASE open = {}
    <2>1. MoveToNextTask(stack) = <<>>
      BY <1>1 DEF MoveToNextTask
    <2> QED BY <2>1, EmptySeq
  <1>2. CASE open # {}
    <2>1. Len(stack) \in Nat
      BY LenProperties
    <2>2. open \subseteq 0..Len(stack)
      BY <2>1
    <2>3. k \in open
      BY <1>2, <2>1, <2>2, MaxIsThere
    <2>4. k \in 2..Len(stack)
      BY <2>3
    <2>5. MoveToNextTask(stack) = [kept EXCEPT ![k] = next]
      BY <1>2 DEF MoveToNextTask
    <2> HIDE DEF k, open
    <2>6. kept \in Seq(Tasks) /\ Len(kept) = k
      <3>1. k \in Int /\ k <= Len(stack) /\ 1 \in Nat \ {0}
        BY <2>1, <2>4
      <3>2. kept \in Seq(Tasks) /\ Len(kept) = IF 1 <= k THEN k - 1 + 1 ELSE 0
        BY <3>1, PieceOf
      <3> HIDE DEF kept
      <3> QED BY <2>4, <3>1, <3>2
    <2> HIDE DEF kept
    <2>7. k \in 1..Len(kept)
      BY <2>1, <2>4, <2>6
    <2>8. kept[k] \in Tasks
      BY <2>6, <2>7, ElementOfSeq
    <2>9. next \in Tasks
      BY <2>8 DEF Task, Tasks, Types
    <2> HIDE DEF next
    <2>10. [kept EXCEPT ![k] = next] \in Seq(Tasks)
      BY <2>6, <2>7, <2>9, ExceptSeq
    <2> QED BY <2>5, <2>10
  <1> QED BY <1>1, <1>2

\* The type byte is read.
LEMMA TypedReader ==
  ASSUME NEW r, IsReader(r), r.stack # <<>>, Top(r.stack).type = "unread" => Unread(r) # <<>>
  PROVE  LET t == Typed(r)
         IN /\ IsReader(t) /\ t.stack # <<>> /\ Top(t.stack).type # "unread"
            /\ t.reply = r.reply /\ t.err = r.err
            /\ Len(Unread(t)) <= Len(Unread(r))
  <1>1. Len(Unread(r)) \in Nat /\ Unread(r) \in Seq(Nat)
    BY UnreadBytes
  <1>2. CASE Top(r.stack).type # "unread"
    BY <1>1, <1>2 DEF Typed
  <1>3. CASE Top(r.stack).type = "unread"
    <2> DEFINE type == TypeOfByte(Head(Unread(r)))
               stack == [r.stack EXCEPT ![Len(r.stack)].type = type]
               t == [r EXCEPT !.pos = @ + 1, !.stack = stack]
    <2>1. Typed(r) = t
      BY <1>3 DEF Typed
    <2>2. type \in Types /\ type # "unread"
      BY TypesOfBytes
    <2>3. stack \in Seq(Tasks) /\ stack # <<>> /\ Top(stack).type = type
      BY <2>2, TypedStack DEF IsReader
    <2> HIDE DEF type, stack
    <2>4. 1 \in 0..Len(Unread(r))
      BY <1>1, <1>3, EmptySeq
    <2>5. DOMAIN t = DOMAIN r
      OBVIOUS
    <2>6. t.buf = r.buf /\ t.pos = r.pos + 1 /\ t.stack = stack /\ t.reply = r.reply /\ t.err = r.err
      BY DEF IsReader
    <2> HIDE DEF t
    <2>7. t.pos \in 0..Len(t.buf) /\ Len(Unread(t)) = Len(Unread(r)) - 1
      BY <2>4, <2>6, Consumed
    <2>8. IsReader(t)
      BY <2>3, <2>5, <2>6, <2>7 DEF IsReader
    <2>9. Len(Unread(t)) <= Len(Unread(r))
      BY <1>1, <2>7
    <2> QED BY <2>1, <2>2, <2>3, <2>6, <2>8, <2>9
  <1> QED BY <1>2, <1>3

\* Reading the type byte is the same for a reader that has more.
LEMMA TypedAhead ==
  ASSUME NEW r, IsReader(r), r.stack # <<>>, Top(r.stack).type = "unread" => Unread(r) # <<>>,
         NEW b \in Seq(Nat), NEW q, IsReader(q), Ahead(r, q, b)
  PROVE  Ahead(Typed(r), Typed(q), b)
  <1>1. CASE Top(r.stack).type # "unread"
    BY <1>1 DEF Typed, Ahead
  <1>2. CASE Top(r.stack).type = "unread"
    <2>1. Unread(r) \in Seq(Nat) /\ Unread(q) = Unread(r) \o b /\ Len(Unread(r)) \in Nat \ {0}
      BY <1>2, UnreadBytes, EmptySeq DEF Ahead
    <2>2. Head(Unread(q)) = Head(Unread(r))
      <3>1. \A i \in 1..Len(Unread(r)) : Unread(q)[i] = Unread(r)[i]
        BY <2>1, ConcatProperties, LenProperties
      <3>2. Unread(q)[1] = Unread(r)[1]
        BY <2>1, <3>1
      <3>3. Unread(q) \in Seq(Nat) /\ Unread(q) # <<>> /\ Unread(r) # <<>>
        BY <2>1, ConcatProperties, ConcatEqualIffEmpty, EmptySeq
      <3> QED BY <2>1, <3>2, <3>3
    <2> DEFINE type == TypeOfByte(Head(Unread(r)))
               s == [r EXCEPT !.pos = @ + 1, !.stack[Len(r.stack)].type = type]
               t == [q EXCEPT !.pos = @ + 1, !.stack[Len(q.stack)].type = type]
    <2>3. q.stack = r.stack /\ q.reply = r.reply /\ q.err = r.err
      BY DEF Ahead
    <2>4. Typed(r) = s /\ Typed(q) = t
      BY <1>2, <2>2, <2>3 DEF Typed
    <2> HIDE DEF type
    <2>5. /\ s.buf = r.buf /\ s.pos = r.pos + 1 /\ s.reply = r.reply /\ s.err = r.err
          /\ s.stack = [r.stack EXCEPT ![Len(r.stack)].type = type]
      BY DEF IsReader
    <2>6. /\ t.buf = q.buf /\ t.pos = q.pos + 1 /\ t.reply = q.reply /\ t.err = q.err
          /\ t.stack = [q.stack EXCEPT ![Len(q.stack)].type = type]
      BY DEF IsReader
    <2> HIDE DEF s, t
    <2>7. 1 \in 0..Len(Unread(r))
      BY <2>1
    <2>8. Unread(t) = Unread(s) \o b
      <3>1. /\ 1 \in 0..Len(Unread(q))
            /\ SubSeq(Unread(q), 1 + 1, Len(Unread(q))) = SubSeq(Unread(r), 1 + 1, Len(Unread(r))) \o b
        <4>1. \A n \in 0..Len(Unread(r)) :
                /\ n \in 0..Len(Unread(q))
                /\ SubSeq(Unread(q), n + 1, Len(Unread(q))) = SubSeq(Unread(r), n + 1, Len(Unread(r))) \o b
          <5>1. Unread(q) = Unread(r) \o b
            BY <2>1
          <5> QED BY <5>1, ConsumedAhead, Zenon
        <4> QED BY ONLY <2>7, <4>1
      <3>2. Unread(s) = SubSeq(Unread(r), 1 + 1, Len(Unread(r)))
        BY <2>5, <2>7, Consumed
      <3>3. Unread(t) = SubSeq(Unread(q), 1 + 1, Len(Unread(q)))
        BY <2>6, <3>1, Consumed
      <3> QED BY <3>1, <3>2, <3>3
    <2> QED BY <2>3, <2>4, <2>5, <2>6, <2>8 DEF Ahead
  <1> QED BY <1>1, <1>2

\* An element that can be taken, and the step that takes it.
Takes(t, item) ==
  /\ IsReader(t) /\ t.stack # <<>>
  /\ item.is \in {"object", "array"}
  /\ item.used \in 1..Len(Unread(t))
  /\ item.is = "array" => Len(item.obj.element) \in Int

TakenAs(t, item, s) ==
  /\ s.more = TRUE /\ s = Goes(s.r)
  /\ s.r.buf = t.buf /\ s.r.pos = t.pos + item.used /\ s.r.err = t.err
  /\ s.r.reply = Attach(t.reply, Path(t.stack), item.obj)
  /\ s.r.stack = IF item.is = "object" THEN MoveToNextTask(t.stack)
                 ELSE Append([t.stack EXCEPT ![Len(t.stack)].elements = Len(item.obj.element)], Task(0))
  /\ IsReader(s.r)
  /\ Len(Unread(s.r)) < Len(Unread(t))

\* What taking an element leaves.
LEMMA TakeMoves ==
  ASSUME NEW t, NEW item, Takes(t, item)
  PROVE  TakenAs(t, item, Take(t, item))
  <1> DEFINE made == Attach(t.reply, Path(t.stack), item.obj)
             opened == [t.stack EXCEPT ![Len(t.stack)].elements = Len(item.obj.element)]
             stack == IF item.is = "object" THEN MoveToNextTask(t.stack) ELSE Append(opened, Task(0))
             placed == [t EXCEPT !.pos = @ + item.used, !.reply = made]
             q == [placed EXCEPT !.stack = stack]
  <1>0. /\ IsReader(t) /\ t.stack # <<>> /\ item.is \in {"object", "array"} /\ item.used \in 1..Len(Unread(t))
        /\ item.is = "array" => Len(item.obj.element) \in Int
    BY DEF Takes
  <1>1. /\ DOMAIN placed = DOMAIN t /\ placed.buf = t.buf /\ placed.pos = t.pos + item.used
        /\ placed.stack = t.stack /\ placed.reply = made /\ placed.err = t.err
    BY <1>0 DEF IsReader
  <1>2. Take(t, item) = Goes(q)
    <2>1. CASE item.is = "object"
      <3>1. Take(t, item) = Goes([placed EXCEPT !.stack = MoveToNextTask(@)])
        BY <2>1 DEF Take
      <3> HIDE DEF placed
      <3> QED BY <1>1, <2>1, <3>1
    <2>2. CASE item.is = "array"
      <3>1. Take(t, item) = Goes([placed EXCEPT !.stack = Append(opened, Task(0))])
        BY <2>2 DEF Take
      <3> HIDE DEF placed, opened
      <3> QED BY <1>1, <2>2, <3>1
    <2> QED BY <1>0, <2>1, <2>2
  <1>4. stack \in Seq(Tasks)
    <2>1. t.stack \in Seq(Tasks) /\ t.stack # <<>>
      BY <1>0 DEF IsReader
    <2>2. CASE item.is = "object"
      BY <2>1, <2>2, MovedStack
    <2>3. CASE item.is = "array"
      BY <1>0, <2>1, <2>3, OpenedStack
    <2> QED BY <1>0, <2>2, <2>3
  <1>5. Len(Unread(t)) \in Nat
    BY <1>0, UnreadBytes
  <1>6. item.used \in 0..Len(Unread(t)) /\ item.used \in Nat \ {0}
    BY <1>0, <1>5
  <1> HIDE DEF stack, placed, made
  <1>7. /\ DOMAIN q = DOMAIN t /\ q.buf = t.buf /\ q.pos = t.pos + item.used
        /\ q.stack = stack /\ q.reply = made /\ q.err = t.err
    BY <1>0, <1>1 DEF IsReader
  <1> HIDE DEF q
  <1>8. q.pos \in 0..Len(q.buf) /\ Len(Unread(q)) = Len(Unread(t)) - item.used
    BY <1>0, <1>6, <1>7, Consumed
  <1>9. IsReader(q)
    BY <1>0, <1>4, <1>7, <1>8 DEF IsReader
  <1>10. Len(Unread(q)) < Len(Unread(t))
    BY <1>5, <1>6, <1>8
  <1>11. Take(t, item).more = TRUE /\ Take(t, item).r = q
    BY <1>2 DEF Goes
  <1>12. Take(t, item) = Goes(Take(t, item).r)
    BY <1>2, <1>11
  <1> QED BY <1>7, <1>9, <1>10, <1>11, <1>12 DEF TakenAs, stack, made

\* Taking the same element keeps a reader that has more ahead by these bytes.
LEMMA TakeAhead ==
  ASSUME NEW t, NEW item, Takes(t, item), NEW q, IsReader(q), NEW b \in Seq(Nat), Ahead(t, q, b)
  PROVE  Takes(q, item) /\ Ahead(Take(t, item).r, Take(q, item).r, b)
  <1>1. IsReader(t) /\ t.stack # <<>> /\ item.used \in 1..Len(Unread(t))
    BY DEF Takes
  <1>2. Unread(t) \in Seq(Nat) /\ Len(Unread(t)) \in Nat /\ Len(Unread(q)) = Len(Unread(t)) + Len(b) /\ Len(b) \in Nat
    BY <1>1, UnreadBytes, ConcatProperties, LenProperties DEF Ahead
  <1>3. item.used \in 1..Len(Unread(q)) /\ item.used \in 0..Len(Unread(t))
    BY <1>1, <1>2
  <1>4. q.stack = t.stack /\ q.reply = t.reply /\ q.err = t.err /\ Unread(q) = Unread(t) \o b
    BY DEF Ahead
  <1>5. Takes(q, item)
    BY <1>1, <1>3, <1>4 DEF Takes
  <1> DEFINE x == Take(t, item).r
             y == Take(q, item).r
  <1>6. TakenAs(t, item, Take(t, item)) /\ TakenAs(q, item, Take(q, item))
    BY <1>5, TakeMoves
  <1>7. x.buf = t.buf /\ x.pos = t.pos + item.used /\ y.buf = q.buf /\ y.pos = q.pos + item.used
    BY <1>6 DEF TakenAs
  <1>8. y.stack = x.stack /\ y.reply = x.reply /\ y.err = x.err
    BY <1>4, <1>6 DEF TakenAs
  <1> HIDE DEF x, y
  <1>9. Unread(y) = Unread(x) \o b
    <2> DEFINE n == item.used
    <2>1. /\ n \in 0..Len(Unread(q))
          /\ SubSeq(Unread(q), n + 1, Len(Unread(q))) = SubSeq(Unread(t), n + 1, Len(Unread(t))) \o b
      BY <1>1, <1>3, <1>4, ConsumedAhead
    <2>2. Unread(x) = SubSeq(Unread(t), n + 1, Len(Unread(t)))
      BY <1>1, <1>3, <1>7, Consumed
    <2>3. Unread(y) = SubSeq(Unread(q), n + 1, Len(Unread(q)))
      BY <1>7, <2>1, Consumed
    <2> QED BY <2>1, <2>2, <2>3
  <1> QED BY <1>5, <1>8, <1>9 DEF Ahead, x, y

Failed == SetError(NewReader, "protocol")
Item(t) == ProcessTyped(Unread(t), Top(t.stack).type, Len(t.stack))
NeedsType(r) == Top(r.stack).type = "unread" /\ Unread(r) = <<>>

\* Two outcomes that nobody can tell apart.
Equal(v, w) == \/ v = Failed /\ w = Failed
               \/ IsReader(v) /\ IsReader(w) /\ Ahead(v, w, <<>>)
Alike(s, t) == s.more = t.more /\ Equal(s.r, t.r)

\* All protocol errors leave the same reader.
LEMMA FailedIs == Failed.err = "protocol" /\ Failed.stack = <<>> /\ \A r : SetError(r, "protocol") = Failed
  BY DEF Failed, SetError, NewReader

\* The element a reader settles on is the one it settles on with more bytes.
LEMMA ItemOfReader ==
  ASSUME NEW t, IsReader(t), t.stack # <<>>, NEW b \in Seq(Nat), NEW q, IsReader(q), Ahead(t, q, b)
  PROVE  Settles(Unread(t), b, Item(t), Item(q))
  <1>1. Unread(t) \in Seq(Nat) /\ Unread(q) = Unread(t) \o b /\ q.stack = t.stack
    BY UnreadBytes DEF Ahead
  <1>2. Settles(Unread(t), b, Item(t), ProcessTyped(Unread(t) \o b, Top(t.stack).type, Len(t.stack)))
    BY <1>1, ItemSettles DEF Item
  <1> QED BY <1>1, <1>2 DEF Item

\* A reader is ahead of itself by nothing, and so on.
LEMMA AheadOfItself == \A r : IsReader(r) => Ahead(r, r, <<>>)
  BY UnreadBytes, ConcatEmptySeq DEF Ahead

\* Two readers that are ahead by the same bytes are equal but for the buffer.
LEMMA AheadBoth ==
  ASSUME NEW r, NEW q, NEW p, NEW b \in Seq(Nat), IsReader(r), IsReader(q), IsReader(p),
         Ahead(r, q, b), Ahead(r, p, b)
  PROVE  Ahead(q, p, <<>>)
  <1>1. Unread(q) = Unread(p) /\ Unread(q) \in Seq(Nat)
    BY UnreadBytes DEF Ahead
  <1>2. Unread(q) \o <<>> = Unread(q)
    BY <1>1, ConcatEmptySeq
  <1> QED BY <1>1, <1>2 DEF Ahead

\* A step of a reader that knows the type of its element.
LEMMA StepOfTyped ==
  ASSUME NEW t, IsReader(t), t.stack # <<>>, Top(t.stack).type # "unread"
  PROVE  /\ ProcessItem(t) = Take(t, Item(t))
         /\ Item(t).is = "incomplete" => ProcessItem(t) = Stays(t)
         /\ Item(t).is = "wrong" => ProcessItem(t) = Stays(Failed)
         /\ Item(t).is \in {"incomplete", "wrong", "object", "array"}
         /\ Item(t).is \in {"object", "array"} => Takes(t, Item(t))
  <1>1. ProcessItem(t) = Take(t, Item(t))
    BY DEF ProcessItem, Typed, Item
  <1>2. Item(t).is = "incomplete" => Take(t, Item(t)) = Stays(t)
    BY DEF Take
  <1>3. Item(t).is = "wrong" => Take(t, Item(t)) = Stays(Failed)
    BY FailedIs DEF Take
  <1>4. <<>> \in Seq(Nat) /\ Ahead(t, t, <<>>)
    BY AheadOfItself, EmptySeq
  <1>5. Settles(Unread(t), <<>>, Item(t), Item(t))
    BY <1>4, ItemOfReader
  <1> QED BY <1>1, <1>2, <1>3, <1>5 DEF Settles, Takes

\* Any other reader reads the type first.
LEMMA StepReadsType ==
  ASSUME NEW r, IsReader(r), r.stack # <<>>
  PROVE  /\ NeedsType(r) => ProcessItem(r) = Stays(r)
         /\ ~NeedsType(r) =>
              /\ IsReader(Typed(r)) /\ Typed(r).stack # <<>> /\ Top(Typed(r).stack).type # "unread"
              /\ Typed(r).reply = r.reply /\ Typed(r).err = r.err
              /\ Len(Unread(Typed(r))) <= Len(Unread(r))
              /\ ProcessItem(r) = ProcessItem(Typed(r))
  <1>1. NeedsType(r) => ProcessItem(r) = Stays(r)
    BY DEF NeedsType, ProcessItem
  <1>2. ASSUME ~NeedsType(r)
        PROVE  /\ IsReader(Typed(r)) /\ Typed(r).stack # <<>> /\ Top(Typed(r).stack).type # "unread"
               /\ Typed(r).reply = r.reply /\ Typed(r).err = r.err
               /\ Len(Unread(Typed(r))) <= Len(Unread(r))
               /\ ProcessItem(r) = ProcessItem(Typed(r))
    <2>1. Top(r.stack).type = "unread" => Unread(r) # <<>>
      BY <1>2 DEF NeedsType
    <2> DEFINE t == Typed(r)
    <2>2. /\ IsReader(t) /\ t.stack # <<>> /\ Top(t.stack).type # "unread"
          /\ t.reply = r.reply /\ t.err = r.err /\ Len(Unread(t)) <= Len(Unread(r))
      BY <2>1, TypedReader
    <2>3. ProcessItem(r) = Take(t, Item(t))
      BY <2>1 DEF ProcessItem, Item
    <2> HIDE DEF t
    <2>4. ProcessItem(t) = Take(t, Item(t))
      BY <2>2, StepOfTyped
    <2> QED BY <2>2, <2>3, <2>4 DEF t
  <1> QED BY <1>1, <1>2

\* A step goes on and consumes a byte, or fails, or waits and would wait again.
LEMMA StepOfReader ==
  ASSUME NEW r, IsReader(r), r.stack # <<>>
  PROVE  LET s == ProcessItem(r)
         IN \/ /\ s.more = TRUE /\ s = Goes(s.r) /\ IsReader(s.r) /\ s.r.err = r.err
               /\ Len(Unread(s.r)) < Len(Unread(r))
            \/ s = Stays(Failed)
            \/ /\ s = Stays(s.r) /\ IsReader(s.r) /\ s.r.err = r.err /\ s.r.reply = r.reply
               /\ s.r.stack # <<>> /\ ProcessItem(s.r) = Stays(s.r)
               /\ s.r = IF NeedsType(r) THEN r ELSE Typed(r)
  <1>1. CASE NeedsType(r)
    <2>1. ProcessItem(r) = Stays(r)
      BY <1>1, StepReadsType
    <2> QED BY <1>1, <2>1 DEF Stays
  <1>2. CASE ~NeedsType(r)
    <2> DEFINE t == Typed(r)
    <2>1. /\ IsReader(t) /\ t.stack # <<>> /\ Top(t.stack).type # "unread"
          /\ t.reply = r.reply /\ t.err = r.err /\ Len(Unread(t)) <= Len(Unread(r))
          /\ ProcessItem(r) = ProcessItem(t)
      BY <1>2, StepReadsType
    <2>2. t = IF NeedsType(r) THEN r ELSE Typed(r)
      BY <1>2
    <2> HIDE DEF t
    <2>3. CASE Item(t).is = "incomplete"
      <3>1. ProcessItem(t) = Stays(t)
        BY <2>1, <2>3, StepOfTyped
      <3>2. ProcessItem(r) = Stays(t) /\ Stays(t).r = t
        BY <2>1, <3>1 DEF Stays
      <3> QED BY <2>1, <2>2, <3>1, <3>2
    <2>4. CASE Item(t).is = "wrong"
      BY <2>1, <2>4, StepOfTyped
    <2>5. CASE Item(t).is \in {"object", "array"}
      <3>1. ProcessItem(r) = Take(t, Item(t)) /\ Takes(t, Item(t))
        BY <2>1, <2>5, StepOfTyped
      <3> DEFINE s == Take(t, Item(t))
      <3>2. TakenAs(t, Item(t), s)
        BY <3>1, TakeMoves
      <3> HIDE DEF s
      <3>3. s.more = TRUE /\ s = Goes(s.r) /\ s.r.err = t.err /\ IsReader(s.r) /\ Len(Unread(s.r)) < Len(Unread(t))
        BY <3>2 DEF TakenAs
      <3>4. Len(Unread(s.r)) < Len(Unread(r))
        BY <2>1, <3>3, UnreadBytes
      <3> QED BY <2>1, <3>1, <3>3, <3>4 DEF s
    <2> QED BY <2>1, <2>3, <2>4, <2>5, StepOfTyped
  <1> QED BY <1>1, <1>2

\* Two readers that agree take the same step.
LEMMA StepAlike ==
  ASSUME NEW r, NEW q, IsReader(r), IsReader(q), r.stack # <<>>, Ahead(r, q, <<>>)
  PROVE  Alike(ProcessItem(r), ProcessItem(q))
  <1>1. /\ Unread(r) \in Seq(Nat) /\ <<>> \in Seq(Nat) /\ Unread(q) = Unread(r)
        /\ q.stack = r.stack /\ q.stack # <<>>
    BY UnreadBytes, EmptySeq, ConcatEmptySeq DEF Ahead
  <1>2. CASE NeedsType(r)
    <2>1. NeedsType(q)
      BY <1>1, <1>2 DEF NeedsType
    <2>2. ProcessItem(r) = Stays(r) /\ ProcessItem(q) = Stays(q)
      BY <1>1, <1>2, <2>1, StepReadsType
    <2> QED BY <2>2 DEF Stays, Alike, Equal
  <1>3. CASE ~NeedsType(r)
    <2>1. ~NeedsType(q)
      BY <1>1, <1>3 DEF NeedsType
    <2> DEFINE t == Typed(r)
               u == Typed(q)
    <2>2. /\ IsReader(t) /\ t.stack # <<>> /\ Top(t.stack).type # "unread" /\ ProcessItem(r) = ProcessItem(t)
      BY <1>3, StepReadsType
    <2>3. /\ IsReader(u) /\ u.stack # <<>> /\ Top(u.stack).type # "unread" /\ ProcessItem(q) = ProcessItem(u)
      BY <1>1, <2>1, StepReadsType
    <2>4. Ahead(t, u, <<>>)
      <3>1. Top(r.stack).type = "unread" => Unread(r) # <<>>
        BY <1>3 DEF NeedsType
      <3> QED BY <1>1, <3>1, TypedAhead
    <2> HIDE DEF t, u
    <2>5. Item(u) = Item(t)
      <3>1. Unread(t) \in Seq(Nat) /\ Unread(u) = Unread(t) /\ u.stack = t.stack
        BY <2>2, <2>4, UnreadBytes, ConcatEmptySeq DEF Ahead
      <3> QED BY <3>1 DEF Item
    <2>6. CASE Item(t).is = "incomplete"
      <3>1. ProcessItem(t) = Stays(t) /\ ProcessItem(u) = Stays(u)
        BY <2>2, <2>3, <2>5, <2>6, StepOfTyped
      <3> QED BY <2>2, <2>3, <2>4, <3>1 DEF Stays, Alike, Equal
    <2>7. CASE Item(t).is = "wrong"
      <3>1. ProcessItem(t) = Stays(Failed) /\ ProcessItem(u) = Stays(Failed)
        BY <2>2, <2>3, <2>5, <2>7, StepOfTyped
      <3>2. Alike(Stays(Failed), Stays(Failed))
        <4>1. Stays(Failed).r = Failed
          BY DEF Stays
        <4> QED BY <4>1 DEF Alike, Equal
      <3> QED BY <2>2, <2>3, <3>1, <3>2
    <2>8. CASE Item(t).is \in {"object", "array"}
      <3> DEFINE item == Item(t)
      <3>1. ProcessItem(t) = Take(t, item) /\ ProcessItem(u) = Take(u, item) /\ Takes(t, item)
        BY <2>2, <2>3, <2>5, <2>8, StepOfTyped
      <3> HIDE DEF item
      <3>2. Takes(u, item) /\ Ahead(Take(t, item).r, Take(u, item).r, <<>>)
        BY <1>1, <2>3, <2>4, <3>1, TakeAhead
      <3>3. TakenAs(t, item, Take(t, item)) /\ TakenAs(u, item, Take(u, item))
        BY <3>1, <3>2, TakeMoves
      <3>4. /\ Take(t, item).more = TRUE /\ IsReader(Take(t, item).r)
            /\ Take(u, item).more = TRUE /\ IsReader(Take(u, item).r)
        BY <3>3 DEF TakenAs
      <3> QED BY <2>2, <2>3, <3>1, <3>2, <3>4 DEF Alike, Equal
    <2> QED BY <2>2, <2>6, <2>7, <2>8, StepOfTyped
  <1> QED BY <1>2, <1>3

\* A reader takes the step it took, when more bytes have arrived; where it
\* waited, it goes on as if it had not stopped.
LEMMA StepAhead ==
  ASSUME NEW r, NEW q, NEW b \in Seq(Nat), IsReader(r), IsReader(q), r.stack # <<>>, Ahead(r, q, b)
  PROVE  LET s == ProcessItem(r)
             t == ProcessItem(q)
         IN /\ s.more = TRUE => t.more = TRUE /\ IsReader(t.r) /\ Ahead(s.r, t.r, b)
            /\ s = Stays(Failed) => t = s
            /\ s = Stays(s.r) /\ s.r # Failed =>
                 \A p : IsReader(p) /\ Ahead(s.r, p, b) => Alike(t, ProcessItem(p))
  <1>1. q.stack = r.stack /\ q.stack # <<>> /\ Unread(r) \in Seq(Nat) /\ Unread(q) = Unread(r) \o b
    BY UnreadBytes DEF Ahead
  <1>2. CASE NeedsType(r)
    <2>1. ProcessItem(r) = Stays(r)
      BY <1>2, StepReadsType
    <2>2. r # Failed
      BY FailedIs
    <2>3. ASSUME NEW p, IsReader(p), Ahead(r, p, b) PROVE Alike(ProcessItem(q), ProcessItem(p))
      BY <1>1, <2>3, AheadBoth, StepAlike
    <2>4. Stays(r).more = FALSE /\ Stays(r).r = r
      BY DEF Stays
    <2>5. Stays(r) # Stays(Failed)
      BY <2>2 DEF Stays
    <2> QED BY <2>1, <2>3, <2>4, <2>5
  <1>3. CASE ~NeedsType(r)
    <2> DEFINE t == Typed(r)
               u == Typed(q)
    <2>1. Top(r.stack).type = "unread" => Unread(r) # <<>>
      BY <1>3 DEF NeedsType
    <2>2. ~NeedsType(q)
      BY <1>1, <2>1, ConcatEqualIffEmpty DEF NeedsType
    <2>3. /\ IsReader(t) /\ t.stack # <<>> /\ Top(t.stack).type # "unread" /\ ProcessItem(r) = ProcessItem(t)
      BY <1>3, StepReadsType
    <2>4. /\ IsReader(u) /\ u.stack # <<>> /\ Top(u.stack).type # "unread" /\ ProcessItem(q) = ProcessItem(u)
      BY <1>1, <2>2, StepReadsType
    <2>5. Ahead(t, u, b)
      BY <2>1, TypedAhead
    <2> HIDE DEF t, u
    <2>6. Settles(Unread(t), b, Item(t), Item(u))
      BY <2>3, <2>4, <2>5, ItemOfReader
    <2>7. CASE Item(t).is = "incomplete"
      <3>1. ProcessItem(r) = Stays(t)
        BY <2>3, <2>7, StepOfTyped
      <3>2. t # Failed
        BY <2>3, FailedIs
      <3>3. ASSUME NEW p, IsReader(p), Ahead(t, p, b) PROVE Alike(ProcessItem(u), ProcessItem(p))
        BY <2>3, <2>4, <2>5, <3>3, AheadBoth, StepAlike
      <3>4. Stays(t).more = FALSE /\ Stays(t).r = t
        BY DEF Stays
      <3>5. Stays(t) # Stays(Failed)
        BY <3>2 DEF Stays
      <3> QED BY <2>4, <3>1, <3>3, <3>4, <3>5
    <2>8. CASE Item(t).is = "wrong"
      <3>1. Item(u) = Item(t)
        BY <2>6, <2>8 DEF Settles
      <3>2. ProcessItem(r) = Stays(Failed) /\ ProcessItem(q) = Stays(Failed)
        BY <2>3, <2>4, <2>8, <3>1, StepOfTyped
      <3> QED BY <3>2 DEF Stays
    <2>9. CASE Item(t).is \in {"object", "array"}
      <3> DEFINE item == Item(t)
      <3>1. ProcessItem(t) = Take(t, item) /\ Takes(t, item)
        BY <2>3, <2>9, StepOfTyped
      <3>2. Item(u) = item
        BY <2>6, <2>9 DEF Settles
      <3>3. ProcessItem(u) = Take(u, item)
        BY <2>4, <2>9, <3>2, StepOfTyped
      <3> HIDE DEF item
      <3>4. Takes(u, item) /\ Ahead(Take(t, item).r, Take(u, item).r, b)
        BY <2>4, <2>5, <3>1, TakeAhead
      <3>5. TakenAs(t, item, Take(t, item)) /\ TakenAs(u, item, Take(u, item))
        BY <3>1, <3>4, TakeMoves
      <3>6. Take(t, item).more = TRUE /\ Take(u, item).more = TRUE /\ IsReader(Take(u, item).r)
        BY <3>5 DEF TakenAs
      <3>7. ProcessItem(r) = Take(t, item) /\ ProcessItem(q) = Take(u, item)
        BY <2>3, <2>4, <3>1, <3>3
      <3>8. \A x : Take(t, item) # Stays(x)
        BY <3>6 DEF Stays
      <3> QED BY <3>4, <3>6, <3>7, <3>8
    <2> QED BY <2>3, <2>7, <2>8, <2>9, StepOfTyped
  <1> QED BY <1>2, <1>3

-----------------------------------------------------------------------------
(* The loop.                                                               *)

\* f holds the states of the loop, from s on.
Runs(f, s, n) == f = [i \in 0..n |-> IF i = 0 THEN s ELSE Turn(f[i - 1])]

\* The loop has a run of any length from any state.
LEMMA RunExists == ASSUME NEW s, NEW n \in Nat PROVE \E f : Runs(f, s, n)
  <1> DEFINE N == {m \in Nat : ~\E f : Runs(f, s, m)}
  <1>1. SUFFICES ASSUME N # {} PROVE FALSE
    OBVIOUS
  <1>2. PICK m \in N : \A k \in N : m <= k
    BY <1>1, Least, N \subseteq Nat
  <1>3. m \in Nat /\ ~\E f : Runs(f, s, m)
    OBVIOUS
  <1>4. m # 0
    <2> DEFINE e == [i \in 0..0 |-> s]
    <2>1. e = [i \in 0..0 |-> IF i = 0 THEN s ELSE Turn(e[i - 1])]
      OBVIOUS
    <2> HIDE DEF e
    <2>2. Runs(e, s, 0)
      BY <2>1 DEF Runs
    <2> QED BY <1>3, <2>2
  <1>5. m - 1 \in Nat /\ m - 1 \notin N
    BY <1>2, <1>3, <1>4
  <1>6. PICK g : Runs(g, s, m - 1)
    BY <1>5
  <1> DEFINE h == [i \in 0..m |-> IF i = 0 THEN s ELSE Turn(g[i - 1])]
  <1>7. ASSUME NEW i \in 0..m
        PROVE  h[i] = IF i = 0 THEN s ELSE Turn(h[i - 1])
    <2>1. CASE i = 0
      BY <2>1
    <2>2. CASE i # 0
      <3>1. i - 1 \in 0..m - 1 /\ i - 1 \in 0..m
        BY <1>3, <2>2
      <3>2. g[i - 1] = IF i - 1 = 0 THEN s ELSE Turn(g[i - 1 - 1])
        BY <1>6, <3>1 DEF Runs
      <3>3. h[i - 1] = g[i - 1]
        BY <3>1, <3>2
      <3> QED BY <2>2, <3>3
    <2> QED BY <2>1, <2>2
  <1>8. h = [i \in 0..m |-> h[i]]
    OBVIOUS
  <1> HIDE DEF h
  <1>9. h = [i \in 0..m |-> IF i = 0 THEN s ELSE Turn(h[i - 1])]
    BY <1>7, <1>8
  <1> QED BY <1>3, <1>9 DEF Runs

\* Where it begins, and each state from the one before.
LEMMA RunSteps ==
  ASSUME NEW f, NEW s, NEW n \in Nat, Runs(f, s, n)
  PROVE  f[0] = s /\ \A i \in 1..n : f[i] = Turn(f[i - 1])
  <1>1. f[0] = s
    BY DEF Runs
  <1>2. ASSUME NEW i \in 1..n PROVE f[i] = Turn(f[i - 1])
    <2>1. i \in 0..n /\ i # 0
      OBVIOUS
    <2> QED BY <2>1 DEF Runs
  <1> QED BY <1>1, <1>2

\* Two runs from one state agree.
LEMMA RunsAgree ==
  ASSUME NEW f, NEW g, NEW s, NEW n \in Nat, NEW m \in Nat, Runs(f, s, n), Runs(g, s, m),
         NEW k \in 0..n, k \in 0..m
  PROVE  f[k] = g[k]
  <1> DEFINE N == {i \in 0..k : f[i] # g[i]}
  <1>1. SUFFICES ASSUME N # {} PROVE FALSE
    OBVIOUS
  <1>2. N \subseteq Nat
    OBVIOUS
  <1>3. PICK i \in N : \A j \in N : i <= j
    BY <1>1, <1>2, Least
  <1>4. f[0] = s /\ g[0] = s
    BY RunSteps
  <1>5. i \in 1..k /\ f[i] # g[i]
    BY <1>3, <1>4
  <1>6. f[i - 1] = g[i - 1]
    <2>1. i - 1 \in 0..k /\ ~(i <= i - 1)
      BY <1>5
    <2>2. i - 1 \notin N
      BY <1>3, <2>1
    <2> QED BY <2>1, <2>2
  <1>7. i \in 1..n /\ i \in 1..m
    BY <1>5
  <1>8. f[i] = Turn(f[i - 1]) /\ g[i] = Turn(g[i - 1])
    BY <1>7, RunSteps
  <1> QED BY <1>5, <1>6, <1>8

\* The loop is over, and stays so.
Over(s) == s.more = FALSE \/ s.r.stack = <<>>

\* A run that is over stays where it is.
LEMMA OverStays ==
  ASSUME NEW f, NEW s, NEW n \in Nat, Runs(f, s, n), NEW k \in 0..n, Over(f[k])
  PROVE  f[n] = f[k]
  <1> DEFINE N == {i \in k..n : f[i] # f[k]}
  <1>1. SUFFICES ASSUME N # {} PROVE FALSE
    OBVIOUS
  <1>2. N \subseteq Nat
    OBVIOUS
  <1>3. PICK i \in N : \A j \in N : i <= j
    BY <1>1, <1>2, Least
  <1>4. i \in k + 1..n /\ f[i] # f[k]
    BY <1>3
  <1>5. f[i - 1] = f[k]
    <2>1. i - 1 \in k..n /\ ~(i <= i - 1)
      BY <1>4
    <2>2. i - 1 \notin N
      BY <1>3, <2>1
    <2> QED BY <2>1, <2>2
  <1>6. f[i] = Turn(f[i - 1])
    <2>1. i \in 1..n
      BY <1>4
    <2> QED BY <2>1, RunSteps
  <1>7. Turn(f[k]) = f[k]
    BY DEF Turn, Over
  <1> QED BY <1>4, <1>5, <1>6, <1>7

\* Every turn that goes on consumes a byte, so the loop ends in time.
LEMMA RunEnds ==
  ASSUME NEW r, IsReader(r), NEW f, Runs(f, Goes(r), Len(Unread(r)) + 1)
  PROVE  Over(f[Len(Unread(r)) + 1])
  <1> DEFINE n == Len(Unread(r))
             Good(s, i) == Over(s) \/ (s.more = TRUE /\ IsReader(s.r) /\ Len(Unread(s.r)) + i <= n)
             N == {i \in 0..n + 1 : ~Good(f[i], i)}
  <1>1. n \in Nat /\ n + 1 \in Nat
    BY UnreadBytes
  <1>2. f[0] = Goes(r) /\ \A i \in 1..n + 1 : f[i] = Turn(f[i - 1])
    BY <1>1, RunSteps
  <1>3. Good(f[0], 0)
    BY <1>1, <1>2 DEF Goes
  <1> HIDE DEF n
  <1>4. ASSUME NEW i \in 1..n + 1, Good(f[i - 1], i - 1)
        PROVE  Good(f[i], i)
    <2> DEFINE s == f[i - 1]
    <2>1. f[i] = Turn(s)
      BY <1>2
    <2>2. CASE Over(s)
      <3>1. Turn(s) = s
        BY <2>2 DEF Turn, Over
      <3> QED BY <2>1, <2>2, <3>1
    <2>3. CASE ~Over(s)
      <3>1. s.more = TRUE /\ s.r.stack # <<>> /\ IsReader(s.r) /\ Len(Unread(s.r)) + (i - 1) <= n
        BY <1>4, <2>3 DEF Over
      <3>2. Turn(s) = ProcessItem(s.r)
        BY <3>1 DEF Turn
      <3> HIDE DEF s
      <3> DEFINE t == ProcessItem(s.r)
      <3>3. \/ t.more = TRUE /\ IsReader(t.r) /\ Len(Unread(t.r)) < Len(Unread(s.r))
            \/ t = Stays(Failed)
            \/ t = Stays(t.r)
        BY <3>1, StepOfReader
      <3> HIDE DEF t
      <3>4. CASE t.more = TRUE /\ IsReader(t.r) /\ Len(Unread(t.r)) < Len(Unread(s.r))
        <4>1. Len(Unread(t.r)) + i <= n
          <5>1. Len(Unread(t.r)) \in Nat /\ Len(Unread(s.r)) \in Nat
            BY <3>1, <3>4, UnreadBytes
          <5> QED BY <1>1, <3>1, <3>4, <5>1
        <4> QED BY <2>1, <3>2, <3>4, <4>1 DEF t
      <3>5. CASE t = Stays(Failed) \/ t = Stays(t.r)
        <4>1. t.more = FALSE
          BY <3>5 DEF Stays
        <4>2. Over(t)
          BY <4>1 DEF Over
        <4> QED BY <2>1, <3>2, <4>2 DEF t
      <3> QED BY <3>3, <3>4, <3>5
    <2> QED BY <2>2, <2>3
  <1> HIDE DEF Good
  <1>5. N = {}
    <2>1. SUFFICES ASSUME N # {} PROVE FALSE
      OBVIOUS
    <2>2. N \subseteq Nat
      BY <1>1
    <2>3. PICK i \in N : \A j \in N : i <= j
      BY <2>1, <2>2, Least
    <2>4. i \in 1..n + 1 /\ ~Good(f[i], i)
      BY <1>1, <1>3, <2>3
    <2>5. i - 1 \in 0..n + 1 /\ ~(i <= i - 1)
      BY <1>1, <2>4
    <2>6. i - 1 \notin N
      BY <2>3, <2>5
    <2> QED BY <1>4, <2>4, <2>5, <2>6
  <1>6. Good(f[n + 1], n + 1)
    <2>1. n + 1 \in 0..n + 1
      BY <1>1
    <2> QED BY <1>5, <2>1
  <1>7. Over(f[n + 1])
    <2>1. SUFFICES ASSUME IsReader(f[n + 1].r), Len(Unread(f[n + 1].r)) + (n + 1) <= n PROVE FALSE
      BY <1>6 DEF Good
    <2>2. Len(Unread(f[n + 1].r)) \in Nat
      BY <2>1, UnreadBytes
    <2> QED BY <1>1, <2>1, <2>2
  <1> QED BY <1>7 DEF n

\* The loop is its first step and the loop from there.
LEMMA ItemsAre ==
  ASSUME NEW r, IsReader(r), NEW f, Runs(f, Goes(r), Len(Unread(r)) + 1)
  PROVE  ProcessItems(r) = f[Len(Unread(r)) + 1].r
  <1> DEFINE n == Len(Unread(r)) + 1
             g == CHOOSE g : Runs(g, Goes(r), n)
  <1>1. n \in Nat
    BY UnreadBytes
  <1>2. Runs(g, Goes(r), n)
    BY <1>1, RunExists
  <1>3. ProcessItems(r) = g[n].r
    BY Zenon DEF ProcessItems, Runs
  <1> HIDE DEF g, n
  <1>4. n \in 0..n
    BY <1>1
  <1>5. f[n] = g[n]
    BY <1>1, <1>2, <1>4, RunsAgree DEF n
  <1> QED BY <1>3, <1>5 DEF n

\* The loop is one step and the loop on what that leaves.
LEMMA ItemsUnfold ==
  ASSUME NEW r, IsReader(r)
  PROVE  /\ r.stack = <<>> => ProcessItems(r) = r
         /\ r.stack # <<>> /\ ProcessItem(r).more = FALSE => ProcessItems(r) = ProcessItem(r).r
         /\ r.stack # <<>> /\ ProcessItem(r).more = TRUE => ProcessItems(r) = ProcessItems(ProcessItem(r).r)
  <1> DEFINE n == Len(Unread(r)) + 1
  <1>1. Len(Unread(r)) \in Nat /\ n \in Nat /\ 0 \in 0..n /\ 1 \in 0..n /\ 1 \in 1..n
    BY UnreadBytes
  <1>2. PICK f : Runs(f, Goes(r), n)
    BY <1>1, RunExists
  <1>3. ProcessItems(r) = f[n].r
    BY <1>2, ItemsAre
  <1>4. f[0] = Goes(r) /\ \A i \in 1..n : f[i] = Turn(f[i - 1])
    BY <1>1, <1>2, RunSteps
  <1> HIDE DEF n
  <1>5. f[1] = Turn(f[0])
    BY <1>1, <1>4
  <1>6. Goes(r).r = r /\ Goes(r).more = TRUE
    BY DEF Goes
  <1>7. CASE r.stack = <<>>
    <2>1. Over(f[0])
      BY <1>4, <1>6, <1>7 DEF Over
    <2>2. f[n] = f[0]
      BY <1>1, <1>2, <2>1, OverStays
    <2> QED BY <1>3, <1>4, <1>6, <1>7, <2>2
  <1>8. CASE r.stack # <<>>
    <2> DEFINE s == ProcessItem(r)
    <2>1. f[1] = s
      BY <1>4, <1>5, <1>6, <1>8 DEF Turn
    <2>2. \/ s = Goes(s.r) /\ s.more = TRUE /\ IsReader(s.r) /\ Len(Unread(s.r)) < Len(Unread(r))
          \/ s = Stays(Failed)
          \/ s = Stays(s.r)
      BY <1>8, StepOfReader
    <2> HIDE DEF s
    <2>3. ASSUME s.more = FALSE PROVE ProcessItems(r) = s.r
      <3>1. Over(f[1])
        BY <2>1, <2>3 DEF Over
      <3>2. f[n] = f[1]
        BY <1>1, <1>2, <3>1, OverStays
      <3> QED BY <1>3, <2>1, <3>2
    <2>4. ASSUME s.more = TRUE PROVE ProcessItems(r) = ProcessItems(s.r)
      <3>1. s = Goes(s.r) /\ IsReader(s.r) /\ Len(Unread(s.r)) < Len(Unread(r))
        BY <2>2, <2>4 DEF Stays
      <3> DEFINE m == Len(Unread(s.r)) + 1
                 k == n - 1
      <3>2. m \in Nat /\ k \in Nat /\ m \in 0..k /\ m + 1 \in 0..n /\ m \in 0..m
        <4>1. Len(Unread(s.r)) \in Nat
          BY <3>1, UnreadBytes
        <4> QED BY <1>1, <3>1, <4>1 DEF n
      <3>3. PICK g : Runs(g, Goes(s.r), m)
        BY <3>2, RunExists
      <3>4. Over(g[m]) /\ ProcessItems(s.r) = g[m].r
        BY <3>1, <3>3, RunEnds, ItemsAre
      <3> DEFINE h == [i \in 0..k |-> f[i + 1]]
      <3>5. Runs(h, Goes(s.r), k)
        <4>1. ASSUME NEW i \in 0..k PROVE h[i] = IF i = 0 THEN Goes(s.r) ELSE Turn(h[i - 1])
          <5>1. CASE i = 0
            <6>1. h[0] = f[0 + 1] /\ 0 + 1 = 1
              BY <3>2
            <6> QED BY <2>1, <3>1, <5>1, <6>1
          <5>2. CASE i # 0
            <6>1. i + 1 \in 1..n /\ i - 1 \in 0..k /\ (i + 1) - 1 = i /\ (i - 1) + 1 = i
              BY <1>1, <3>2, <5>2
            <6>2. f[i + 1] = Turn(f[i])
              BY <1>4, <6>1
            <6>3. h[i] = f[i + 1] /\ h[i - 1] = f[i]
              BY <6>1
            <6> QED BY <5>2, <6>2, <6>3
          <5> QED BY <5>1, <5>2
        <4>2. h = [i \in 0..k |-> h[i]]
          OBVIOUS
        <4> HIDE DEF h, k
        <4>3. h = [i \in 0..k |-> IF i = 0 THEN Goes(s.r) ELSE Turn(h[i - 1])]
          BY <4>1, <4>2
        <4> QED BY <4>3 DEF Runs
      <3>6. h[m] = f[m + 1]
        BY <3>2
      <3> HIDE DEF h, m, k
      <3>7. h[m] = g[m]
        BY <3>2, <3>3, <3>5, RunsAgree
      <3>8. Over(f[m + 1])
        BY <3>4, <3>6, <3>7
      <3>9. f[n] = f[m + 1]
        BY <1>1, <1>2, <3>2, <3>8, OverStays
      <3> QED BY <1>3, <3>4, <3>6, <3>7, <3>9
    <2> QED BY <1>8, <2>3, <2>4 DEF s
  <1> QED BY <1>7, <1>8

\* What the loop may leave behind.
Rests(r, w) ==
  \/ w = Failed
  \/ /\ IsReader(w) /\ w.err = r.err
     /\ w.stack = <<>> \/ (w.stack # <<>> /\ ProcessItem(w) = Stays(w))

\* Where the loop ends, it rests: with an error, a finished reply, or an element
\* that lacks bytes.
LEMMA ItemsRest == ASSUME NEW r, IsReader(r) PROVE Rests(r, ProcessItems(r))
  <1> DEFINE N == {n \in Nat : \E q : IsReader(q) /\ Len(Unread(q)) = n /\ ~Rests(q, ProcessItems(q))}
  <1>1. SUFFICES ASSUME N # {} PROVE FALSE
    BY UnreadBytes
  <1>2. PICK n \in N : \A k \in N : n <= k
    BY <1>1, Least, N \subseteq Nat
  <1>3. PICK q : IsReader(q) /\ Len(Unread(q)) = n /\ ~Rests(q, ProcessItems(q))
    OBVIOUS
  <1>4. CASE q.stack = <<>>
    <2>1. ProcessItems(q) = q
      BY <1>3, <1>4, ItemsUnfold
    <2> QED BY <1>3, <1>4, <2>1 DEF Rests
  <1>5. CASE q.stack # <<>>
    <2> DEFINE s == ProcessItem(q)
    <2>1. \/ /\ s.more = TRUE /\ IsReader(s.r) /\ s.r.err = q.err
             /\ Len(Unread(s.r)) < Len(Unread(q))
          \/ s = Stays(Failed)
          \/ /\ s = Stays(s.r) /\ IsReader(s.r) /\ s.r.err = q.err
             /\ s.r.stack # <<>> /\ ProcessItem(s.r) = Stays(s.r)
      BY <1>3, <1>5, StepOfReader
    <2>2. CASE s.more = TRUE /\ IsReader(s.r) /\ s.r.err = q.err /\ Len(Unread(s.r)) < Len(Unread(q))
      <3>1. ProcessItems(q) = ProcessItems(s.r)
        BY <1>3, <1>5, <2>2, ItemsUnfold
      <3> HIDE DEF s
      <3>2. Len(Unread(s.r)) \in Nat /\ ~(n <= Len(Unread(s.r)))
        BY <1>3, <2>2, UnreadBytes
      <3>3. Len(Unread(s.r)) \notin N
        BY <1>2, <3>2
      <3>4. Rests(s.r, ProcessItems(s.r))
        BY <2>2, <3>2, <3>3
      <3> QED BY <1>3, <2>2, <3>1, <3>4 DEF Rests
    <2>3. CASE s = Stays(Failed)
      <3>1. s.more = FALSE /\ s.r = Failed
        BY <2>3 DEF Stays
      <3>2. ProcessItems(q) = Failed
        BY <1>3, <1>5, <3>1, ItemsUnfold
      <3> QED BY <1>3, <3>2 DEF Rests
    <2>4. CASE s = Stays(s.r) /\ IsReader(s.r) /\ s.r.err = q.err /\ s.r.stack # <<>> /\ ProcessItem(s.r) = Stays(s.r)
      <3>1. s.more = FALSE
        BY <2>4 DEF Stays
      <3>2. ProcessItems(q) = s.r
        BY <1>3, <1>5, <3>1, ItemsUnfold
      <3> QED BY <1>3, <2>4, <3>2 DEF Rests
    <2> QED BY <2>1, <2>2, <2>3, <2>4
  <1> QED BY <1>4, <1>5

\* Two readers that agree end alike.
LEMMA ItemsAlike ==
  ASSUME NEW r, NEW q, IsReader(r), IsReader(q), Ahead(r, q, <<>>)
  PROVE  Equal(ProcessItems(r), ProcessItems(q))
  <1> DEFINE Bad(x, y) == IsReader(x) /\ IsReader(y) /\ Ahead(x, y, <<>>) /\ ~Equal(ProcessItems(x), ProcessItems(y))
             N == {n \in Nat : \E x, y : Len(Unread(x)) = n /\ Bad(x, y)}
  <1>1. SUFFICES ASSUME N # {} PROVE FALSE
    BY UnreadBytes
  <1>2. PICK n \in N : \A k \in N : n <= k
    BY <1>1, Least, N \subseteq Nat
  <1>3. PICK x, y : Len(Unread(x)) = n /\ Bad(x, y)
    OBVIOUS
  <1>4. CASE x.stack = <<>>
    <2>1. y.stack = <<>>
      BY <1>3, <1>4 DEF Ahead
    <2>2. ProcessItems(x) = x /\ ProcessItems(y) = y
      BY <1>3, <1>4, <2>1, ItemsUnfold
    <2> QED BY <1>3, <2>2 DEF Equal
  <1>5. CASE x.stack # <<>>
    <2> DEFINE s == ProcessItem(x)
               t == ProcessItem(y)
    <2>0. y.stack # <<>>
      BY <1>3, <1>5 DEF Ahead
    <2>1. Alike(s, t)
      BY <1>3, <1>5, StepAlike
    <2>2. \/ s.more = TRUE /\ s = Goes(s.r) /\ IsReader(s.r) /\ s.r.err = x.err /\ Len(Unread(s.r)) < Len(Unread(x))
          \/ s = Stays(Failed) \/ s = Stays(s.r)
      BY <1>3, <1>5, StepOfReader
    <2>3. CASE s.more = FALSE
      <3>1. t.more = FALSE
        BY <2>1, <2>3 DEF Alike
      <3>2. ProcessItems(x) = s.r /\ ProcessItems(y) = t.r
        BY <1>3, <1>5, <2>0, <2>3, <3>1, ItemsUnfold
      <3> QED BY <1>3, <2>1, <3>2 DEF Alike
    <2>4. CASE s.more = TRUE
      <3>1. t.more = TRUE /\ Equal(s.r, t.r)
        BY <2>1, <2>4 DEF Alike
      <3>2. ProcessItems(x) = ProcessItems(s.r) /\ ProcessItems(y) = ProcessItems(t.r)
        BY <1>3, <1>5, <2>0, <2>4, <3>1, ItemsUnfold
      <3>3. IsReader(s.r) /\ Len(Unread(s.r)) < Len(Unread(x))
        BY <2>2, <2>4 DEF Stays
      <3> HIDE DEF s, t
      <3>4. Len(Unread(s.r)) \in Nat /\ ~(n <= Len(Unread(s.r)))
        BY <1>3, <3>3, UnreadBytes
      <3>5. Len(Unread(s.r)) \notin N
        BY <1>2, <3>4
      <3>6. ~Bad(s.r, t.r)
        BY <3>4, <3>5
      <3>7. CASE s.r = Failed /\ t.r = Failed
        <4>1. ProcessItems(s.r) = s.r /\ ProcessItems(t.r) = t.r
          BY <3>3, <3>7, FailedIs, ItemsUnfold
        <4> QED BY <1>3, <3>2, <3>7, <4>1 DEF Equal
      <3>8. CASE IsReader(s.r) /\ IsReader(t.r) /\ Ahead(s.r, t.r, <<>>)
        BY <1>3, <3>2, <3>6, <3>8
      <3> QED BY <3>1, <3>7, <3>8 DEF Equal
    <2>5. s.more = TRUE \/ s.more = FALSE
      BY <2>2 DEF Stays
    <2> QED BY <2>3, <2>4, <2>5
  <1> QED BY <1>4, <1>5

\* What the loop makes of the bytes it has, it makes of them when more follow;
\* where it waits, it goes on as if all the bytes had come at once.
GoesOn(w, v, b) ==
  /\ w = Failed => v = Failed
  /\ w # Failed /\ w.stack = <<>> => IsReader(v) /\ Ahead(w, v, b)
  /\ w # Failed /\ w.stack # <<>> =>
       \A p : IsReader(p) /\ Ahead(w, p, b) => Equal(v, ProcessItems(p))

\* The loop with more bytes at once ends as the loop that stopped for lack of
\* them and went on when they came.
LEMMA ItemsAhead ==
  ASSUME NEW r, NEW q, NEW b \in Seq(Nat), IsReader(r), IsReader(q), r.err = "none", Ahead(r, q, b)
  PROVE  GoesOn(ProcessItems(r), ProcessItems(q), b)
  <1> DEFINE Bad(x, y) == /\ IsReader(x) /\ IsReader(y) /\ x.err = "none" /\ Ahead(x, y, b)
                          /\ ~GoesOn(ProcessItems(x), ProcessItems(y), b)
             N == {n \in Nat : \E x, y : Len(Unread(x)) = n /\ Bad(x, y)}
  <1>1. SUFFICES ASSUME N # {} PROVE FALSE
    BY UnreadBytes
  <1>2. PICK n \in N : \A k \in N : n <= k
    BY <1>1, Least, N \subseteq Nat
  <1>3. PICK x, y : Len(Unread(x)) = n /\ Bad(x, y)
    OBVIOUS
  <1>4. CASE x.stack = <<>>
    <2>1. y.stack = <<>>
      BY <1>3, <1>4 DEF Ahead
    <2>2. ProcessItems(x) = x /\ ProcessItems(y) = y
      BY <1>3, <1>4, <2>1, ItemsUnfold
    <2>3. x # Failed
      BY <1>3, FailedIs
    <2> QED BY <1>3, <1>4, <2>2, <2>3 DEF GoesOn
  <1>5. CASE x.stack # <<>>
    <2> DEFINE s == ProcessItem(x)
               t == ProcessItem(y)
    <2>0. y.stack # <<>>
      BY <1>3, <1>5 DEF Ahead
    <2>1. /\ s.more = TRUE => t.more = TRUE /\ IsReader(t.r) /\ Ahead(s.r, t.r, b)
          /\ s = Stays(Failed) => t = s
          /\ s = Stays(s.r) /\ s.r # Failed => \A p : IsReader(p) /\ Ahead(s.r, p, b) => Alike(t, ProcessItem(p))
      BY <1>3, <1>5, StepAhead
    <2>2. \/ s.more = TRUE /\ IsReader(s.r) /\ s.r.err = x.err /\ Len(Unread(s.r)) < Len(Unread(x))
          \/ s = Stays(Failed)
          \/ s = Stays(s.r) /\ IsReader(s.r) /\ s.r.err = x.err /\ s.r.stack # <<>>
      BY <1>3, <1>5, StepOfReader
    <2>3. CASE s.more = TRUE /\ IsReader(s.r) /\ s.r.err = x.err /\ Len(Unread(s.r)) < Len(Unread(x))
      <3>1. t.more = TRUE /\ IsReader(t.r) /\ Ahead(s.r, t.r, b)
        BY <2>1, <2>3
      <3>2. ProcessItems(x) = ProcessItems(s.r) /\ ProcessItems(y) = ProcessItems(t.r)
        BY <1>3, <1>5, <2>0, <2>3, <3>1, ItemsUnfold
      <3> HIDE DEF s, t
      <3>4. Len(Unread(s.r)) \in Nat /\ ~(n <= Len(Unread(s.r)))
        BY <1>3, <2>3, UnreadBytes
      <3>5. Len(Unread(s.r)) \notin N
        BY <1>2, <3>4
      <3>6. ~Bad(s.r, t.r)
        BY <3>4, <3>5
      <3> QED BY <1>3, <2>3, <3>1, <3>2, <3>6
    <2>4. CASE s = Stays(Failed)
      <3>1. s.more = FALSE /\ s.r = Failed /\ t.more = FALSE /\ t.r = Failed
        BY <2>1, <2>4 DEF Stays
      <3>2. ProcessItems(x) = Failed /\ ProcessItems(y) = Failed
        BY <1>3, <1>5, <2>0, <3>1, ItemsUnfold
      <3> QED BY <1>3, <3>2 DEF GoesOn
    <2>5. CASE s = Stays(s.r) /\ IsReader(s.r) /\ s.r.err = x.err /\ s.r.stack # <<>>
      <3>1. s.more = FALSE /\ s.r # Failed
        BY <1>3, <2>5, FailedIs DEF Stays
      <3>2. ProcessItems(x) = s.r
        BY <1>3, <1>5, <3>1, ItemsUnfold
      <3>3. ASSUME NEW p, IsReader(p), Ahead(s.r, p, b) PROVE Equal(ProcessItems(y), ProcessItems(p))
        <4> DEFINE u == ProcessItem(p)
        <4>1. Alike(t, u)
          BY <2>1, <2>5, <3>1, <3>3
        <4>2. p.stack # <<>>
          BY <2>5, <3>3 DEF Ahead
        <4>3. \/ t.more = TRUE /\ IsReader(t.r)
              \/ t = Stays(Failed) \/ t = Stays(t.r)
          BY <1>3, <2>0, StepOfReader
        <4>4. CASE t.more = FALSE
          <5>1. u.more = FALSE
            BY <4>1, <4>4 DEF Alike
          <5>2. ProcessItems(y) = t.r /\ ProcessItems(p) = u.r
            BY <1>3, <2>0, <3>3, <4>2, <4>4, <5>1, ItemsUnfold
          <5> QED BY <4>1, <5>2 DEF Alike
        <4>5. CASE t.more = TRUE
          <5>1. u.more = TRUE /\ Equal(t.r, u.r)
            BY <4>1, <4>5 DEF Alike
          <5>2. ProcessItems(y) = ProcessItems(t.r) /\ ProcessItems(p) = ProcessItems(u.r)
            BY <1>3, <2>0, <3>3, <4>2, <4>5, <5>1, ItemsUnfold
          <5>3. IsReader(t.r)
            BY <4>3, <4>5 DEF Stays
          <5> HIDE DEF t, u
          <5>4. CASE t.r = Failed /\ u.r = Failed
            <6>1. ProcessItems(t.r) = t.r /\ ProcessItems(u.r) = u.r
              BY <5>3, <5>4, FailedIs, ItemsUnfold
            <6> QED BY <5>2, <5>4, <6>1 DEF Equal
          <5>5. CASE IsReader(t.r) /\ IsReader(u.r) /\ Ahead(t.r, u.r, <<>>)
            BY <5>2, <5>5, ItemsAlike
          <5> QED BY <5>1, <5>4, <5>5 DEF Equal
        <4>6. t.more = TRUE \/ t.more = FALSE
          BY <4>3 DEF Stays
        <4> QED BY <4>4, <4>5, <4>6
      <3>4. GoesOn(s.r, ProcessItems(y), b)
        BY <2>5, <3>1, <3>3 DEF GoesOn
      <3> QED BY <1>3, <3>2, <3>4
    <2> QED BY <2>2, <2>3, <2>4, <2>5
  <1> QED BY <1>4, <1>5

-----------------------------------------------------------------------------
(* A call of redisReaderGetReply.                                          *)

\* A call begins a reply where none is under way.
LEMMA StartedReader ==
  ASSUME NEW r, IsReader(r)
  PROVE  /\ IsReader(Started(r)) /\ Unread(Started(r)) = Unread(r)
         /\ Started(r).reply = r.reply /\ Started(r).err = r.err
         /\ Started(r).stack # <<>>
         /\ Started(r).stack = IF r.stack = <<>> THEN <<Task(-1)>> ELSE r.stack
  <1>1. CASE r.stack # <<>>
    BY <1>1 DEF Started
  <1>2. CASE r.stack = <<>>
    <2> DEFINE q == [r EXCEPT !.stack = <<Task(-1)>>]
    <2>1. Started(r) = q
      BY <1>2 DEF Started
    <2>2. DOMAIN q = DOMAIN r /\ q.buf = r.buf /\ q.pos = r.pos /\ q.reply = r.reply /\ q.err = r.err /\ q.stack = <<Task(-1)>>
      BY DEF IsReader
    <2> HIDE DEF q
    <2>3. Task(-1) \in Tasks
      BY DEF Task, Tasks, Types
    <2>4. <<Task(-1)>> \in Seq(Tasks) /\ <<Task(-1)>> # <<>>
      BY <2>3
    <2>5. IsReader(q)
      BY <2>2, <2>4 DEF IsReader
    <2>6. Unread(q) = Unread(r)
      BY <2>2 DEF Unread
    <2> QED BY <1>2, <2>1, <2>2, <2>4, <2>5, <2>6
  <1> QED BY <1>1, <1>2

\* Bytes that are fed lie behind the unread ones.
LEMMA FedReader ==
  ASSUME NEW r, IsReader(r), r.err = "none", NEW c \in Seq(Nat)
  PROVE  LET q == Feed(r, c)
         IN /\ IsReader(q) /\ Unread(q) = Unread(r) \o c /\ q.buf = r.buf \o c
            /\ q.stack = r.stack /\ q.reply = r.reply /\ q.err = r.err
  <1> DEFINE q == [r EXCEPT !.buf = r.buf \o c]
  <1>1. Feed(r, c) = q
    BY DEF Feed
  <1>2. DOMAIN q = DOMAIN r /\ q.buf = r.buf \o c /\ q.pos = r.pos /\ q.reply = r.reply /\ q.err = r.err /\ q.stack = r.stack
    BY DEF IsReader
  <1> HIDE DEF q
  <1>3. r.buf \in Seq(Nat) /\ r.pos \in 0..Len(r.buf) /\ Len(r.buf) \in Nat /\ Len(c) \in Nat
    BY LenProperties DEF IsReader
  <1>4. r.buf \o c \in Seq(Nat) /\ Len(r.buf \o c) = Len(r.buf) + Len(c)
    BY <1>3, ConcatProperties
  <1>5. r.pos \in 0..Len(r.buf \o c)
    BY <1>3, <1>4
  <1>6. IsReader(q)
    BY <1>2, <1>4, <1>5 DEF IsReader
  <1>7. Unread(q) = Unread(r) \o c
    BY <1>2, <1>3, RestOfGrown DEF Unread
  <1> QED BY <1>1, <1>2, <1>6, <1>7

\* The buffer is shortened and nothing is lost.
LEMMA DiscardedReader ==
  ASSUME NEW r, IsReader(r)
  PROVE  LET q == Discard(r)
         IN IsReader(q) /\ Unread(q) = Unread(r) /\ q.stack = r.stack /\ q.reply = r.reply /\ q.err = r.err
  <1>1. CASE ~(r.pos >= DiscardAt)
    BY <1>1 DEF Discard
  <1>2. CASE r.pos >= DiscardAt
    <2> DEFINE q == [r EXCEPT !.buf = Unread(r), !.pos = 0]
    <2>1. Discard(r) = q
      BY <1>2 DEF Discard
    <2>2. DOMAIN q = DOMAIN r /\ q.buf = Unread(r) /\ q.pos = 0 /\ q.reply = r.reply /\ q.err = r.err /\ q.stack = r.stack
      BY DEF IsReader
    <2> HIDE DEF q
    <2>3. Unread(r) \in Seq(Nat) /\ Len(Unread(r)) \in Nat
      BY UnreadBytes
    <2>4. IsReader(q)
      BY <2>2, <2>3 DEF IsReader
    <2>5. Unread(q) = SubSeq(Unread(r), 0 + 1, Len(Unread(r))) /\ 0 \in 0..Len(Unread(r))
      BY <2>2, <2>3 DEF Unread
    <2>6. SubSeq(Unread(r), 0 + 1, Len(Unread(r))) = Unread(r)
      <3>1. /\ SubSeq(Unread(r), 0 + 1, Len(Unread(r))) \in Seq(Nat)
            /\ Len(SubSeq(Unread(r), 0 + 1, Len(Unread(r)))) = Len(Unread(r)) - 0
            /\ \A i \in 1..Len(Unread(r)) - 0 : SubSeq(Unread(r), 0 + 1, Len(Unread(r)))[i] = Unread(r)[0 + i]
        <4>1. \A n \in 0..Len(Unread(r)) :
                /\ SubSeq(Unread(r), n + 1, Len(Unread(r))) \in Seq(Nat)
                /\ Len(SubSeq(Unread(r), n + 1, Len(Unread(r)))) = Len(Unread(r)) - n
                /\ \A i \in 1..Len(Unread(r)) - n : SubSeq(Unread(r), n + 1, Len(Unread(r)))[i] = Unread(r)[n + i]
          BY <2>3, RestOf, Zenon
        <4> QED BY ONLY <2>5, <4>1
      <3> DEFINE u == Unread(r)
                 v == SubSeq(u, 0 + 1, Len(u))
      <3>2. v \in Seq(Nat) /\ u \in Seq(Nat) /\ Len(v) = Len(u) /\ \A i \in 1..Len(u) : v[i] = u[i]
        BY <2>3, <3>1
      <3> HIDE DEF u, v
      <3>3. v = u
        BY <3>2, SeqEqual
      <3> QED BY <3>3 DEF u, v
    <2> QED BY <2>1, <2>2, <2>4, <2>5, <2>6
  <1> QED BY <1>1, <1>2

\* Equal is symmetric and transitive.
LEMMA EqualToo ==
  /\ \A u, v : Equal(u, v) => Equal(v, u)
  /\ \A u, v, w : Equal(u, v) /\ Equal(v, w) => Equal(u, w)
  <1>1. ASSUME NEW u, NEW v, IsReader(u), IsReader(v)
        PROVE  Ahead(u, v, <<>>) <=> Unread(v) = Unread(u) /\ v.stack = u.stack /\ v.reply = u.reply /\ v.err = u.err
    <2>1. Unread(u) \o <<>> = Unread(u)
      BY <1>1, UnreadBytes, ConcatEmptySeq
    <2> QED BY <2>1 DEF Ahead
  <1>2. ASSUME NEW u, NEW v, Equal(u, v) PROVE Equal(v, u)
    BY <1>1, <1>2 DEF Equal
  <1>3. IsReader(Failed)
    BY EmptySeq DEF IsReader, Failed, SetError, NewReader
  <1>4. Ahead(Failed, Failed, <<>>)
    BY <1>3, AheadOfItself
  <1>5. ASSUME NEW u, NEW v, NEW w, Equal(u, v), Equal(v, w) PROVE Equal(u, w)
    <2>1. \A x, y : Equal(x, y) => IsReader(x) /\ IsReader(y) /\ Ahead(x, y, <<>>)
      BY <1>3, <1>4 DEF Equal
    <2>2. IsReader(u) /\ IsReader(v) /\ IsReader(w) /\ Ahead(u, v, <<>>) /\ Ahead(v, w, <<>>)
      BY <1>5, <2>1
    <2>3. Ahead(u, w, <<>>)
      BY <1>1, <2>2
    <2> QED BY <2>2, <2>3 DEF Equal
  <1> QED BY <1>2, <1>5

\* What a new reader makes of bytes that come at once.
Whole(s) == ProcessItems(Started(Feed(NewReader, s)))
Waiting(w) == w # Failed /\ w.stack # <<>>
Complete(w) == w # Failed /\ w.stack = <<>>

\* A new reader.
LEMMA NewReaderIs == IsReader(NewReader) /\ Unread(NewReader) = <<>> /\ NewReader.err = "none"
                     /\ NewReader.stack = <<>> /\ NewReader.reply = NoReply
  <1>1. /\ DOMAIN NewReader = {"buf", "pos", "stack", "reply", "err"}
        /\ NewReader.buf = <<>> /\ NewReader.pos = 0 /\ NewReader.err = "none"
        /\ NewReader.stack = <<>> /\ NewReader.reply = NoReply
    BY DEF NewReader
  <1>2. IsReader(NewReader)
    BY <1>1, EmptySeq DEF IsReader
  <1>3. Unread(NewReader) = <<>>
    BY <1>1, <1>2, UnreadBytes, EmptySeq
  <1> QED BY <1>1, <1>2, <1>3

\* A reader that is fed, and the loop on it.
LEMMA FedAndStarted ==
  ASSUME NEW r, IsReader(r), r.err = "none", NEW c \in Seq(Nat)
  PROVE  LET q == Started(Feed(r, c))
         IN /\ IsReader(q) /\ Unread(q) = Unread(r) \o c /\ q.reply = r.reply /\ q.err = "none"
            /\ q.stack = (IF r.stack = <<>> THEN <<Task(-1)>> ELSE r.stack) /\ q.stack # <<>>
            /\ Rests(q, ProcessItems(q)) /\ Equal(ProcessItems(q), ProcessItems(q))
  <1>1. /\ IsReader(Feed(r, c)) /\ Unread(Feed(r, c)) = Unread(r) \o c
        /\ Feed(r, c).stack = r.stack /\ Feed(r, c).reply = r.reply /\ Feed(r, c).err = r.err
    BY FedReader
  <1> DEFINE q == Started(Feed(r, c))
  <1>2. /\ IsReader(q) /\ Unread(q) = Unread(r) \o c /\ q.reply = r.reply /\ q.err = "none"
        /\ q.stack = (IF r.stack = <<>> THEN <<Task(-1)>> ELSE r.stack) /\ q.stack # <<>>
    BY <1>1, StartedReader
  <1> HIDE DEF q
  <1>3. Rests(q, ProcessItems(q))
    BY <1>2, ItemsRest
  <1>4. Equal(ProcessItems(q), ProcessItems(q))
    BY <1>3, AheadOfItself DEF Rests, Equal
  <1> QED BY <1>2, <1>3, <1>4 DEF q

\* The reader r is as good as a new one that was given p: p leaves it waiting,
\* and whatever comes next, the two end alike.
Holds(r, p) ==
  /\ IsReader(r) /\ r.err = "none"
  /\ p \in Seq(Nat) /\ Waiting(Whole(p))
  /\ \A c \in Seq(Nat) : Equal(Whole(p \o c), ProcessItems(Started(Feed(r, c))))

\* A reader without bytes, between two replies.
Fresh(r) == /\ IsReader(r) /\ r.err = "none" /\ Unread(r) = <<>>
            /\ r.stack = <<>> /\ r.reply = NoReply

\* Without bytes a new reader waits.
LEMMA WholeOfNothing == Waiting(Whole(<<>>))
  <1> DEFINE q == Started(Feed(NewReader, <<>>))
  <1>1. /\ IsReader(q) /\ Unread(q) = <<>> \o <<>> /\ q.err = "none" /\ q.stack = <<Task(-1)>> /\ q.stack # <<>>
    BY NewReaderIs, FedAndStarted, EmptySeq
  <1>2. Unread(q) = <<>>
    BY <1>1, ConcatEmptySeq, EmptySeq
  <1> HIDE DEF q
  <1>3. Top(q.stack).type = "unread"
    BY <1>1 DEF Top, Task
  <1>4. ProcessItem(q) = Stays(q)
    BY <1>1, <1>2, <1>3, StepReadsType DEF NeedsType
  <1>5. ProcessItem(q).more = FALSE /\ ProcessItem(q).r = q
    BY <1>4 DEF Stays
  <1>6. ProcessItems(q) = q
    BY <1>1, <1>5, ItemsUnfold
  <1>7. q # Failed
    BY <1>1, FailedIs
  <1> QED BY <1>1, <1>6, <1>7 DEF Whole, Waiting, q

\* A reader between two replies is as good as a new one.
LEMMA FreshHolds ==
  ASSUME NEW r, Fresh(r)
  PROVE  Holds(r, <<>>)
  <1>1. ASSUME NEW c \in Seq(Nat)
        PROVE  Equal(Whole(<<>> \o c), ProcessItems(Started(Feed(r, c))))
    <2>1. <<>> \o c = c
      BY ConcatEmptySeq
    <2> DEFINE x == Started(Feed(NewReader, c))
               y == Started(Feed(r, c))
    <2>2. IsReader(x) /\ Unread(x) = <<>> \o c /\ x.reply = NoReply /\ x.err = "none" /\ x.stack = <<Task(-1)>>
      BY NewReaderIs, FedAndStarted
    <2>3. IsReader(y) /\ Unread(y) = <<>> \o c /\ y.reply = NoReply /\ y.err = "none" /\ y.stack = <<Task(-1)>>
      BY FedAndStarted DEF Fresh
    <2> HIDE DEF x, y
    <2>4. Ahead(x, y, <<>>)
      <3>1. Unread(x) \o <<>> = Unread(x)
        BY <2>2, UnreadBytes, ConcatEmptySeq
      <3> QED BY <2>2, <2>3, <3>1 DEF Ahead
    <2>5. Equal(ProcessItems(x), ProcessItems(y))
      BY <2>2, <2>3, <2>4, ItemsAlike
    <2> QED BY <2>1, <2>5 DEF Whole, x, y
  <1>2. <<>> \in Seq(Nat)
    BY EmptySeq
  <1> QED BY <1>1, <1>2, WholeOfNothing DEF Holds, Fresh

\* Concatenation is associative.
LEMMA Associates == \A s, t, u \in Seq(Nat) : s \o (t \o u) = s \o t \o u
  BY ConcatAssociative, SMTT(30)

\* Where the loop waits, the reader holds what it was given.
LEMMA HoldsOn ==
  ASSUME NEW r, NEW p, Holds(r, p), NEW c \in Seq(Nat), Waiting(Whole(p \o c))
  PROVE  Holds(Discard(ProcessItems(Started(Feed(r, c)))), p \o c)
  <1> DEFINE x == Started(Feed(r, c))
             w == ProcessItems(x)
             v == Discard(w)
  <1>1. IsReader(r) /\ r.err = "none" /\ p \in Seq(Nat) /\ p \o c \in Seq(Nat)
    BY ConcatProperties DEF Holds
  <1>2. IsReader(x) /\ Unread(x) = Unread(r) \o c /\ x.reply = r.reply /\ x.err = "none"
        /\ x.stack = (IF r.stack = <<>> THEN <<Task(-1)>> ELSE r.stack) /\ Rests(x, w)
    BY <1>1, FedAndStarted
  <1>3. Equal(Whole(p \o c), w)
    BY DEF Holds
  <1> HIDE DEF w
  <1>4. w # Failed /\ w.stack # <<>>
    <2>1. w # Failed
      <3>1. CASE Whole(p \o c) = Failed
        BY <3>1 DEF Waiting
      <3>2. CASE Ahead(Whole(p \o c), w, <<>>)
        BY <3>2, FailedIs DEF Waiting, Ahead
      <3> QED BY <1>3, <3>1, <3>2 DEF Equal
    <2>2. w.stack = Whole(p \o c).stack
      BY <1>3, <2>1 DEF Equal, Ahead
    <2> QED BY <2>1, <2>2 DEF Waiting
  <1>5. IsReader(w) /\ w.err = "none"
    BY <1>2, <1>4 DEF Rests
  <1>6. IsReader(v) /\ Unread(v) = Unread(w) /\ v.stack = w.stack /\ v.reply = w.reply /\ v.err = "none"
    BY <1>5, DiscardedReader
  <1> HIDE DEF v, x
  <1>7. ASSUME NEW d \in Seq(Nat)
        PROVE  Equal(Whole(p \o c \o d), ProcessItems(Started(Feed(v, d))))
    <2> DEFINE y == Started(Feed(r, c \o d))
               z == Started(Feed(v, d))
    <2>1. c \o d \in Seq(Nat) /\ p \o (c \o d) = p \o c \o d /\ Unread(r) \o (c \o d) = Unread(r) \o c \o d
      <3>1. c \o d \in Seq(Nat) /\ Unread(r) \in Seq(Nat) /\ p \in Seq(Nat) /\ c \in Seq(Nat) /\ d \in Seq(Nat)
        BY <1>1, UnreadBytes, ConcatProperties
      <3> QED BY <3>1, Associates
    <2>2. Equal(Whole(p \o c \o d), ProcessItems(y))
      BY <2>1 DEF Holds
    <2>3. IsReader(y) /\ Unread(y) = Unread(r) \o (c \o d) /\ y.reply = r.reply /\ y.err = "none"
          /\ y.stack = (IF r.stack = <<>> THEN <<Task(-1)>> ELSE r.stack)
      BY <1>1, <2>1, FedAndStarted
    <2>4. IsReader(z) /\ Unread(z) = Unread(v) \o d /\ z.reply = v.reply /\ z.err = "none"
          /\ z.stack = (IF v.stack = <<>> THEN <<Task(-1)>> ELSE v.stack)
      BY <1>6, FedAndStarted
    <2> HIDE DEF y, z
    <2>5. Ahead(x, y, d)
      BY <1>2, <2>1, <2>3 DEF Ahead
    <2>6. GoesOn(w, ProcessItems(y), d)
      BY <1>2, <2>3, <2>5, ItemsAhead DEF w
    <2>7. Ahead(w, z, d)
      BY <1>4, <1>5, <1>6, <2>4 DEF Ahead
    <2>8. Equal(ProcessItems(y), ProcessItems(z))
      BY <1>4, <2>4, <2>6, <2>7 DEF GoesOn
    <2> QED BY <2>2, <2>8, EqualToo DEF z
  <1>8. Holds(v, p \o c)
    BY <1>1, <1>6, <1>7 DEF Holds
  <1> QED BY <1>8 DEF v, w, x

\* What a call gives, by what a new reader makes of all the bytes: an error,
\* nothing yet, or the reply.
Given(g, s) ==
  /\ Whole(s) = Failed \/ Waiting(Whole(s)) \/ Complete(Whole(s))
  /\ Whole(s) = Failed => g.r = Failed /\ g.reply = NoReply
  /\ Waiting(Whole(s)) => Holds(g.r, s) /\ g.reply = NoReply
  /\ Complete(Whole(s)) =>
       /\ g.reply = Whole(s).reply /\ IsReader(g.r) /\ g.r.err = "none" /\ g.r.stack = <<>>
       /\ Unread(g.r) = Unread(Whole(s))
       /\ Unread(Whole(s)) = <<>> => Fresh(g.r)

\* The outcome of a call depends on all the bytes of the reply, not on the cuts.
LEMMA GetReplyGives ==
  ASSUME NEW r, NEW p, Holds(r, p), NEW c \in Seq(Nat)
  PROVE  Given(GetReply(Feed(r, c)), p \o c)
  <1> DEFINE f == Feed(r, c)
             w == ProcessItems(Started(f))
             v == Discard(w)
             s == p \o c
             g == GetReply(f)
  <1>1. IsReader(r) /\ r.err = "none" /\ p \in Seq(Nat)
    BY DEF Holds
  <1>2. IsReader(f) /\ f.buf = r.buf \o c /\ f.err = "none" /\ f.stack = r.stack
    BY <1>1, FedReader
  <1>3. Rests(Started(f), w) /\ Started(f).err = "none"
    BY <1>1, FedAndStarted
  <1>4. Equal(Whole(s), w)
    BY DEF Holds
  <1>5. /\ Whole(s) = Failed => w = Failed
        /\ Waiting(Whole(s)) => w # Failed /\ w.stack # <<>>
        /\ Complete(Whole(s)) => w # Failed /\ w.stack = <<>>
    <2>1. CASE Whole(s) = Failed /\ w = Failed
      BY <2>1 DEF Waiting, Complete
    <2>2. CASE IsReader(Whole(s)) /\ IsReader(w) /\ Ahead(Whole(s), w, <<>>)
      <3>1. w.stack = Whole(s).stack /\ w.err = Whole(s).err
        BY <2>2 DEF Ahead
      <3>2. Whole(s) = Failed <=> w = Failed
        <4>1. Rests(Started(Feed(NewReader, s)), Whole(s)) /\ Started(Feed(NewReader, s)).err = "none"
          <5>1. s \in Seq(Nat)
            BY <1>1, ConcatProperties
          <5> QED BY <5>1, NewReaderIs, FedAndStarted DEF Whole
        <4>2. (Whole(s) # Failed => Whole(s).err = "none") /\ (w # Failed => w.err = "none")
          BY <1>3, <4>1 DEF Rests
        <4> QED BY <3>1, <4>2, FailedIs
      <3> QED BY <3>1, <3>2 DEF Waiting, Complete
    <2> QED BY <1>4, <2>1, <2>2 DEF Equal
  <1>6. Whole(s) = Failed \/ Waiting(Whole(s)) \/ Complete(Whole(s))
    BY DEF Waiting, Complete
  <1> HIDE DEF w
  <1>7. CASE f.buf = <<>>
    <2>1. r.buf = <<>> /\ c = <<>>
      <3>1. r.buf \in Seq(Nat) /\ r.buf \o c = <<>>
        BY <1>1, <1>2, <1>7 DEF IsReader
      <3> QED BY ONLY <3>1, c \in Seq(Nat), ConcatEqualIffEmpty
    <2>2. Holds(f, p)
      <3>1. ASSUME NEW d \in Seq(Nat) PROVE Feed(f, d) = Feed(r, d)
        <4>1. Feed(r, d) = [r EXCEPT !.buf = r.buf \o d] /\ Feed(f, d) = [f EXCEPT !.buf = f.buf \o d]
          BY <1>1, <1>2 DEF Feed
        <4>2. f = [r EXCEPT !.buf = f.buf]
          BY <1>1, <1>2 DEF Feed
        <4>3. f.buf = r.buf
          BY <1>7, <2>1
        <4> HIDE DEF f
        <4> QED BY <4>1, <4>2, <4>3
      <3>2. \A d \in Seq(Nat) : Equal(Whole(p \o d), ProcessItems(Started(Feed(f, d))))
        <4>1. \A d \in Seq(Nat) : Equal(Whole(p \o d), ProcessItems(Started(Feed(r, d))))
          BY DEF Holds
        <4> HIDE DEF f
        <4> QED BY ONLY <3>1, <4>1, Zenon
      <3>3. p \in Seq(Nat) /\ Waiting(Whole(p))
        BY DEF Holds
      <3> HIDE DEF f
      <3> QED BY <1>2, <3>2, <3>3 DEF Holds
    <2>3. g = [r |-> f, reply |-> NoReply]
      BY <1>7 DEF GetReply
    <2>4. s = p
      BY <1>1, <2>1, ConcatEmptySeq
    <2> HIDE DEF s, g, f
    <2>5. Holds(g.r, s) /\ g.reply = NoReply /\ Waiting(Whole(s))
      BY <2>2, <2>3, <2>4 DEF Holds
    <2>6. Whole(s) # Failed /\ ~Complete(Whole(s))
      BY <2>5 DEF Waiting, Complete
    <2>7. Given(g, s)
      BY <2>5, <2>6 DEF Given
    <2> QED BY <2>7 DEF g, s, f
  <1>8. CASE f.buf # <<>>
    <2>1. g = Emit(v)
      BY <1>2, <1>8 DEF GetReply, w
    <2>2. CASE Whole(s) = Failed
      <3>1. w = Failed
        BY <1>5, <2>2
      <3>2. Failed.pos = 0 /\ DiscardAt \in Nat \ {0} /\ Failed.err = "protocol"
        BY StackAssumption DEF Failed, SetError, NewReader
      <3>3. v = Failed
        BY <3>1, <3>2 DEF Discard
      <3>4. g = [r |-> Failed, reply |-> NoReply]
        BY <2>1, <3>2, <3>3 DEF Emit
      <3> HIDE DEF s, g
      <3>5. g.r = Failed /\ g.reply = NoReply
        BY <3>4
      <3>6. Given(g, s)
        BY <2>2, <3>5 DEF Given, Waiting, Complete
      <3> QED BY <3>6 DEF g, s
    <2>3. CASE Waiting(Whole(s))
      <3>1. w # Failed /\ w.stack # <<>>
        BY <1>5, <2>3
      <3>2. IsReader(w)
        BY <1>3, <3>1 DEF Rests
      <3>3. v.stack = w.stack
        BY <3>2, DiscardedReader
      <3>4. Holds(v, s)
        BY <2>3, HoldsOn DEF w
      <3>5. g = [r |-> v, reply |-> NoReply]
        BY <2>1, <3>1, <3>3 DEF Emit
      <3> HIDE DEF s, g, v
      <3>6. g.r = v /\ g.reply = NoReply
        BY <3>5
      <3>7. Given(g, s)
        BY <2>3, <3>4, <3>6 DEF Given, Waiting, Complete
      <3> QED BY <3>7 DEF g, s
    <2>4. CASE Complete(Whole(s))
      <3>1. w # Failed /\ w.stack = <<>> /\ Whole(s) # Failed
        BY <1>5, <2>4 DEF Complete
      <3>2. IsReader(w) /\ w.err = "none"
        BY <1>3, <3>1 DEF Rests
      <3>3. IsReader(v) /\ Unread(v) = Unread(w) /\ v.stack = <<>> /\ v.reply = w.reply /\ v.err = "none"
        BY <3>1, <3>2, DiscardedReader
      <3>4. w.reply = Whole(s).reply /\ Unread(w) = Unread(Whole(s))
        <4>1. IsReader(Whole(s)) /\ Ahead(Whole(s), w, <<>>)
          BY <1>4, <3>1 DEF Equal
        <4>2. Unread(Whole(s)) \o <<>> = Unread(Whole(s))
          BY <4>1, UnreadBytes, ConcatEmptySeq
        <4> QED BY <4>1, <4>2 DEF Ahead
      <3> DEFINE e == [v EXCEPT !.reply = NoReply]
      <3>5. g = [r |-> e, reply |-> v.reply]
        BY <2>1, <3>3 DEF Emit
      <3> HIDE DEF s, g, v
      <3>6. DOMAIN e = DOMAIN v /\ e.buf = v.buf /\ e.pos = v.pos /\ e.stack = v.stack /\ e.err = v.err /\ e.reply = NoReply
        BY <3>3 DEF IsReader
      <3> HIDE DEF e
      <3>7. IsReader(e) /\ Unread(e) = Unread(v)
        BY <3>3, <3>6 DEF IsReader, Unread
      <3>8. g.r = e /\ g.reply = v.reply
        BY <3>5
      <3>9. Unread(Whole(s)) = <<>> => Fresh(e)
        BY <3>3, <3>4, <3>6, <3>7 DEF Fresh
      <3>10. Given(g, s)
        BY <2>4, <3>1, <3>3, <3>4, <3>6, <3>7, <3>8, <3>9 DEF Given, Waiting, Complete
      <3> QED BY <3>10 DEF g, s
    <2> QED BY <1>6, <2>2, <2>3, <2>4
  <1> QED BY <1>7, <1>8

-----------------------------------------------------------------------------
(* An answer, read in pieces.                                              *)

AnswerKinds == {"status", "error"} \cup {m.kind : m \in Methods}

IsAnswer(a) ==
  /\ a.bytes \in Seq(Nat) /\ a.bytes # <<>>
  /\ a.means = NoReply => Whole(a.bytes) = Failed
  /\ a.means # NoReply =>
       Complete(Whole(a.bytes)) /\ Whole(a.bytes).reply = a.means /\ Unread(Whole(a.bytes)) = <<>>

\* A new reader holds nothing.
LEMMA NewReaderHolds == Fresh(NewReader) /\ Holds(NewReader, <<>>)
  <1>1. Fresh(NewReader)
    BY NewReaderIs DEF Fresh
  <1> QED BY <1>1, FreshHolds

\* The answers of the server are answers in the sense above.
LEMMA AnswersAre ==
  ASSUME NEW kind \in AnswerKinds, NEW a \in Answers[kind]
  PROVE  IsAnswer(a)
  <1> DEFINE g == GetReply(Feed(NewReader, a.bytes))
  <1>1. /\ a.bytes \in Seq(Nat) \ {<<>>}
        /\ a.means = NoReply => g.r.err = "protocol"
        /\ a.means # NoReply => g.r.err = "none" /\ g.reply = a.means /\ Unread(g.r) = <<>>
    BY AnswersAssumption DEF AnswerKinds
  <1>2. Given(GetReply(Feed(NewReader, a.bytes)), <<>> \o a.bytes)
    BY <1>1, NewReaderHolds, GetReplyGives
  <1>3. <<>> \o a.bytes = a.bytes
    BY <1>1, ConcatEmptySeq
  <1>4. Given(g, a.bytes)
    BY <1>2, <1>3
  <1> HIDE DEF g
  <1>5. Waiting(Whole(a.bytes)) => g.r.err = "none" /\ g.reply = NoReply
    BY <1>4 DEF Given, Holds
  <1>6. ASSUME a.means = NoReply PROVE Whole(a.bytes) = Failed
    BY <1>1, <1>4, <1>5, <1>6 DEF Given
  <1>7. ASSUME a.means # NoReply
        PROVE  Complete(Whole(a.bytes)) /\ Whole(a.bytes).reply = a.means /\ Unread(Whole(a.bytes)) = <<>>
    <2>1. Complete(Whole(a.bytes))
      BY <1>1, <1>4, <1>5, <1>7 DEF Given
    <2> QED BY <1>1, <1>4, <1>7, <2>1 DEF Given
  <1> QED BY <1>1, <1>6, <1>7 DEF IsAnswer

\* What a new reader makes of bytes, and of more bytes.
LEMMA WholeGrown ==
  ASSUME NEW s \in Seq(Nat), NEW b \in Seq(Nat)
  PROVE  /\ Rests(Started(Feed(NewReader, s)), Whole(s))
         /\ GoesOn(Whole(s), Whole(s \o b), b)
         /\ Whole(s) # Failed => Whole(s).err = "none"
  <1> DEFINE x == Started(Feed(NewReader, s))
             y == Started(Feed(NewReader, s \o b))
  <1>1. s \o b \in Seq(Nat) /\ <<>> \o s = s /\ <<>> \o (s \o b) = s \o b
    BY ConcatProperties, ConcatEmptySeq
  <1>2. IsReader(x) /\ Unread(x) = <<>> \o s /\ x.reply = NoReply /\ x.err = "none" /\ x.stack = <<Task(-1)>>
        /\ Rests(x, ProcessItems(x))
    BY NewReaderIs, FedAndStarted
  <1>3. IsReader(y) /\ Unread(y) = <<>> \o (s \o b) /\ y.reply = NoReply /\ y.err = "none" /\ y.stack = <<Task(-1)>>
    BY <1>1, NewReaderIs, FedAndStarted
  <1> HIDE DEF x, y
  <1>4. Ahead(x, y, b)
    BY <1>1, <1>2, <1>3 DEF Ahead
  <1>5. GoesOn(ProcessItems(x), ProcessItems(y), b)
    BY <1>2, <1>3, <1>4, ItemsAhead
  <1>6. ProcessItems(x) # Failed => ProcessItems(x).err = "none"
    BY <1>2 DEF Rests
  <1> QED BY <1>2, <1>5, <1>6 DEF Whole, x, y

\* The beginning of an answer is no reply: it leaves the reader waiting, or it
\* is wrong already, as the whole answer is.
LEMMA BeginningOfAnswer ==
  ASSUME NEW a, IsAnswer(a), NEW n \in 0..Len(a.bytes), n # Len(a.bytes)
  PROVE  LET w == Whole(SubSeq(a.bytes, 1, n))
         IN (w = Failed /\ a.means = NoReply) \/ Waiting(w)
  <1> DEFINE s == SubSeq(a.bytes, 1, n)
             b == SubSeq(a.bytes, n + 1, Len(a.bytes))
             w == Whole(s)
             v == Whole(a.bytes)
  <1>1. a.bytes \in Seq(Nat) /\ Len(a.bytes) \in Nat
    BY LenProperties DEF IsAnswer
  <1>2. a.bytes = s \o b /\ s \in Seq(Nat) /\ b \in Seq(Nat) /\ Len(b) = Len(a.bytes) - n
    <2>1. n \in Int /\ n <= Len(a.bytes) /\ 1 \in Nat \ {0}
      BY <1>1
    <2> QED BY <1>1, <2>1, CutAt, PieceOf, RestOf
  <1>3. Len(b) # 0
    BY <1>1, <1>2
  <1> HIDE DEF s, b
  <1>4. GoesOn(w, v, b) /\ (w # Failed => w.err = "none") /\ Rests(Started(Feed(NewReader, s)), w)
    BY <1>2, WholeGrown
  <1> HIDE DEF w, v
  <1>5. CASE w = Failed
    <2>1. v = Failed
      BY <1>4, <1>5 DEF GoesOn
    <2>2. a.means = NoReply
      BY <2>1 DEF IsAnswer, Complete, v
    <2> QED BY <1>5, <2>2 DEF w, s
  <1>6. ASSUME w # Failed, w.stack = <<>> PROVE FALSE
    <2>1. IsReader(v) /\ Unread(v) = Unread(w) \o b /\ v.err = "none"
      BY <1>4, <1>6 DEF GoesOn, Ahead
    <2>2. IsReader(w)
      BY <1>4, <1>6 DEF Rests
    <2>3. v # Failed
      BY <2>1, FailedIs
    <2>4. Unread(v) = <<>>
      BY <2>3 DEF IsAnswer, v
    <2>5. Len(Unread(v)) = Len(Unread(w)) + Len(b) /\ Len(Unread(w)) \in Nat
      BY <1>2, <2>1, <2>2, UnreadBytes, ConcatProperties
    <2> QED BY <1>2, <1>3, <2>4, <2>5, EmptySeq, LenProperties
  <1> QED BY <1>5, <1>6 DEF Waiting, w, s

\* A piece of an answer is read: the answer is wrong, or there is more to
\* come, or this was its end and the reply is the answer.
PieceRead(g, a, n) ==
  \/ g.r = Failed /\ g.reply = NoReply /\ a.means = NoReply
  \/ g.reply = NoReply /\ n < Len(a.bytes) /\ Holds(g.r, SubSeq(a.bytes, 1, n))
  \/ g.reply = a.means /\ a.means # NoReply /\ n = Len(a.bytes) /\ Fresh(g.r)

\* A piece of an answer leaves the reader holding more of it, and the last
\* piece gives what the answer means.
LEMMA PieceOfAnswer ==
  ASSUME NEW a, IsAnswer(a), NEW n \in 0..Len(a.bytes), NEW r, Holds(r, SubSeq(a.bytes, 1, n)),
         NEW k \in 1..Len(a.bytes) - n
  PROVE  PieceRead(GetReply(Feed(r, SubSeq(SubSeq(a.bytes, n + 1, Len(a.bytes)), 1, k))), a, n + k)
  <1> DEFINE p == SubSeq(a.bytes, 1, n)
             b == SubSeq(a.bytes, n + 1, Len(a.bytes))
             c == SubSeq(b, 1, k)
             g == GetReply(Feed(r, c))
             s == SubSeq(a.bytes, 1, n + k)
  <1>1. a.bytes \in Seq(Nat) /\ Len(a.bytes) \in Nat
    BY LenProperties DEF IsAnswer
  <1>2. k \in 0..Len(a.bytes) - n /\ n + k \in 0..Len(a.bytes)
    BY <1>1
  <1>3. s = p \o c
    BY <1>1, <1>2, LongerBeginning
  <1>4. c \in Seq(Nat)
    <2>1. b \in Seq(Nat) /\ Len(b) = Len(a.bytes) - n
      BY <1>1, RestOf
    <2> HIDE DEF b
    <2>2. k \in Int /\ k <= Len(b) /\ 1 \in Nat \ {0}
      BY <1>1, <2>1
    <2> QED BY <2>1, <2>2, PieceOf
  <1>5. Given(g, s)
    BY <1>3, <1>4, GetReplyGives
  <1> HIDE DEF g, c
  <1>6. CASE n + k = Len(a.bytes)
    <2>1. s = a.bytes
      <3>1. 1 \in Nat \ {0} /\ n + k \in Int /\ n + k <= Len(a.bytes)
        BY <1>1, <1>2
      <3>2. /\ s \in Seq(Nat) /\ Len(s) = IF 1 <= n + k THEN n + k - 1 + 1 ELSE 0
            /\ \A i \in 1..n + k - 1 + 1 : s[i] = a.bytes[1 + i - 1]
        BY <1>1, <3>1, PieceOf
      <3> HIDE DEF s
      <3>3. Len(s) = Len(a.bytes)
        BY <1>1, <1>2, <1>6, <3>2
      <3>4. \A i \in 1..Len(s) : i \in 1..n + k - 1 + 1 /\ 1 + i - 1 = i
        BY <1>1, <1>2, <1>6, <3>3
      <3>5. \A i \in 1..Len(s) : s[i] = a.bytes[i]
        BY <3>2, <3>4
      <3> QED BY <1>1, <3>2, <3>3, <3>5, SeqEqual
    <2>2. CASE a.means = NoReply
      BY <1>5, <2>1, <2>2 DEF IsAnswer, Given, PieceRead, g, c
    <2>3. CASE a.means # NoReply
      <3>1. g.reply = a.means /\ Fresh(g.r)
        BY <1>5, <2>1, <2>3 DEF IsAnswer, Given
      <3> QED BY <1>6, <2>3, <3>1 DEF PieceRead, g, c
    <2> QED BY <2>2, <2>3
  <1>7. CASE n + k # Len(a.bytes)
    <2>1. (Whole(s) = Failed /\ a.means = NoReply) \/ Waiting(Whole(s))
      BY <1>2, <1>7, BeginningOfAnswer
    <2>2. n + k < Len(a.bytes)
      BY <1>1, <1>2, <1>7
    <2> HIDE DEF s
    <2>3. (g.r = Failed /\ g.reply = NoReply /\ a.means = NoReply) \/ (g.reply = NoReply /\ Holds(g.r, s))
      BY <1>5, <2>1 DEF Given
    <2> QED BY <2>2, <2>3 DEF PieceRead, g, c, s
  <1> QED BY <1>6, <1>7

\* What is alike waits alike, and holds alike.
LEMMA WaitingToo ==
  ASSUME NEW w, NEW x, NEW s, Rests(x, w), x.err = "none", Equal(Whole(s), w), Waiting(Whole(s))
  PROVE  Waiting(w)
  <1>1. w # Failed
    <2>1. ASSUME w = Failed, Ahead(Whole(s), w, <<>>) PROVE FALSE
      BY <2>1, FailedIs DEF Ahead, Waiting
    <2> QED BY <2>1 DEF Equal, Waiting
  <1> QED BY <1>1 DEF Equal, Ahead, Waiting

\* What a reader holds, an equal one holds.
LEMMA HoldsToo ==
  ASSUME NEW r, NEW p, Holds(r, p), NEW q, IsReader(q), q.err = "none", Ahead(r, q, <<>>)
  PROVE  Holds(q, p)
  <1>1. IsReader(r) /\ r.err = "none"
    BY DEF Holds
  <1>2. ASSUME NEW c \in Seq(Nat)
        PROVE  Equal(Whole(p \o c), ProcessItems(Started(Feed(q, c))))
    <2> DEFINE x == Started(Feed(r, c))
               y == Started(Feed(q, c))
    <2>1. IsReader(x) /\ Unread(x) = Unread(r) \o c /\ x.reply = r.reply /\ x.err = "none"
          /\ x.stack = (IF r.stack = <<>> THEN <<Task(-1)>> ELSE r.stack)
      BY <1>1, FedAndStarted
    <2>2. IsReader(y) /\ Unread(y) = Unread(q) \o c /\ y.reply = q.reply /\ y.err = "none"
          /\ y.stack = (IF q.stack = <<>> THEN <<Task(-1)>> ELSE q.stack)
      BY FedAndStarted
    <2> HIDE DEF x, y
    <2>3. Unread(q) = Unread(r) /\ Unread(x) \o <<>> = Unread(x)
      BY <1>1, <2>1, UnreadBytes, ConcatEmptySeq DEF Ahead
    <2>4. Ahead(x, y, <<>>)
      BY <2>1, <2>2, <2>3 DEF Ahead
    <2>5. Equal(ProcessItems(x), ProcessItems(y))
      BY <2>1, <2>2, <2>4, ItemsAlike
    <2>6. Equal(Whole(p \o c), ProcessItems(x))
      BY DEF Holds, x
    <2> QED BY <2>5, <2>6, EqualToo DEF y
  <1>3. p \in Seq(Nat) /\ Waiting(Whole(p))
    BY DEF Holds
  <1> QED BY <1>2, <1>3 DEF Holds

\* A reader that is looked at without new bytes.
LEMMA NothingNew ==
  ASSUME NEW r, NEW p, Holds(r, p)
  PROVE  GetReply(r).reply = NoReply /\ Holds(GetReply(r).r, p)
  <1>1. IsReader(r) /\ r.err = "none" /\ p \in Seq(Nat) /\ Waiting(Whole(p))
    BY DEF Holds
  <1>2. <<>> \in Seq(Nat) /\ p \o <<>> = p
    BY <1>1, EmptySeq, ConcatEmptySeq
  <1>3. CASE r.buf = <<>>
    <2>1. GetReply(r) = [r |-> r, reply |-> NoReply]
      BY <1>3 DEF GetReply
    <2> QED BY <2>1
  <1>4. CASE r.buf # <<>>
    <2> DEFINE f == Feed(r, <<>>)
               x == ProcessItems(Started(f))
               w == ProcessItems(Started(r))
    <2>1. /\ IsReader(Started(f)) /\ Unread(Started(f)) = Unread(r) \o <<>> /\ Started(f).reply = r.reply
          /\ Started(f).err = "none" /\ Started(f).stack = (IF r.stack = <<>> THEN <<Task(-1)>> ELSE r.stack)
          /\ Rests(Started(f), x)
      BY <1>1, <1>2, FedAndStarted
    <2>2. /\ IsReader(Started(r)) /\ Unread(Started(r)) = Unread(r) /\ Started(r).reply = r.reply
          /\ Started(r).err = "none" /\ Started(r).stack = (IF r.stack = <<>> THEN <<Task(-1)>> ELSE r.stack)
          /\ Rests(Started(r), w)
      BY <1>1, StartedReader, ItemsRest
    <2>3. Unread(r) \o <<>> = Unread(r)
      BY <1>1, UnreadBytes, ConcatEmptySeq
    <2>4. Ahead(Started(f), Started(r), <<>>)
      BY <2>1, <2>2, <2>3 DEF Ahead
    <2>5. Equal(x, w)
      BY <2>1, <2>2, <2>4, ItemsAlike
    <2>6. Equal(Whole(p), x)
      <3>1. Equal(Whole(p \o <<>>), x)
        BY <1>2 DEF Holds
      <3> QED BY <1>2, <3>1
    <2>7. Holds(Discard(x), p)
      <3>1. Waiting(Whole(p \o <<>>))
        BY <1>1, <1>2
      <3>2. Holds(Discard(x), p \o <<>>)
        BY <1>2, <3>1, HoldsOn
      <3> QED BY <1>2, <3>2
    <2>8. Equal(Whole(p), w)
      BY <2>5, <2>6, EqualToo
    <2> HIDE DEF x, w, f
    <2>9. Waiting(x) /\ Waiting(w)
      BY <1>1, <2>1, <2>2, <2>6, <2>8, WaitingToo
    <2>10. IsReader(x) /\ x.err = "none" /\ IsReader(w) /\ w.err = "none"
      BY <2>1, <2>2, <2>9 DEF Rests, Waiting
    <2>11. Ahead(x, w, <<>>)
      BY <2>5, <2>9 DEF Equal, Waiting
    <2> DEFINE y == Discard(x)
               v == Discard(w)
    <2>12. IsReader(y) /\ Unread(y) = Unread(x) /\ y.stack = x.stack /\ y.reply = x.reply /\ y.err = "none"
      BY <2>10, DiscardedReader
    <2>13. IsReader(v) /\ Unread(v) = Unread(w) /\ v.stack = w.stack /\ v.reply = w.reply /\ v.err = "none"
      BY <2>10, DiscardedReader
    <2> HIDE DEF y, v
    <2>14. Ahead(y, v, <<>>)
      BY <2>11, <2>12, <2>13 DEF Ahead
    <2>15. Holds(v, p)
      BY <2>7, <2>13, <2>14, HoldsToo DEF y
    <2>16. GetReply(r) = Emit(v)
      BY <1>1, <1>4 DEF GetReply, v, w
    <2>17. Emit(v) = [r |-> v, reply |-> NoReply]
      BY <2>9, <2>13 DEF Emit, Waiting
    <2> QED BY <2>15, <2>16, <2>17
  <1> QED BY <1>3, <1>4

\* Where the stream is cut does not matter: a reader that is given it in pieces
\* ends every call as a new reader that is given all of it at once, with the
\* same reply and the same error, as long as the pieces before left it in the
\* middle of a reply (redisReaderFeed, redisReaderGetReply).
THEOREM CutsDoNotMatter ==
  ASSUME NEW n \in Nat \ {0}, NEW piece, NEW all, NEW r,
         all[0] = <<>>, \A i \in 1..n : piece[i] \in Seq(Nat) /\ all[i] = all[i - 1] \o piece[i],
         r[0] = NewReader, \A i \in 1..n : r[i] = GetReply(Feed(r[i - 1], piece[i])).r,
         \A i \in 1..n - 1 : r[i].err = "none" /\ (r[i].stack # <<>> \/ all[i] = <<>>)
  PROVE  LET last == GetReply(Feed(r[n - 1], piece[n]))
             once == GetReply(Feed(NewReader, all[n]))
         IN last.reply = once.reply /\ last.r.err = once.r.err
  <1> DEFINE N == {i \in 0..n - 1 : ~Holds(r[i], all[i])}
             last == GetReply(Feed(r[n - 1], piece[n]))
             once == GetReply(Feed(NewReader, all[n]))
  <1>1. ASSUME NEW i \in 1..n, Holds(r[i - 1], all[i - 1])
        PROVE  Given(GetReply(Feed(r[i - 1], piece[i])), all[i])
    <2>1. piece[i] \in Seq(Nat) /\ all[i] = all[i - 1] \o piece[i]
      OBVIOUS
    <2>2. Given(GetReply(Feed(r[i - 1], piece[i])), all[i - 1] \o piece[i])
      BY <1>1, <2>1, GetReplyGives
    <2> QED BY <2>1, <2>2
  <1>2. N = {}
    <2>1. SUFFICES ASSUME N # {} PROVE FALSE
      OBVIOUS
    <2>2. N \subseteq Nat
      OBVIOUS
    <2>3. PICK i \in N : \A j \in N : i <= j
      BY <2>1, <2>2, Least
    <2>4. i # 0
      BY <2>3, NewReaderHolds
    <2>5. i \in 1..n - 1 /\ i \in 1..n /\ i - 1 \in 0..n - 1 /\ ~(i <= i - 1)
      BY <2>3, <2>4
    <2>6. Holds(r[i - 1], all[i - 1])
      BY <2>3, <2>5
    <2>7. Given(GetReply(Feed(r[i - 1], piece[i])), all[i])
      BY <1>1, <2>5, <2>6
    <2>8. r[i] = GetReply(Feed(r[i - 1], piece[i])).r
      BY <2>5
    <2>9. r[i].err = "none" /\ (r[i].stack # <<>> \/ all[i] = <<>>)
      BY <2>5
    <2> DEFINE g == GetReply(Feed(r[i - 1], piece[i]))
               s == all[i]
    <2> HIDE DEF g, s
    <2>10. Whole(s) # Failed
      BY <2>7, <2>8, <2>9, FailedIs DEF Given, g, s
    <2>11. ~Complete(Whole(s))
      <3>1. ASSUME Complete(Whole(s)) PROVE FALSE
        <4>1. g.r.stack = <<>>
          BY <2>7, <3>1 DEF Given, g, s
        <4>2. s = <<>>
          BY <2>8, <2>9, <4>1 DEF g, s
        <4> QED BY <3>1, <4>2, WholeOfNothing DEF Complete, Waiting
      <3> QED BY <3>1
    <2>12. Holds(r[i], all[i])
      BY <2>7, <2>8, <2>10, <2>11 DEF Given, g, s
    <2> QED BY <2>3, <2>12
  <1>3. n - 1 \in 0..n - 1 /\ n \in 1..n
    OBVIOUS
  <1>4. Holds(r[n - 1], all[n - 1])
    BY <1>2, <1>3
  <1>5. Given(last, all[n])
    BY <1>1, <1>3, <1>4
  <1>6. Given(once, all[n])
    <2>1. all[n] \in Seq(Nat)
      <3>1. all[n - 1] \in Seq(Nat) /\ piece[n] \in Seq(Nat) /\ all[n] = all[n - 1] \o piece[n]
        BY <1>3, <1>4 DEF Holds
      <3> QED BY <3>1, ConcatProperties
    <2>2. Given(once, <<>> \o all[n]) /\ <<>> \o all[n] = all[n]
      BY <2>1, NewReaderHolds, GetReplyGives, ConcatEmptySeq
    <2> QED BY <2>2
  <1> HIDE DEF last, once
  <1>7. last.reply = once.reply /\ last.r.err = once.r.err
    BY <1>5, <1>6 DEF Given, Holds
  <1> QED BY <1>7 DEF last, once

-----------------------------------------------------------------------------
(* The inductive invariant of the connection.                              *)

Bytes == Encode(Command.argv)
Quiet == srv.in = <<>> /\ srv.out = <<>> /\ ctx.obuf = <<>> /\ Holds(ctx.reader, <<>>)

\* n bytes of the command are written, and lie at a server that is there.
Writing ==
  /\ srv.out = <<>> /\ Holds(ctx.reader, <<>>)
  /\ \E n \in 0..Len(Bytes) - 1 :
       /\ ctx.obuf = SubSeq(Bytes, n + 1, Len(Bytes))
       /\ srv.in = IF srv.up THEN SubSeq(Bytes, 1, n) ELSE <<>>

\* The command lies at the server, or n bytes of the answer are read, or the
\* server has closed before it answered.
Asked == srv.up /\ srv.in = Bytes /\ srv.out = <<>> /\ Holds(ctx.reader, <<>>)
AnswerRead(a, n) ==
  /\ answered = [argv |-> Command.argv, means |-> a.means]
  /\ Holds(ctx.reader, SubSeq(a.bytes, 1, n))
  /\ srv.out = SubSeq(a.bytes, n + 1, Len(a.bytes)) \/ (srv.out = <<>> /\ ~srv.up)
Answering == srv.in = <<>> /\ \E kind \in AnswerKinds : \E a \in Answers[kind] : \E n \in 0..Len(a.bytes) - 1 : AnswerRead(a, n)
Closed == ~srv.up /\ srv.in = <<>> /\ srv.out = <<>> /\ Holds(ctx.reader, <<>>)
Reading == ctx.obuf = <<>> /\ (Asked \/ Answering \/ Closed)

Busy == {"issue", "write", "read", "deliver"}
CallInv ==
  /\ DOMAIN ctx = DOMAIN NoContext /\ DOMAIN srv = DOMAIN NoServer
  /\ where \in Busy \cup {"idle", "crashed", "killed"} /\ stage \in {"auth", "select", "command"}
  /\ where \in Busy => call \in Methods /\ ctx.alive
  /\ where \notin {"idle", "crashed"} => returned = Nothing

ServerInv ==
  /\ srv.up \in BOOLEAN
  /\ ~srv.up => srv.in = <<>>
  /\ srv.reset => ~srv.up
  /\ ctx.alive /\ ~srv.up => srv.quit
  /\ ~ctx.alive => ~srv.up

\* A context with an error; it may be kept for the next call.
ContextInv ==
  /\ ctx.err \in {"none", "protocol", "io", "eof"}
  /\ ctx.alive => ctx.blocking
  /\ ctx.alive /\ ctx.err # "none" => srv.in = <<>>
  /\ ctx.alive /\ ctx.err = "protocol" => ctx.reader.err = "protocol" /\ answered.means = NoReply
  /\ ctx.alive /\ ctx.err \in {"io", "eof"} => srv.quit /\ \E p \in Seq(Nat) : Holds(ctx.reader, p)

StepInv ==
  /\ ctx.alive /\ ctx.err = "none" /\ where \in {"idle", "issue", "deliver", "crashed"} => Quiet
  /\ where = "write" => ctx.err # "protocol"
  /\ where = "write" /\ ctx.err = "none" => Writing
  /\ where = "read" => ctx.err = "none" /\ Reading
  /\ where = "deliver" /\ reply = NoReply => ctx.err # "none"
  /\ where = "deliver" /\ reply # NoReply =>
       ctx.err = "none" /\ answered = [argv |-> Command.argv, means |-> reply]
  /\ where = "killed" => ~srv.up

OutcomeInv ==
  /\ returned.why = "protocol" => answered.means = NoReply
  /\ returned.why \in {"io", "eof"} => srv.quit
  /\ ReplyIsMine

ClientInv == CallInv /\ ServerInv /\ ContextInv /\ StepInv /\ OutcomeInv

\* The command of the stage.
LEMMA CommandIs ==
  ASSUME stage \in {"auth", "select", "command"}, call \in Methods
  PROVE  /\ Command.ok /\ (stage = "command" => Command.argv = call.argv)
         /\ Bytes \in Seq(Nat) /\ Len(Bytes) \in Nat \ {0}
         /\ \A n \in 0..Len(Bytes) - 1 : ServerReads(SubSeq(Bytes, 1, n)).used = 0
         /\ ServerReads(Bytes).used = Len(Bytes) /\ ServerReads(Bytes).argv = Command.argv
  <1> DEFINE c == CommandAt(stage, call)
             b == Encode(c.argv)
  <1>1. /\ c.ok /\ (stage = "command" => c.argv = call.argv)
        /\ b \in Seq(Nat) \ {<<>>}
        /\ \A n \in 0..Len(b) - 1 : ServerReads(SubSeq(b, 1, n)).used = 0
        /\ ServerReads(b) = [used |-> Len(b), argv |-> c.argv]
    BY CommandsAssumption
  <1> HIDE DEF c, b
  <1>2. Len(b) \in Nat \ {0}
    BY <1>1, EmptySeq, LenProperties
  <1>3. ServerReads(b).used = Len(b) /\ ServerReads(b).argv = c.argv
    BY <1>1
  <1>4. Command = c /\ Bytes = b
    BY DEF Command, Bytes, b, c
  <1> QED BY <1>1, <1>2, <1>3, <1>4

\* The server gives every command an answer of a known kind.
LEMMA KindsAre == \A argv : Kinds(argv) \subseteq AnswerKinds
  BY DEF Kinds, AnswerKinds

\* What redisGetReplyFromReader leaves in the context.
LEMMA FromReaderIs ==
  ASSUME NEW c, DOMAIN c = DOMAIN NoContext, NEW next
  PROVE  LET step == FromReader(c, next)
             got == GetReply(c.reader)
         IN /\ DOMAIN step.ctx = DOMAIN NoContext
            /\ step.ctx.alive = c.alive /\ step.ctx.blocking = c.blocking /\ step.ctx.obuf = c.obuf
            /\ step.ctx.reader = got.r /\ step.reply = got.reply
            /\ step.ctx.err = (IF got.r.err = "none" THEN c.err ELSE got.r.err)
            /\ step.where = (IF got.r.err # "none" \/ got.reply # NoReply THEN "deliver" ELSE next)
  BY DEF FromReader, NoContext

\* A connection attempt that ends without an error ends on a blocking socket.
LEMMA ConnectedIs ==
  ASSUME NEW resolves, NEW fails, NEW c, c = ConnectWithTimeout(resolves, fails)
  PROVE  /\ DOMAIN c = DOMAIN NoContext /\ c.alive = TRUE /\ c.obuf = <<>> /\ c.reader = NewReader
         /\ c.err = "none" => c.blocking = TRUE
  <1> DEFINE Like(x) == DOMAIN x = DOMAIN NoContext /\ x.alive = TRUE /\ x.obuf = <<>> /\ x.reader = NewReader
  <1>1. Like(RedisContextInit)
    BY DEF RedisContextInit, NoContext
  <1>2. ASSUME NEW x, Like(x), NEW e PROVE Like(RedisSetError(x, e)) /\ RedisSetError(x, e).err = e
    BY <1>2 DEF RedisSetError, NoContext
  <1>3. ASSUME NEW x, Like(x) PROVE Like(Broken(x)) /\ Broken(x).err = "io"
    <2> DEFINE y == RedisSetError(x, "io")
    <2>1. Like(y) /\ y.err = "io"
      BY <1>2, <1>3
    <2> HIDE DEF y
    <2>2. Broken(x) = [y EXCEPT !.fd = "closed"]
      BY DEF Broken, CloseFd, y
    <2> QED BY <2>1, <2>2 DEF NoContext
  <1>4. ASSUME NEW x, Like(x), NEW b, NEW f \in BOOLEAN
        PROVE  /\ Like(SetBlocking(x, b, f))
               /\ SetBlocking(x, b, f).err = "none" => SetBlocking(x, b, f).blocking = b
    <2>1. CASE f
      BY <1>3, <1>4, <2>1 DEF SetBlocking
    <2>2. CASE ~f
      BY <1>4, <2>2 DEF SetBlocking, NoContext
    <2> QED BY <2>1, <2>2
  <1>5. ASSUME NEW x, Like(x), NEW at PROVE Like(WaitReady(x, at))
    BY <1>2, <1>3, <1>5 DEF WaitReady, CheckSocketError
  <1>6. ASSUME NEW x, Like(x), NEW at
        PROVE  /\ Like(SetTcpNoDelay(x, at))
               /\ SetTcpNoDelay(x, at).err = "none" => SetTcpNoDelay(x, at) = x
    BY <1>3, <1>6 DEF SetTcpNoDelay
  <1>7. ASSUME NEW x, Like(x), NEW at
        PROVE  Like(TryAddress(x, at)) /\ (TryAddress(x, at).err = "none" => TryAddress(x, at).blocking = TRUE)
    <2> DEFINE opened == SetBlocking([x EXCEPT !.fd = "open"], FALSE, at = "nonblock")
               ready == Unless(opened, WaitReady(opened, at))
               blocking == Unless(ready, SetBlocking(ready, TRUE, at = "block"))
    <2>1. Like([x EXCEPT !.fd = "open"])
      BY <1>7 DEF NoContext
    <2>2. Like(opened)
      BY <1>4, <2>1
    <2> HIDE DEF opened
    <2>3. Like(ready)
      BY <1>5, <2>2 DEF Unless
    <2> HIDE DEF ready
    <2>4. Like(blocking) /\ (blocking.err = "none" => blocking.blocking = TRUE)
      BY <1>4, <2>3 DEF Unless
    <2> HIDE DEF blocking
    <2>5. TryAddress(x, at) = Unless(blocking, SetTcpNoDelay(blocking, at))
      BY DEF TryAddress, opened, ready, blocking
    <2> QED BY <1>6, <2>4, <2>5 DEF Unless
  <1> HIDE DEF Like
  <1>8. Like(c) /\ (c.err = "none" => c.blocking = TRUE)
    <2>1. \/ \E e \in {"io", "other"} : c = RedisSetError(RedisContextInit, e)
          \/ \E at : c = TryAddress(RedisContextInit, at)
      BY DEF ConnectWithTimeout, ConnectTcp
    <2>2. ASSUME NEW e \in {"io", "other"}, c = RedisSetError(RedisContextInit, e)
          PROVE  Like(c) /\ (c.err = "none" => c.blocking = TRUE)
      BY <1>1, <1>2, <2>2
    <2>3. ASSUME NEW at, c = TryAddress(RedisContextInit, at)
          PROVE  Like(c) /\ (c.err = "none" => c.blocking = TRUE)
      BY <1>1, <1>7, <2>3
    <2> QED BY <2>1, <2>2, <2>3
  <1> QED BY <1>8 DEF Like

\* What a method returns when it returns nothing.
LEMMA NothingIs == /\ Nothing.reply = NoReply /\ Nothing.why = "none" /\ NoAnswer.means = NoReply
                   /\ \A e : [Nothing EXCEPT !.why = e].reply = NoReply /\ [Nothing EXCEPT !.why = e].why = e
  BY DEF Nothing, NoAnswer

\* All of a sequence, and none of it.
LEMMA WholePiece ==
  ASSUME NEW X, NEW s \in Seq(X)
  PROVE  s = SubSeq(s, 0 + 1, Len(s)) /\ SubSeq(s, 1, 0) = <<>>
  <1> DEFINE v == SubSeq(s, 0 + 1, Len(s))
             e == SubSeq(s, 1, 0)
  <1>1. Len(s) \in Nat /\ 0 + 1 \in Nat \ {0} /\ 1 \in Nat \ {0} /\ 0 \in Int /\ Len(s) \in Int /\ 0 + 1 = 1
    BY LenProperties
  <1>2. /\ v \in Seq(X) /\ Len(v) = IF 1 <= Len(s) THEN Len(s) - 1 + 1 ELSE 0
        /\ \A i \in 1..Len(s) - 1 + 1 : v[i] = s[1 + i - 1]
    BY <1>1, PieceOf
  <1>3. e \in Seq(X) /\ Len(e) = IF 1 <= 0 THEN 0 - 1 + 1 ELSE 0
    BY <1>1, PieceOf
  <1> HIDE DEF v, e
  <1>4. Len(e) = 0
    BY <1>3
  <1>5. Len(v) = Len(s) /\ \A i \in 1..Len(v) : i \in 1..Len(s) - 1 + 1 /\ 1 + i - 1 = i
    BY <1>1, <1>2
  <1>6. v = s
    <2>1. \A i \in 1..Len(v) : v[i] = s[i]
      BY <1>2, <1>5
    <2> QED BY <1>2, <1>5, <2>1, SeqEqual
  <1>7. e = <<>>
    BY <1>3, <1>4, EmptySeq
  <1> QED BY <1>6, <1>7 DEF v, e

\* A method is called.
LEMMA CallWithContextKeeps ==
  ASSUME ClientInv, NEW m \in Methods, CallWithContext(m) PROVE ClientInv'
  <1>0. CallInv /\ ServerInv /\ ContextInv /\ StepInv /\ OutcomeInv
    BY DEF ClientInv
  <1>1. /\ where = "idle" /\ ctx.alive /\ where' = "issue" /\ stage' = "command" /\ call' = m
        /\ answered' = NoAnswer /\ returned' = Nothing /\ ctx' = ctx /\ srv' = srv /\ reply' = reply
    BY DEF CallWithContext, Enter
  <1>2. CallInv'
    BY <1>0, <1>1 DEF CallInv, Busy
  <1>3. ServerInv'
    BY <1>0, <1>1 DEF ServerInv
  <1>4. ContextInv'
    BY <1>0, <1>1, NothingIs DEF ContextInv
  <1>5. StepInv'
    BY <1>0, <1>1 DEF StepInv, Quiet
  <1>6. OutcomeInv'
    BY <1>1, NothingIs DEF OutcomeInv, ReplyIsMine
  <1> QED BY <1>2, <1>3, <1>4, <1>5, <1>6 DEF ClientInv

\* A call within a second of a failed attempt keeps the invariant,
LEMMA CallTooSoonKeeps ==
  ASSUME ClientInv, NEW m \in Methods, CallTooSoon(m) PROVE ClientInv'
  <1>0. CallInv /\ ServerInv /\ ContextInv /\ StepInv /\ OutcomeInv
    BY DEF ClientInv
  <1>1. /\ where = "idle" /\ ~ctx.alive /\ where' = "idle" /\ stage' = stage
        /\ answered' = NoAnswer /\ returned' = [Nothing EXCEPT !.why = "init"] /\ ctx' = ctx /\ srv' = srv /\ reply' = reply
    BY DEF CallTooSoon, Enter, GiveUp
  <1>2. CallInv'
    BY <1>0, <1>1 DEF CallInv, Busy
  <1>3. ServerInv' /\ ContextInv' /\ StepInv'
    BY <1>0, <1>1 DEF ServerInv, ContextInv, StepInv
  <1>4. OutcomeInv'
    BY <1>1, NothingIs DEF OutcomeInv, ReplyIsMine
  <1> QED BY <1>2, <1>3, <1>4 DEF ClientInv

\* and one that connects.
LEMMA CallConnectsKeeps ==
  ASSUME ClientInv, NEW m \in Methods, CallConnects(m) PROVE ClientInv'
  <1>0. CallInv /\ ServerInv /\ ContextInv /\ StepInv /\ OutcomeInv
    BY DEF ClientInv
  <1>1. /\ where = "idle" /\ ~ctx.alive /\ call' = m /\ answered' = NoAnswer /\ reply' = reply
    BY DEF CallConnects, Enter
  <1>2. PICK resolves \in BOOLEAN, fails \in [1..Addresses -> FailurePoints] :
          LET c == ConnectWithTimeout(resolves, fails)
          IN \/ /\ c.err # "none"
                /\ ctx' = NoContext /\ GiveUp /\ UNCHANGED <<stage, srv>>
             \/ /\ c.err = "none"
                /\ ctx' = c /\ srv' = [NoServer EXCEPT !.up = TRUE]
                /\ where' = "issue" /\ returned' = Nothing
                /\ stage' = IF Password = <<>> THEN "select" ELSE "auth"
    BY DEF CallConnects
  <1> DEFINE c == ConnectWithTimeout(resolves, fails)
  <1>3. /\ DOMAIN c = DOMAIN NoContext /\ c.alive = TRUE /\ c.obuf = <<>> /\ c.reader = NewReader
        /\ c.err = "none" => c.blocking = TRUE
    BY ConnectedIs
  <1> HIDE DEF c
  <1>4. CASE ctx' = NoContext /\ GiveUp /\ stage' = stage /\ srv' = srv
    <2>1. where' = "idle" /\ returned' = [Nothing EXCEPT !.why = "init"]
      BY <1>4 DEF GiveUp
    <2>2. NoContext.alive = FALSE /\ NoContext.err = "none"
      BY DEF NoContext
    <2>3. CallInv'
      BY <1>0, <1>4, <2>1 DEF CallInv, Busy
    <2>4. ServerInv' /\ ContextInv' /\ StepInv'
      BY <1>0, <1>1, <1>4, <2>1, <2>2 DEF ServerInv, ContextInv, StepInv
    <2>5. OutcomeInv'
      BY <2>1, NothingIs DEF OutcomeInv, ReplyIsMine
    <2> QED BY <2>3, <2>4, <2>5 DEF ClientInv
  <1>5. CASE /\ c.err = "none"
             /\ ctx' = c /\ srv' = [NoServer EXCEPT !.up = TRUE]
             /\ where' = "issue" /\ returned' = Nothing
             /\ stage' = IF Password = <<>> THEN "select" ELSE "auth"
    <2>1. /\ DOMAIN srv' = DOMAIN NoServer /\ srv'.up = TRUE /\ srv'.quit = FALSE /\ srv'.reset = FALSE
          /\ srv'.in = <<>> /\ srv'.out = <<>>
      BY <1>5 DEF NoServer
    <2>2. CallInv'
      BY <1>1, <1>3, <1>5, <2>1 DEF CallInv, Busy
    <2>3. ServerInv'
      BY <1>3, <1>5, <2>1 DEF ServerInv
    <2>4. ContextInv'
      BY <1>3, <1>5 DEF ContextInv
    <2>5. Quiet'
      BY <1>3, <1>5, <2>1, NewReaderHolds DEF Quiet
    <2>6. StepInv'
      BY <1>5, <2>5 DEF StepInv
    <2>7. OutcomeInv'
      BY <1>5, NothingIs DEF OutcomeInv, ReplyIsMine
    <2> QED BY <2>2, <2>3, <2>4, <2>6, <2>7 DEF ClientInv
  <1> QED BY <1>2, <1>4, <1>5 DEF c

\* The command is formatted; the reader has nothing to say yet.
LEMMA IssueKeeps ==
  ASSUME ClientInv, Issue PROVE ClientInv'
  <1>0. CallInv /\ ServerInv /\ ContextInv /\ StepInv /\ OutcomeInv
    BY DEF ClientInv
  <1>1. where = "issue" /\ call \in Methods /\ ctx.alive /\ returned = Nothing /\ DOMAIN ctx = DOMAIN NoContext
        /\ stage \in {"auth", "select", "command"}
    BY <1>0 DEF Issue, CallInv, Busy
  <1>2. Command.ok /\ Bytes \in Seq(Nat) /\ Len(Bytes) \in Nat \ {0}
    BY <1>1, CommandIs
  <1> DEFINE c == [ctx EXCEPT !.obuf = @ \o Bytes]
             step == FromReader(c, "write")
             got == GetReply(ctx.reader)
  <1>3. /\ ctx' = step.ctx /\ reply' = step.reply /\ where' = step.where
        /\ stage' = stage /\ call' = call /\ returned' = returned /\ srv' = srv /\ answered' = answered
    BY <1>2 DEF Issue, Goto, Bytes
  <1>4. /\ DOMAIN c = DOMAIN NoContext /\ c.alive = ctx.alive /\ c.blocking = ctx.blocking
        /\ c.obuf = ctx.obuf \o Bytes /\ c.reader = ctx.reader /\ c.err = ctx.err
    BY <1>1 DEF NoContext
  <1> HIDE DEF c
  <1>5. /\ DOMAIN step.ctx = DOMAIN NoContext
        /\ step.ctx.alive = c.alive /\ step.ctx.blocking = c.blocking /\ step.ctx.obuf = c.obuf
        /\ step.ctx.reader = GetReply(c.reader).r /\ step.reply = GetReply(c.reader).reply
        /\ step.ctx.err = (IF GetReply(c.reader).r.err = "none" THEN c.err ELSE GetReply(c.reader).r.err)
        /\ step.where = (IF GetReply(c.reader).r.err # "none" \/ GetReply(c.reader).reply # NoReply THEN "deliver" ELSE "write")
    BY <1>4, FromReaderIs
  <1> HIDE DEF step
  <1>6. /\ DOMAIN ctx' = DOMAIN NoContext /\ ctx'.alive = ctx.alive /\ ctx'.blocking = ctx.blocking
        /\ ctx'.obuf = ctx.obuf \o Bytes /\ ctx'.reader = got.r /\ reply' = got.reply
        /\ ctx'.err = (IF got.r.err = "none" THEN ctx.err ELSE got.r.err)
        /\ where' = (IF got.r.err # "none" \/ got.reply # NoReply THEN "deliver" ELSE "write")
    BY <1>3, <1>4, <1>5
  <1> HIDE DEF got
  <1>7. CallInv'
    BY <1>0, <1>1, <1>3, <1>6 DEF CallInv, Busy
  <1>8. ServerInv'
    BY <1>0, <1>3, <1>6 DEF ServerInv
  <1>9. OutcomeInv'
    BY <1>1, <1>3, NothingIs DEF OutcomeInv, ReplyIsMine
  <1>10. CASE ctx.err = "none"
    <2>1. Quiet
      BY <1>0, <1>1, <1>10 DEF StepInv
    <2>2. Holds(got.r, <<>>) /\ got.reply = NoReply
      BY <2>1, NothingNew DEF Quiet, got
    <2>3. ctx'.err = "none" /\ where' = "write" /\ ctx'.obuf = Bytes
      BY <1>2, <1>6, <1>10, <2>1, <2>2, ConcatEmptySeq DEF Holds, Quiet
    <2>4. ContextInv'
      BY <1>0, <1>1, <1>3, <1>6, <2>3 DEF ContextInv
    <2>5. Writing'
      <3>1. Bytes' = Bytes
        BY <1>3 DEF Bytes, Command
      <3>2. 0 \in 0..Len(Bytes) - 1
        BY <1>2
      <3>3. Bytes = SubSeq(Bytes, 0 + 1, Len(Bytes)) /\ SubSeq(Bytes, 1, 0) = <<>>
        BY <1>2, WholePiece
      <3>4. srv'.in = <<>> /\ srv'.out = <<>>
        BY <1>3, <2>1 DEF Quiet
      <3>5. ctx'.obuf = SubSeq(Bytes, 0 + 1, Len(Bytes)) /\ srv'.in = IF srv'.up THEN SubSeq(Bytes, 1, 0) ELSE <<>>
        BY <2>3, <3>3, <3>4
      <3>6. \E n \in 0..Len(Bytes) - 1 :
              /\ ctx'.obuf = SubSeq(Bytes, n + 1, Len(Bytes))
              /\ srv'.in = IF srv'.up THEN SubSeq(Bytes, 1, n) ELSE <<>>
        BY ONLY <3>2, <3>5, Zenon
      <3>7. Holds(ctx'.reader, <<>>)
        BY <1>6, <2>2
      <3> QED BY <3>1, <3>4, <3>6, <3>7 DEF Writing
    <2>6. StepInv'
      BY <2>3, <2>5 DEF StepInv
    <2> QED BY <1>7, <1>8, <1>9, <2>4, <2>6 DEF ClientInv
  <1>11. CASE ctx.err = "protocol"
    <2>1. ctx.reader.err = "protocol"
      BY <1>0, <1>1, <1>11 DEF ContextInv
    <2>2. got = [r |-> ctx.reader, reply |-> NoReply]
      BY <2>1 DEF got, GetReply
    <2>3. got.r.err = "protocol" /\ got.reply = NoReply
      BY <2>1, <2>2
    <2>4. ctx'.err = "protocol" /\ where' = "deliver" /\ reply' = NoReply /\ ctx'.reader.err = "protocol"
      BY <1>6, <2>3
    <2>5. ContextInv'
      BY <1>0, <1>1, <1>3, <1>6, <1>11, <2>4 DEF ContextInv
    <2>6. StepInv'
      BY <2>4 DEF StepInv
    <2> QED BY <1>7, <1>8, <1>9, <2>5, <2>6 DEF ClientInv
  <1>12. CASE ctx.err \in {"io", "eof"}
    <2>1. PICK p \in Seq(Nat) : Holds(ctx.reader, p)
      BY <1>0, <1>1, <1>12 DEF ContextInv
    <2>2. Holds(got.r, p) /\ got.reply = NoReply
      BY <2>1, NothingNew DEF got
    <2>3. ctx'.err = ctx.err /\ where' = "write" /\ reply' = NoReply
      BY <1>6, <2>2 DEF Holds
    <2>4. Holds(ctx'.reader, p)
      BY <1>6, <2>2
    <2>5. ContextInv'
      BY <1>0, <1>1, <1>3, <1>6, <1>12, <2>3, <2>4 DEF ContextInv
    <2>6. StepInv'
      BY <1>12, <2>3 DEF StepInv
    <2> QED BY <1>7, <1>8, <1>9, <2>5, <2>6 DEF ClientInv
  <1> QED BY <1>0, <1>10, <1>11, <1>12 DEF ContextInv

\* Some bytes are written; a server that is there has them.
LEMMA BufferWriteKeeps ==
  ASSUME ClientInv, BufferWrite PROVE ClientInv'
  <1>0. CallInv /\ ServerInv /\ ContextInv /\ StepInv /\ OutcomeInv
    BY DEF ClientInv
  <1>1. /\ where = "write" /\ ctx.err = "none" /\ stage' = stage /\ call' = call /\ reply' = reply
        /\ returned' = returned /\ answered' = answered
        /\ call \in Methods /\ ctx.alive /\ returned = Nothing
        /\ DOMAIN ctx = DOMAIN NoContext /\ DOMAIN srv = DOMAIN NoServer /\ stage \in {"auth", "select", "command"}
    BY <1>0 DEF BufferWrite, CallInv, Busy
  <1>2. PICK k \in (WritePieces \cap 1..Len(ctx.obuf)) \cup {Len(ctx.obuf)} :
          /\ ctx' = [ctx EXCEPT !.obuf = SubSeq(@, k + 1, Len(@))]
          /\ where' = IF k = Len(ctx.obuf) THEN "read" ELSE "write"
          /\ IF srv.up THEN srv' = [srv EXCEPT !.in = @ \o SubSeq(ctx.obuf, 1, k)]
             ELSE ~srv.reset /\ srv' = [srv EXCEPT !.reset = TRUE]
    BY DEF BufferWrite
  <1>3. Writing
    BY <1>0, <1>1 DEF StepInv
  <1>4. PICK n \in 0..Len(Bytes) - 1 :
          /\ ctx.obuf = SubSeq(Bytes, n + 1, Len(Bytes))
          /\ srv.in = IF srv.up THEN SubSeq(Bytes, 1, n) ELSE <<>>
    BY <1>3 DEF Writing
  <1>5. Bytes \in Seq(Nat) /\ Len(Bytes) \in Nat \ {0}
    BY <1>1, CommandIs
  <1>6. n \in 0..Len(Bytes) /\ ctx.obuf \in Seq(Nat) /\ Len(ctx.obuf) = Len(Bytes) - n
    <2>1. n \in 0..Len(Bytes)
      BY <1>5
    <2> QED BY <1>4, <1>5, <2>1, RestOf
  <1>7. k \in 1..Len(Bytes) - n /\ k \in 0..Len(Bytes) - n /\ n + k \in 1..Len(Bytes)
    BY <1>4, <1>5, <1>6
  <1>8. SubSeq(ctx.obuf, k + 1, Len(ctx.obuf)) = SubSeq(Bytes, n + k + 1, Len(Bytes))
    <2>1. LET r == SubSeq(Bytes, n + 1, Len(Bytes)) IN SubSeq(r, k + 1, Len(r)) = SubSeq(Bytes, n + k + 1, Len(Bytes))
      BY <1>5, <1>6, <1>7, RestOfRest
    <2> QED BY <1>4, <2>1
  <1>9. SubSeq(Bytes, 1, n + k) = SubSeq(Bytes, 1, n) \o SubSeq(ctx.obuf, 1, k)
    BY <1>4, <1>5, <1>6, <1>7, LongerBeginning
  <1>10. /\ DOMAIN ctx' = DOMAIN NoContext /\ ctx'.alive = ctx.alive /\ ctx'.blocking = ctx.blocking
         /\ ctx'.err = "none" /\ ctx'.reader = ctx.reader
         /\ ctx'.obuf = SubSeq(Bytes, n + k + 1, Len(Bytes))
    BY <1>1, <1>2, <1>8 DEF NoContext
  <1>11. /\ DOMAIN srv' = DOMAIN NoServer /\ srv'.up = srv.up /\ srv'.quit = srv.quit /\ srv'.out = <<>>
         /\ srv'.in = (IF srv.up THEN SubSeq(Bytes, 1, n + k) ELSE <<>>)
         /\ srv'.reset => ~srv.up
    <2>1. srv.out = <<>>
      BY <1>3 DEF Writing
    <2>2. CASE srv.up
      <3>1. srv' = [srv EXCEPT !.in = srv.in \o SubSeq(ctx.obuf, 1, k)] /\ srv.in = SubSeq(Bytes, 1, n)
        BY <1>2, <1>4, <2>2
      <3>2. srv' = [srv EXCEPT !.in = SubSeq(Bytes, 1, n + k)]
        BY <1>9, <3>1
      <3>3. srv.reset => ~srv.up
        BY <1>0 DEF ServerInv
      <3> QED BY <1>1, <2>1, <2>2, <3>2, <3>3 DEF NoServer
    <2>3. CASE ~srv.up
      <3>1. srv' = [srv EXCEPT !.reset = TRUE] /\ srv.in = <<>>
        BY <1>2, <1>4, <2>3
      <3> QED BY <1>1, <2>1, <2>3, <3>1 DEF NoServer
    <2> QED BY <2>2, <2>3
  <1>12. Bytes' = Bytes /\ Holds(ctx'.reader, <<>>)
    BY <1>1, <1>3, <1>10 DEF Bytes, Command, Writing
  <1>13. where' = (IF k = Len(ctx.obuf) THEN "read" ELSE "write")
    BY <1>2
  <1>14. CallInv'
    BY <1>0, <1>1, <1>10, <1>11, <1>13 DEF CallInv, Busy
  <1>15. ServerInv'
    BY <1>0, <1>10, <1>11 DEF ServerInv
  <1>16. ContextInv'
    BY <1>0, <1>1, <1>10 DEF ContextInv
  <1>17. OutcomeInv'
    BY <1>1, NothingIs DEF OutcomeInv, ReplyIsMine
  <1>18. CASE k # Len(ctx.obuf)
    <2>1. n + k \in 0..Len(Bytes) - 1
      BY <1>5, <1>6, <1>7, <1>18
    <2>2. Writing'
      <3>1. /\ ctx'.obuf = SubSeq(Bytes, (n + k) + 1, Len(Bytes))
            /\ srv'.in = IF srv'.up THEN SubSeq(Bytes, 1, n + k) ELSE <<>>
        BY <1>10, <1>11
      <3>2. \E j \in 0..Len(Bytes) - 1 :
              /\ ctx'.obuf = SubSeq(Bytes, j + 1, Len(Bytes))
              /\ srv'.in = IF srv'.up THEN SubSeq(Bytes, 1, j) ELSE <<>>
        BY ONLY <2>1, <3>1, Zenon
      <3> QED BY <1>11, <1>12, <3>2 DEF Writing
    <2>3. where' = "write"
      BY <1>13, <1>18
    <2>4. StepInv'
      BY <1>10, <2>2, <2>3 DEF StepInv
    <2> QED BY <1>14, <1>15, <1>16, <1>17, <2>4 DEF ClientInv
  <1>19. CASE k = Len(ctx.obuf)
    <2>1. n + k = Len(Bytes)
      BY <1>5, <1>6, <1>7, <1>19
    <2>2. SubSeq(Bytes, 1, n + k) = Bytes /\ ctx'.obuf = <<>>
      <3> DEFINE e == SubSeq(Bytes, n + k + 1, Len(Bytes))
      <3>1. Bytes = SubSeq(Bytes, 0 + 1, Len(Bytes)) /\ 0 + 1 = 1
        BY <1>5, WholePiece
      <3>2. e \in Seq(Nat) /\ Len(e) = Len(Bytes) - (n + k)
        <4>1. n + k \in 0..Len(Bytes)
          BY <1>5, <1>7
        <4> QED BY <1>5, <4>1, RestOf
      <3> HIDE DEF e
      <3>3. Len(e) = 0
        BY <1>5, <2>1, <3>2
      <3>4. e = <<>>
        BY <3>2, <3>3, EmptySeq
      <3>5. SubSeq(Bytes, 1, n + k) = Bytes
        BY <2>1, <3>1
      <3> QED BY <1>10, <3>4, <3>5 DEF e
    <2>3. Asked' \/ Closed'
      BY <1>0, <1>11, <1>12, <2>2 DEF Asked, Closed, ServerInv
    <2>4. Reading'
      BY <2>2, <2>3 DEF Reading
    <2>5. where' = "read"
      BY <1>13, <1>19
    <2>6. StepInv'
      BY <1>10, <2>4, <2>5 DEF StepInv
    <2> QED BY <1>14, <1>15, <1>16, <1>17, <2>6 DEF ClientInv
  <1> QED BY <1>18, <1>19

\* A write that fails keeps the invariant,
LEMMA BufferWriteFailsKeeps ==
  ASSUME ClientInv, BufferWriteFails PROVE ClientInv'
  <1>0. CallInv /\ ServerInv /\ ContextInv /\ StepInv /\ OutcomeInv
    BY DEF ClientInv
  <1>1. /\ where = "write" /\ (ctx.err # "none" \/ srv.reset) /\ stage' = stage /\ call' = call
        /\ ctx' = (IF ctx.err = "none" THEN RedisSetError(ctx, "io") ELSE ctx)
        /\ where' = "deliver" /\ reply' = NoReply
        /\ returned' = returned /\ answered' = answered /\ srv' = srv
        /\ call \in Methods /\ ctx.alive /\ returned = Nothing /\ DOMAIN ctx = DOMAIN NoContext
    BY <1>0 DEF BufferWriteFails, CallInv, Busy
  <1>2. OutcomeInv'
    BY <1>1, NothingIs DEF OutcomeInv, ReplyIsMine
  <1>3. CASE ctx.err # "none"
    <2>1. ctx' = ctx
      BY <1>1, <1>3
    <2>2. CallInv'
      BY <1>0, <1>1, <2>1 DEF CallInv, Busy
    <2>3. ServerInv' /\ ContextInv'
      BY <1>0, <1>1, <2>1 DEF ServerInv, ContextInv
    <2>4. StepInv'
      BY <1>1, <1>3, <2>1 DEF StepInv
    <2> QED BY <1>2, <2>2, <2>3, <2>4 DEF ClientInv
  <1>4. CASE ctx.err = "none"
    <2>1. /\ DOMAIN ctx' = DOMAIN NoContext /\ ctx'.alive = ctx.alive /\ ctx'.blocking = ctx.blocking
          /\ ctx'.err = "io" /\ ctx'.reader = ctx.reader
      BY <1>1, <1>4 DEF RedisSetError, NoContext
    <2>2. Holds(ctx.reader, <<>>)
      BY <1>0, <1>1, <1>4 DEF StepInv, Writing
    <2>3. srv.quit /\ srv.in = <<>>
      BY <1>0, <1>1, <1>4 DEF ServerInv
    <2>4. CallInv'
      BY <1>0, <1>1, <2>1 DEF CallInv, Busy
    <2>5. ServerInv'
      BY <1>0, <1>1, <2>1 DEF ServerInv
    <2>6. ContextInv'
      <3>1. <<>> \in Seq(Nat) /\ Holds(ctx'.reader, <<>>)
        BY <2>1, <2>2, EmptySeq
      <3>2. \E p \in Seq(Nat) : Holds(ctx'.reader, p)
        BY ONLY <3>1, Zenon
      <3> QED BY <1>0, <1>1, <2>1, <2>3, <3>2 DEF ContextInv
    <2>7. StepInv'
      BY <1>1, <2>1 DEF StepInv
    <2> QED BY <1>2, <2>4, <2>5, <2>6, <2>7 DEF ClientInv
  <1> QED BY <1>3, <1>4

\* and one that ends the process.
LEMMA BufferWriteKilledKeeps ==
  ASSUME ClientInv, BufferWriteKilled PROVE ClientInv'
  <1>0. CallInv /\ ServerInv /\ ContextInv /\ StepInv /\ OutcomeInv
    BY DEF ClientInv
  <1>1. /\ where = "write" /\ srv.reset /\ stage' = stage /\ call' = call /\ ctx' = ctx /\ reply' = reply
        /\ where' = "killed" /\ returned' = returned /\ answered' = answered /\ srv' = srv
    BY DEF BufferWriteKilled
  <1>2. CallInv'
    BY <1>0, <1>1 DEF CallInv, Busy
  <1>3. ServerInv' /\ ContextInv'
    BY <1>0, <1>1 DEF ServerInv, ContextInv
  <1>4. StepInv'
    BY <1>0, <1>1 DEF StepInv, ServerInv
  <1>5. OutcomeInv'
    BY <1>0, <1>1 DEF OutcomeInv, ReplyIsMine
  <1> QED BY <1>2, <1>3, <1>4, <1>5 DEF ClientInv

\* A piece of the answer arrives.
LEMMA BufferReadKeeps ==
  ASSUME ClientInv, BufferRead PROVE ClientInv'
  <1>0. CallInv /\ ServerInv /\ ContextInv /\ StepInv /\ OutcomeInv
    BY DEF ClientInv
  <1>1. /\ where = "read" /\ srv.out # <<>> /\ stage' = stage /\ call' = call
        /\ returned' = returned /\ answered' = answered
        /\ call \in Methods /\ ctx.alive /\ returned = Nothing
        /\ DOMAIN ctx = DOMAIN NoContext /\ DOMAIN srv = DOMAIN NoServer /\ stage \in {"auth", "select", "command"}
    BY <1>0 DEF BufferRead, CallInv, Busy
  <1>2. PICK k \in 1..Len(srv.out) :
          /\ Goto(FromReader([ctx EXCEPT !.reader = Feed(@, SubSeq(srv.out, 1, k))], "read"))
          /\ srv' = [srv EXCEPT !.out = SubSeq(@, k + 1, Len(@))]
    BY DEF BufferRead
  <1>3. ctx.err = "none" /\ ctx.obuf = <<>> /\ Answering
    BY <1>0, <1>1 DEF StepInv, Reading, Asked, Closed
  <1>4. PICK kind \in AnswerKinds : \E a \in Answers[kind] : \E n \in 0..Len(a.bytes) - 1 : AnswerRead(a, n)
    BY <1>3 DEF Answering
  <1>5. PICK a \in Answers[kind] : \E n \in 0..Len(a.bytes) - 1 : AnswerRead(a, n)
    BY <1>4
  <1>6. PICK n \in 0..Len(a.bytes) - 1 : AnswerRead(a, n)
    BY <1>5
  <1>7. IsAnswer(a)
    BY AnswersAre
  <1>8. a.bytes \in Seq(Nat) /\ Len(a.bytes) \in Nat /\ n \in 0..Len(a.bytes)
    <2>1. a.bytes \in Seq(Nat) /\ Len(a.bytes) \in Nat
      BY <1>7, LenProperties DEF IsAnswer
    <2> QED BY <2>1
  <1>9. /\ srv.out = SubSeq(a.bytes, n + 1, Len(a.bytes)) /\ Holds(ctx.reader, SubSeq(a.bytes, 1, n))
        /\ answered = [argv |-> Command.argv, means |-> a.means] /\ srv.in = <<>>
    BY <1>1, <1>3, <1>6 DEF AnswerRead, Answering
  <1>10. Len(srv.out) = Len(a.bytes) - n
    BY <1>8, <1>9, RestOf
  <1>11. k \in 1..Len(a.bytes) - n /\ k \in 0..Len(a.bytes) - n
    BY <1>8, <1>10
  <1> DEFINE c == [ctx EXCEPT !.reader = Feed(@, SubSeq(srv.out, 1, k))]
             step == FromReader(c, "read")
             got == GetReply(Feed(ctx.reader, SubSeq(srv.out, 1, k)))
  <1>12. PieceRead(got, a, n + k)
    BY <1>7, <1>8, <1>9, <1>11, PieceOfAnswer
  <1>13. /\ DOMAIN c = DOMAIN NoContext /\ c.alive = ctx.alive /\ c.blocking = ctx.blocking
         /\ c.obuf = <<>> /\ c.reader = Feed(ctx.reader, SubSeq(srv.out, 1, k)) /\ c.err = "none"
    BY <1>1, <1>3 DEF NoContext
  <1>14. ctx' = step.ctx /\ reply' = step.reply /\ where' = step.where
    BY <1>2 DEF Goto
  <1> HIDE DEF c
  <1>15. /\ DOMAIN step.ctx = DOMAIN NoContext
         /\ step.ctx.alive = c.alive /\ step.ctx.blocking = c.blocking /\ step.ctx.obuf = c.obuf
         /\ step.ctx.reader = GetReply(c.reader).r /\ step.reply = GetReply(c.reader).reply
         /\ step.ctx.err = (IF GetReply(c.reader).r.err = "none" THEN c.err ELSE GetReply(c.reader).r.err)
         /\ step.where = (IF GetReply(c.reader).r.err # "none" \/ GetReply(c.reader).reply # NoReply THEN "deliver" ELSE "read")
    BY <1>13, FromReaderIs
  <1> HIDE DEF step
  <1>16. GetReply(c.reader) = got
    BY <1>13
  <1> HIDE DEF got
  <1>17. /\ DOMAIN ctx' = DOMAIN NoContext /\ ctx'.alive = ctx.alive /\ ctx'.blocking = ctx.blocking
         /\ ctx'.obuf = <<>> /\ ctx'.reader = got.r /\ reply' = got.reply
         /\ ctx'.err = (IF got.r.err = "none" THEN "none" ELSE got.r.err)
         /\ where' = (IF got.r.err # "none" \/ got.reply # NoReply THEN "deliver" ELSE "read")
    BY <1>13, <1>14, <1>15, <1>16
  <1>18. /\ DOMAIN srv' = DOMAIN NoServer /\ srv'.up = srv.up /\ srv'.quit = srv.quit /\ srv'.reset = srv.reset
         /\ srv'.in = srv.in /\ srv'.out = SubSeq(srv.out, k + 1, Len(srv.out))
    BY <1>1, <1>2 DEF NoServer
  <1>19. srv'.out = SubSeq(a.bytes, n + k + 1, Len(a.bytes))
    BY <1>8, <1>9, <1>11, <1>18, RestOfRest
  <1>20. Command' = Command
    BY <1>1 DEF Command
  <1>21. CallInv'
    BY <1>0, <1>1, <1>17, <1>18 DEF CallInv, Busy
  <1>22. ServerInv'
    BY <1>0, <1>17, <1>18 DEF ServerInv
  <1>23. OutcomeInv'
    BY <1>1, NothingIs DEF OutcomeInv, ReplyIsMine
  <1>24. CASE got.r = Failed /\ got.reply = NoReply /\ a.means = NoReply
    <2>1. ctx'.err = "protocol" /\ where' = "deliver" /\ reply' = NoReply /\ ctx'.reader.err = "protocol"
      BY <1>17, <1>24, FailedIs
    <2>2. answered'.means = NoReply
      BY <1>1, <1>9, <1>24
    <2>3. ContextInv'
      BY <1>0, <1>1, <1>9, <1>17, <1>18, <2>1, <2>2 DEF ContextInv
    <2>4. StepInv'
      BY <2>1 DEF StepInv
    <2> QED BY <1>21, <1>22, <1>23, <2>3, <2>4 DEF ClientInv
  <1>25. CASE got.reply = NoReply /\ n + k < Len(a.bytes) /\ Holds(got.r, SubSeq(a.bytes, 1, n + k))
    <2>1. ctx'.err = "none" /\ where' = "read" /\ reply' = NoReply
      BY <1>17, <1>25 DEF Holds
    <2>2. n + k \in 0..Len(a.bytes) - 1
      BY <1>8, <1>11, <1>25
    <2>3. AnswerRead(a, n + k)'
      BY <1>1, <1>9, <1>17, <1>19, <1>20, <1>25 DEF AnswerRead
    <2>4. Answering'
      <3>1. \E j \in 0..Len(a.bytes) - 1 : AnswerRead(a, j)'
        BY <2>2, <2>3
      <3> QED BY <1>9, <1>18, <3>1 DEF Answering
    <2>5. Reading'
      BY <1>17, <2>4 DEF Reading
    <2>6. ContextInv'
      BY <1>0, <1>1, <1>17, <2>1 DEF ContextInv
    <2>7. StepInv'
      BY <2>1, <2>5 DEF StepInv
    <2> QED BY <1>21, <1>22, <1>23, <2>6, <2>7 DEF ClientInv
  <1>26. CASE got.reply = a.means /\ a.means # NoReply /\ n + k = Len(a.bytes) /\ Fresh(got.r)
    <2>1. ctx'.err = "none" /\ where' = "deliver" /\ reply' = a.means
      BY <1>17, <1>26 DEF Fresh
    <2>2. srv'.out = <<>>
      <3>1. n + k \in 0..Len(a.bytes)
        BY <1>8, <1>26
      <3> DEFINE e == SubSeq(a.bytes, n + k + 1, Len(a.bytes))
      <3>2. e \in Seq(Nat) /\ Len(e) = Len(a.bytes) - (n + k)
        BY <1>8, <3>1, RestOf
      <3> HIDE DEF e
      <3>3. e = <<>>
        BY <1>8, <1>26, <3>2, EmptySeq
      <3> QED BY <1>19, <3>3 DEF e
    <2>3. Quiet'
      BY <1>9, <1>17, <1>18, <1>26, <2>2, FreshHolds DEF Quiet
    <2>4. ContextInv'
      BY <1>0, <1>1, <1>17, <2>1 DEF ContextInv
    <2>5. answered' = [argv |-> Command'.argv, means |-> reply'] /\ reply' # NoReply
      BY <1>1, <1>9, <1>20, <1>26, <2>1
    <2>6. StepInv'
      BY <2>1, <2>3, <2>5 DEF StepInv
    <2> QED BY <1>21, <1>22, <1>23, <2>4, <2>6 DEF ClientInv
  <1> QED BY <1>12, <1>24, <1>25, <1>26 DEF PieceRead

\* A read that fails keeps the invariant.
LEMMA BufferReadFailsKeeps ==
  ASSUME ClientInv, BufferReadFails PROVE ClientInv'
  <1>0. CallInv /\ ServerInv /\ ContextInv /\ StepInv /\ OutcomeInv
    BY DEF ClientInv
  <1>1. /\ where = "read" /\ srv.out = <<>> /\ (~srv.up \/ ~ctx.blocking) /\ stage' = stage /\ call' = call
        /\ ctx' = RedisSetError(ctx, IF srv.up THEN "io" ELSE "eof")
        /\ where' = "deliver" /\ reply' = NoReply
        /\ returned' = returned /\ answered' = answered /\ srv' = srv
        /\ call \in Methods /\ ctx.alive /\ returned = Nothing /\ DOMAIN ctx = DOMAIN NoContext
    BY <1>0 DEF BufferReadFails, CallInv, Busy
  <1>2. ~srv.up /\ srv.quit /\ srv.in = <<>>
    BY <1>0, <1>1 DEF ServerInv, ContextInv
  <1>3. /\ DOMAIN ctx' = DOMAIN NoContext /\ ctx'.alive = ctx.alive /\ ctx'.blocking = ctx.blocking
        /\ ctx'.err = "eof" /\ ctx'.reader = ctx.reader
    BY <1>1, <1>2 DEF RedisSetError, NoContext
  <1>4. \E p \in Seq(Nat) : Holds(ctx.reader, p)
    <2>1. Reading
      BY <1>0, <1>1 DEF StepInv
    <2>2. CASE Answering
      <3>1. \E s : Holds(ctx.reader, s)
        BY <2>2 DEF Answering, AnswerRead
      <3> QED BY <3>1 DEF Holds
    <2>3. CASE Closed
      BY <2>3 DEF Closed, Holds
    <2> QED BY <1>2, <2>1, <2>2, <2>3 DEF Reading, Asked
  <1>5. CallInv'
    BY <1>0, <1>1, <1>3 DEF CallInv, Busy
  <1>6. ServerInv'
    BY <1>0, <1>1, <1>3 DEF ServerInv
  <1>7. ContextInv'
    <2>1. \E p \in Seq(Nat) : Holds(ctx'.reader, p)
      BY <1>3, <1>4
    <2> QED BY <1>0, <1>1, <1>2, <1>3, <2>1 DEF ContextInv
  <1>8. StepInv'
    BY <1>1, <1>3 DEF StepInv
  <1>9. OutcomeInv'
    BY <1>1, NothingIs DEF OutcomeInv, ReplyIsMine
  <1> QED BY <1>5, <1>6, <1>7, <1>8, <1>9 DEF ClientInv

\* Init() goes on after AUTH, or gives up and keeps the context.
LEMMA AfterAuthKeeps ==
  ASSUME ClientInv, AfterAuth PROVE ClientInv'
  <1>0. CallInv /\ ServerInv /\ ContextInv /\ StepInv /\ OutcomeInv
    BY DEF ClientInv
  <1>1. /\ where = "deliver" /\ ctx' = ctx /\ call' = call /\ reply' = reply /\ srv' = srv /\ answered' = answered
        /\ IF reply = NoReply \/ reply.type = "error" THEN GiveUp /\ stage' = stage
           ELSE where' = "issue" /\ stage' = "select" /\ returned' = returned
    BY DEF AfterAuth
  <1>2. ServerInv' /\ ContextInv'
    BY <1>0, <1>1 DEF ServerInv, ContextInv
  <1>3. CASE reply = NoReply \/ reply.type = "error"
    <2>1. where' = "idle" /\ returned' = [Nothing EXCEPT !.why = "init"] /\ stage' = stage
      BY <1>1, <1>3 DEF GiveUp
    <2>2. CallInv'
      BY <1>0, <1>1, <2>1 DEF CallInv, Busy
    <2>3. StepInv'
      BY <1>0, <1>1, <2>1 DEF StepInv, Quiet
    <2>4. OutcomeInv'
      BY <2>1, NothingIs DEF OutcomeInv, ReplyIsMine
    <2> QED BY <1>2, <2>2, <2>3, <2>4 DEF ClientInv
  <1>4. CASE ~(reply = NoReply \/ reply.type = "error")
    <2>1. where' = "issue" /\ returned' = returned /\ stage' = "select"
      BY <1>1, <1>4
    <2>2. CallInv'
      BY <1>0, <1>1, <2>1 DEF CallInv, Busy
    <2>3. StepInv'
      BY <1>0, <1>1, <2>1 DEF StepInv, Quiet
    <2>4. OutcomeInv'
      BY <1>0, <1>1, <2>1, NothingIs DEF OutcomeInv, ReplyIsMine, CallInv, Busy
    <2> QED BY <1>2, <2>2, <2>3, <2>4 DEF ClientInv
  <1> QED BY <1>3, <1>4

\* So does the reply to SELECT.
LEMMA AfterSelectKeeps ==
  ASSUME ClientInv, AfterSelect PROVE ClientInv'
  <1>0. CallInv /\ ServerInv /\ ContextInv /\ StepInv /\ OutcomeInv
    BY DEF ClientInv
  <1> DEFINE good == reply = NoReply \/ (reply.type = "status" /\ SubSeq(reply.str, 1, 2) = OKText)
  <1>1. /\ where = "deliver" /\ ctx' = ctx /\ call' = call /\ reply' = reply /\ srv' = srv /\ answered' = answered
        /\ IF good THEN where' = "issue" /\ stage' = "command" /\ returned' = returned
           ELSE GiveUp /\ stage' = stage
    BY DEF AfterSelect
  <1> HIDE DEF good
  <1>2. ServerInv' /\ ContextInv'
    BY <1>0, <1>1 DEF ServerInv, ContextInv
  <1>3. CASE ~good
    <2>1. where' = "idle" /\ returned' = [Nothing EXCEPT !.why = "init"] /\ stage' = stage
      BY <1>1, <1>3 DEF GiveUp
    <2>2. CallInv'
      BY <1>0, <1>1, <2>1 DEF CallInv, Busy
    <2>3. StepInv'
      BY <1>0, <1>1, <2>1 DEF StepInv, Quiet
    <2>4. OutcomeInv'
      BY <2>1, NothingIs DEF OutcomeInv, ReplyIsMine
    <2> QED BY <1>2, <2>2, <2>3, <2>4 DEF ClientInv
  <1>4. CASE good
    <2>1. where' = "issue" /\ returned' = returned /\ stage' = "command"
      BY <1>1, <1>4
    <2>2. CallInv'
      BY <1>0, <1>1, <2>1 DEF CallInv, Busy
    <2>3. StepInv'
      BY <1>0, <1>1, <2>1 DEF StepInv, Quiet
    <2>4. OutcomeInv'
      BY <1>0, <1>1, <2>1, NothingIs DEF OutcomeInv, ReplyIsMine, CallInv, Busy
    <2> QED BY <1>2, <2>2, <2>3, <2>4 DEF ClientInv
  <1> QED BY <1>3, <1>4

\* The method returns.
LEMMA ReturnsKeeps ==
  ASSUME ClientInv, Returns PROVE ClientInv'
  <1>0. CallInv /\ ServerInv /\ ContextInv /\ StepInv /\ OutcomeInv
    BY DEF ClientInv
  <1>1. /\ where = "deliver" /\ stage = "command" /\ reply # NoReply /\ where' = "idle"
        /\ returned' = [reply |-> reply, value |-> Value(call.ret, reply), why |-> "none"]
        /\ ctx' = ctx /\ stage' = stage /\ call' = call /\ reply' = reply /\ srv' = srv /\ answered' = answered
    BY DEF Returns
  <1>2. returned'.reply = reply /\ returned'.value = Value(call.ret, reply) /\ returned'.why = "none"
    BY <1>1
  <1>3. answered = [argv |-> call.argv, means |-> reply]
    <2>1. call \in Methods /\ stage \in {"auth", "select", "command"}
      BY <1>0, <1>1 DEF CallInv, Busy
    <2>2. Command.argv = call.argv
      BY <1>1, <2>1, CommandIs
    <2> QED BY <1>0, <1>1, <2>2 DEF StepInv
  <1>4. CallInv'
    BY <1>0, <1>1 DEF CallInv, Busy
  <1>5. ServerInv' /\ ContextInv'
    BY <1>0, <1>1 DEF ServerInv, ContextInv
  <1>6. StepInv'
    BY <1>0, <1>1 DEF StepInv, Quiet
  <1>7. OutcomeInv'
    <2>1. answered'.means = reply
      BY <1>1, <1>3
    <2> QED BY <1>1, <1>2, <1>3, <2>1 DEF OutcomeInv, ReplyIsMine
  <1> QED BY <1>4, <1>5, <1>6, <1>7 DEF ClientInv

\* So does a method that has no reply.
LEMMA ReturnsFailureKeeps ==
  ASSUME ClientInv, ReturnsFailure PROVE ClientInv'
  <1>0. CallInv /\ ServerInv /\ ContextInv /\ StepInv /\ OutcomeInv
    BY DEF ClientInv
  <1>1. /\ where = "deliver" /\ reply = NoReply /\ returned' = [Nothing EXCEPT !.why = ctx.err]
        /\ where' = (IF call.null = "crash" THEN "crashed" ELSE "idle")
        /\ IF call.null = "free" THEN ctx' = NoContext /\ srv' = HungUp ELSE ctx' = ctx /\ srv' = srv
        /\ stage' = stage /\ call' = call /\ reply' = reply /\ answered' = answered
    BY DEF ReturnsFailure
  <1>2. ctx.alive /\ DOMAIN srv = DOMAIN NoServer /\ ctx.err # "none"
    BY <1>0, <1>1 DEF CallInv, Busy, StepInv
  <1>3. returned'.reply = NoReply /\ returned'.why = ctx.err
    BY <1>1, NothingIs
  <1>4. /\ DOMAIN ctx' = DOMAIN NoContext /\ DOMAIN srv' = DOMAIN NoServer /\ srv'.quit = srv.quit
        /\ \/ ctx' = ctx /\ srv' = srv
           \/ ctx'.alive = FALSE /\ ctx'.err = "none" /\ srv'.up = FALSE /\ srv'.in = <<>>
    <2>1. CASE call.null = "free"
      <3>1. ctx' = NoContext /\ srv' = [srv EXCEPT !.up = FALSE, !.in = <<>>, !.out = <<>>]
        BY <1>1, <2>1 DEF HungUp
      <3>2. DOMAIN srv' = DOMAIN srv /\ srv'.quit = srv.quit /\ srv'.up = FALSE /\ srv'.in = <<>>
        BY <1>2, <3>1 DEF NoServer
      <3>3. ctx'.alive = FALSE /\ ctx'.err = "none"
        BY <3>1 DEF NoContext
      <3> QED BY <1>2, <3>1, <3>2, <3>3
    <2>2. CASE call.null # "free"
      BY <1>0, <1>1, <1>2, <2>2 DEF CallInv
    <2> QED BY <2>1, <2>2
  <1>5. CallInv'
    BY <1>0, <1>1, <1>4 DEF CallInv, Busy
  <1>6. ServerInv'
    <2>1. CASE ctx' = ctx /\ srv' = srv
      BY <1>0, <2>1 DEF ServerInv
    <2>2. CASE ctx'.alive = FALSE /\ srv'.up = FALSE /\ srv'.in = <<>>
      BY <2>2 DEF ServerInv
    <2> QED BY <1>4, <2>1, <2>2
  <1>7. ContextInv'
    <2>1. CASE ctx' = ctx /\ srv' = srv
      BY <1>0, <1>1, <2>1 DEF ContextInv
    <2>2. CASE ctx'.alive = FALSE /\ ctx'.err = "none"
      BY <2>2 DEF ContextInv
    <2> QED BY <1>4, <2>1, <2>2
  <1>8. StepInv'
    BY <1>1, <1>2, <1>4 DEF StepInv
  <1>9. OutcomeInv'
    BY <1>0, <1>1, <1>2, <1>3, <1>4 DEF OutcomeInv, ReplyIsMine, ContextInv
  <1> QED BY <1>5, <1>6, <1>7, <1>8, <1>9 DEF ClientInv

\* The server has the whole command, and its answer is on the way.
LEMMA ServerAnswersKeeps ==
  ASSUME ClientInv, ServerAnswers PROVE ClientInv'
  <1>0. CallInv /\ ServerInv /\ ContextInv /\ StepInv /\ OutcomeInv
    BY DEF ClientInv
  <1> DEFINE read == ServerReads(srv.in)
  <1>1. /\ srv.up /\ srv.in # <<>> /\ read.used > 0
        /\ ctx' = ctx /\ where' = where /\ stage' = stage /\ call' = call /\ reply' = reply /\ returned' = returned
    BY DEF ServerAnswers
  <1>2. PICK kind \in Kinds(read.argv) : \E a \in Answers[kind] :
          /\ srv' = [srv EXCEPT !.in = SubSeq(@, read.used + 1, Len(@)), !.out = @ \o a.bytes]
          /\ answered' = [argv |-> read.argv, means |-> a.means]
    BY DEF ServerAnswers
  <1>3. PICK a \in Answers[kind] :
          /\ srv' = [srv EXCEPT !.in = SubSeq(@, read.used + 1, Len(@)), !.out = @ \o a.bytes]
          /\ answered' = [argv |-> read.argv, means |-> a.means]
    BY <1>2
  <1>4. where \in {"write", "read"} /\ ctx.alive /\ ctx.err = "none"
    <2>1. ctx.alive /\ ctx.err = "none"
      BY <1>0, <1>1 DEF ServerInv, ContextInv
    <2> QED BY <1>0, <1>1, <2>1 DEF CallInv, Busy, StepInv, Quiet
  <1>5. /\ call \in Methods /\ stage \in {"auth", "select", "command"} /\ returned = Nothing
        /\ DOMAIN srv = DOMAIN NoServer
    BY <1>0, <1>4 DEF CallInv, Busy
  <1>6. /\ Bytes \in Seq(Nat) /\ Len(Bytes) \in Nat \ {0}
        /\ \A n \in 0..Len(Bytes) - 1 : ServerReads(SubSeq(Bytes, 1, n)).used = 0
        /\ ServerReads(Bytes).used = Len(Bytes) /\ ServerReads(Bytes).argv = Command.argv
    BY <1>5, CommandIs
  <1>7. where = "read"
    <2>1. SUFFICES ASSUME where = "write" PROVE FALSE
      BY <1>4
    <2>2. Writing
      BY <1>0, <1>4, <2>1 DEF StepInv
    <2>3. \E n \in 0..Len(Bytes) - 1 : srv.in = SubSeq(Bytes, 1, n)
      BY <1>1, <2>2 DEF Writing
    <2>4. read.used = 0
      BY <1>6, <2>3
    <2> QED BY <1>1, <2>4
  <1>8. srv.in = Bytes /\ srv.out = <<>> /\ Holds(ctx.reader, <<>>) /\ ctx.obuf = <<>>
    BY <1>0, <1>1, <1>7 DEF StepInv, Reading, Asked, Answering, Closed
  <1>9. kind \in AnswerKinds
    BY KindsAre
  <1>10. IsAnswer(a)
    BY <1>9, AnswersAre
  <1>11. a.bytes \in Seq(Nat) /\ Len(a.bytes) \in Nat \ {0}
    BY <1>10, EmptySeq, LenProperties DEF IsAnswer
  <1>12. /\ DOMAIN srv' = DOMAIN NoServer /\ srv'.up = srv.up /\ srv'.quit = srv.quit /\ srv'.reset = srv.reset
         /\ srv'.in = SubSeq(Bytes, Len(Bytes) + 1, Len(Bytes)) /\ srv'.out = <<>> \o a.bytes
    <2>1. read.used = Len(Bytes)
      BY <1>6, <1>8
    <2>2. srv' = [srv EXCEPT !.in = SubSeq(Bytes, Len(Bytes) + 1, Len(Bytes)), !.out = <<>> \o a.bytes]
      BY <1>3, <1>8, <2>1
    <2> QED BY <1>5, <2>2 DEF NoServer
  <1>13. srv'.in = <<>> /\ srv'.out = SubSeq(a.bytes, 0 + 1, Len(a.bytes))
    <2> DEFINE e == SubSeq(Bytes, Len(Bytes) + 1, Len(Bytes))
    <2>1. e \in Seq(Nat) /\ Len(e) = Len(Bytes) - Len(Bytes)
      <3>1. Len(Bytes) \in 0..Len(Bytes)
        BY <1>6
      <3> QED BY <1>6, <3>1, RestOf
    <2> HIDE DEF e
    <2>2. e = <<>>
      BY <1>6, <2>1, EmptySeq
    <2>3. <<>> \o a.bytes = a.bytes /\ a.bytes = SubSeq(a.bytes, 0 + 1, Len(a.bytes))
      BY <1>11, ConcatEmptySeq, WholePiece
    <2> QED BY <1>12, <2>2, <2>3 DEF e
  <1>14. Command' = Command
    BY <1>1 DEF Command
  <1>15. CallInv'
    BY <1>0, <1>1, <1>12 DEF CallInv, Busy
  <1>16. ServerInv'
    BY <1>0, <1>1, <1>12, <1>13 DEF ServerInv
  <1>17. ContextInv'
    BY <1>0, <1>1, <1>4 DEF ContextInv
  <1>18. OutcomeInv'
    BY <1>1, <1>5, NothingIs DEF OutcomeInv, ReplyIsMine
  <1>19. Answering'
    <2>1. answered' = [argv |-> Command'.argv, means |-> a.means]
      BY <1>3, <1>6, <1>8, <1>14
    <2>2. Holds(ctx'.reader, SubSeq(a.bytes, 1, 0))
      <3>1. SubSeq(a.bytes, 1, 0) = <<>>
        BY <1>11, WholePiece
      <3> QED BY <1>1, <1>8, <3>1
    <2>3. AnswerRead(a, 0)'
      BY <1>13, <2>1, <2>2 DEF AnswerRead
    <2>4. 0 \in 0..Len(a.bytes) - 1
      BY <1>11
    <2>5. \E n \in 0..Len(a.bytes) - 1 : AnswerRead(a, n)'
      BY <2>3, <2>4
    <2> QED BY <1>9, <1>13, <2>5 DEF Answering
  <1>20. Reading'
    BY <1>1, <1>8, <1>19 DEF Reading
  <1>21. StepInv'
    BY <1>1, <1>4, <1>7, <1>20 DEF StepInv
  <1> QED BY <1>15, <1>16, <1>17, <1>18, <1>21 DEF ClientInv

\* The server closes; what it has sent may still arrive.
LEMMA ServerClosesKeeps ==
  ASSUME ClientInv, ServerCloses PROVE ClientInv'
  <1>0. CallInv /\ ServerInv /\ ContextInv /\ StepInv /\ OutcomeInv
    BY DEF ClientInv
  <1>1. /\ srv.up /\ where \notin {"crashed", "killed"}
        /\ ctx' = ctx /\ where' = where /\ stage' = stage /\ call' = call /\ reply' = reply
        /\ returned' = returned /\ answered' = answered
    BY DEF ServerCloses
  <1>2. PICK arrives \in {srv.out, <<>>} : srv' = [NoServer EXCEPT !.quit = TRUE, !.out = arrives]
    BY DEF ServerCloses
  <1>3. /\ DOMAIN srv' = DOMAIN NoServer /\ srv'.up = FALSE /\ srv'.quit = TRUE /\ srv'.reset = FALSE
        /\ srv'.in = <<>> /\ srv'.out = arrives
    BY <1>2 DEF NoServer
  <1>4. Command' = Command /\ Bytes' = Bytes
    BY <1>1 DEF Command, Bytes
  <1>5. CallInv'
    BY <1>0, <1>1, <1>3 DEF CallInv, Busy
  <1>6. ServerInv'
    BY <1>3 DEF ServerInv
  <1>7. ContextInv'
    BY <1>0, <1>1, <1>3 DEF ContextInv
  <1>8. OutcomeInv'
    BY <1>0, <1>1, <1>3 DEF OutcomeInv, ReplyIsMine
  <1>9. Quiet => Quiet'
    BY <1>1, <1>2, <1>3 DEF Quiet
  <1>10. Writing => Writing'
    <2>1. SUFFICES ASSUME Writing PROVE Writing'
      OBVIOUS
    <2>2. PICK n \in 0..Len(Bytes) - 1 : ctx.obuf = SubSeq(Bytes, n + 1, Len(Bytes))
      BY <2>1 DEF Writing
    <2>3. srv'.out = <<>> /\ Holds(ctx'.reader, <<>>)
      BY <1>1, <1>2, <1>3, <2>1 DEF Writing
    <2>4. ctx'.obuf = SubSeq(Bytes', n + 1, Len(Bytes')) /\ srv'.in = IF srv'.up THEN SubSeq(Bytes', 1, n) ELSE <<>>
      BY <1>1, <1>3, <1>4, <2>2
    <2>5. n \in 0..Len(Bytes') - 1
      BY <1>4
    <2> QED BY <2>3, <2>4, <2>5 DEF Writing
  <1>11. Reading => Reading'
    <2>1. Asked => Closed'
      BY <1>1, <1>2, <1>3 DEF Asked, Closed
    <2>2. Answering => Answering'
      <3>1. SUFFICES ASSUME Answering PROVE Answering'
        OBVIOUS
      <3>2. \A a, n : AnswerRead(a, n) => AnswerRead(a, n)'
        BY <1>1, <1>2, <1>3, <1>4 DEF AnswerRead
      <3> QED BY <1>3, <3>1, <3>2 DEF Answering
    <2>3. Closed => FALSE
      BY <1>1 DEF Closed
    <2> QED BY <1>1, <2>1, <2>2, <2>3 DEF Reading
  <1>12. StepInv'
    BY <1>0, <1>1, <1>3, <1>4, <1>9, <1>10, <1>11 DEF StepInv
  <1> QED BY <1>5, <1>6, <1>7, <1>8, <1>12 DEF ClientInv

\* The invariant does not depend on the clocks and the bound.
LEMMA ClientStays ==
  ASSUME ClientInv, UNCHANGED <<ctx, where, stage, call, reply, returned, srv, answered>> PROVE ClientInv'
  <1>0. CallInv /\ ServerInv /\ ContextInv /\ StepInv /\ OutcomeInv
    BY DEF ClientInv
  <1>1. CallInv'
    BY <1>0 DEF CallInv, Busy
  <1>2. ServerInv' /\ ContextInv'
    BY <1>0 DEF ServerInv, ContextInv
  <1>3. Quiet' = Quiet /\ Writing' = Writing /\ Reading' = Reading /\ Command' = Command
    BY DEF Quiet, Writing, Reading, Asked, Answering, AnswerRead, Closed, Bytes, Command
  <1>4. StepInv'
    BY <1>0, <1>3 DEF StepInv
  <1>5. OutcomeInv'
    BY <1>0 DEF OutcomeInv, ReplyIsMine
  <1> QED BY <1>1, <1>2, <1>4, <1>5 DEF ClientInv

\* It holds at the start,
LEMMA ClientStarts == ClientInit => ClientInv
  <1>1. SUFFICES ASSUME ClientInit PROVE ClientInv
    OBVIOUS
  <1>2. ctx = NoContext /\ srv = NoServer /\ where = "idle" /\ stage = "command" /\ returned = Nothing
    BY <1>1 DEF ClientInit
  <1>3. ctx.alive = FALSE /\ ctx.err = "none" /\ srv.up = FALSE /\ srv.reset = FALSE /\ srv.in = <<>>
    BY <1>2 DEF NoContext, NoServer
  <1>4. CallInv
    BY <1>2 DEF CallInv, Busy
  <1>5. ServerInv /\ ContextInv /\ StepInv
    BY <1>2, <1>3 DEF ServerInv, ContextInv, StepInv
  <1>6. OutcomeInv
    BY <1>2, NothingIs DEF OutcomeInv, ReplyIsMine
  <1> QED BY <1>4, <1>5, <1>6 DEF ClientInv

\* every step keeps it,
LEMMA ClientSteps == ClientInv /\ [ClientNext]_clientVars => ClientInv'
  <1>1. SUFFICES ASSUME ClientInv, [ClientNext]_clientVars PROVE ClientInv'
    OBVIOUS
  <1>2. CASE Thread
    BY <1>1, <1>2, IssueKeeps, BufferWriteKeeps, BufferWriteFailsKeeps, BufferWriteKilledKeeps, BufferReadKeeps,
       BufferReadFailsKeeps, AfterAuthKeeps, AfterSelectKeeps, ReturnsKeeps, ReturnsFailureKeeps DEF Thread
  <1>3. CASE Caller
    BY <1>1, <1>3, CallWithContextKeeps, CallTooSoonKeeps, CallConnectsKeeps DEF Caller
  <1>4. CASE ServerAnswers
    BY <1>1, <1>4, ServerAnswersKeeps
  <1>5. CASE ServerCloses
    BY <1>1, <1>5, ServerClosesKeeps
  <1>6. CASE Tick
    <2>1. UNCHANGED <<ctx, where, stage, call, reply, returned, srv, answered>>
      BY <1>6 DEF Tick
    <2> QED BY <1>1, <2>1, ClientStays
  <1>7. CASE UNCHANGED clientVars
    <2>1. UNCHANGED <<ctx, where, stage, call, reply, returned, srv, answered>>
      BY <1>7 DEF clientVars
    <2> QED BY <1>1, <2>1, ClientStays
  <1> QED BY <1>1, <1>2, <1>3, <1>4, <1>5, <1>6, <1>7 DEF ClientNext

\* and so it holds always.
LEMMA ClientCorrect == ClientSpec => []ClientInv
  BY ClientStarts, ClientSteps, PTL DEF ClientSpec

\* However the bytes are cut and whatever failed on the connection before, the
\* reply a CacheConn method reads is the answer the server gave to the very
\* command of this call, and the method makes of it what the answer means.
THEOREM RepliesAreMine == ClientSpec => []ReplyIsMine
  <1>1. ClientInv => ReplyIsMine
    BY DEF ClientInv, OutcomeInv
  <1> QED BY <1>1, ClientCorrect, PTL

\* A CacheConn method that fails with a protocol error was answered with bytes
\* that are no reply, and one that fails with any other error of the connection
\* fails because the server has closed it.
THEOREM FailuresHaveReasons == ClientSpec => []FailsForAReason
  <1>1. ClientInv => FailsForAReason
    BY DEF ClientInv, OutcomeInv, FailsForAReason
  <1> QED BY <1>1, ClientCorrect, PTL

\* While the thread is in redisBufferRead on an open connection with nothing to
\* read, a whole command lies at the server: no answer is overlooked in the
\* reader, and no command is left half written.
THEOREM WaitingEnds == ClientSpec => []NeverWaitsInVain
  <1>1. ASSUME ClientInv, where = "read", srv.up, srv.out = <<>>
        PROVE  ServerReads(srv.in).used = Len(srv.in) /\ srv.in # <<>>
    <2>1. Reading /\ call \in Methods /\ stage \in {"auth", "select", "command"}
      BY <1>1 DEF ClientInv, StepInv, CallInv, Busy
    <2>2. Bytes \in Seq(Nat) /\ Len(Bytes) \in Nat \ {0} /\ ServerReads(Bytes).used = Len(Bytes)
      BY <2>1, CommandIs
    <2>3. CASE Asked
      BY <2>2, <2>3, EmptySeq DEF Asked
    <2>4. CASE Answering
      <3>1. PICK kind \in AnswerKinds : \E a \in Answers[kind] : \E n \in 0..Len(a.bytes) - 1 : AnswerRead(a, n)
        BY <2>4 DEF Answering
      <3>2. PICK a \in Answers[kind] : \E n \in 0..Len(a.bytes) - 1 : AnswerRead(a, n)
        BY <3>1
      <3>3. PICK n \in 0..Len(a.bytes) - 1 : AnswerRead(a, n)
        BY <3>2
      <3>4. a.bytes \in Seq(Nat) /\ Len(a.bytes) \in Nat
        BY AnswersAre, LenProperties DEF IsAnswer
      <3>5. n \in 0..Len(a.bytes) /\ Len(a.bytes) - n # 0
        BY <3>4
      <3>6. Len(srv.out) = Len(a.bytes) - n
        <4>1. srv.out = SubSeq(a.bytes, n + 1, Len(a.bytes))
          BY <1>1, <3>3 DEF AnswerRead
        <4>2. Len(SubSeq(a.bytes, n + 1, Len(a.bytes))) = Len(a.bytes) - n
          BY <3>4, <3>5, RestOf
        <4> QED BY <4>1, <4>2
      <3> QED BY <1>1, <3>4, <3>5, <3>6, EmptySeq
    <2>5. CASE Closed
      BY <1>1, <2>5 DEF Closed
    <2> QED BY <2>1, <2>3, <2>4, <2>5 DEF Reading
  <1>2. ClientInv => NeverWaitsInVain
    BY <1>1 DEF NeverWaitsInVain
  <1> QED BY <1>2, ClientCorrect, PTL
=============================================================================
