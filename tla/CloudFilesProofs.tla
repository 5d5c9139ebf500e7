-------------------------- MODULE CloudFilesProofs --------------------------
(***************************************************************************)
(* Proofs about CloudFiles, for any number of users and files and any      *)
(* interleaving of their requests.                                         *)
(***************************************************************************)
EXTENDS CloudFiles, FiniteSetTheorems, SequenceTheorems, TLAPS

-----------------------------------------------------------------------------
(* Types, and what a request carries.                                      *)

Row == [shared : BOOLEAN, pv : 0 .. 1]
Counter == User \cup {Shared}
Tables == [info : [File -> Seq(Int)], rows : [User -> [File -> Seq(Row)]],
           shares : [User -> [File -> Nat]], counts : [Counter -> Int \cup {None}]]
Kinds == FileKind \cup {"none", "count", "total"}
Steps == {"idle", "insertInfo", "readRef", "owned", "addRef", "insertRow", "readCount",
          "writeCount", "restore", "zset", "found", "setShared", "insertShare", "readTotal",
          "writeTotal", "zadd", "hset", "status", "dropShare", "zrem", "hdel", "dropRows",
          "subRef", "dropInfo", "setUnshared", "readPv", "writePv"}
Work == [kind : Kinds, file : File \cup {None}, pc : Steps,
         n : Int \cup {None}, ref : Int, hit : BOOLEAN]

Storing == {"upload", "md5", "save"}
StoringSteps == {"insertInfo", "readRef", "owned", "addRef", "insertRow",
                 "readCount", "writeCount", "restore"}
Carries(w) ==
    /\ IF w.kind \in {"none", "count", "total"} THEN w.file = None ELSE w.file \in File
    /\ w.kind \in Storing => w.pc \in StoringSteps
    /\ w.kind \in {"delete", "cancel"} /\ w.pc = "writeTotal" => w.n \in Int
    /\ w.kind = "delete" /\ w.pc = "writeCount" => w.n \in Int

Types ==
    /\ db \in Tables /\ work \in [User -> Work] /\ fails \in Nat
    /\ \A u \in User : Carries(work[u])

\* What an UPDATE or INSERT leaves alone.
LEMMA CountWritten ==
    ASSUME db \in Tables, NEW k \in Counter, NEW n \in Int
    PROVE  LET d == WithCount(k, n)
           IN  /\ d \in Tables
               /\ d.info = db.info /\ d.rows = db.rows /\ d.shares = db.shares
               /\ d.counts = [db.counts EXCEPT ![k] = n]
  BY DEF WithCount, Tables

LEMMA SharesWritten ==
    ASSUME db \in Tables, NEW u \in User, NEW f \in File, NEW n \in Nat
    PROVE  LET d == [db EXCEPT !.shares[u][f] = n]
           IN  /\ d \in Tables
               /\ d.info = db.info /\ d.rows = db.rows /\ d.counts = db.counts
               /\ d.shares = [db.shares EXCEPT ![u] = [@ EXCEPT ![f] = n]]
  BY DEF Tables

LEMMA RowsWritten ==
    ASSUME db \in Tables, NEW u \in User, NEW f \in File, NEW r \in Seq(Row)
    PROVE  LET d == [db EXCEPT !.rows[u][f] = r]
           IN  /\ d \in Tables
               /\ d.info = db.info /\ d.shares = db.shares /\ d.counts = db.counts
               /\ d.rows = [db.rows EXCEPT ![u] = [@ EXCEPT ![f] = r]]
  BY DEF Tables

LEMMA InfoWritten ==
    ASSUME db \in Tables, NEW f \in File, NEW r \in Seq(Int)
    PROVE  LET d == [db EXCEPT !.info[f] = r]
           IN  /\ d \in Tables
               /\ d.rows = db.rows /\ d.shares = db.shares /\ d.counts = db.counts
               /\ d.info = [db.info EXCEPT ![f] = r]
  BY DEF Tables

LEMMA RefWritten ==
    ASSUME db \in Tables, NEW f \in File, NEW n \in Int
    PROVE  LET d == WithRef(f, n)
           IN  /\ d \in Tables
               /\ d.rows = db.rows /\ d.shares = db.shares /\ d.counts = db.counts
               /\ \A g \in File \ {f} : d.info[g] = db.info[g]
               /\ d.info[f] = [i \in DOMAIN db.info[f] |-> n]
               /\ d.info[f] = << >> <=> db.info[f] = << >>
  <1> DEFINE r == [i \in DOMAIN db.info[f] |-> n]
  <1>1. db.info[f] \in Seq(Int)
    BY DEF Tables
  <1>2. r \in Seq(Int) /\ (r = << >> <=> db.info[f] = << >>)
    BY <1>1
  <1>3. WithRef(f, n) = [db EXCEPT !.info[f] = r]
    BY DEF WithRef, Tables
  <1> HIDE DEF r
  <1>4. LET d == [db EXCEPT !.info[f] = r]
        IN  /\ d \in Tables
            /\ d.rows = db.rows /\ d.shares = db.shares /\ d.counts = db.counts
            /\ d.info = [db.info EXCEPT ![f] = r]
    BY <1>2, InfoWritten
  <1> QED BY <1>2, <1>3, <1>4 DEF r, Tables

LEMMA WorkGoes ==
    ASSUME Types, NEW u \in User, NEW next \in Steps, Goto(u, next)
    PROVE  /\ work' \in [User -> Work]
           /\ \A v \in User \ {u} : work'[v] = work[v]
           /\ work'[u] = IF next = "idle" THEN Idle ELSE [work[u] EXCEPT !.pc = next, !.n = None]
  <1>0. Idle \in Work
    BY DEF Work, Idle, Kinds, Steps
  <1>1. work[u] \in Work /\ Idle \in Work
    BY <1>0 DEF Types
  <1>2. [work[u] EXCEPT !.pc = next, !.n = None] \in Work
    BY <1>1 DEF Work
  <1> QED BY <1>1, <1>2 DEF Types, Goto

\* The request of u goes on to a step of its handler, or is over.
Follows(w, next) ==
    /\ next \in Steps
    /\ w.kind \in Storing => next \in StoringSteps \cup {"idle"}
    /\ w.kind \in {"delete", "cancel"} => next \notin {"writeTotal", "writeCount"}

Then(w, next) == IF next = "idle" THEN Idle ELSE [w EXCEPT !.pc = next, !.n = None]

\* A step of u's handler is about u's request, and touches one file of one
\* user, the user's counter and the shared total.
Moves(u, w) ==
    /\ work' \in [User -> Work]
    /\ \A v \in User \ {u} : work'[v] = work[v]
    /\ work'[u] = w /\ w \in Work /\ Carries(w)
    /\ w = Idle \/ (w.kind = work[u].kind /\ w.file = work[u].file)

Touches(u, f) ==
    /\ db' \in Tables
    /\ \A v \in User \ {u} :
         /\ db'.rows[v] = db.rows[v] /\ db'.shares[v] = db.shares[v]
         /\ db'.counts[v] = db.counts[v]
    /\ \A g \in File \ {f} :
         /\ db'.info[g] = db.info[g]
         /\ db'.rows[u][g] = db.rows[u][g] /\ db'.shares[u][g] = db.shares[u][g]
    /\ db.counts[Shared] # None => db'.counts[Shared] # None

LEMMA IdleWork == Idle \in Work /\ Carries(Idle)
  <1>1. "none" \in Kinds /\ "idle" \in Steps
    BY DEF Kinds, Steps
  <1> QED BY <1>1 DEF Work, Idle, Carries, Storing

LEMMA GotoMoves ==
    ASSUME Types, NEW u \in User, NEW next, Follows(work[u], next), Goto(u, next)
    PROVE  Moves(u, Then(work[u], next))
  <1>1. next \in Steps
    BY DEF Follows
  <1>2. /\ work' \in [User -> Work]
        /\ \A v \in User \ {u} : work'[v] = work[v]
        /\ work'[u] = Then(work[u], next)
    BY <1>1, WorkGoes DEF Then
  <1>3. work[u] \in Work /\ Carries(work[u])
    BY DEF Types
  <1>4. CASE next = "idle"
    BY <1>2, <1>4, IdleWork DEF Moves, Then
  <1>5. CASE next # "idle"
    <2> DEFINE w == [work[u] EXCEPT !.pc = next, !.n = None]
    <2>1. /\ w \in Work /\ w.kind = work[u].kind /\ w.file = work[u].file
          /\ w.pc = next /\ w.n = None /\ w = Then(work[u], next)
      BY <1>1, <1>3, <1>5 DEF Work, Then
    <2> HIDE DEF w
    <2>2. Carries(w)
      BY <1>3, <1>5, <2>1 DEF Carries, Follows
    <2> QED BY <1>2, <2>1, <2>2 DEF Moves
  <1> QED BY <1>4, <1>5

LEMMA CountRead ==
    ASSUME Types, NEW u \in User, NEW k \in Counter, NEW next \in Steps, ReadCount(u, k, next),
           work[u].kind \in Storing => next = "writeCount",
           work[u].kind \in {"delete", "cancel"} => db.counts[k] # None
    PROVE  Moves(u, [work[u] EXCEPT !.n = db.counts[k], !.pc = next])
  <1> DEFINE w == [work[u] EXCEPT !.n = db.counts[k], !.pc = next]
  <1>1. work[u] \in Work /\ Carries(work[u]) /\ db.counts[k] \in Int \cup {None}
    BY DEF Types, Tables
  <1>2. /\ w \in Work /\ w.kind = work[u].kind /\ w.file = work[u].file
        /\ w.pc = next /\ w.n = db.counts[k]
    BY <1>1 DEF Work
  <1>3. work' = [work EXCEPT ![u] = w]
    BY <1>1 DEF ReadCount, Types, Work
  <1> HIDE DEF w
  <1>4. Carries(w)
    BY <1>1, <1>2 DEF Carries, StoringSteps
  <1> QED BY <1>2, <1>3, <1>4 DEF Moves, Types, w

LEMMA RefRead ==
    ASSUME Types, NEW u \in User, NEW f \in File, NEW next, Follows(work[u], next),
           next # "idle", ReadRef(u, f, next)
    PROVE  Moves(u, [work[u] EXCEPT !.ref = Count(f), !.pc = next]) /\ Count(f) \in Int
  <1> DEFINE w == [work[u] EXCEPT !.ref = Count(f), !.pc = next]
  <1>1. work[u] \in Work /\ Carries(work[u])
    BY DEF Types
  <1>5. Count(f) \in Int
    BY DEF Types, Tables, Count
  <1>2. /\ w \in Work /\ w.kind = work[u].kind /\ w.file = work[u].file
        /\ w.pc = next /\ w.n = work[u].n
    BY <1>1, <1>5 DEF Work, Follows
  <1>3. work' = [work EXCEPT ![u] = w]
    BY <1>1 DEF ReadRef, Types, Work
  <1>6. work[u].kind \in Storing => next \in StoringSteps \cup {"idle"}
    BY DEF Follows
  <1> HIDE DEF w
  <1>7. Carries(w)
    BY <1>1, <1>2, <1>6 DEF Carries, Follows
  <1> QED BY <1>2, <1>3, <1>5, <1>7 DEF Moves, Types, w

\* What each kind of statement touches.
WithRows(u, f, r) == [db EXCEPT !.rows[u][f] = r]
WithShares(u, f, n) == [db EXCEPT !.shares[u][f] = n]
WithInfo(f, r) == [db EXCEPT !.info[f] = r]

LEMMA NothingTouched ==
    ASSUME Types, NEW u \in User, NEW f, db' = db
    PROVE  Touches(u, f)
  BY DEF Touches, Types

LEMMA CountTouched ==
    ASSUME Types, NEW u \in User, NEW f, NEW k \in {u, Shared}, NEW n \in Int,
           db' = WithCount(k, n), Shared \notin User, None \notin Int
    PROVE  /\ Touches(u, f)
           /\ db'.info = db.info /\ db'.rows = db.rows /\ db'.shares = db.shares
           /\ db'.counts = [db.counts EXCEPT ![k] = n]
           /\ db'.counts[k] = n
           /\ \A j \in Counter \ {k} : db'.counts[j] = db.counts[j]
  <1>1. db \in Tables /\ k \in Counter
    BY DEF Types, Counter
  <1>2. /\ db' \in Tables
        /\ db'.info = db.info /\ db'.rows = db.rows /\ db'.shares = db.shares
        /\ db'.counts = [db.counts EXCEPT ![k] = n]
    BY <1>1, CountWritten
  <1>3. /\ db'.counts[k] = n
        /\ \A j \in Counter \ {k} : db'.counts[j] = db.counts[j]
    BY <1>1, <1>2 DEF Tables
  <1> QED BY <1>2, <1>3 DEF Touches, Counter

LEMMA RowsTouched ==
    ASSUME Types, NEW u \in User, NEW f \in File, NEW r \in Seq(Row),
           db' = WithRows(u, f, r)
    PROVE  /\ Touches(u, f)
           /\ db'.info = db.info /\ db'.shares = db.shares /\ db'.counts = db.counts
           /\ db'.rows[u][f] = r
  <1>1. LET d == [db EXCEPT !.rows[u][f] = r]
        IN  /\ d \in Tables
            /\ d.info = db.info /\ d.shares = db.shares /\ d.counts = db.counts
            /\ d.rows = [db.rows EXCEPT ![u] = [@ EXCEPT ![f] = r]]
    BY RowsWritten DEF Types
  <1>2. /\ db' \in Tables
        /\ db'.info = db.info /\ db'.shares = db.shares /\ db'.counts = db.counts
        /\ db'.rows = [db.rows EXCEPT ![u] = [@ EXCEPT ![f] = r]]
    BY <1>1 DEF WithRows
  <1>3. /\ \A v \in User \ {u} : db'.rows[v] = db.rows[v]
        /\ db'.rows[u][f] = r
        /\ \A g \in File \ {f} : db'.rows[u][g] = db.rows[u][g]
    BY <1>2 DEF Types, Tables
  <1> QED BY <1>2, <1>3 DEF Touches

LEMMA SharesTouched ==
    ASSUME Types, NEW u \in User, NEW f \in File, NEW n \in Nat,
           db' = WithShares(u, f, n)
    PROVE  /\ Touches(u, f)
           /\ db'.info = db.info /\ db'.rows = db.rows /\ db'.counts = db.counts
           /\ db'.shares[u][f] = n
  <1>1. LET d == [db EXCEPT !.shares[u][f] = n]
        IN  /\ d \in Tables
            /\ d.info = db.info /\ d.rows = db.rows /\ d.counts = db.counts
            /\ d.shares = [db.shares EXCEPT ![u] = [@ EXCEPT ![f] = n]]
    BY SharesWritten DEF Types
  <1>2. /\ db' \in Tables
        /\ db'.info = db.info /\ db'.rows = db.rows /\ db'.counts = db.counts
        /\ db'.shares = [db.shares EXCEPT ![u] = [@ EXCEPT ![f] = n]]
    BY <1>1 DEF WithShares
  <1>3. /\ \A v \in User \ {u} : db'.shares[v] = db.shares[v]
        /\ db'.shares[u][f] = n
        /\ \A g \in File \ {f} : db'.shares[u][g] = db.shares[u][g]
    BY <1>2 DEF Types, Tables
  <1> QED BY <1>2, <1>3 DEF Touches

LEMMA InfoTouched ==
    ASSUME Types, NEW u \in User, NEW f \in File, NEW r \in Seq(Int),
           db' = WithInfo(f, r)
    PROVE  /\ Touches(u, f)
           /\ db'.rows = db.rows /\ db'.shares = db.shares /\ db'.counts = db.counts
           /\ db'.info[f] = r
  <1>1. LET d == [db EXCEPT !.info[f] = r]
        IN  /\ d \in Tables
            /\ d.rows = db.rows /\ d.shares = db.shares /\ d.counts = db.counts
            /\ d.info = [db.info EXCEPT ![f] = r]
    BY InfoWritten DEF Types
  <1>2. /\ db' \in Tables
        /\ db'.rows = db.rows /\ db'.shares = db.shares /\ db'.counts = db.counts
        /\ db'.info = [db.info EXCEPT ![f] = r]
    BY <1>1 DEF WithInfo
  <1>3. db'.info[f] = r /\ \A g \in File \ {f} : db'.info[g] = db.info[g]
    BY <1>2 DEF Types, Tables
  <1> QED BY <1>2, <1>3 DEF Touches

LEMMA RefTouched ==
    ASSUME Types, NEW u \in User, NEW f \in File, NEW n \in Int, db' = WithRef(f, n)
    PROVE  /\ Touches(u, f)
           /\ db'.rows = db.rows /\ db'.shares = db.shares /\ db'.counts = db.counts
           /\ db'.info[f] = << >> <=> db.info[f] = << >>
           /\ Count(f)' = IF db.info[f] = << >> THEN 0 ELSE n
  <1>1. LET d == WithRef(f, n)
        IN  /\ d \in Tables
            /\ d.rows = db.rows /\ d.shares = db.shares /\ d.counts = db.counts
            /\ \A g \in File \ {f} : d.info[g] = db.info[g]
            /\ d.info[f] = [i \in DOMAIN db.info[f] |-> n]
            /\ d.info[f] = << >> <=> db.info[f] = << >>
    BY RefWritten DEF Types
  <1>2. /\ db' \in Tables
        /\ db'.rows = db.rows /\ db'.shares = db.shares /\ db'.counts = db.counts
        /\ \A g \in File \ {f} : db'.info[g] = db.info[g]
        /\ db'.info[f] = [i \in DOMAIN db.info[f] |-> n]
        /\ db'.info[f] = << >> <=> db.info[f] = << >>
    BY <1>1
  <1>3. db.info[f] \in Seq(Int)
    BY DEF Types, Tables
  <1>4. db.info[f] # << >> => 1 \in DOMAIN db.info[f]
    BY <1>3
  <1> QED BY <1>2, <1>4 DEF Touches, Count

-----------------------------------------------------------------------------
(* The invariants.                                                         *)

\* A share or a deletion is of a file the user has, until the deletion drops
\* the user's row.
HasOk(u, w) ==
    \/ w.kind = "share"
    \/ w.kind = "delete" /\ w.pc \notin {"readRef", "subRef", "dropInfo"}
    => db.rows[u][w.file] # << >>
HasFile(u) == HasOk(u, work[u])

\* A file is in the user's list that the counter does not count: a storing
\* request added the row and did not write the counter yet, or a deletion
\* wrote the counter and did not drop the row yet.
Uncounted(w) ==
    \/ w.kind \in Storing /\ w.pc \in {"readCount", "writeCount"}
    \/ w.kind = "delete" /\ w.pc = "dropRows"
Owed(w) == IF Uncounted(w) THEN 1 ELSE 0
Kept(u) == IF db.counts[u] = None THEN 0 ELSE db.counts[u]

CountOk(u, w) ==
    u \notin doubled =>
        /\ Kept(u) + Owed(w) <= Cardinality(Owned(u))
        /\ fails = 0 => Kept(u) + Owed(w) = Cardinality(Owned(u))
        /\ w.kind \in Storing \cup {"delete"} /\ w.pc = "writeCount"
           => w.n = db.counts[u]
        /\ w.kind = "count" /\ w.pc = "writeCount" => db.counts[u] = None
CountInv(u) == CountOk(u, work[u])

\* A share is undone before the row goes.  The row's status says so, unless
\* the user is cancelling; the shared total has a row, unless the user is
\* about to write it.
Undoing(w, f) ==
    w.kind = "cancel" /\ w.file = f /\ w.pc \in {"readTotal", "writeTotal", "dropShare"}
Adding(w, f) == w.kind = "share" /\ w.file = f /\ w.pc \in {"readTotal", "writeTotal"}
Undone == {"readTotal", "writeTotal", "zrem", "hdel", "readCount", "writeCount",
           "dropRows", "readRef", "subRef", "dropInfo"}

ShareOk(u, w) ==
    fails = 0 =>
        /\ \A f \in File : db.shares[u][f] > 0 =>
             /\ db.rows[u][f] # << >>
             /\ db.rows[u][f][1].shared \/ Undoing(w, f)
             /\ db.counts[Shared] # None \/ Adding(w, f)
        /\ w.kind = "share" /\ w.pc = "insertShare"
           => db.rows[u][w.file][1].shared
        /\ w.kind = "delete" /\ w.pc \in Undone
           => db.shares[u][w.file] = 0
ShareInv(u) == ShareOk(u, work[u])

\* The reference count is one ahead of the owners: an upload or a save
\* counted itself and did not add the row yet, or a deletion dropped the row
\* and did not take itself off the count yet.
Ahead(w) ==
    \/ w.kind \in {"upload", "save"} /\ w.pc = "insertRow"
    \/ w.kind = "delete" /\ w.pc \in {"readRef", "subRef"}
Slack(w) == IF Ahead(w) THEN 1 ELSE 0

\* What the one request on a file relies on.
Due(w, f) ==
    /\ Cardinality(Owners(f)) + Slack(w) <= Count(f)
    /\ \/ w.kind = "save" /\ w.pc = "addRef"
       \/ w.kind = "delete" /\ w.pc = "subRef"
       => w.ref = Count(f)
    /\ w.kind = "delete" /\ w.pc = "dropInfo" => Owners(f) = {}
    /\ w.kind = "md5" => w.pc \notin {"insertRow", "readCount", "writeCount", "restore"}
    /\ w.kind = "share" /\ w.pc \in {"setShared", "insertShare"} => Sharers(f) = {}

FileInv(f) ==
    f \notin overlapped \cup marred =>
        /\ Cardinality(Owners(f)) <= Count(f)
        /\ \A u \in User : db.shares[u][f] <= 1
        /\ \A u, v \in User : db.shares[u][f] > 0 /\ db.shares[v][f] > 0 => u = v
        /\ \A u \in User : work[u].file = f => Due(work[u], f)
        /\ \A u, v \in User : work[u].file = f /\ work[v].file = f => u = v

IInv ==
    /\ Types
    /\ \A u \in User : HasFile(u) /\ CountInv(u) /\ ShareInv(u)
    /\ \A f \in File : FileInv(f)

-----------------------------------------------------------------------------
(* What a step of one user's handler leaves of the invariants.             *)

LEMMA Counted ==
    ASSUME CloudFilesAssumption
    PROVE  /\ \A u \in User : IsFiniteSet(Owned(u)) /\ Cardinality(Owned(u)) \in Nat
           /\ \A f \in File : IsFiniteSet(Owners(f)) /\ Cardinality(Owners(f)) \in Nat
  <1>1. \A u : Owned(u) \subseteq File
    BY DEF Owned
  <1>2. \A f : Owners(f) \subseteq User
    BY DEF Owners
  <1> QED BY <1>1, <1>2, FS_Subset, FS_CardinalityType DEF CloudFilesAssumption

LEMMA CountedNext ==
    ASSUME CloudFilesAssumption
    PROVE  /\ \A u \in User : Cardinality(Owned(u)') \in Nat
           /\ \A f \in File : Cardinality(Owners(f)') \in Nat
  <1>1. \A u : Owned(u)' \subseteq File
    BY DEF Owned
  <1>2. \A f : Owners(f)' \subseteq User
    BY DEF Owners
  <1> QED BY <1>1, <1>2, FS_Subset, FS_CardinalityType DEF CloudFilesAssumption

\* Nobody gets or loses a file.
LEMMA SameOwners ==
    ASSUME NEW u \in User, NEW f, Touches(u, f),
           f \in File => (db'.rows[u][f] = << >> <=> db.rows[u][f] = << >>)
    PROVE  Owned(u)' = Owned(u) /\ \A g \in File : Owners(g)' = Owners(g)
  BY DEF Owned, Owners, Touches

LEMMA OneOwnerMore ==
    ASSUME CloudFilesAssumption, NEW u \in User, NEW f \in File, Touches(u, f),
           db.rows[u][f] = << >>, db'.rows[u][f] # << >>
    PROVE  /\ Cardinality(Owned(u)') = Cardinality(Owned(u)) + 1
           /\ Cardinality(Owners(f)') = Cardinality(Owners(f)) + 1
  <1>1. Owned(u)' = Owned(u) \cup {f} /\ f \notin Owned(u)
    BY DEF Owned, Touches
  <1>2. Owners(f)' = Owners(f) \cup {u} /\ u \notin Owners(f)
    BY DEF Owners, Touches
  <1>3. IsFiniteSet(Owned(u)) /\ IsFiniteSet(Owners(f))
    BY Counted
  <1>4. Cardinality(Owned(u)') = Cardinality(Owned(u)) + 1
    BY <1>1, <1>3, FS_AddElement
  <1>5. Cardinality(Owners(f)') = Cardinality(Owners(f)) + 1
    BY <1>2, <1>3, FS_AddElement
  <1> QED BY <1>4, <1>5

LEMMA OneOwnerLess ==
    ASSUME CloudFilesAssumption, NEW u \in User, NEW f \in File, Touches(u, f),
           db.rows[u][f] # << >>, db'.rows[u][f] = << >>
    PROVE  /\ Cardinality(Owned(u)') = Cardinality(Owned(u)) - 1
           /\ Cardinality(Owners(f)') = Cardinality(Owners(f)) - 1
  <1>1. Owned(u)' = Owned(u) \ {f} /\ f \in Owned(u)
    BY DEF Owned, Touches
  <1>2. Owners(f)' = Owners(f) \ {u} /\ u \in Owners(f)
    BY DEF Owners, Touches
  <1>3. IsFiniteSet(Owned(u)) /\ IsFiniteSet(Owners(f))
    BY Counted
  <1>4. Cardinality(Owned(u)') = Cardinality(Owned(u)) - 1
    BY <1>1, <1>3, FS_RemoveElement
  <1>5. Cardinality(Owners(f)') = Cardinality(Owners(f)) - 1
    BY <1>2, <1>3, FS_RemoveElement
  <1> QED BY <1>4, <1>5

\* What the step of a handler is to establish.
Kept3(u) == HasFile(u) /\ CountInv(u) /\ ShareInv(u)
Stepped(u, f) ==
    /\ \E w : Moves(u, w)
    /\ Touches(u, f) /\ Kept3(u)'
    /\ f \in File => FileInv(f)'

LEMMA CountQuiet ==
    ASSUME CloudFilesAssumption, Types, NEW u \in User, NEW w, Moves(u, w), CountInv(u),
           db'.counts[u] = db.counts[u], Owned(u)' = Owned(u), doubled' = doubled,
           w.pc # "writeCount",
           \/ fails' = fails /\ Owed(w) = Owed(work[u])
           \/ fails' # 0 /\ Owed(w) <= Owed(work[u])
    PROVE  CountInv(u)'
  <1>1. Cardinality(Owned(u)) \in Nat /\ db.counts[u] \in Int \cup {None}
    BY Counted DEF Types, Tables, Counter
  <1>2. Owed(w) \in {0, 1} /\ Owed(work[u]) \in {0, 1}
    BY DEF Owed
  <1>3. Kept(u)' = Kept(u) /\ Kept(u) \in Int
    BY <1>1 DEF Kept
  <1> QED BY <1>1, <1>2, <1>3 DEF CountInv, CountOk, Moves

\* Shares and the status of the rows stay, and the request is none of those
\* that change them.
LEMMA ShareQuiet ==
    ASSUME Types, NEW u \in User, NEW f, NEW w, Moves(u, w), Touches(u, f), ShareInv(u),
           work[u].kind \notin {"share", "delete", "cancel"},
           db'.shares = db.shares, fails' # 0 \/ fails' = fails,
           f \in File /\ db.rows[u][f] # << >> =>
               /\ db'.rows[u][f] # << >>
               /\ db'.rows[u][f][1].shared = db.rows[u][f][1].shared
    PROVE  ShareInv(u)'
  <1>1. w.kind \notin {"share", "delete", "cancel"}
    BY DEF Moves, Idle
  <1>2. \A g \in File : db.rows[u][g] # << >> =>
           /\ db'.rows[u][g] # << >>
           /\ db'.rows[u][g][1].shared = db.rows[u][g][1].shared
    BY DEF Touches
  <1> QED BY <1>1, <1>2 DEF ShareInv, ShareOk, Moves, Undoing, Adding, Touches

LEMMA HasQuiet ==
    ASSUME Types, NEW u \in User, NEW w, Moves(u, w),
           work[u].kind \notin {"share", "delete"}
    PROVE  HasFile(u)'
  BY DEF HasFile, HasOk, Moves, Idle

LEMMA FileQuiet ==
    ASSUME IInv, NEW u \in User, NEW f \in File, NEW w, Moves(u, w), Touches(u, f),
           f = work[u].file, overlapped' = overlapped, marred \subseteq marred',
           f \notin overlapped \cup marred' =>
               /\ Cardinality(Owners(f)') <= Count(f)'
               /\ \A v \in User : db'.shares[v][f] <= 1
               /\ \A v, x \in User : db'.shares[v][f] > 0 /\ db'.shares[x][f] > 0 => v = x
               /\ w.file = f => Due(w, f)'
    PROVE  FileInv(f)'
  <1>1. SUFFICES ASSUME f \notin overlapped \cup marred'
                 PROVE  FileInv(f)'
    BY DEF FileInv
  <1>2. \A v \in User : work[v].file = f => u = v
    BY <1>1 DEF IInv, FileInv
  <1>3. \A v \in User : work'[v].file = f => v = u /\ work'[v] = w
    BY <1>2 DEF Moves
  <1>4. \A v \in User : work'[v].file = f => Due(work[v], f)'
    BY <1>1, <1>3 DEF Due, Slack, Ahead
  <1> QED BY <1>1, <1>3, <1>4 DEF FileInv

\* The tables about the file stay, as far as the invariant looks at them.
LEMMA FileSame ==
    ASSUME IInv, CloudFilesAssumption, NEW u \in User, NEW f \in File, NEW w, Moves(u, w),
           Touches(u, f), work[u].file = f, overlapped' = overlapped, marred \subseteq marred',
           db'.info = db.info, db'.shares = db.shares,
           db'.rows[u][f] = << >> <=> db.rows[u][f] = << >>,
           f \notin overlapped \cup marred' /\ Due(work[u], f) /\ w.file = f => Due(w, f)
    PROVE  FileInv(f)'
  <1>1. Owners(f)' = Owners(f) /\ Count(f)' = Count(f) /\ Sharers(f)' = Sharers(f)
    BY SameOwners DEF Count, Sharers
  <1>2. SUFFICES ASSUME f \notin overlapped \cup marred'
                 PROVE  FileInv(f)'
    BY DEF FileInv
  <1>3. FileInv(f) /\ f \notin overlapped \cup marred
    BY <1>2 DEF IInv
  <1>4. /\ Cardinality(Owners(f)') <= Count(f)'
        /\ \A v \in User : db'.shares[v][f] <= 1
        /\ \A v, x \in User : db'.shares[v][f] > 0 /\ db'.shares[x][f] > 0 => v = x
    BY <1>1, <1>3 DEF FileInv
  <1>5. w.file = f => Due(w, f)
    BY <1>2, <1>3 DEF FileInv
  <1>6. w.file = f => Due(w, f)'
    BY <1>1, <1>5 DEF Due
  <1> QED BY <1>4, <1>6, FileQuiet

\* The facts about the user's request and file that the steps start from.
LEMMA Start ==
    ASSUME IInv, CloudFilesAssumption, NEW u \in User, NEW f \in File, work[u].file = f
    PROVE  /\ work[u] \in Work /\ Carries(work[u])
           /\ HasFile(u) /\ CountInv(u) /\ ShareInv(u) /\ FileInv(f)
           /\ Types /\ Shared \notin User /\ None \notin Int
           /\ db.rows[u][f] \in Seq(Row) /\ db.info[f] \in Seq(Int)
           /\ db.shares[u][f] \in Nat /\ db.counts[u] \in Int \cup {None}
           /\ fails \in Nat
  <1>1. Types /\ work[u] \in Work /\ Carries(work[u])
    BY DEF IInv, Types
  <1>3. HasFile(u) /\ CountInv(u) /\ ShareInv(u) /\ FileInv(f)
    BY DEF IInv
  <1>4. /\ db.rows[u][f] \in Seq(Row) /\ db.info[f] \in Seq(Int)
        /\ db.shares[u][f] \in Nat /\ db.counts[u] \in Int \cup {None}
        /\ fails \in Nat
    BY <1>1 DEF Types, Tables, Counter
  <1> QED BY <1>1, <1>3, <1>4 DEF CloudFilesAssumption

\* A step that leaves the rows, the shares and the counters.
LEMMA QuietKeeps ==
    ASSUME IInv, NEW u \in User, NEW f \in File, NEW w, Moves(u, w), Touches(u, f),
           db'.rows = db.rows, db'.shares = db.shares, db'.counts = db.counts,
           doubled' = doubled, fails' = fails,
           HasOk(u, w), CountOk(u, w), ShareOk(u, w), FileInv(f)'
    PROVE  Stepped(u, f)
  <1>1. work'[u] = w
    BY DEF Moves
  <1>2. Kept(u)' = Kept(u) /\ Owned(u)' = Owned(u)
    BY DEF Kept, Owned
  <1>3. HasFile(u)'
    BY <1>1 DEF HasFile, HasOk
  <1>4. CountInv(u)'
    BY <1>1, <1>2 DEF CountInv, CountOk, Owed, Uncounted
  <1>5. ShareInv(u)'
    BY <1>1 DEF ShareInv, ShareOk, Undoing, Adding
  <1> QED BY <1>3, <1>4, <1>5 DEF Stepped, Kept3

\* A step that only looks.
LEMMA LookKeeps ==
    ASSUME IInv, CloudFilesAssumption, NEW u \in User, NEW f \in File, NEW w, Moves(u, w),
           work[u].file = f, db' = db, doubled' = doubled, fails' = fails,
           overlapped' = overlapped, marred \subseteq marred',
           HasOk(u, w), CountOk(u, w), ShareOk(u, w),
           f \notin overlapped \cup marred' /\ Due(work[u], f) /\ w.file = f => Due(w, f)
    PROVE  Stepped(u, f)
  <1>1. Touches(u, f)
    BY NothingTouched DEF IInv
  <1>2. FileInv(f)'
    BY <1>1, FileSame
  <1> QED BY <1>1, <1>2, QuietKeeps

LEMMA GoKeeps ==
    ASSUME IInv, CloudFilesAssumption, NEW u \in User, NEW f \in File, NEW next,
           work[u].file = f, Goto(u, next), Follows(work[u], next), db' = db,
           doubled' = doubled, fails' = fails,
           overlapped' = overlapped, marred \subseteq marred',
           HasOk(u, Then(work[u], next)), CountOk(u, Then(work[u], next)),
           ShareOk(u, Then(work[u], next)),
           f \notin overlapped \cup marred' /\ Due(work[u], f) /\ next # "idle"
           => Due(Then(work[u], next), f)
    PROVE  Stepped(u, f)
  <1> PICK w : w = Then(work[u], next)
    OBVIOUS
  <1>1. Moves(u, w)
    BY GotoMoves DEF IInv
  <1>2. w.file = f => next # "idle"
    BY DEF Then, Idle, CloudFilesAssumption
  <1> QED BY <1>1, <1>2, LookKeeps

-----------------------------------------------------------------------------
(* One lemma per handler: each of its statements keeps the invariants.     *)

\* The rows that INSERT and UPDATE leave.
SharedAs(s, b) == [i \in DOMAIN s |-> [s[i] EXCEPT !.shared = b]]
Downloaded(s) == [i \in DOMAIN s |-> [s[i] EXCEPT !.pv = 1]]

LEMMA RowsAfter ==
    ASSUME NEW s \in Seq(Row), NEW b \in BOOLEAN
    PROVE  /\ Append(s, NewRow) \in Seq(Row) /\ Append(s, NewRow) # << >>
           /\ s # << >> => Append(s, NewRow)[1] = s[1]
           /\ SharedAs(s, b) \in Seq(Row) /\ Downloaded(s) \in Seq(Row)
           /\ SharedAs(s, b) = << >> <=> s = << >>
           /\ Downloaded(s) = << >> <=> s = << >>
           /\ s # << >> => /\ SharedAs(s, b)[1].shared = b
                           /\ Downloaded(s)[1].shared = s[1].shared
  <1>1. NewRow \in Row
    BY DEF NewRow, Row
  <1>2. Append(s, NewRow) \in Seq(Row) /\ Append(s, NewRow) # << >>
        /\ (s # << >> => Append(s, NewRow)[1] = s[1])
    BY <1>1
  <1>3. ASSUME NEW r \in Row
        PROVE  /\ [r EXCEPT !.shared = b] \in Row /\ [r EXCEPT !.shared = b].shared = b
               /\ [r EXCEPT !.pv = 1] \in Row /\ [r EXCEPT !.pv = 1].shared = r.shared
    <2>1. 1 \in 0 .. 1
      OBVIOUS
    <2> QED BY <2>1 DEF Row
  <1>4. Len(s) \in Nat /\ DOMAIN s = 1 .. Len(s) /\ \A i \in 1 .. Len(s) : s[i] \in Row
    OBVIOUS
  <1>6. /\ [i \in DOMAIN s |-> [s[i] EXCEPT !.shared = b]] \in Seq(Row)
        /\ [i \in DOMAIN s |-> [s[i] EXCEPT !.pv = 1]] \in Seq(Row)
    <2>1. /\ [i \in DOMAIN s |-> [s[i] EXCEPT !.shared = b]] \in [1 .. Len(s) -> Row]
          /\ [i \in DOMAIN s |-> [s[i] EXCEPT !.pv = 1]] \in [1 .. Len(s) -> Row]
      BY <1>3, <1>4
    <2> QED BY <1>4, <2>1, SeqDef
  <1>7. s # << >> => 1 \in 1 .. Len(s)
    OBVIOUS
  <1>8. /\ [i \in DOMAIN s |-> [s[i] EXCEPT !.shared = b]] = << >> <=> s = << >>
        /\ [i \in DOMAIN s |-> [s[i] EXCEPT !.pv = 1]] = << >> <=> s = << >>
    BY <1>4
  <1> QED BY <1>2, <1>3, <1>4, <1>6, <1>7, <1>8 DEF SharedAs, Downloaded

LEMMA AddToListKeeps ==
    ASSUME IInv, CloudFilesAssumption, NEW u \in User, NEW f \in File, work[u].file = f,
           NEW next \in {"idle", "restore"}, work[u].kind \in Storing, AddToList(u, next), overlapped' = overlapped,
           fails' = fails
    PROVE  Stepped(u, f)
  <1> PICK k : k = work[u].kind
    OBVIOUS
  <1>0. k \in FileKind /\ k \notin {"share", "delete", "cancel"}
    BY DEF Storing, FileKind
  <1>1. /\ work[u] \in Work /\ Carries(work[u])
        /\ HasFile(u) /\ CountInv(u) /\ ShareInv(u) /\ FileInv(f)
        /\ Types /\ Shared \notin User /\ None \notin Int
        /\ db.rows[u][f] \in Seq(Row) /\ db.info[f] \in Seq(Int)
        /\ db.shares[u][f] \in Nat /\ db.counts[u] \in Int \cup {None}
        /\ fails \in Nat
    BY <1>0, Start
  <1>2. CASE work[u].pc = "insertRow"
    <2> PICK r, w : r = Append(db.rows[u][f], NewRow) /\ w = Then(work[u], "readCount")
      OBVIOUS
    <2>1. /\ db' = [db EXCEPT !.rows[u][f] = r]
          /\ doubled' = IF f \in Owned(u) THEN doubled \cup {u} ELSE doubled
          /\ Goto(u, "readCount") /\ marred' = marred
      BY <1>1, <1>2 DEF AddToList, Types, Tables
    <2>2. Moves(u, w)
      <3>1. Follows(work[u], "readCount")
        BY <1>0 DEF Follows, Steps, StoringSteps, Storing
      <3> QED BY <1>1, <2>1, <3>1, GotoMoves
    <2>3. r \in Seq(Row) /\ r # << >> /\ (db.rows[u][f] # << >> => r[1] = db.rows[u][f][1])
      BY <1>1, RowsAfter
    <2>4. /\ Touches(u, f)
          /\ db'.info = db.info /\ db'.shares = db.shares /\ db'.counts = db.counts
          /\ db'.rows[u][f] = r
      <3>1. Types /\ r \in Seq(Row) /\ db' = WithRows(u, f, r)
        BY <1>1, <2>1, <2>3 DEF WithRows
      <3> QED BY <3>1, RowsTouched
    <2>5. w.kind = k /\ w.pc = "readCount" /\ w.file = f
      BY <1>1 DEF Then, Work
    <2>6. HasFile(u)'
      BY <1>0, <1>1, <2>2, HasQuiet
    <2>7. ShareInv(u)'
      BY <1>0, <1>1, <2>2, <2>3, <2>4, ShareQuiet
    <2>8. CountInv(u)'
      <3>1. CASE f \in Owned(u)
        BY <2>1, <3>1 DEF CountInv, CountOk
      <3>2. CASE f \notin Owned(u)
        <4>1. Cardinality(Owned(u)') = Cardinality(Owned(u)) + 1
          BY <1>1, <2>3, <2>4, <3>2, OneOwnerMore DEF Owned
        <4>2. Kept(u)' = Kept(u) /\ Kept(u) \in Int
          BY <1>1, <2>4 DEF Kept
        <4>3. Owed(w) = 1 /\ Owed(work[u]) = 0
          BY <1>2, <2>5 DEF Owed, Uncounted, Storing
        <4>4. Owed(work[u])' = 1
          BY <2>2, <4>3 DEF Moves, Owed, Uncounted
        <4> QED BY <1>1, <2>1, <2>2, <2>5, <3>2, <4>1, <4>2, <4>3, <4>4, Counted, SMTT(60)
                DEF CountInv, CountOk, Moves, Storing
      <3> QED BY <3>1, <3>2
    <2>9. FileInv(f)'
      <3>1. Count(f)' = Count(f) /\ Count(f) \in Int
        BY <1>1, <2>4 DEF Count
      <3>2. Cardinality(Owners(f)') <= Cardinality(Owners(f)) + 1
        <4>1. CASE db.rows[u][f] # << >>
          BY <1>1, <2>3, <2>4, <4>1, SameOwners, Counted
        <4>2. CASE db.rows[u][f] = << >>
          <5>1. db'.rows[u][f] # << >>
            BY <2>3, <2>4
          <5>2. Cardinality(Owners(f)') = Cardinality(Owners(f)) + 1
            BY <2>4, <4>2, <5>1, OneOwnerMore
          <5> QED BY <5>2, Counted
        <4> QED BY <4>1, <4>2
      <3>3. f \notin overlapped \cup marred =>
              /\ Cardinality(Owners(f)) + 1 <= Count(f) /\ k # "md5"
              /\ \A v \in User : db.shares[v][f] <= 1
              /\ \A v, x \in User : db.shares[v][f] > 0 /\ db.shares[x][f] > 0 => v = x
        BY <1>1, <1>2 DEF FileInv, Due, Slack, Ahead, Storing
      <3>4. f \notin overlapped \cup marred =>
              /\ Cardinality(Owners(f)') <= Count(f)'
        BY <1>1, <3>1, <3>2, <3>3, Counted, CountedNext
      <3>5. f \notin overlapped \cup marred => Due(w, f)'
        BY <1>0, <1>1, <2>5, <3>1, <3>3, <3>4, CountedNext DEF Due, Slack, Ahead
      <3> QED BY <1>1, <2>1, <2>2, <2>4, <3>3, <3>4, <3>5, FileQuiet
    <2> QED BY <2>2, <2>4, <2>6, <2>7, <2>8, <2>9 DEF Stepped, Kept3
  <1>3. CASE work[u].pc = "readCount"
    <2> PICK w : w = [work[u] EXCEPT !.n = db.counts[u], !.pc = "writeCount"]
      OBVIOUS
    <2>1. ReadCount(u, u, "writeCount") /\ UNCHANGED <<db, marred, doubled>>
      BY <1>3 DEF AddToList, ReadCount
    <2>2. Moves(u, w)
      <3>1. "writeCount" \in Steps /\ u \in Counter
        BY DEF Steps, Counter
      <3> QED BY <1>0, <1>1, <2>1, <3>1, CountRead
    <2>3. Touches(u, f)
      BY <1>1, <2>1, NothingTouched
    <2>4. w.kind = k /\ w.pc = "writeCount" /\ w.file = f /\ w.n = db.counts[u]
      BY <1>1 DEF Work
    <2>5. HasFile(u)' /\ ShareInv(u)'
      BY <1>0, <1>1, <2>1, <2>2, <2>3, HasQuiet, ShareQuiet
    <2>6. Owed(w) = 1 /\ Owed(work[u]) = 1
      BY <1>3, <2>4 DEF Owed, Uncounted, Storing
    <2>7. Owed(work[u])' = 1
      BY <2>2, <2>6 DEF Moves, Owed, Uncounted
    <2>8. Kept(u)' = Kept(u) /\ Owned(u)' = Owned(u)
      BY <2>1, <2>3, SameOwners DEF Kept
    <2>9. CountInv(u)'
      BY <1>0, <1>1, <2>1, <2>2, <2>4, <2>6, <2>7, <2>8 DEF CountInv, CountOk, Moves, Storing
    <2>10. Due(work[u], f) => Due(w, f)
      BY <1>0, <1>3, <2>4 DEF Due, Slack, Ahead
    <2>11. FileInv(f)'
      BY <1>1, <2>1, <2>2, <2>3, <2>10, FileSame
    <2> QED BY <2>2, <2>3, <2>5, <2>9, <2>11 DEF Stepped, Kept3
  <1>4. CASE work[u].pc = "writeCount"
    <2> PICK n, w : n = OneMore(work[u].n) /\ w = Then(work[u], next)
      OBVIOUS
    <2>1. /\ db' = WithCount(u, n) /\ Goto(u, next)
          /\ marred' = marred /\ doubled' = doubled
      BY <1>4 DEF AddToList, Sql
    <2>2. n \in Int
      BY <1>1 DEF OneMore, Work
    <2>3. Moves(u, w)
      <3>1. Follows(work[u], next)
        BY <1>0 DEF Follows, Steps, StoringSteps, Storing
      <3> QED BY <1>1, <2>1, <3>1, GotoMoves
    <2>4. /\ Touches(u, f)
          /\ db'.info = db.info /\ db'.rows = db.rows /\ db'.shares = db.shares
          /\ db'.counts[u] = n
      BY <1>1, <2>1, <2>2, CountTouched
    <2>5. HasFile(u)' /\ ShareInv(u)'
      BY <1>0, <1>1, <2>3, <2>4, HasQuiet, ShareQuiet
    <2>6. Owed(w) = 0 /\ w.pc # "writeCount" /\ Owed(work[u]) = 1
      BY <1>1, <1>4 DEF Then, Idle, Work, Owed, Uncounted, Storing
    <2>7. Owed(work[u])' = 0
      BY <2>3, <2>6 DEF Moves, Owed, Uncounted
    <2>8. Owned(u)' = Owned(u)
      BY <2>4, SameOwners
    <2>9. u \notin doubled => Kept(u)' = Kept(u) + 1
      BY <1>0, <1>1, <1>4, <2>1, <2>2, <2>4 DEF Kept, CountInv, CountOk, OneMore
    <2>10. Kept(u) \in Int
      BY <1>1 DEF Kept
    <2>11. CountInv(u)'
      BY <1>0, <1>1, <2>1, <2>3, <2>6, <2>7, <2>8, <2>9, <2>10, Counted DEF CountInv, CountOk, Moves
    <2>12. Due(work[u], f) /\ w.file = f => Due(w, f)
      BY <1>0, <1>1, <1>4 DEF Then, Idle, Work, Due, Slack, Ahead
    <2>13. FileInv(f)'
      BY <1>1, <2>1, <2>3, <2>4, <2>12, FileSame
    <2> QED BY <2>3, <2>4, <2>5, <2>11, <2>13 DEF Stepped, Kept3
  <1> QED BY <1>2, <1>3, <1>4 DEF AddToList

LEMMA UploadKeeps ==
    ASSUME IInv, CloudFilesAssumption, NEW u \in User, NEW f \in File, work[u].file = f,
           Upload(u), overlapped' = overlapped, fails' = fails
    PROVE  Stepped(u, f)
  <1>0. work[u].kind = "upload"
    BY DEF Upload
  <1>1. CASE work[u].pc = "insertInfo" /\ Goto(u, "insertRow")
             /\ db' = [db EXCEPT !.info[f] = Append(@, 1)] /\ doubled' = doubled
             /\ marred' = IF db.info[f] = << >> THEN marred ELSE marred \cup {f}
    <2>1. /\ work[u] \in Work /\ CountInv(u) /\ ShareInv(u) /\ FileInv(f) /\ Types
          /\ db.info[f] \in Seq(Int)
      BY Start
    <2> PICK r, w : r = Append(db.info[f], 1) /\ w = Then(work[u], "insertRow")
      OBVIOUS
    <2>2. Moves(u, w)
      <3>1. Follows(work[u], "insertRow")
        BY <1>0 DEF Follows, Steps, StoringSteps, Storing
      <3> QED BY <1>1, <2>1, <3>1, GotoMoves
    <2>3. r \in Seq(Int) /\ (db.info[f] = << >> => r # << >> /\ r[1] = 1)
      BY <2>1
    <2>4. db' = WithInfo(f, r)
      BY <1>1 DEF WithInfo, IInv, Types, Tables
    <2>5. /\ Touches(u, f) /\ db'.info[f] = r
          /\ db'.rows = db.rows /\ db'.shares = db.shares /\ db'.counts = db.counts
      BY <2>1, <2>3, <2>4, InfoTouched
    <2>6. w.kind = "upload" /\ w.pc = "insertRow" /\ w.file = f
      BY <1>0, <2>1 DEF Then, Work
    <2>7. HasOk(u, w) /\ CountOk(u, w) /\ ShareOk(u, w)
      BY <1>0, <1>1, <2>1, <2>6 DEF HasOk, CountInv, CountOk, ShareInv, ShareOk,
         Owed, Uncounted, Undoing, Adding
    <2>8. FileInv(f)'
      <3>1. SUFFICES ASSUME f \notin overlapped \cup marred' PROVE FileInv(f)'
        BY <1>1 DEF FileInv
      <3>2. db.info[f] = << >> /\ f \notin marred
        BY <1>1, <3>1
      <3>3. Owners(f)' = Owners(f) /\ Sharers(f)' = Sharers(f)
        BY <2>5 DEF Owners, Sharers
      <3>4. Count(f) = 0 /\ Count(f)' = 1
        BY <2>3, <2>5, <3>2 DEF Count
      <3>5. Cardinality(Owners(f)) <= 0
        BY <2>1, <3>1, <3>2, <3>4 DEF FileInv
      <3>6. Cardinality(Owners(f)') + 1 <= Count(f)' /\ Cardinality(Owners(f)') <= Count(f)'
        BY <3>3, <3>4, <3>5, Counted
      <3>7. Due(w, f)'
        BY <2>6, <3>6 DEF Due, Slack, Ahead
      <3>8. /\ \A v \in User : db'.shares[v][f] <= 1
            /\ \A v, x \in User : db'.shares[v][f] > 0 /\ db'.shares[x][f] > 0 => v = x
        BY <2>1, <2>5, <3>1, <3>2 DEF FileInv
      <3> QED BY <1>1, <2>2, <2>5, <3>6, <3>7, <3>8, FileQuiet
    <2> QED BY <1>1, <2>2, <2>5, <2>7, <2>8, QuietKeeps
  <1>2. CASE AddToList(u, "idle")
    BY <1>0, <1>2, AddToListKeeps DEF Storing
  <1> QED BY <1>1, <1>2 DEF Upload

LEMMA QuickUploadKeeps ==
    ASSUME IInv, CloudFilesAssumption, NEW u \in User, NEW f \in File, work[u].file = f,
           QuickUpload(u), overlapped' = overlapped, fails' = fails
    PROVE  Stepped(u, f)
  <1>0. work[u].kind = "md5"
    BY DEF QuickUpload
  <1>1. /\ work[u] \in Work /\ HasFile(u) /\ CountInv(u) /\ ShareInv(u) /\ FileInv(f) /\ Types
        /\ db.info[f] \in Seq(Int)
    BY Start
  \* Every step before the row is added leaves the user's part alone.
  <1>2. ASSUME NEW w \in Work, w.pc \notin {"readCount", "writeCount"},
               work[u].pc \notin {"readCount", "writeCount"},
               w = Idle \/ (w.kind = "md5" /\ w.file = f)
        PROVE  HasOk(u, w) /\ CountOk(u, w) /\ ShareOk(u, w)
    BY <1>0, <1>1, <1>2 DEF HasOk, CountInv, CountOk, ShareInv, ShareOk, Owed, Uncounted,
       Undoing, Adding, Idle, Storing
  <1>3. ASSUME NEW next \in {"idle", "addRef", "insertRow"},
               work[u].pc \notin {"readCount", "writeCount"}, Goto(u, next)
        PROVE  \E w : /\ w = Then(work[u], next) /\ Follows(work[u], next) /\ Moves(u, w)
                      /\ HasOk(u, w) /\ CountOk(u, w) /\ ShareOk(u, w)
                      /\ w.pc = next /\ w.kind \in {"none", "md5"}
    <2> PICK w : w = Then(work[u], next)
      OBVIOUS
    <2>1. Follows(work[u], next)
      BY <1>0, <1>3 DEF Follows, Steps, StoringSteps, Storing
    <2>2. Moves(u, w)
      BY <1>1, <1>3, <2>1, GotoMoves
    <2>3. w \in Work /\ w.pc = next /\ (w = Idle \/ (w.kind = "md5" /\ w.file = f))
      BY <1>0, <1>1, <1>3, <2>2 DEF Moves, Then, Idle, Work
    <2>4. HasOk(u, w) /\ CountOk(u, w) /\ ShareOk(u, w)
      BY <1>2, <1>3, <2>3
    <2>5. w.kind \in {"none", "md5"}
      BY <2>3 DEF Idle
    <2> QED BY <2>1, <2>2, <2>3, <2>4, <2>5
  <1>4. CASE work[u].pc \in {"readRef", "owned"} /\ UNCHANGED <<db, marred, doubled>>
             /\ \E next \in {"idle", "addRef"} : Goto(u, next)
    <2>1. PICK next \in {"idle", "addRef"} : Goto(u, next)
      BY <1>4
    <2>2. PICK w : /\ Moves(u, w) /\ HasOk(u, w) /\ CountOk(u, w) /\ ShareOk(u, w)
                   /\ w.pc = next /\ w.kind \in {"none", "md5"}
      BY <1>3, <1>4, <2>1
    <2>3. Due(work[u], f) => Due(w, f)
      BY <1>0, <2>2 DEF Due, Slack, Ahead
    <2> QED BY <1>4, <2>2, <2>3, LookKeeps
  <1>5. CASE work[u].pc = "readRef" /\ ReadRef(u, f, "owned")
    <2> PICK w : w = [work[u] EXCEPT !.ref = Count(f), !.pc = "owned"]
      OBVIOUS
    <2>1. Moves(u, w)
      <3>1. Follows(work[u], "owned")
        BY <1>0 DEF Follows, Steps, StoringSteps, Storing
      <3> QED BY <1>1, <1>5, <3>1, RefRead
    <2>2. w \in Work /\ w.kind = "md5" /\ w.file = f /\ w.pc = "owned"
      BY <1>0, <1>1, <2>1 DEF Moves, Work
    <2>3. HasOk(u, w) /\ CountOk(u, w) /\ ShareOk(u, w)
      BY <1>2, <1>5, <2>2
    <2>4. Due(work[u], f) => Due(w, f)
      BY <1>0, <1>5, <2>2 DEF Due, Slack, Ahead
    <2> QED BY <1>5, <2>1, <2>3, <2>4, LookKeeps DEF ReadRef
  <1>6. CASE work[u].pc = "addRef" /\ db' = WithRef(f, work[u].ref + 1)
             /\ marred' = marred \cup {f} /\ Goto(u, "insertRow") /\ doubled' = doubled
    <2>1. PICK w : /\ Moves(u, w) /\ HasOk(u, w) /\ CountOk(u, w) /\ ShareOk(u, w)
      BY <1>3, <1>6
    <2>2. work[u].ref + 1 \in Int
      BY <1>1 DEF Work
    <2>3. /\ Touches(u, f)
          /\ db'.rows = db.rows /\ db'.shares = db.shares /\ db'.counts = db.counts
      BY <1>1, <1>6, <2>2, RefTouched
    <2>4. FileInv(f)'
      BY <1>6 DEF FileInv
    <2> QED BY <1>6, <2>1, <2>3, <2>4, QuietKeeps
  <1>7. CASE AddToList(u, "restore")
    BY <1>0, <1>7, AddToListKeeps DEF Storing
  <1>8. CASE work[u].pc = "restore" /\ db' = WithRef(f, work[u].ref) /\ Goto(u, "idle")
             /\ UNCHANGED <<marred, doubled>>
    <2>1. PICK w : /\ Moves(u, w) /\ HasOk(u, w) /\ CountOk(u, w) /\ ShareOk(u, w)
      BY <1>3, <1>8
    <2>2. work[u].ref \in Int
      BY <1>1 DEF Work
    <2>3. /\ Touches(u, f)
          /\ db'.rows = db.rows /\ db'.shares = db.shares /\ db'.counts = db.counts
      BY <1>1, <1>8, <2>2, RefTouched
    <2>4. FileInv(f)'
      BY <1>0, <1>1, <1>8 DEF FileInv, Due
    <2> QED BY <1>8, <2>1, <2>3, <2>4, QuietKeeps
  <1> QED BY <1>4, <1>5, <1>6, <1>7, <1>8 DEF QuickUpload, Go

LEMMA SaveKeeps ==
    ASSUME IInv, CloudFilesAssumption, NEW u \in User, NEW f \in File, work[u].file = f,
           Save(u), overlapped' = overlapped, fails' = fails
    PROVE  Stepped(u, f)
  <1>0. work[u].kind = "save"
    BY DEF Save
  <1>1. /\ work[u] \in Work /\ HasFile(u) /\ CountInv(u) /\ ShareInv(u) /\ FileInv(f) /\ Types
        /\ db.info[f] \in Seq(Int)
    BY Start
  <1>2. ASSUME NEW w \in Work, w.pc \notin {"readCount", "writeCount"},
               work[u].pc \notin {"readCount", "writeCount"},
               w = Idle \/ (w.kind = "save" /\ w.file = f)
        PROVE  HasOk(u, w) /\ CountOk(u, w) /\ ShareOk(u, w)
    BY <1>0, <1>1, <1>2 DEF HasOk, CountInv, CountOk, ShareInv, ShareOk, Owed, Uncounted,
       Undoing, Adding, Idle, Storing
  <1>3. ASSUME NEW next \in {"idle", "readRef", "insertRow"},
               work[u].pc \notin {"readCount", "writeCount"}, Goto(u, next)
        PROVE  \E w : /\ Moves(u, w) /\ HasOk(u, w) /\ CountOk(u, w) /\ ShareOk(u, w)
                      /\ w.pc = next /\ w.kind \in {"none", "save"}
    <2> PICK w : w = Then(work[u], next)
      OBVIOUS
    <2>1. Follows(work[u], next)
      BY <1>0, <1>3 DEF Follows, Steps, StoringSteps, Storing
    <2>2. Moves(u, w)
      BY <1>1, <1>3, <2>1, GotoMoves
    <2>3. w \in Work /\ w.pc = next /\ (w = Idle \/ (w.kind = "save" /\ w.file = f))
      BY <1>0, <1>1, <1>3, <2>2 DEF Moves, Then, Idle, Work
    <2>4. HasOk(u, w) /\ CountOk(u, w) /\ ShareOk(u, w)
      BY <1>2, <1>3, <2>3
    <2>5. w.kind \in {"none", "save"}
      BY <2>3 DEF Idle
    <2> QED BY <2>2, <2>3, <2>4, <2>5
  <1>4. CASE /\ UNCHANGED <<db, marred, doubled>>
             /\ \/ /\ work[u].pc \in {"readRef", "owned"}
                   /\ \E next \in {"idle", "readRef"} : Goto(u, next)
                \/ work[u].pc = "addRef" /\ Goto(u, "idle")
    <2>1. PICK next \in {"idle", "readRef"} : Goto(u, next)
      BY <1>4
    <2>2. PICK w : /\ Moves(u, w) /\ HasOk(u, w) /\ CountOk(u, w) /\ ShareOk(u, w)
                   /\ w.pc = next /\ w.kind \in {"none", "save"}
      BY <1>3, <1>4, <2>1
    <2>3. Due(work[u], f) => Due(w, f)
      BY <1>0, <1>4, <2>2 DEF Due, Slack, Ahead
    <2> QED BY <1>4, <2>2, <2>3, LookKeeps
  <1>5. CASE work[u].pc = "readRef" /\ ReadRef(u, f, "addRef")
    <2> PICK w : w = [work[u] EXCEPT !.ref = Count(f), !.pc = "addRef"]
      OBVIOUS
    <2>1. Moves(u, w)
      <3>1. Follows(work[u], "addRef")
        BY <1>0 DEF Follows, Steps, StoringSteps, Storing
      <3> QED BY <1>1, <1>5, <3>1, RefRead
    <2>2. w \in Work /\ w.kind = "save" /\ w.file = f /\ w.pc = "addRef" /\ w.ref = Count(f)
      BY <1>0, <1>1, <2>1 DEF Moves, Work
    <2>3. HasOk(u, w) /\ CountOk(u, w) /\ ShareOk(u, w)
      BY <1>2, <1>5, <2>2
    <2>4. Due(work[u], f) => Due(w, f)
      BY <1>0, <1>5, <2>2 DEF Due, Slack, Ahead
    <2> QED BY <1>5, <2>1, <2>3, <2>4, LookKeeps DEF ReadRef
  <1>6. CASE work[u].pc = "addRef" /\ db' = WithRef(f, work[u].ref + 1) /\ db' # db
             /\ Goto(u, "insertRow") /\ UNCHANGED <<marred, doubled>>
    <2>1. PICK w : /\ Moves(u, w) /\ HasOk(u, w) /\ CountOk(u, w) /\ ShareOk(u, w)
                   /\ w.pc = "insertRow" /\ w.kind \in {"none", "save"}
      BY <1>3, <1>6
    <2>2. work[u].ref + 1 \in Int
      BY <1>1 DEF Work
    <2>3. /\ Touches(u, f)
          /\ db'.rows = db.rows /\ db'.shares = db.shares /\ db'.counts = db.counts
          /\ Count(f)' = IF db.info[f] = << >> THEN 0 ELSE work[u].ref + 1
      BY <1>1, <1>6, <2>2, RefTouched
    <2>4. FileInv(f)'
      <3>1. SUFFICES ASSUME f \notin overlapped \cup marred PROVE FileInv(f)'
        BY <1>6 DEF FileInv
      <3>2. Due(work[u], f)
        BY <1>1, <3>1 DEF FileInv
      <3>3. Owners(f)' = Owners(f) /\ Sharers(f)' = Sharers(f)
        BY <2>3 DEF Owners, Sharers
      <3>4. work[u].ref = Count(f) /\ Cardinality(Owners(f)) <= Count(f)
        BY <1>0, <1>6, <3>2, Counted DEF Due, Slack, Ahead
      <3>5. db.info[f] # << >>
        <4>1. SUFFICES ASSUME db.info[f] = << >> PROVE FALSE
          OBVIOUS
        <4>2. [i \in DOMAIN db.info[f] |-> work[u].ref + 1] = db.info[f]
          BY <4>1
        <4>3. WithRef(f, work[u].ref + 1) = db
          BY <1>1, <4>2 DEF WithRef, Types, Tables
        <4> QED BY <1>6, <4>3
      <3>6. Cardinality(Owners(f)') + 1 <= Count(f)' /\ Cardinality(Owners(f)') <= Count(f)'
        BY <1>1, <2>2, <2>3, <3>3, <3>4, <3>5, Counted DEF Work
      <3>7. Due(w, f)'
        BY <2>1, <3>6, CountedNext DEF Due, Slack, Ahead
      <3>8. /\ \A v \in User : db'.shares[v][f] <= 1
            /\ \A v, x \in User : db'.shares[v][f] > 0 /\ db'.shares[x][f] > 0 => v = x
        BY <1>1, <2>3, <3>1 DEF FileInv
      <3> QED BY <1>6, <2>1, <2>3, <3>6, <3>7, <3>8, FileQuiet
    <2> QED BY <1>6, <2>1, <2>3, <2>4, QuietKeeps
  <1>7. CASE AddToList(u, "idle")
    BY <1>0, <1>7, AddToListKeeps DEF Storing
  <1>8. ASSUME work[u].pc = "addRef", CaredSql(u, WithRef(f, work[u].ref + 1), "insertRow")
        PROVE  Stepped(u, f)
    <2>1. CASE WithRef(f, work[u].ref + 1) = db
      BY <1>4, <1>8, <2>1 DEF CaredSql, Sql
    <2>2. CASE WithRef(f, work[u].ref + 1) # db
      BY <1>6, <1>8, <2>2 DEF CaredSql, Sql
    <2> QED BY <2>1, <2>2
  <1> QED BY <1>4, <1>5, <1>7, <1>8 DEF Save, Go

LEMMA DownloadKeeps ==
    ASSUME IInv, CloudFilesAssumption, NEW u \in User, NEW f \in File, work[u].file = f,
           Download(u), overlapped' = overlapped, fails' = fails
    PROVE  Stepped(u, f)
  <1>0. work[u].kind = "pv"
    BY DEF Download
  <1>1. /\ work[u] \in Work /\ HasFile(u) /\ CountInv(u) /\ ShareInv(u) /\ FileInv(f) /\ Types
        /\ db.rows[u][f] \in Seq(Row)
    BY Start
  <1>2. ASSUME NEW next \in {"idle", "writePv"}, Goto(u, next)
        PROVE  \E w : /\ Moves(u, w) /\ HasOk(u, w) /\ CountOk(u, w) /\ ShareOk(u, w)
                      /\ w.pc = next /\ w.kind \in {"none", "pv"}
    <2> PICK w : w = Then(work[u], next)
      OBVIOUS
    <2>1. Follows(work[u], next)
      BY <1>0, <1>2 DEF Follows, Steps, Storing
    <2>2. Moves(u, w)
      BY <1>1, <1>2, <2>1, GotoMoves
    <2>3. w.pc = next /\ w.kind \in {"none", "pv"}
      BY <1>0, <1>1, <1>2 DEF Then, Idle, Work
    <2>4. HasOk(u, w) /\ CountOk(u, w) /\ ShareOk(u, w)
      BY <1>0, <1>1, <2>3 DEF HasOk, CountInv, CountOk, ShareInv, ShareOk, Owed, Uncounted,
         Undoing, Adding, Storing
    <2> QED BY <2>2, <2>3, <2>4
  <1>3. ASSUME NEW w, w.kind \in {"none", "pv"}, Due(work[u], f) PROVE Due(w, f)
    BY <1>0, <1>3 DEF Due, Slack, Ahead
  <1>4. CASE /\ UNCHANGED <<db, marred, doubled>>
             /\ \E next \in {"idle", "writePv"} : Goto(u, next)
    <2>1. PICK next \in {"idle", "writePv"} : Goto(u, next)
      BY <1>4
    <2>2. PICK w : /\ Moves(u, w) /\ HasOk(u, w) /\ CountOk(u, w) /\ ShareOk(u, w)
                   /\ w.pc = next /\ w.kind \in {"none", "pv"}
      BY <1>2, <2>1
    <2> QED BY <1>3, <1>4, <2>2, LookKeeps
  <1>5. CASE /\ db' = [db EXCEPT !.rows[u][f] = [i \in DOMAIN @ |-> [@[i] EXCEPT !.pv = 1]]]
             /\ Goto(u, "idle") /\ UNCHANGED <<marred, doubled>>
    <2>1. PICK w : /\ Moves(u, w) /\ HasOk(u, w) /\ CountOk(u, w) /\ ShareOk(u, w)
                   /\ w.pc = "idle" /\ w.kind \in {"none", "pv"}
      BY <1>2, <1>5
    <2> PICK r : r = Downloaded(db.rows[u][f])
      OBVIOUS
    <2>2. /\ r \in Seq(Row) /\ (r = << >> <=> db.rows[u][f] = << >>)
          /\ db.rows[u][f] # << >> => r[1].shared = db.rows[u][f][1].shared
      BY <1>1, RowsAfter, TRUE \in BOOLEAN
    <2>3. db' = WithRows(u, f, r)
      BY <1>1, <1>5 DEF WithRows, Types, Tables, Downloaded
    <2>4. /\ Touches(u, f)
          /\ db'.info = db.info /\ db'.shares = db.shares /\ db'.counts = db.counts
          /\ db'.rows[u][f] = r
      BY <1>1, <2>2, <2>3, RowsTouched
    <2>5. Owed(w) = 0 /\ Owed(work[u]) = 0
      BY <1>0, <2>1 DEF Owed, Uncounted, Storing
    <2>6. Owned(u)' = Owned(u)
      BY <2>2, <2>4, SameOwners
    <2>7. HasFile(u)' /\ CountInv(u)' /\ ShareInv(u)'
      BY <1>0, <1>1, <1>5, <2>1, <2>2, <2>4, <2>5, <2>6, HasQuiet, CountQuiet, ShareQuiet
    <2>8. FileInv(f)'
      <3>1. /\ db'.rows[u][f] = << >> <=> db.rows[u][f] = << >>
            /\ Due(work[u], f) => Due(w, f)
            /\ marred \subseteq marred'
        BY <1>3, <1>5, <2>1, <2>2, <2>4
      <3> QED BY <2>1, <2>4, <3>1, FileSame
    <2> QED BY <2>1, <2>4, <2>7, <2>8 DEF Stepped, Kept3
  <1> QED BY <1>4, <1>5 DEF Download, CaredSql, Sql, Go

LEMMA CountingKeeps ==
    ASSUME IInv, CloudFilesAssumption, NEW u \in User, CountFiles(u) \/ CountShared(u),
           overlapped' = overlapped, fails' = fails
    PROVE  Stepped(u, None)
  <1>0. work[u].kind \in {"count", "total"} /\ (work[u].kind = "total" => CountShared(u))
        /\ (work[u].kind = "count" => CountFiles(u))
    BY DEF CountFiles, CountShared
  <1>1. /\ work[u] \in Work /\ HasFile(u) /\ CountInv(u) /\ ShareInv(u) /\ Types
        /\ db.counts[u] \in Int \cup {None} /\ u \in Counter /\ Shared \in Counter
        /\ Shared \notin User /\ None \notin Int /\ fails \in Nat /\ None \notin File
    BY DEF IInv, Types, Tables, Counter, CloudFilesAssumption
  <1>2. ASSUME NEW next \in {"idle", "writeCount", "writeTotal"}, Goto(u, next)
        PROVE  Moves(u, Then(work[u], next))
    BY <1>0, <1>1, <1>2, GotoMoves DEF Follows, Steps, Storing
  <1>3. ASSUME NEW next \in {"idle", "writeCount", "writeTotal"}, Goto(u, next),
               UNCHANGED <<db, doubled>>,
               next = "writeCount" => work[u].kind = "count" /\ db.counts[u] = None
        PROVE  Stepped(u, None)
    <2> PICK w : w = Then(work[u], next)
      OBVIOUS
    <2>1. Moves(u, w) /\ Touches(u, None)
      BY <1>1, <1>2, <1>3, NothingTouched
    <2>2. w.pc = next /\ w.kind \in {"none", work[u].kind}
      BY <1>1, <1>3 DEF Then, Idle, Work
    <2>3. HasFile(u)' /\ ShareInv(u)'
      BY <1>0, <1>1, <1>3, <2>1, HasQuiet, ShareQuiet
    <2>4. Owed(w) = 0 /\ Owed(work[u]) = 0
      BY <1>0, <2>2 DEF Owed, Uncounted, Storing
    <2>5. Kept(u)' = Kept(u) /\ Owned(u)' = Owned(u) /\ Owed(work[u])' = 0
      BY <1>3, <2>1, <2>4 DEF Kept, Owned, Owed, Uncounted, Moves
    <2>6. CountInv(u)'
      BY <1>0, <1>1, <1>3, <2>1, <2>2, <2>4, <2>5 DEF CountInv, CountOk, Moves, Storing
    <2> QED BY <1>1, <2>1, <2>3, <2>6 DEF Stepped, Kept3
  <1>4. CASE /\ Goto(u, "idle") /\ UNCHANGED doubled
             /\ \/ work[u].kind = "count" /\ work[u].pc = "writeCount" /\ db' = WithCount(u, 0)
                \/ work[u].kind = "total" /\ db' = WithCount(Shared, 0)
    <2> PICK w : w = Then(work[u], "idle")
      OBVIOUS
    <2>1. Moves(u, w) /\ w = Idle
      BY <1>2, <1>4 DEF Then
    <2>2. /\ Touches(u, None) /\ db'.rows = db.rows /\ db'.shares = db.shares
          /\ \/ work[u].kind = "count" /\ work[u].pc = "writeCount" /\ db'.counts[u] = 0
             \/ db'.counts[u] = db.counts[u]
      <3>1. CASE db' = WithCount(u, 0) /\ work[u].kind = "count" /\ work[u].pc = "writeCount"
        <4> PICK k \in {u, Shared}, n \in Int : k = u /\ n = 0
          OBVIOUS
        <4>1. db' = WithCount(k, n)
          BY <3>1
        <4> QED BY <1>1, <3>1, <4>1, CountTouched
      <3>2. CASE db' = WithCount(Shared, 0)
        <4> PICK k \in {u, Shared}, n \in Int : k = Shared /\ n = 0
          OBVIOUS
        <4>1. db' = WithCount(k, n) /\ u \in Counter \ {k}
          BY <1>1, <3>2
        <4> QED BY <1>1, <4>1, CountTouched
      <3> QED BY <1>4, <3>1, <3>2
    <2>3. HasFile(u)' /\ ShareInv(u)'
      BY <1>0, <1>1, <2>1, <2>2, HasQuiet, ShareQuiet
    <2>4. Owed(w) = 0 /\ Owed(work[u]) = 0
      BY <1>0, <2>1 DEF Owed, Uncounted, Storing, Idle
    <2>5. Owned(u)' = Owned(u) /\ Owed(work[u])' = 0
      BY <2>1, <2>2, <2>4 DEF Owned, Owed, Uncounted, Moves
    <2>6. u \notin doubled => Kept(u)' = Kept(u)
      BY <1>0, <1>1, <2>2 DEF Kept, CountInv, CountOk
    <2>7. CountInv(u)'
      BY <1>0, <1>1, <1>4, <2>1, <2>4, <2>5, <2>6 DEF CountInv, CountOk, Moves, Storing, Idle
    <2> QED BY <1>1, <2>1, <2>2, <2>3, <2>7 DEF Stepped, Kept3
  <1>5. CASE work[u].kind = "count"
    BY <1>0, <1>3, <1>4, <1>5 DEF CountFiles, Go, Sql
  <1>6. CASE work[u].kind = "total"
    BY <1>0, <1>3, <1>4, <1>6 DEF CountShared, Go, Sql
  <1> QED BY <1>0, <1>5, <1>6

LEMMA GoesTo ==
    ASSUME Types, NEW u \in User, NEW next, Follows(work[u], next), Goto(u, next)
    PROVE  \E w : /\ Moves(u, w) /\ w.pc = next
                  /\ \/ next = "idle" /\ w = Idle
                     \/ /\ next # "idle" /\ w.kind = work[u].kind /\ w.file = work[u].file
                        /\ w.ref = work[u].ref /\ w.hit = work[u].hit
  <1>1. work[u] \in Work
    BY DEF Types
  <1> PICK w : w = Then(work[u], next)
    OBVIOUS
  <1>2. Moves(u, w)
    BY GotoMoves
  <1>3. CASE next = "idle"
    BY <1>2, <1>3 DEF Then, Idle
  <1>4. CASE next # "idle"
    <2>1. /\ w.pc = next /\ w.kind = work[u].kind /\ w.file = work[u].file
          /\ w.ref = work[u].ref /\ w.hit = work[u].hit
      BY <1>1, <1>4 DEF Then, Work
    <2> QED BY <1>2, <1>4, <2>1
  <1> QED BY <1>3, <1>4

LEMMA ShareKeeps ==
    ASSUME IInv, CloudFilesAssumption, NEW u \in User, NEW f \in File, work[u].file = f,
           Share(u), overlapped' = overlapped, fails' = fails
    PROVE  Stepped(u, f)
  <1>0. work[u].kind = "share"
    BY DEF Share
  <1>1. /\ work[u] \in Work /\ HasFile(u) /\ CountInv(u) /\ ShareInv(u) /\ FileInv(f) /\ Types
        /\ db.rows[u][f] \in Seq(Row) /\ db.shares[u][f] \in Nat /\ db.counts[u] \in Int \cup {None}
        /\ Shared \notin User /\ None \notin Int
    BY Start
  <1>2. db.rows[u][f] # << >>
    BY <1>0, <1>1 DEF HasFile, HasOk
  <1>3. ASSUME NEW next \in Steps, Goto(u, next)
        PROVE  \E w : Moves(u, w) /\ w.pc = next /\ (w = Idle \/ (w.kind = "share" /\ w.file = f))
    <2>1. Follows(work[u], next)
      BY <1>0 DEF Follows, Storing
    <2> QED BY <1>0, <1>1, <1>3, <2>1, GoesTo
  <1>4. ASSUME NEW w, w = Idle \/ (w.kind = "share" /\ w.file = f)
        PROVE  /\ HasOk(u, w) /\ CountOk(u, w) /\ Owed(w) = 0 /\ Owed(work[u]) = 0
               /\ Slack(w) = 0 /\ Slack(work[u]) = 0
    BY <1>0, <1>1, <1>2, <1>4 DEF HasOk, CountInv, CountOk, Owed, Uncounted, Storing, Idle,
       Slack, Ahead
  <1>5. ASSUME NEW next \in Steps, Goto(u, next), UNCHANGED <<db, marred, doubled>>,
               next # "insertShare", next = "setShared" => Sharers(f) = {},
               work[u].pc \in {"readTotal", "writeTotal"}
               => next \in {"readTotal", "writeTotal"} \/ db.counts[Shared] # None
        PROVE  Stepped(u, f)
    <2>1. PICK w : Moves(u, w) /\ w.pc = next /\ (w = Idle \/ (w.kind = "share" /\ w.file = f))
      BY <1>3, <1>5
    <2>2. ShareOk(u, w)
      BY <1>0, <1>1, <1>5, <2>1 DEF ShareInv, ShareOk, Undoing, Adding, Idle
    <2>3. Due(work[u], f) => Due(w, f)
      BY <1>0, <1>4, <1>5, <2>1 DEF Due, Idle
    <2> QED BY <1>4, <1>5, <2>1, <2>2, <2>3, LookKeeps
  <1>6. CASE /\ work[u].pc = "setShared" /\ db' = WithRowsShared(u, f, TRUE)
             /\ Goto(u, "insertShare") /\ UNCHANGED <<marred, doubled>>
    <2>1. PICK w : /\ Moves(u, w) /\ w.pc = "insertShare"
                   /\ w = Idle \/ (w.kind = "share" /\ w.file = f)
      BY <1>3, <1>6 DEF Steps
    <2>2. w.kind = "share" /\ w.file = f
      BY <2>1 DEF Idle
    <2> PICK r : r = SharedAs(db.rows[u][f], TRUE)
      OBVIOUS
    <2>3. r \in Seq(Row) /\ r # << >> /\ r[1].shared
      BY <1>1, <1>2, RowsAfter, TRUE \in BOOLEAN
    <2>4. db' = WithRows(u, f, r)
      BY <1>1, <1>6 DEF WithRows, WithRowsShared, Types, Tables, SharedAs
    <2>5. /\ Touches(u, f)
          /\ db'.info = db.info /\ db'.shares = db.shares /\ db'.counts = db.counts
          /\ db'.rows[u][f] = r
      BY <1>1, <2>3, <2>4, RowsTouched
    <2>6. HasFile(u)'
      BY <2>1, <2>2, <2>3, <2>5 DEF HasFile, HasOk, Moves
    <2>7. Owned(u)' = Owned(u)
      BY <1>2, <2>3, <2>5, SameOwners
    <2>8. CountInv(u)'
      BY <1>1, <1>4, <1>6, <2>1, <2>5, <2>7, CountQuiet
    <2>9. ShareInv(u)'
      <3>0. SUFFICES ASSUME fails = 0 PROVE ShareInv(u)'
        BY DEF ShareInv, ShareOk
      <3>1. \A g \in File : ~Undoing(work[u], g) /\ ~Adding(work[u], g)
        BY <1>0, <1>6 DEF Undoing, Adding
      <3>2. \A g \in File : db'.shares[u][g] > 0 =>
              /\ db.rows[u][g] # << >> /\ db.rows[u][g][1].shared
              /\ db.counts[Shared] # None
        BY <1>1, <2>5, <3>0, <3>1 DEF ShareInv, ShareOk
      <3>3. \A g \in File \ {f} : db'.rows[u][g] = db.rows[u][g]
        BY <2>5 DEF Touches
      <3>4. db'.rows[u][f] # << >> /\ db'.rows[u][f][1].shared
        BY <2>3, <2>5
      <3>5. \A g \in File : db'.shares[u][g] > 0 =>
              /\ db'.rows[u][g] # << >> /\ db'.rows[u][g][1].shared
              /\ db'.counts[Shared] # None
        BY <2>5, <3>2, <3>3, <3>4
      <3>6. work'[u] = w
        BY <2>1 DEF Moves
      <3> QED BY <2>1, <2>2, <3>4, <3>5, <3>6 DEF ShareInv, ShareOk
    <2>10. Due(work[u], f) => Due(w, f)
      BY <1>0, <1>4, <1>6, <2>1, <2>2 DEF Due
    <2>11. FileInv(f)'
      BY <1>2, <1>6, <2>1, <2>3, <2>5, <2>10, FileSame
    <2> QED BY <2>1, <2>5, <2>6, <2>8, <2>9, <2>11 DEF Stepped, Kept3
  <1>7. CASE /\ work[u].pc = "insertShare" /\ db' = [db EXCEPT !.shares[u][f] = @ + 1]
             /\ Goto(u, "readTotal") /\ UNCHANGED <<marred, doubled>>
    <2>1. PICK w : /\ Moves(u, w) /\ w.pc = "readTotal"
                   /\ w = Idle \/ (w.kind = "share" /\ w.file = f)
      BY <1>3, <1>7 DEF Steps
    <2>2. w.kind = "share" /\ w.file = f
      BY <2>1 DEF Idle
    <2> PICK n \in Nat : n = db.shares[u][f] + 1
      BY <1>1
    <2>3. db' = WithShares(u, f, n)
      BY <1>1, <1>7 DEF WithShares, Types, Tables
    <2>4. /\ Touches(u, f)
          /\ db'.info = db.info /\ db'.rows = db.rows /\ db'.counts = db.counts
          /\ db'.shares[u][f] = n
      BY <1>1, <2>3, SharesTouched
    <2>5. HasFile(u)'
      BY <1>2, <2>1, <2>2, <2>4 DEF HasFile, HasOk, Moves
    <2>6. Owned(u)' = Owned(u) /\ Owners(f)' = Owners(f)
      BY <2>4, SameOwners
    <2>7. CountInv(u)'
      BY <1>1, <1>4, <1>7, <2>1, <2>4, <2>6, CountQuiet
    <2>8. ShareInv(u)'
      <3>1. SUFFICES ASSUME fails = 0 PROVE ShareInv(u)'
        BY DEF ShareInv, ShareOk
      <3>2. db.rows[u][f][1].shared
        BY <1>0, <1>1, <1>7, <3>1 DEF ShareInv, ShareOk
      <3>3. \A g \in File : ~Undoing(work[u], g) /\ ~Adding(work[u], g)
        BY <1>0, <1>7 DEF Undoing, Adding
      <3>4. \A g \in File \ {f} : db'.shares[u][g] > 0 =>
              db.rows[u][g] # << >> /\ db.rows[u][g][1].shared /\ db.counts[Shared] # None
        BY <1>1, <2>4, <3>1, <3>3 DEF Touches, ShareInv, ShareOk
      <3>5. Adding(w, f)
        BY <2>1, <2>2 DEF Adding
      <3> QED BY <1>2, <2>1, <2>2, <2>4, <3>2, <3>4, <3>5
              DEF ShareInv, ShareOk, Moves, Adding
    <2>9. FileInv(f)'
      <3>1. SUFFICES ASSUME f \notin overlapped \cup marred PROVE FileInv(f)'
        BY <1>7 DEF FileInv
      <3>2. Due(work[u], f)
        BY <1>1, <3>1 DEF FileInv
      <3>3. \A v \in User : ~(db.shares[v][f] > 0)
        BY <1>0, <1>7, <3>2 DEF Due, Sharers
      <3>4. db'.shares[u][f] = 1 /\ \A v \in User \ {u} : db'.shares[v][f] = db.shares[v][f]
        BY <1>1, <2>4, <3>3 DEF Touches
      <3>5. /\ \A v \in User : db'.shares[v][f] <= 1
            /\ \A v, x \in User : db'.shares[v][f] > 0 /\ db'.shares[x][f] > 0 => v = x
        BY <1>1, <3>1, <3>3, <3>4 DEF FileInv
      <3>6. Count(f)' = Count(f)
        BY <2>4 DEF Count
      <3>7. Due(w, f)'
        BY <1>4, <2>1, <2>2, <2>6, <3>2, <3>6 DEF Due, Slack, Ahead
      <3>8. Cardinality(Owners(f)') <= Count(f)'
        BY <1>1, <2>6, <3>1, <3>6 DEF FileInv
      <3> QED BY <1>7, <2>1, <2>4, <3>5, <3>7, <3>8, FileQuiet
    <2> QED BY <2>1, <2>4, <2>5, <2>7, <2>8, <2>9 DEF Stepped, Kept3
  <1>8. CASE work[u].pc = "readTotal" /\ ReadCount(u, Shared, "writeTotal")
    <2>1. "writeTotal" \in Steps /\ Shared \in Counter
      BY DEF Steps, Counter
    <2> PICK w : w = [work[u] EXCEPT !.n = db.counts[Shared], !.pc = "writeTotal"]
      OBVIOUS
    <2>2. Moves(u, w)
      BY <1>0, <1>1, <1>8, <2>1, CountRead DEF Storing
    <2>3. w.kind = "share" /\ w.file = f /\ w.pc = "writeTotal"
      BY <1>0, <1>1 DEF Work
    <2>4. ShareOk(u, w)
      BY <1>0, <1>1, <1>8, <2>3 DEF ShareInv, ShareOk, Undoing, Adding
    <2>5. Due(work[u], f) => Due(w, f)
      BY <1>0, <1>4, <1>8, <2>3 DEF Due
    <2> QED BY <1>4, <1>8, <2>2, <2>3, <2>4, <2>5, LookKeeps DEF ReadCount
  <1>9. CASE /\ work[u].pc = "writeTotal" /\ Goto(u, "zadd") /\ UNCHANGED <<marred, doubled>>
             /\ \E n \in Int : db' = WithCount(Shared, n)
    <2>1. PICK w : /\ Moves(u, w) /\ w.pc = "zadd"
                   /\ w = Idle \/ (w.kind = "share" /\ w.file = f)
      BY <1>3, <1>9 DEF Steps
    <2>2. w.kind = "share" /\ w.file = f
      BY <2>1 DEF Idle
    <2>3. PICK n \in Int : db' = WithCount(Shared, n)
      BY <1>9
    <2>4. /\ Touches(u, f) /\ db'.info = db.info /\ db'.rows = db.rows
          /\ db'.shares = db.shares /\ db'.counts[Shared] = n /\ db'.counts[u] = db.counts[u]
      BY <1>1, <2>3, CountTouched DEF Counter
    <2>5. HasFile(u)'
      BY <1>2, <2>1, <2>2, <2>4 DEF HasFile, HasOk, Moves
    <2>6. Owned(u)' = Owned(u)
      BY <2>4, SameOwners
    <2>7. CountInv(u)'
      BY <1>1, <1>4, <1>9, <2>1, <2>4, <2>6, CountQuiet
    <2>8. ShareInv(u)'
      BY <1>0, <1>1, <2>1, <2>2, <2>4 DEF ShareInv, ShareOk, Moves, Undoing
    <2>9. Due(work[u], f) => Due(w, f)
      BY <1>0, <1>4, <1>9, <2>1, <2>2 DEF Due
    <2>10. FileInv(f)'
      BY <1>9, <2>1, <2>4, <2>9, FileSame
    <2> QED BY <2>1, <2>4, <2>5, <2>7, <2>8, <2>10 DEF Stepped, Kept3
  <1>10. ASSUME \/ work[u].pc = "zset" /\ Go(u, IF f \in redis.zset THEN "idle" ELSE "found")
                \/ work[u].pc = "found" /\ Go(u, IF IsListed(f) THEN "zadd" ELSE "setShared")
         PROVE  Stepped(u, f)
    BY <1>5, <1>10 DEF Go, IsListed, Steps
  <1>11. ASSUME \/ work[u].pc = "zadd" /\ UNCHANGED <<db, marred, doubled>> /\ Goto(u, "hset")
                \/ work[u].pc = "hset" /\ UNCHANGED <<db, marred, doubled>> /\ Goto(u, "idle")
                \/ work[u].pc = "writeTotal" /\ db.counts[Shared] # None /\ Go(u, "idle")
         PROVE  Stepped(u, f)
    BY <1>5, <1>11 DEF Go, Steps
  <1>12. work[u].n # None => work[u].n + 1 \in Int
    BY <1>1 DEF Work
  <1>13. ASSUME \/ work[u].n # None /\ Sql(u, WithCount(Shared, work[u].n + 1), "zadd")
                \/ Sql(u, WithCount(Shared, 1), "zadd")
         PROVE  /\ Goto(u, "zadd") /\ UNCHANGED <<marred, doubled>>
                /\ \E n \in Int : db' = WithCount(Shared, n)
    BY <1>12, <1>13 DEF Sql
  <1>14. CASE work[u].pc = "setShared" \/ work[u].pc = "insertShare" \/ work[u].pc = "readTotal"
    BY <1>6, <1>7, <1>8, <1>14 DEF Share, Sql
  <1>15. CASE work[u].pc \notin {"setShared", "insertShare", "readTotal"}
    BY <1>9, <1>10, <1>11, <1>13, <1>15 DEF Share, Redis
  <1> QED BY <1>14, <1>15

\* A request that is no share takes the user's share of the file back.
LEMMA UnshareKeeps ==
    ASSUME IInv, CloudFilesAssumption, NEW u \in User, NEW f \in File, NEW w, Moves(u, w),
           work[u].file = f, db' = WithShares(u, f, 0), doubled' = doubled, marred' = marred,
           overlapped' = overlapped, fails' = fails,
           work[u].kind \in {"cancel", "delete"}, HasOk(u, w), CountOk(u, w),
           w.pc # "writeCount", Owed(w) = Owed(work[u]),
           Due(work[u], f) /\ w.file = f => Due(w, f)
    PROVE  Stepped(u, f)
  <1>1. /\ CountInv(u) /\ ShareInv(u) /\ FileInv(f) /\ Types /\ work[u] \in Work
        /\ db.shares[u][f] \in Nat /\ None \notin Int
    BY Start
  <1>2. 0 \in Nat
    OBVIOUS
  <1> PICK n \in Nat : n = 0
    OBVIOUS
  <1>3. /\ Touches(u, f)
        /\ db'.info = db.info /\ db'.rows = db.rows /\ db'.counts = db.counts
        /\ db'.shares[u][f] = 0
    <2>1. db' = WithShares(u, f, n)
      OBVIOUS
    <2> QED BY <1>1, <2>1, SharesTouched
  <1>4. work'[u] = w /\ w.kind \in {"none", work[u].kind} /\ (w.kind # "none" => w.file = f)
    BY DEF Moves, Idle
  <1>5. Owned(u)' = Owned(u) /\ Owners(f)' = Owners(f) /\ Count(f)' = Count(f)
    BY <1>3 DEF Owned, Owners, Count
  <1>6. HasFile(u)'
    BY <1>3, <1>4 DEF HasFile, HasOk
  <1>7. CountInv(u)'
    BY <1>1, <1>3, <1>5, CountQuiet
  <1>8. ShareInv(u)'
    <2>1. SUFFICES ASSUME fails = 0 PROVE ShareInv(u)'
      BY DEF ShareInv, ShareOk
    <2>2. \A g \in File \ {f} : db'.shares[u][g] > 0 =>
            db.rows[u][g] # << >> /\ db.rows[u][g][1].shared /\ db.counts[Shared] # None
      BY <1>1, <1>3, <2>1 DEF Touches, ShareInv, ShareOk, Undoing, Adding
    <2>3. ~(db'.shares[u][f] > 0)
      BY <1>3
    <2> QED BY <1>3, <1>4, <2>2, <2>3 DEF ShareInv, ShareOk
  <1>9. FileInv(f)'
    <2>1. SUFFICES ASSUME f \notin overlapped \cup marred PROVE FileInv(f)'
      BY DEF FileInv
    <2>2. Due(work[u], f) /\ Cardinality(Owners(f)) <= Count(f)
      BY <1>1, <2>1 DEF FileInv
    <2>3. \A v \in User : db'.shares[v][f] > 0 => db.shares[v][f] > 0
      BY <1>3 DEF Touches
    <2>4. /\ \A v \in User : db'.shares[v][f] <= 1
          /\ \A v, x \in User : db'.shares[v][f] > 0 /\ db'.shares[x][f] > 0 => v = x
      BY <1>1, <1>3, <2>1, <2>3 DEF FileInv, Touches
    <2>5. w.file = f => Due(w, f)'
      BY <1>4, <1>5, <2>2 DEF Due
    <2> QED BY <1>3, <1>5, <2>2, <2>4, <2>5, FileQuiet
  <1> QED BY <1>3, <1>6, <1>7, <1>8, <1>9 DEF Stepped, Kept3

\* ... or writes the shared total, which has a row afterwards.
LEMMA TotalKeeps ==
    ASSUME IInv, CloudFilesAssumption, NEW u \in User, NEW f \in File, NEW w, Moves(u, w),
           work[u].file = f, NEW n \in Int, db' = WithCount(Shared, n),
           doubled' = doubled, marred' = marred, overlapped' = overlapped, fails' = fails,
           HasOk(u, w), CountOk(u, w), ShareOk(u, w),
           w.pc # "writeCount", Owed(w) = Owed(work[u]),
           Due(work[u], f) /\ w.file = f => Due(w, f)
    PROVE  Stepped(u, f)
  <1>1. CountInv(u) /\ Types /\ None \notin Int /\ Shared \notin User
    BY Start
  <1>2. /\ Touches(u, f) /\ db'.info = db.info /\ db'.rows = db.rows
        /\ db'.shares = db.shares /\ db'.counts[Shared] = n /\ db'.counts[u] = db.counts[u]
    BY <1>1, CountTouched DEF Counter
  <1>3. work'[u] = w /\ Owned(u)' = Owned(u)
    BY <1>2 DEF Owned, Moves
  <1>4. HasFile(u)'
    BY <1>2, <1>3 DEF HasFile, HasOk
  <1>5. CountInv(u)'
    BY <1>1, <1>2, <1>3, CountQuiet
  <1>6. ShareInv(u)'
    BY <1>1, <1>2, <1>3 DEF ShareInv, ShareOk, Undoing
  <1>7. FileInv(f)'
    BY <1>2, FileSame
  <1> QED BY <1>2, <1>4, <1>5, <1>6, <1>7 DEF Stepped, Kept3

LEMMA CancelKeeps ==
    ASSUME IInv, CloudFilesAssumption, NEW u \in User, NEW f \in File, work[u].file = f,
           Cancel(u), overlapped' = overlapped, fails' = fails
    PROVE  Stepped(u, f)
  <1>0. work[u].kind = "cancel"
    BY DEF Cancel
  <1>1. /\ work[u] \in Work /\ HasFile(u) /\ CountInv(u) /\ ShareInv(u) /\ FileInv(f) /\ Types
        /\ db.rows[u][f] \in Seq(Row) /\ db.shares[u][f] \in Nat /\ db.counts[u] \in Int \cup {None}
        /\ Shared \notin User /\ None \notin Int /\ Carries(work[u])
    BY Start
  <1>2. ASSUME NEW next \in Steps \ {"writeTotal", "writeCount"}, Goto(u, next)
        PROVE  \E w : Moves(u, w) /\ w.pc = next /\ (w = Idle \/ (w.kind = "cancel" /\ w.file = f))
    <2>1. Follows(work[u], next)
      BY <1>0 DEF Follows, Storing
    <2> QED BY <1>0, <1>1, <1>2, <2>1, GoesTo
  <1>3. ASSUME NEW w, w = Idle \/ (w.kind = "cancel" /\ w.file = f)
        PROVE  /\ HasOk(u, w) /\ CountOk(u, w) /\ Owed(w) = 0 /\ Owed(work[u]) = 0
               /\ Due(work[u], f) => Due(w, f)
    BY <1>0, <1>1, <1>3 DEF HasOk, CountInv, CountOk, Owed, Uncounted, Storing, Idle,
       Slack, Ahead, Due
  <1>4. CASE /\ work[u].pc = "setUnshared" /\ db' = WithRowsShared(u, f, FALSE)
             /\ Goto(u, "readTotal") /\ UNCHANGED <<marred, doubled>>
    <2>1. PICK w : /\ Moves(u, w) /\ w.pc = "readTotal"
                   /\ w = Idle \/ (w.kind = "cancel" /\ w.file = f)
      BY <1>2, <1>4 DEF Steps
    <2>2. w.kind = "cancel" /\ w.file = f
      BY <2>1 DEF Idle
    <2> PICK r : r = SharedAs(db.rows[u][f], FALSE)
      OBVIOUS
    <2>3. r \in Seq(Row) /\ (r = << >> <=> db.rows[u][f] = << >>)
      BY <1>1, RowsAfter, FALSE \in BOOLEAN
    <2>4. db' = WithRows(u, f, r)
      BY <1>1, <1>4 DEF WithRows, WithRowsShared, Types, Tables, SharedAs
    <2>5. /\ Touches(u, f)
          /\ db'.info = db.info /\ db'.shares = db.shares /\ db'.counts = db.counts
          /\ db'.rows[u][f] = r
      BY <1>1, <2>3, <2>4, RowsTouched
    <2>6. HasFile(u)'
      BY <2>1, <2>2 DEF HasFile, HasOk, Moves
    <2>7. Owned(u)' = Owned(u)
      BY <2>3, <2>5, SameOwners
    <2>8. CountInv(u)'
      BY <1>1, <1>3, <1>4, <2>1, <2>5, <2>7, CountQuiet
    <2>9. ShareInv(u)'
      <3>1. SUFFICES ASSUME fails = 0 PROVE ShareInv(u)'
        BY DEF ShareInv, ShareOk
      <3>2. \A g \in File : db'.shares[u][g] > 0 =>
              /\ db.rows[u][g] # << >> /\ db.counts[Shared] # None
              /\ db.rows[u][g][1].shared
        BY <1>0, <1>1, <1>4, <2>5, <3>1 DEF ShareInv, ShareOk, Undoing, Adding
      <3>3. \A g \in File \ {f} : db'.rows[u][g] = db.rows[u][g]
        BY <2>5 DEF Touches
      <3>4. Undoing(w, f) /\ (db.rows[u][f] # << >> => db'.rows[u][f] # << >>)
        BY <2>1, <2>2, <2>3, <2>5 DEF Undoing
      <3>5. \A g \in File : db'.shares[u][g] > 0 =>
              /\ db'.rows[u][g] # << >> /\ db'.counts[Shared] # None
              /\ db'.rows[u][g][1].shared \/ Undoing(w, g)
        BY <2>5, <3>2, <3>3, <3>4
      <3>6. work'[u] = w
        BY <2>1 DEF Moves
      <3> QED BY <2>1, <2>2, <3>5, <3>6 DEF ShareInv, ShareOk, Undoing
    <2>10. FileInv(f)'
      BY <1>3, <1>4, <2>1, <2>3, <2>5, FileSame
    <2> QED BY <2>1, <2>5, <2>6, <2>8, <2>9, <2>10 DEF Stepped, Kept3
  <1>5. CASE work[u].pc = "readTotal" /\ db.counts[Shared] = None /\ Go(u, "idle")
    <2>1. PICK w : Moves(u, w) /\ (w = Idle \/ (w.kind = "cancel" /\ w.file = f)) /\ w.pc = "idle"
      BY <1>2, <1>5 DEF Go, Steps
    <2>2. ShareOk(u, w)
      BY <1>0, <1>1, <1>5, <2>1 DEF ShareInv, ShareOk, Adding, Idle
    <2> QED BY <1>3, <1>5, <2>1, <2>2, LookKeeps DEF Go
  <1>6. CASE work[u].pc = "readTotal" /\ db.counts[Shared] # None /\ Go(u, "dropShare")
    <2>1. PICK w : /\ Moves(u, w) /\ w.pc = "dropShare"
                   /\ w = Idle \/ (w.kind = "cancel" /\ w.file = f)
      BY <1>2, <1>6 DEF Go, Steps
    <2>2. w.kind = "cancel" /\ w.file = f
      BY <2>1 DEF Idle
    <2>3. ShareOk(u, w)
      BY <1>0, <1>1, <1>6, <2>1, <2>2 DEF ShareInv, ShareOk, Adding, Undoing
    <2> QED BY <1>3, <1>6, <2>1, <2>3, LookKeeps DEF Go
  <1>7. CASE /\ work[u].pc = "readTotal" /\ db.counts[Shared] # None
             /\ ReadCount(u, Shared, "writeTotal")
    <2>1. "writeTotal" \in Steps /\ Shared \in Counter
      BY DEF Steps, Counter
    <2> PICK w : w = [work[u] EXCEPT !.n = db.counts[Shared], !.pc = "writeTotal"]
      OBVIOUS
    <2>2. Moves(u, w)
      BY <1>0, <1>1, <1>7, <2>1, CountRead DEF Storing
    <2>3. w.kind = "cancel" /\ w.file = f /\ w.pc = "writeTotal"
      BY <1>0, <1>1 DEF Work
    <2>4. ShareOk(u, w)
      BY <1>0, <1>1, <1>7, <2>3 DEF ShareInv, ShareOk, Undoing, Adding
    <2> QED BY <1>3, <1>7, <2>2, <2>3, <2>4, LookKeeps DEF ReadCount
  <1>8. CASE work[u].pc = "writeTotal" /\ Sql(u, WithCount(Shared, work[u].n - 1), "dropShare")
    <2>1. PICK w : /\ Moves(u, w) /\ w.pc = "dropShare"
                   /\ w = Idle \/ (w.kind = "cancel" /\ w.file = f)
      BY <1>2, <1>8 DEF Sql, Steps
    <2>2. w.kind = "cancel" /\ w.file = f
      BY <2>1 DEF Idle
    <2>3. ShareOk(u, w)
      BY <1>0, <1>1, <1>8, <2>1, <2>2 DEF ShareInv, ShareOk, Adding, Undoing
    <2>4. work[u].n - 1 \in Int
      BY <1>0, <1>1, <1>8 DEF Carries
    <2> QED BY <1>3, <1>8, <2>1, <2>3, <2>4, TotalKeeps DEF Sql
  <1>9. CASE work[u].pc = "dropShare" /\ Sql(u, WithoutShares(u, f), "idle")
    <2>1. PICK w : /\ Moves(u, w) /\ w.pc = "idle"
                   /\ w = Idle \/ (w.kind = "cancel" /\ w.file = f)
      BY <1>2, <1>9 DEF Sql, Steps
    <2>2. db' = WithShares(u, f, 0) /\ UNCHANGED <<marred, doubled>>
      BY <1>9 DEF Sql, WithoutShares, WithShares
    <2> QED BY <1>0, <1>3, <2>1, <2>2, UnshareKeeps
  <1>10. ASSUME work[u].pc = "setUnshared", Sql(u, WithRowsShared(u, f, FALSE), "readTotal")
         PROVE  Stepped(u, f)
    BY <1>4, <1>10 DEF Sql
  <1> QED BY <1>5, <1>6, <1>7, <1>8, <1>9, <1>10 DEF Cancel

\* The first half of a deletion.
LEMMA UnlistKeeps ==
    ASSUME IInv, CloudFilesAssumption, NEW u \in User, NEW f \in File, work[u].file = f,
           work[u].kind = "delete", Unlist(u), overlapped' = overlapped, fails' = fails
    PROVE  Stepped(u, f)
  <1>0. work[u].kind = "delete"
    OBVIOUS
  <1>1. /\ work[u] \in Work /\ HasFile(u) /\ CountInv(u) /\ ShareInv(u) /\ FileInv(f) /\ Types
        /\ db.rows[u][f] \in Seq(Row) /\ db.shares[u][f] \in Nat /\ db.counts[u] \in Int \cup {None}
        /\ Shared \notin User /\ None \notin Int /\ Carries(work[u])
    BY Start
  <1> DEFINE Early == {"zset", "status", "dropShare", "readTotal", "writeTotal", "zrem", "hdel"}
             Onward == Early \cup {"readCount"}
  <1>2. ASSUME work[u].pc \in Early, NEW w, w.pc \in Onward,
               w.kind = "delete" /\ w.file = f
        PROVE  /\ HasOk(u, w) /\ CountOk(u, w) /\ Owed(w) = 0 /\ Owed(work[u]) = 0
               /\ w.pc # "writeCount" /\ (Due(work[u], f) => Due(w, f))
    BY <1>0, <1>1, <1>2 DEF HasFile, HasOk, CountInv, CountOk, Owed, Uncounted, Storing,
       Slack, Ahead, Due
  <1>3. ASSUME work[u].pc \in Early, NEW w, w = Idle
        PROVE  /\ HasOk(u, w) /\ CountOk(u, w) /\ Owed(w) = 0 /\ Owed(work[u]) = 0
               /\ w.pc # "writeCount" /\ (Due(work[u], f) => Due(w, f))
    BY <1>0, <1>1, <1>3 DEF HasOk, CountInv, CountOk, Owed, Uncounted, Storing, Idle,
       Slack, Ahead, Due
  <1>4. ASSUME work[u].pc \in Early, NEW next \in (Onward \ {"writeTotal"}) \cup {"idle"},
               Goto(u, next)
        PROVE  \E w : /\ Moves(u, w) /\ w.pc = next
                      /\ w = Idle \/ (w.kind = "delete" /\ w.file = f)
                      /\ HasOk(u, w) /\ CountOk(u, w) /\ Owed(w) = 0 /\ Owed(work[u]) = 0
                      /\ w.pc # "writeCount" /\ (Due(work[u], f) => Due(w, f))
    <2>1. Follows(work[u], next)
      BY <1>0, <1>4 DEF Follows, Storing, Steps
    <2>2. PICK w : /\ Moves(u, w) /\ w.pc = next
                   /\ \/ next = "idle" /\ w = Idle
                      \/ next # "idle" /\ w.kind = "delete" /\ w.file = f
      BY <1>0, <1>1, <1>4, <2>1, GoesTo
    <2> QED BY <1>2, <1>3, <1>4, <2>2
  \* Steps that look at MySQL or change Redis.
  <1>5. ASSUME work[u].pc \in Early, NEW next \in (Onward \ {"writeTotal"}) \cup {"idle"},
               Goto(u, next), UNCHANGED <<db, marred, doubled>>,
               next \in Undone /\ fails = 0 => db.shares[u][f] = 0
        PROVE  Stepped(u, f)
    <2>1. PICK w : /\ Moves(u, w) /\ w.pc = next
                   /\ w = Idle \/ (w.kind = "delete" /\ w.file = f)
                   /\ HasOk(u, w) /\ CountOk(u, w) /\ (Due(work[u], f) => Due(w, f))
      BY <1>4, <1>5
    <2>2. ShareOk(u, w)
      BY <1>0, <1>1, <1>5, <2>1 DEF ShareInv, ShareOk, Adding, Undoing, Idle
    <2> QED BY <1>5, <2>1, <2>2, LookKeeps
  <1>6. CASE /\ work[u].pc = "zset" /\ UNCHANGED <<db, marred, doubled>>
             /\ work' = [work EXCEPT ![u].hit = TRUE, ![u].pc = "dropShare"]
    <2> PICK w : w = [work[u] EXCEPT !.hit = TRUE, !.pc = "dropShare"]
      OBVIOUS
    <2>1. w \in Work /\ w.kind = "delete" /\ w.file = f /\ w.pc = "dropShare"
      <3>1. "dropShare" \in Steps
        BY DEF Steps
      <3> QED BY <1>0, <1>1, <3>1 DEF Work
    <2>2. work' = [work EXCEPT ![u] = w]
      BY <1>1, <1>6 DEF Types, Work
    <2>3. Carries(w)
      BY <1>1, <2>1, <1>0 DEF Carries, Storing
    <2>4. Moves(u, w)
      BY <1>0, <1>1, <2>1, <2>2, <2>3 DEF Moves, Types
    <2>5. ShareOk(u, w)
      BY <1>0, <1>1, <2>1 DEF ShareInv, ShareOk, Adding, Undoing, Undone
    <2>6. HasOk(u, w) /\ CountOk(u, w) /\ (Due(work[u], f) => Due(w, f))
      BY <1>2, <1>6, <2>1
    <2> QED BY <1>6, <2>4, <2>5, <2>6, LookKeeps
  <1>7. CASE /\ work[u].pc = "readTotal" /\ db.counts[Shared] # None
             /\ ReadCount(u, Shared, "writeTotal")
    <2>1. "writeTotal" \in Steps /\ Shared \in Counter
      BY DEF Steps, Counter
    <2> PICK w : w = [work[u] EXCEPT !.n = db.counts[Shared], !.pc = "writeTotal"]
      OBVIOUS
    <2>2. Moves(u, w)
      BY <1>0, <1>1, <1>7, <2>1, CountRead DEF Storing
    <2>3. w.kind = "delete" /\ w.file = f /\ w.pc = "writeTotal"
      BY <1>0, <1>1 DEF Work
    <2>4. ShareOk(u, w)
      BY <1>0, <1>1, <1>7, <2>3 DEF ShareInv, ShareOk, Undoing, Adding, Undone
    <2>5. HasOk(u, w) /\ CountOk(u, w) /\ (Due(work[u], f) => Due(w, f))
      BY <1>2, <1>7, <2>3
    <2> QED BY <1>7, <2>2, <2>4, <2>5, LookKeeps DEF ReadCount
  <1>8. CASE work[u].pc = "dropShare" /\ Sql(u, WithoutShares(u, f), "readTotal")
    <2>1. db' = WithShares(u, f, 0) /\ UNCHANGED <<marred, doubled>> /\ Goto(u, "readTotal")
      BY <1>8 DEF Sql, WithoutShares, WithShares
    <2>2. PICK w : /\ Moves(u, w) /\ w.pc = "readTotal"
                   /\ HasOk(u, w) /\ CountOk(u, w) /\ Owed(w) = 0 /\ Owed(work[u]) = 0
                   /\ w.pc # "writeCount" /\ (Due(work[u], f) => Due(w, f))
      BY <1>4, <1>8, <2>1
    <2> QED BY <1>0, <2>1, <2>2, UnshareKeeps
  <1>9. ASSUME work[u].pc = "writeTotal",
               CaredSql(u, WithCount(Shared, work[u].n - 1), AfterUnlist(work[u]))
        PROVE  Stepped(u, f)
    <2>1. PICK next \in {"idle", "zrem", "readCount"} :
             /\ Goto(u, next) /\ UNCHANGED <<marred, doubled>>
             /\ db' = WithCount(Shared, work[u].n - 1)
      BY <1>9 DEF CaredSql, Sql, AfterUnlist
    <2>2. work[u].n - 1 \in Int
      BY <1>0, <1>1, <1>9 DEF Carries
    <2>3. PICK w : /\ Moves(u, w) /\ w.pc = next
                   /\ w = Idle \/ (w.kind = "delete" /\ w.file = f)
                   /\ HasOk(u, w) /\ CountOk(u, w) /\ Owed(w) = 0 /\ Owed(work[u]) = 0
                   /\ w.pc # "writeCount" /\ (Due(work[u], f) => Due(w, f))
      BY <1>4, <1>9, <2>1
    <2>4. ShareOk(u, w)
      BY <1>0, <1>1, <1>9, <2>3 DEF ShareInv, ShareOk, Adding, Undoing, Undone, Idle
    <2> QED BY <2>1, <2>2, <2>3, <2>4, TotalKeeps
  <1>10. ASSUME work[u].pc = "status",
                Go(u, IF HasShared(u, f) THEN "dropShare" ELSE "readCount")
         PROVE  Stepped(u, f)
    <2>1. db.rows[u][f] # << >>
      BY <1>0, <1>1, <1>10 DEF HasFile, HasOk
    <2>2. ~HasShared(u, f) /\ fails = 0 => db.shares[u][f] = 0
      BY <1>0, <1>1, <2>1 DEF HasShared, Owned, ShareInv, ShareOk, Undoing
    <2> QED BY <1>5, <1>10, <2>2 DEF Go, Undone
  <1>11. ASSUME work[u].pc \in {"readTotal", "zrem", "hdel"},
                UNCHANGED <<db, marred, doubled>>,
                \E next \in {"idle", "hdel", "readCount"} : Goto(u, next)
         PROVE  Stepped(u, f)
    <2>1. fails = 0 => db.shares[u][f] = 0
      BY <1>0, <1>1, <1>11 DEF ShareInv, ShareOk, Undone
    <2> QED BY <1>5, <1>11, <2>1
  <1>12. ASSUME work[u].pc = "zset", Go(u, "status")
         PROVE  Stepped(u, f)
    BY <1>5, <1>12 DEF Go, Undone
  <1>13. CASE work[u].pc \in {"zset", "status", "dropShare", "writeTotal"}
    BY <1>6, <1>8, <1>9, <1>10, <1>12, <1>13 DEF Unlist
  <1>14. CASE work[u].pc \notin {"zset", "status", "dropShare", "writeTotal"}
    BY <1>7, <1>11, <1>14 DEF Unlist, Redis, Go
  <1> QED BY <1>13, <1>14

\* The second half.
LEMMA UnownKeeps ==
    ASSUME IInv, CloudFilesAssumption, NEW u \in User, NEW f \in File, work[u].file = f,
           work[u].kind = "delete", Unown(u), overlapped' = overlapped, fails' = fails
    PROVE  Stepped(u, f)
  <1>0. work[u].kind = "delete"
    OBVIOUS
  <1>1. /\ work[u] \in Work /\ HasFile(u) /\ CountInv(u) /\ ShareInv(u) /\ FileInv(f) /\ Types
        /\ db.rows[u][f] \in Seq(Row) /\ db.shares[u][f] \in Nat /\ db.counts[u] \in Int \cup {None}
        /\ Shared \notin User /\ None \notin Int /\ Carries(work[u])
        /\ db.info[f] \in Seq(Int) /\ fails \in Nat
    BY Start
  <1> DEFINE Late == {"readCount", "writeCount", "dropRows", "readRef", "subRef", "dropInfo"}
  \* The user's share of the file is gone since the first half.
  <1>2. ASSUME work[u].pc \in Late, NEW w, w = Idle \/ (w.kind = "delete" /\ w.file = f)
        PROVE  ShareOk(u, w)
    BY <1>0, <1>1, <1>2 DEF ShareInv, ShareOk, Undone, Undoing, Adding, Idle
  <1>3. ASSUME NEW next \in {"idle", "dropRows", "readRef", "subRef", "dropInfo"}, Goto(u, next)
        PROVE  \E w : /\ Moves(u, w) /\ w.pc = next
                      /\ \/ next = "idle" /\ w = Idle
                         \/ next # "idle" /\ w.kind = "delete" /\ w.file = f
    <2>1. Follows(work[u], next) /\ Types
      BY <1>0, <1>1, <1>3 DEF Follows, Storing, Steps
    <2>2. PICK w : /\ Moves(u, w) /\ w.pc = next
                   /\ \/ next = "idle" /\ w = Idle
                      \/ next # "idle" /\ w.kind = work[u].kind /\ w.file = work[u].file
      BY <1>3, <2>1, GoesTo
    <2> QED BY <1>0, <2>2
  <1>4. CASE /\ work[u].pc \in {"readCount", "readRef"}
             /\ UNCHANGED <<db, marred, doubled>> /\ Goto(u, "idle")
    <2>1. PICK w : Moves(u, w) /\ w = Idle
      BY <1>3, <1>4
    <2>2. ShareOk(u, w)
      BY <1>2, <1>4, <2>1
    <2>3. HasOk(u, w) /\ CountOk(u, w)
      BY <1>0, <1>1, <1>4, <2>1 DEF HasOk, CountInv, CountOk, Owed, Uncounted, Storing, Idle
    <2>4. w.file # f
      BY <2>1 DEF Idle, CloudFilesAssumption
    <2> QED BY <1>4, <2>1, <2>2, <2>3, <2>4, LookKeeps
  <1>5. CASE /\ work[u].pc = "readCount" /\ db.counts[u] # None
             /\ ReadCount(u, u, "writeCount")
    <2>1. "writeCount" \in Steps /\ u \in Counter
      BY DEF Steps, Counter
    <2> PICK w : w = [work[u] EXCEPT !.n = db.counts[u], !.pc = "writeCount"]
      OBVIOUS
    <2>2. Moves(u, w)
      BY <1>0, <1>1, <1>5, <2>1, CountRead DEF Storing
    <2>3. w.kind = "delete" /\ w.file = f /\ w.pc = "writeCount" /\ w.n = db.counts[u]
      BY <1>0, <1>1 DEF Work
    <2>4. ShareOk(u, w)
      BY <1>2, <1>5, <2>3
    <2>5. HasOk(u, w) /\ CountOk(u, w)
      BY <1>0, <1>1, <1>5, <2>3 DEF HasFile, HasOk, CountInv, CountOk, Owed, Uncounted, Storing
    <2>6. Due(work[u], f) => Due(w, f)
      BY <1>0, <1>5, <2>3 DEF Due, Slack, Ahead
    <2> QED BY <1>5, <2>2, <2>4, <2>5, <2>6, LookKeeps DEF ReadCount
  <1>6. CASE /\ work[u].pc = "readCount" /\ db.counts[u] # None /\ ~(db.counts[u] >= 1)
             /\ Go(u, "dropRows")
    <2>1. PICK w : Moves(u, w) /\ w.pc = "dropRows" /\ w.kind = "delete" /\ w.file = f
      BY <1>3, <1>6 DEF Go
    <2>2. ShareOk(u, w)
      BY <1>2, <1>6, <2>1
    <2>3. HasOk(u, w)
      BY <1>0, <1>1, <1>6, <2>1 DEF HasFile, HasOk
    <2>4. Cardinality(Owned(u)) >= 1
      <3>1. f \in Owned(u) /\ IsFiniteSet(Owned(u)) /\ Cardinality(Owned(u)) \in Nat
        BY <1>0, <1>1, <1>6, Counted DEF HasFile, HasOk, Owned
      <3>2. Cardinality(Owned(u)) # 0
        BY <3>1, FS_EmptySet
      <3> QED BY <3>1, <3>2
    <2>5. Kept(u) \in Int /\ Kept(u) < 1
      BY <1>1, <1>6 DEF Kept
    <2>6. Owed(w) = 1 /\ Owed(work[u]) = 0
      BY <1>0, <1>6, <2>1 DEF Owed, Uncounted, Storing
    <2>7. CountOk(u, w)
      BY <1>1, <2>1, <2>4, <2>5, <2>6, Counted DEF CountInv, CountOk
    <2>8. Due(work[u], f) => Due(w, f)
      BY <1>0, <1>6, <2>1 DEF Due, Slack, Ahead
    <2> QED BY <1>6, <2>1, <2>2, <2>3, <2>7, <2>8, LookKeeps DEF Go
  <1>7. CASE /\ work[u].pc = "writeCount" /\ db' = WithCount(u, work[u].n - 1)
             /\ UNCHANGED <<marred, doubled>>
             /\ \/ Goto(u, "dropRows")
                \/ Goto(u, "idle") /\ db' = db
    <2> PICK n \in Int : n = work[u].n - 1
      BY <1>0, <1>1, <1>7 DEF Carries
    <2>1. /\ Touches(u, f) /\ db'.info = db.info /\ db'.rows = db.rows
          /\ db'.shares = db.shares /\ db'.counts[u] = n
          /\ db'.counts[Shared] = db.counts[Shared]
      <3> PICK k \in {u, Shared} : k = u
        OBVIOUS
      <3>1. /\ Types /\ Shared \notin User /\ None \notin Int
            /\ db' = WithCount(k, n) /\ Shared \in Counter \ {k}
        BY <1>1, <1>7 DEF Counter
      <3>2. /\ Touches(u, f) /\ db'.info = db.info /\ db'.rows = db.rows
            /\ db'.shares = db.shares /\ db'.counts[k] = n
            /\ \A j \in Counter \ {k} : db'.counts[j] = db.counts[j]
        BY <3>1, CountTouched
      <3> QED BY <3>1, <3>2
    <2>2. \E w : /\ Moves(u, w) /\ (w = Idle \/ (w.kind = "delete" /\ w.file = f))
                 /\ w.pc \in {"idle", "dropRows"}
                 /\ w = Idle \/ w.pc = "dropRows"
                 /\ w.pc = "idle" => db' = db
      BY <1>3, <1>7 DEF Idle
    <2>3. PICK w : /\ Moves(u, w) /\ (w = Idle \/ (w.kind = "delete" /\ w.file = f))
                   /\ w.pc \in {"idle", "dropRows"} /\ (w.pc = "idle" => db' = db)
      BY <2>2
    <2>4. HasFile(u)'
      BY <1>0, <1>1, <1>7, <2>1, <2>3 DEF HasFile, HasOk, Moves, Idle
    <2>5. work'[u] = w /\ Owned(u)' = Owned(u)
      BY <2>1, <2>3 DEF Owned, Moves
    <2>6. Owed(w) <= 1 /\ Owed(w) \in Int /\ Owed(work[u]) = 0 /\ (w.pc = "dropRows" => Owed(w) = 1)
      BY <1>0, <1>7, <2>3 DEF Owed, Uncounted, Storing, Idle
    <2>7. Owed(work[u])' = Owed(w)
      BY <2>5 DEF Owed, Uncounted
    <2>8. CountInv(u)'
      <3>1. SUFFICES ASSUME u \notin doubled PROVE CountInv(u)'
        BY <1>7 DEF CountInv, CountOk
      <3>2. db.counts[u] = work[u].n /\ db.counts[u] \in Int
        BY <1>0, <1>1, <1>7, <3>1 DEF CountInv, CountOk, Carries
      <3>3. Kept(u) = work[u].n /\ Kept(u)' = n /\ db' # db
        BY <1>1, <2>1, <3>2 DEF Kept
      <3>4. w.pc = "dropRows" /\ Owed(w) = 1
        BY <2>3, <2>6, <3>3
      <3> QED BY <1>1, <1>7, <2>5, <2>6, <2>7, <3>1, <3>2, <3>3, <3>4, Counted
              DEF CountInv, CountOk
    <2>9. ShareInv(u)'
      <3>1. ShareOk(u, w)
        BY <1>2, <1>7, <2>3
      <3> QED BY <2>1, <2>5, <3>1 DEF ShareInv, ShareOk, Undoing, Adding
    <2>10. Due(work[u], f) => Due(w, f)
      BY <1>0, <1>7, <2>3 DEF Due, Slack, Ahead, Idle
    <2>11. FileInv(f)'
      BY <1>7, <2>1, <2>3, <2>10, FileSame
    <2> QED BY <2>1, <2>3, <2>4, <2>8, <2>9, <2>11 DEF Stepped, Kept3
  <1>8. CASE work[u].pc = "dropRows" /\ Sql(u, [db EXCEPT !.rows[u][f] = << >>], "readRef")
    <2>1. PICK w : Moves(u, w) /\ w.pc = "readRef" /\ w.kind = "delete" /\ w.file = f
      BY <1>3, <1>8 DEF Sql
    <2> PICK r \in Seq(Row) : r = << >>
      BY EmptySeq
    <2>2. db' = WithRows(u, f, r) /\ marred' = marred /\ doubled' = doubled
      BY <1>8 DEF WithRows, Sql
    <2>3. /\ Touches(u, f)
          /\ db'.info = db.info /\ db'.shares = db.shares /\ db'.counts = db.counts
          /\ db'.rows[u][f] = << >>
      BY <1>1, <2>2, RowsTouched
    <2>4. db.rows[u][f] # << >>
      BY <1>0, <1>1, <1>8 DEF HasFile, HasOk
    <2>5. /\ Cardinality(Owned(u)') = Cardinality(Owned(u)) - 1
          /\ Cardinality(Owners(f)') = Cardinality(Owners(f)) - 1
      BY <2>3, <2>4, OneOwnerLess
    <2>6. HasFile(u)'
      BY <2>1 DEF HasFile, HasOk, Moves
    <2>7. Owed(w) = 0 /\ Owed(work[u]) = 1 /\ work'[u] = w
      BY <1>0, <1>8, <2>1 DEF Owed, Uncounted, Storing, Moves
    <2>8. Kept(u)' = Kept(u) /\ Kept(u) \in Int /\ Owed(work[u])' = 0
      BY <1>1, <2>3, <2>7 DEF Kept, Owed, Uncounted
    <2>9. CountInv(u)'
      <3>1. Cardinality(Owned(u)) \in Nat /\ CountOk(u, work[u])
        BY <1>1, Counted DEF CountInv
      <3>2. u \notin doubled => Kept(u) + 1 <= Cardinality(Owned(u))
        BY <2>7, <3>1 DEF CountOk
      <3>3. u \notin doubled /\ fails = 0 => Kept(u) + 1 = Cardinality(Owned(u))
        BY <2>7, <3>1 DEF CountOk
      <3> QED BY <2>1, <2>2, <2>5, <2>7, <2>8, <3>1, <3>2, <3>3 DEF CountInv, CountOk
    <2>10. ShareInv(u)'
      <3>1. SUFFICES ASSUME fails = 0 PROVE ShareInv(u)'
        BY DEF ShareInv, ShareOk
      <3>2. db.shares[u][f] = 0
        BY <1>0, <1>1, <1>8, <3>1 DEF ShareInv, ShareOk, Undone
      <3>3. \A g \in File : db'.shares[u][g] > 0 =>
              /\ g # f /\ db.rows[u][g] # << >> /\ db.rows[u][g][1].shared
              /\ db.counts[Shared] # None
        BY <1>0, <1>1, <2>3, <3>1, <3>2 DEF ShareInv, ShareOk, Undoing, Adding
      <3> QED BY <2>1, <2>3, <2>7, <3>2, <3>3 DEF ShareInv, ShareOk, Touches
    <2>11. FileInv(f)'
      <3>1. SUFFICES ASSUME f \notin overlapped \cup marred PROVE FileInv(f)'
        BY <2>2 DEF FileInv
      <3>2. Cardinality(Owners(f)) <= Count(f) /\ Count(f) \in Int
        BY <1>1, <3>1 DEF FileInv, Count
      <3>3. Count(f)' = Count(f)
        BY <2>3 DEF Count
      <3>4. Cardinality(Owners(f)') + 1 <= Count(f)' /\ Cardinality(Owners(f)') <= Count(f)'
        BY <2>5, <3>2, <3>3, Counted
      <3>5. Due(w, f)'
        BY <2>1, <3>4 DEF Due, Slack, Ahead
      <3>6. /\ \A v \in User : db'.shares[v][f] <= 1
            /\ \A v, x \in User : db'.shares[v][f] > 0 /\ db'.shares[x][f] > 0 => v = x
        BY <1>1, <2>3, <3>1 DEF FileInv
      <3> QED BY <2>1, <2>2, <2>3, <3>4, <3>5, <3>6, FileQuiet
    <2> QED BY <2>1, <2>3, <2>6, <2>9, <2>10, <2>11 DEF Stepped, Kept3
  <1>9. ASSUME work[u].pc = "readRef",
               NEW next \in {"subRef", "dropInfo"}, next = "subRef" <=> Count(f) > 0,
               ReadRef(u, f, next)
        PROVE  Stepped(u, f)
    <2> PICK w : w = [work[u] EXCEPT !.ref = Count(f), !.pc = next]
      OBVIOUS
    <2>1. Moves(u, w) /\ Count(f) \in Int
      <3>1. Follows(work[u], next)
        BY <1>0 DEF Follows, Steps, Storing
      <3> QED BY <1>1, <1>9, <3>1, RefRead
    <2>2. w.kind = "delete" /\ w.file = f /\ w.pc = next /\ w.ref = Count(f)
      BY <1>0, <1>1, <1>9, <2>1 DEF Work
    <2>3. ShareOk(u, w)
      BY <1>2, <1>9, <2>2
    <2>4. HasOk(u, w) /\ CountOk(u, w)
      BY <1>0, <1>1, <1>9, <2>2 DEF HasOk, CountInv, CountOk, Owed, Uncounted, Storing
    <2>5. Due(work[u], f) => Due(w, f)
      <3>1. SUFFICES ASSUME Due(work[u], f) PROVE Due(w, f)
        OBVIOUS
      <3>2. Cardinality(Owners(f)) + 1 <= Count(f)
        BY <1>0, <1>9, <3>1 DEF Due, Slack, Ahead
      <3>3. next = "subRef"
        BY <1>9, <2>1, <3>2, Counted
      <3> QED BY <2>2, <3>2, <3>3 DEF Due, Slack, Ahead
    <2> QED BY <1>9, <2>1, <2>3, <2>4, <2>5, LookKeeps DEF ReadRef
  <1>10. ASSUME work[u].pc = "subRef",
                NEW next \in {"idle", "dropInfo"}, next = "dropInfo" => work[u].ref = 1,
                db' = WithRef(f, work[u].ref - 1), Goto(u, next), UNCHANGED <<marred, doubled>>
         PROVE  Stepped(u, f)
    <2>1. PICK w : /\ Moves(u, w) /\ w.pc = next
                   /\ \/ next = "idle" /\ w = Idle
                      \/ next # "idle" /\ w.kind = "delete" /\ w.file = f
      BY <1>3, <1>10
    <2>2. work[u].ref - 1 \in Int
      BY <1>1 DEF Work
    <2>3. /\ Touches(u, f)
          /\ db'.rows = db.rows /\ db'.shares = db.shares /\ db'.counts = db.counts
          /\ Count(f)' = IF db.info[f] = << >> THEN 0 ELSE work[u].ref - 1
      BY <1>1, <1>10, <2>2, RefTouched
    <2>4. ShareOk(u, w)
      BY <1>2, <1>10, <2>1
    <2>5. HasOk(u, w) /\ CountOk(u, w)
      BY <1>0, <1>1, <1>10, <2>1 DEF HasOk, CountInv, CountOk, Owed, Uncounted, Storing, Idle
    <2>6. FileInv(f)'
      <3>1. SUFFICES ASSUME f \notin overlapped \cup marred PROVE FileInv(f)'
        BY <1>10 DEF FileInv
      <3>2. Cardinality(Owners(f)) + 1 <= Count(f) /\ work[u].ref = Count(f)
        BY <1>0, <1>1, <1>10, <3>1 DEF FileInv, Due, Slack, Ahead
      <3>3. db.info[f] # << >>
        BY <3>2, Counted DEF Count
      <3>4. Owners(f)' = Owners(f) /\ Count(f)' = Count(f) - 1 /\ Count(f) \in Int
        BY <1>1, <2>3, <3>2, <3>3 DEF Owners, Work
      <3>5. Cardinality(Owners(f)') <= Count(f)'
        BY <3>2, <3>4, Counted
      <3>6. next = "dropInfo" => Owners(f)' = {}
        <4>1. SUFFICES ASSUME next = "dropInfo" PROVE Owners(f) = {}
          BY <3>4
        <4>2. Cardinality(Owners(f)) = 0 /\ IsFiniteSet(Owners(f))
          BY <1>10, <3>2, <3>4, <4>1, Counted
        <4> QED BY <4>2, FS_EmptySet
      <3>7. w.file = f => Due(w, f)'
        BY <2>1, <3>5, <3>6, CountedNext DEF Due, Slack, Ahead, Idle
      <3>8. /\ \A v \in User : db'.shares[v][f] <= 1
            /\ \A v, x \in User : db'.shares[v][f] > 0 /\ db'.shares[x][f] > 0 => v = x
        BY <1>1, <2>3, <3>1 DEF FileInv
      <3> QED BY <1>10, <2>1, <2>3, <3>5, <3>7, <3>8, FileQuiet
    <2> QED BY <1>10, <2>1, <2>3, <2>4, <2>5, <2>6, QuietKeeps
  <1>11. CASE work[u].pc = "dropInfo" /\ Sql(u, [db EXCEPT !.info[f] = << >>], "idle")
    <2>1. PICK w : Moves(u, w) /\ w.pc = "idle" /\ w = Idle
      BY <1>3, <1>11 DEF Sql
    <2> PICK r \in Seq(Int) : r = << >>
      BY EmptySeq
    <2>2. db' = WithInfo(f, r) /\ marred' = marred /\ doubled' = doubled
      BY <1>11 DEF WithInfo, Sql
    <2>3. /\ Touches(u, f) /\ db'.info[f] = << >>
          /\ db'.rows = db.rows /\ db'.shares = db.shares /\ db'.counts = db.counts
      BY <1>1, <2>2, InfoTouched
    <2>4. ShareOk(u, w)
      BY <1>2, <1>11, <2>1
    <2>5. HasOk(u, w) /\ CountOk(u, w)
      BY <1>0, <1>1, <1>11, <2>1 DEF HasOk, CountInv, CountOk, Owed, Uncounted, Storing, Idle
    <2>6. FileInv(f)'
      <3>1. SUFFICES ASSUME f \notin overlapped \cup marred PROVE FileInv(f)'
        BY <2>2 DEF FileInv
      <3>2. Owners(f) = {} /\ Owners(f)' = Owners(f) /\ Count(f)' = 0
        BY <1>0, <1>1, <1>11, <2>3, <3>1 DEF FileInv, Due, Owners, Count
      <3>3. Cardinality(Owners(f)') <= Count(f)'
        BY <3>2, FS_EmptySet
      <3>4. w.file # f
        BY <2>1 DEF Idle, CloudFilesAssumption
      <3>5. /\ \A v \in User : db'.shares[v][f] <= 1
            /\ \A v, x \in User : db'.shares[v][f] > 0 /\ db'.shares[x][f] > 0 => v = x
        BY <1>1, <2>3, <3>1 DEF FileInv
      <3> QED BY <2>1, <2>2, <2>3, <3>3, <3>4, <3>5, FileQuiet
    <2> QED BY <2>1, <2>2, <2>3, <2>4, <2>5, <2>6, QuietKeeps
  <1>12. ASSUME work[u].pc = "writeCount",
                CaredSql(u, WithCount(u, work[u].n - 1), "dropRows")
         PROVE  Stepped(u, f)
    BY <1>7, <1>12 DEF CaredSql, Sql
  <1>13. ASSUME work[u].pc = "subRef",
                CaredSql(u, WithRef(f, work[u].ref - 1), AfterSubRef(work[u]))
         PROVE  Stepped(u, f)
    <2>1. PICK next \in {"idle", "dropInfo"} :
             /\ Goto(u, next) /\ (next = "dropInfo" => work[u].ref = 1)
             /\ db' = WithRef(f, work[u].ref - 1) /\ UNCHANGED <<marred, doubled>>
      BY <1>13 DEF CaredSql, Sql, AfterSubRef
    <2> QED BY <1>10, <1>13, <2>1
  <1>14. CASE work[u].pc = "readRef"
    <2>1. CASE Go(u, "idle")
      BY <1>4, <1>14, <2>1 DEF Go
    <2>2. CASE ReadRef(u, f, IF Count(f) > 0 THEN "subRef" ELSE "dropInfo")
      BY <1>9, <1>14, <2>2
    <2> QED BY <1>14, <2>1, <2>2 DEF Unown
  <1>15. CASE work[u].pc # "readRef"
    BY <1>4, <1>5, <1>6, <1>8, <1>11, <1>12, <1>13, <1>15 DEF Unown, Go
  <1> QED BY <1>14, <1>15

LEMMA HandleKeeps ==
    ASSUME IInv, CloudFilesAssumption, NEW u \in User, NEW f \in File, work[u].file = f,
           Handle(u)
    PROVE  Stepped(u, f)
  <1>1. work[u].kind \notin {"none", "count", "total"}
    BY DEF IInv, Types, Carries, CloudFilesAssumption
  <1>2. ASSUME Delete(u) PROVE Stepped(u, f)
    BY <1>2, UnlistKeeps, UnownKeeps DEF Delete, Handle
  <1> QED BY <1>1, <1>2, UploadKeeps, QuickUploadKeeps, SaveKeeps, ShareKeeps, CancelKeeps,
             DownloadKeeps DEF Handle, CountFiles, CountShared

\* The histories only grow, and that of lists with repetitions by the user.
Grows(u) ==
    /\ marred \subseteq marred' /\ overlapped \subseteq overlapped'
    /\ doubled \subseteq doubled' /\ doubled' \subseteq doubled \cup {u}

LEMMA HandleGrows ==
    ASSUME NEW u \in User, Handle(u)
    PROVE  Grows(u)
  <1>0. overlapped' = overlapped
    BY DEF Handle
  <1>1. ASSUME NEW next, AddToList(u, next) PROVE marred' = marred /\ Grows(u)
    BY <1>0, <1>1 DEF AddToList, Grows, Sql, ReadCount
  <1>2. ASSUME Upload(u) PROVE Grows(u)
    BY <1>0, <1>1, <1>2 DEF Upload, Grows
  <1>3. ASSUME QuickUpload(u) PROVE Grows(u)
    BY <1>0, <1>1, <1>3 DEF QuickUpload, Grows, Go, ReadRef
  <1>4. ASSUME Save(u) PROVE Grows(u)
    BY <1>0, <1>1, <1>4 DEF Save, Grows, Go, ReadRef, CaredSql, Sql
  <1>5. ASSUME Share(u) PROVE UNCHANGED <<marred, doubled>>
    BY <1>5 DEF Share, Go, Sql, Redis, ReadCount
  <1>6. ASSUME Unlist(u) PROVE UNCHANGED <<marred, doubled>>
    BY <1>6 DEF Unlist, Go, Sql, CaredSql, Redis, ReadCount
  <1>7. ASSUME Unown(u) PROVE UNCHANGED <<marred, doubled>>
    BY <1>7 DEF Unown, Go, Sql, CaredSql, ReadCount, ReadRef
  <1>8. ASSUME Cancel(u) \/ Download(u) \/ CountFiles(u) \/ CountShared(u)
        PROVE  UNCHANGED <<marred, doubled>>
    BY <1>8 DEF Cancel, Download, CountFiles, CountShared, Go, Sql, CaredSql, ReadCount
  <1> QED BY <1>0, <1>2, <1>3, <1>4, <1>5, <1>6, <1>7, <1>8 DEF Handle, Delete, Grows

-----------------------------------------------------------------------------
(* What one user does leaves the others' part of the invariant.            *)

LEMMA OthersKeep ==
    ASSUME IInv, NEW u \in User, NEW f, work' \in [User -> Work],
           \A v \in User \ {u} : work'[v] = work[v],
           Carries(work[u])', work'[u].file = f \/ work'[u].file = None,
           Touches(u, f), Grows(u), fails' \in Nat, fails' = fails \/ fails' # 0,
           HasFile(u)', CountInv(u)', ShareInv(u)', f \in File => FileInv(f)',
           None \notin File
    PROVE  IInv'
  <1>1. Types'
    BY DEF IInv, Types, Touches
  <1>2. ASSUME NEW v \in User \ {u} PROVE HasFile(v)' /\ CountInv(v)' /\ ShareInv(v)'
    <2>1. /\ work'[v] = work[v] /\ db'.rows[v] = db.rows[v]
          /\ db'.shares[v] = db.shares[v] /\ db'.counts[v] = db.counts[v]
          /\ db.counts[Shared] # None => db'.counts[Shared] # None
          /\ v \in doubled' <=> v \in doubled
      BY <1>2 DEF Touches, Grows
    <2>2. HasFile(v) /\ CountInv(v) /\ ShareInv(v)
      BY DEF IInv
    <2>3. Owned(v)' = Owned(v) /\ Kept(v)' = Kept(v) /\ Owed(work[v])' = Owed(work[v])
      BY <2>1 DEF Owned, Kept, Owed, Uncounted
    <2>4. HasFile(v)'
      BY <2>1, <2>2 DEF HasFile, HasOk
    <2>5. CountInv(v)'
      BY <2>1, <2>2, <2>3 DEF CountInv, CountOk
    <2>6. ShareInv(v)'
      <3>1. SUFFICES ASSUME fails' = 0 PROVE ShareInv(v)'
        BY DEF ShareInv, ShareOk
      <3>2. fails = 0 /\ ShareOk(v, work[v])
        BY <2>2, <3>1 DEF ShareInv
      <3>3. \A g \in File : /\ Undoing(work[v], g)' <=> Undoing(work[v], g)
                            /\ Adding(work[v], g)' <=> Adding(work[v], g)
        BY <2>1 DEF Undoing, Adding
      <3> QED BY <2>1, <3>2, <3>3 DEF ShareInv, ShareOk
    <2> QED BY <2>4, <2>5, <2>6
  <1>3. ASSUME NEW g \in File \ {f} PROVE FileInv(g)'
    <2>1. SUFFICES ASSUME g \notin overlapped' \cup marred' PROVE FileInv(g)'
      BY DEF FileInv
    <2>2. FileInv(g) /\ g \notin overlapped \cup marred
      BY <2>1 DEF IInv, Grows
    <2>3. /\ \A v \in User : /\ db'.rows[v][g] = db.rows[v][g]
                             /\ db'.shares[v][g] = db.shares[v][g]
          /\ db'.info[g] = db.info[g]
      BY <1>3 DEF Touches
    <2>4. Owners(g)' = Owners(g) /\ Sharers(g)' = Sharers(g) /\ Count(g)' = Count(g)
      BY <2>3 DEF Owners, Sharers, Count
    <2>5. \A v \in User : work'[v].file = g => work'[v] = work[v]
      BY <1>3
    <2>6. \A v \in User : work'[v].file = g => Due(work[v], g)'
      BY <2>2, <2>4, <2>5 DEF FileInv, Due, Slack, Ahead
    <2> QED BY <2>2, <2>3, <2>4, <2>5, <2>6 DEF FileInv
  <1> QED BY <1>1, <1>2, <1>3 DEF IInv

LEMMA SteppedKeeps ==
    ASSUME IInv, CloudFilesAssumption, NEW u \in User, NEW f, work[u].file = f,
           Stepped(u, f), Grows(u), fails' \in Nat, fails' = fails \/ fails' # 0
    PROVE  IInv'
  <1>1. PICK w : Moves(u, w)
    BY DEF Stepped
  <1>2. /\ work' \in [User -> Work] /\ \A v \in User \ {u} : work'[v] = work[v]
        /\ work'[u].file = f \/ work'[u].file = None
    BY <1>1 DEF Moves, Idle
  <1>3. Carries(work[u])'
    BY <1>1 DEF Moves, Carries
  <1> QED BY <1>2, <1>3, OthersKeep DEF Stepped, Kept3, CloudFilesAssumption

\* A failed statement ends the request or is passed over, and changes no table.
LEMMA FailKeeps ==
    ASSUME IInv, CloudFilesAssumption, NEW u \in User, NEW f, work[u].file = f,
           StatementFails(u)
    PROVE  Stepped(u, f) /\ Grows(u) /\ fails' \in Nat /\ fails' # 0
  <1>1. /\ work[u] \in Work /\ Carries(work[u]) /\ HasFile(u) /\ CountInv(u) /\ Types
        /\ fails \in Nat /\ None \notin Int
    BY DEF IInv, Types, CloudFilesAssumption
  <1>2. fails' \in Nat /\ fails' # 0 /\ overlapped' = overlapped
    BY <1>1 DEF StatementFails, Failure
  <1>3. PICK next \in {"idle", "restore", "addRef", "hset", "hdel", "readCount", "setShared"} :
          /\ Goto(u, next) /\ db' = db /\ doubled' = doubled /\ marred \subseteq marred'
          /\ next = "setShared" => work[u].kind = "share" /\ f \in marred'
          /\ next \in {"restore", "addRef"} => work[u].kind = "md5"
          /\ next = "restore" => work[u].pc = "insertRow"
          /\ next = "hset" => work[u].pc = "zadd"
          /\ next = "hdel" => work[u].pc = "zrem"
          /\ next = "readCount" => work[u].pc = "hdel"
    <2>1. CASE Gives(work[u]) /\ Go(u, "idle")
      BY <2>1 DEF Go
    <2>2. CASE CarriesOn(work[u]) # "stop" /\ Go(u, CarriesOn(work[u]))
      BY <2>2 DEF Go, CarriesOn
    <2>3. CASE (At(u, "md5", "addRef") \/ At(u, "md5", "restore")) /\ Goto(u, "idle")
               /\ UNCHANGED <<db, marred, doubled>>
      BY <2>3
    <2>4. CASE At(u, "share", "found") /\ marred' = marred \cup {work[u].file}
               /\ Goto(u, "setShared") /\ UNCHANGED <<db, doubled>>
      BY <2>4 DEF At
    <2> QED BY <2>1, <2>2, <2>3, <2>4 DEF StatementFails
  <1>4. work[u].kind \in Storing => work[u].pc \notin {"zadd", "zrem", "hdel"}
    BY <1>1 DEF Carries, StoringSteps
  <1>5. Follows(work[u], next)
    BY <1>3, <1>4 DEF Follows, Steps, Storing, StoringSteps
  <1>6. PICK w : /\ Moves(u, w) /\ w.pc = next
                 /\ \/ next = "idle" /\ w = Idle
                    \/ next # "idle" /\ w.kind = work[u].kind /\ w.file = f
    BY <1>1, <1>3, <1>5, GoesTo
  <1>7. Touches(u, f) /\ Grows(u)
    BY <1>1, <1>2, <1>3, NothingTouched DEF Grows
  <1>8. HasFile(u)'
    BY <1>1, <1>3, <1>6 DEF HasFile, HasOk, Moves, Idle, Carries
  <1>9. CountInv(u)'
    <2>1. Owed(w) = 0 /\ Owed(work[u]) \in {0, 1}
      BY <1>3, <1>4, <1>6 DEF Owed, Uncounted, Storing, Idle
    <2>2. Owned(u)' = Owned(u) /\ w.pc # "writeCount"
      BY <1>3, <1>6 DEF Owned
    <2> QED BY <1>1, <1>2, <1>3, <1>6, <2>1, <2>2, CountQuiet
  <1>10. ShareInv(u)'
    BY <1>2 DEF ShareInv, ShareOk
  <1>11. ASSUME f \in File PROVE FileInv(f)'
    <2>1. f \notin marred' /\ Due(work[u], f) /\ w.file = f => Due(w, f)
      <3>1. SUFFICES ASSUME f \notin marred', Due(work[u], f), w.file = f PROVE Due(w, f)
        OBVIOUS
      <3>2. next # "idle"
        BY <1>6, <1>11, <3>1 DEF Idle, CloudFilesAssumption
      <3>3. Cardinality(Owners(f)) <= Count(f)
        BY <1>11, <3>1, <1>1, Counted DEF Due, Slack, Ahead, Count, Types, Tables
      <3>4. Slack(w) = 0 /\ next # "restore"
        BY <1>3, <1>6, <3>1, <3>2 DEF Due, Slack, Ahead
      <3>5. Cardinality(Owners(f)) + 0 <= Count(f)
        BY <1>11, <3>3, Counted
      <3> QED BY <1>3, <1>4, <1>6, <3>1, <3>2, <3>4, <3>5 DEF Due, Storing
    <2> QED BY <1>2, <1>3, <1>6, <1>7, <1>11, <2>1, FileSame
  <1> QED BY <1>2, <1>6, <1>7, <1>8, <1>9, <1>10, <1>11 DEF Stepped, Kept3

LEMMA CrashKeeps ==
    ASSUME IInv, CloudFilesAssumption, NEW u \in User, Crash(u)
    PROVE  IInv'
  <1>1. /\ fails' \in Nat /\ fails' # 0 /\ db' = db /\ doubled' = doubled
        /\ overlapped' = overlapped /\ marred' = marred
        /\ work' = [v \in User |-> Idle]
    BY DEF Crash, Failure, IInv, Types
  <1>2. Types'
    BY <1>1, IdleWork DEF IInv, Types
  <1>3. ASSUME NEW v \in User PROVE HasFile(v)' /\ CountInv(v)' /\ ShareInv(v)'
    <2>1. work'[v] = Idle /\ Kept(v)' = Kept(v) /\ Owned(v)' = Owned(v)
      BY <1>1 DEF Kept, Owned
    <2>2. Owed(work[v])' = 0 /\ Owed(work[v]) \in {0, 1}
      BY <2>1 DEF Owed, Uncounted, Idle, Storing
    <2>3. Kept(v) \in Int /\ CountInv(v)
      BY DEF IInv, Types, Tables, Counter, Kept
    <2>4. CountInv(v)'
      BY <1>1, <2>1, <2>2, <2>3, Counted DEF CountInv, CountOk, Idle
    <2> QED BY <1>1, <2>1, <2>4 DEF HasFile, HasOk, ShareInv, ShareOk, Idle
  <1>4. ASSUME NEW f \in File PROVE FileInv(f)'
    <2>1. Owners(f)' = Owners(f) /\ Count(f)' = Count(f)
      BY <1>1 DEF Owners, Count
    <2>2. \A v \in User : work'[v].file # f
      BY <1>1 DEF Idle, CloudFilesAssumption
    <2>3. FileInv(f)
      BY DEF IInv
    <2> QED BY <1>1, <2>1, <2>2, <2>3 DEF FileInv
  <1> QED BY <1>2, <1>3, <1>4 DEF IInv

\* A request begins, on a file of the user's view of the lists.
LEMMA BeginFileKeeps ==
    ASSUME IInv, CloudFilesAssumption, NEW u \in User, BeginFile(u)
    PROVE  IInv'
  <1>1. PICK k \in FileKind, f \in File :
          /\ Offers(u, k, f)
          /\ work' = [work EXCEPT ![u] = Request(k, f)]
          /\ overlapped' = IF \E v \in User : work[v].file = f
                           THEN overlapped \cup {f} ELSE overlapped
    BY DEF BeginFile
  <1>2. /\ work[u] = Idle /\ UNCHANGED <<db, marred, doubled, fails>>
    BY DEF BeginFile, MaySend
  <1>3. Types /\ HasFile(u) /\ CountInv(u) /\ ShareInv(u) /\ None \notin File
    BY DEF IInv, CloudFilesAssumption
  <1> PICK w : w = Request(k, f)
    OBVIOUS
  <1>4. /\ w.kind = k /\ w.file = f /\ w.pc = First[k] /\ w \in Work
    <2>1. First[k] \in Steps /\ k \in Kinds
      BY DEF FileKind, First, Steps, Kinds
    <2> QED BY <2>1, IdleWork DEF Request, Idle, Work
  <1>5. /\ k = "upload" => w.pc = "insertInfo"
        /\ k = "md5" => w.pc = "readRef"
        /\ k = "save" => w.pc = "owned"
        /\ k \in {"share", "delete"} => w.pc = "zset"
        /\ k = "cancel" => w.pc = "setUnshared"
        /\ k = "pv" => w.pc = "readPv"
        /\ k \in {"upload", "md5", "save", "share", "delete", "cancel", "pv"}
    <2>1. /\ First["upload"] = "insertInfo" /\ First["md5"] = "readRef"
          /\ First["save"] = "owned" /\ First["share"] = "zset" /\ First["delete"] = "zset"
          /\ First["cancel"] = "setUnshared" /\ First["pv"] = "readPv"
      BY DEF First
    <2> QED BY <1>4, <2>1 DEF FileKind
  <1>6. /\ work' \in [User -> Work] /\ work'[u] = w
        /\ \A v \in User \ {u} : work'[v] = work[v]
    BY <1>1, <1>3, <1>4 DEF Types
  <1>7. Carries(w)
    BY <1>4, <1>5 DEF Carries, Storing, StoringSteps
  <1>8. Carries(work[u])'
    BY <1>6, <1>7 DEF Carries
  <1>9. HasFile(u)'
    <2>1. k \in {"share", "delete"} => db.rows[u][f] # << >>
      BY <1>1 DEF Offers, Owned
    <2> QED BY <1>2, <1>4, <1>6, <2>1 DEF HasFile, HasOk
  <1>10. CountInv(u)'
    <2>1. Owed(w) = 0 /\ Owed(work[u]) = 0
      BY <1>2, <1>4, <1>5 DEF Owed, Uncounted, Storing, Idle
    <2>2. /\ Kept(u)' = Kept(u) /\ Owned(u)' = Owned(u) /\ Owed(work[u])' = 0
      BY <1>2, <1>6, <2>1 DEF Kept, Owned, Owed, Uncounted
    <2> QED BY <1>2, <1>3, <1>5, <1>6, <2>1, <2>2 DEF CountInv, CountOk
  <1>11. ShareInv(u)'
    BY <1>2, <1>3, <1>4, <1>5, <1>6
       DEF ShareInv, ShareOk, Undoing, Adding, Undone, Idle
  <1>12. FileInv(f)'
    <2>1. SUFFICES ASSUME f \notin overlapped' \cup marred PROVE FileInv(f)'
      BY <1>2 DEF FileInv
    <2>2. f \notin overlapped /\ \A v \in User : work[v].file # f
      BY <1>1, <2>1
    <2>3. FileInv(f)
      BY DEF IInv
    <2>4. Owners(f)' = Owners(f) /\ Sharers(f)' = Sharers(f) /\ Count(f)' = Count(f)
      BY <1>2 DEF Owners, Sharers, Count
    <2>5. \A v \in User : work'[v].file = f => v = u
      BY <1>6, <2>2
    <2>6. Slack(w) = 0
      BY <1>4, <1>5 DEF Slack, Ahead
    <2>7. Cardinality(Owners(f)) <= Count(f) /\ Cardinality(Owners(f)) + 0 <= Count(f)
      BY <2>1, <2>2, <2>3, Counted DEF FileInv
    <2>8. Due(w, f)
      BY <1>4, <1>5, <2>6, <2>7 DEF Due
    <2>9. Due(work[u], f)'
      BY <1>6, <2>4, <2>8 DEF Due, Slack, Ahead
    <2>10. \A v \in User : work'[v].file = f => Due(work[v], f)'
      BY <1>6, <2>4, <2>5, <2>8 DEF Due, Slack, Ahead
    <2> QED BY <1>2, <2>1, <2>2, <2>3, <2>4, <2>5, <2>7, <2>10 DEF FileInv
  <1>13. Touches(u, f) /\ Grows(u)
    BY <1>1, <1>2, <1>3, NothingTouched DEF Grows
  <1>14. fails' \in Nat
    BY <1>2, <1>3 DEF Types
  <1> QED BY <1>2, <1>3, <1>4, <1>6, <1>8, <1>9, <1>10, <1>11, <1>12, <1>13, <1>14, OthersKeep

LEMMA BeginCountKeeps ==
    ASSUME IInv, CloudFilesAssumption, NEW u \in User, BeginCount(u)
    PROVE  IInv'
  <1>1. PICK k \in {"count", "total"} : work' = [work EXCEPT ![u] = Request(k, None)]
    BY DEF BeginCount
  <1>2. work[u] = Idle /\ UNCHANGED <<db, marred, doubled, overlapped, fails>>
    BY DEF BeginCount, MaySend
  <1>3. Types /\ HasFile(u) /\ CountInv(u) /\ ShareInv(u) /\ None \notin File
    BY DEF IInv, CloudFilesAssumption
  <1> PICK w : w = Request(k, None)
    OBVIOUS
  <1>4. /\ w.kind = k /\ w.file = None /\ w.pc \in {"readCount", "readTotal"} /\ w \in Work
    <2>1. First[k] \in {"readCount", "readTotal"} /\ First[k] \in Steps /\ k \in Kinds
      BY DEF First, Steps, Kinds
    <2> QED BY <2>1, IdleWork DEF Request, Idle, Work
  <1>5. /\ work' \in [User -> Work] /\ work'[u] = w
        /\ \A v \in User \ {u} : work'[v] = work[v]
    BY <1>1, <1>3, <1>4 DEF Types
  <1>6. Carries(work[u])'
    BY <1>4, <1>5 DEF Carries, Storing
  <1>7. HasFile(u)'
    BY <1>4, <1>5 DEF HasFile, HasOk
  <1>8. CountInv(u)'
    <2>1. Owed(w) = 0 /\ Owed(work[u]) = 0
      BY <1>2, <1>4 DEF Owed, Uncounted, Storing, Idle
    <2>2. /\ Kept(u)' = Kept(u) /\ Owned(u)' = Owned(u) /\ Owed(work[u])' = 0
      BY <1>2, <1>5, <2>1 DEF Kept, Owned, Owed, Uncounted
    <2> QED BY <1>2, <1>3, <1>4, <1>5, <2>1, <2>2 DEF CountInv, CountOk
  <1>9. ShareInv(u)'
    BY <1>2, <1>3, <1>4, <1>5 DEF ShareInv, ShareOk, Undoing, Adding, Idle
  <1>10. Touches(u, None) /\ Grows(u) /\ fails' \in Nat
    BY <1>2, <1>3, NothingTouched DEF Grows, Types
  <1> QED BY <1>2, <1>3, <1>4, <1>5, <1>6, <1>7, <1>8, <1>9, <1>10, OthersKeep

-----------------------------------------------------------------------------
(* The invariant, and what follows from it.                                *)

LEMMA InitKeeps == ASSUME CloudFilesAssumption, Init PROVE IInv
  <1>1. /\ db.info = [f \in File |-> << >>]
        /\ db.rows = [u \in User |-> [f \in File |-> << >>]]
        /\ db.shares = [u \in User |-> [f \in File |-> 0]]
        /\ db.counts = [k \in User \cup {Shared} |-> None]
        /\ work = [u \in User |-> Idle] /\ fails = 0
    BY DEF Init
  <1>2. Types
    <2>1. << >> \in Seq(Int) /\ << >> \in Seq(Row)
      BY EmptySeq
    <2>2. db \in Tables
      BY <2>1 DEF Init, Tables, Counter
    <2> QED BY <1>1, <2>2, IdleWork DEF Types
  <1>3. \A u \in User : Owned(u) = {}
    BY <1>1 DEF Owned
  <1>4. \A f \in File : Owners(f) = {}
    BY <1>1 DEF Owners
  <1>5. Cardinality({}) = 0
    BY FS_EmptySet
  <1>6. ASSUME NEW u \in User PROVE HasFile(u) /\ CountInv(u) /\ ShareInv(u)
    <2>1. Kept(u) = 0 /\ Owed(Idle) = 0
      BY <1>1 DEF Kept, Owed, Uncounted, Idle, Storing
    <2>2. work[u] = Idle /\ Cardinality(Owned(u)) = 0
      BY <1>1, <1>3, <1>5
    <2>3. HasFile(u) /\ CountInv(u)
      BY <2>1, <2>2 DEF HasFile, HasOk, CountInv, CountOk, Idle
    <2>4. \A f \in File : ~(db.shares[u][f] > 0)
      BY <1>1
    <2>5. ShareInv(u)
      BY <2>2, <2>4 DEF ShareInv, ShareOk, Idle
    <2> QED BY <2>3, <2>5
  <1>7. ASSUME NEW f \in File PROVE FileInv(f)
    <2>1. Count(f) = 0 /\ \A u \in User : work[u].file # f
      BY <1>1 DEF Count, Idle, CloudFilesAssumption
    <2>2. \A u \in User : db.shares[u][f] = 0
      BY <1>1
    <2>3. Cardinality(Owners(f)) <= Count(f)
      BY <1>4, <1>5, <2>1
    <2> QED BY <2>1, <2>2, <2>3 DEF FileInv
  <1> QED BY <1>2, <1>6, <1>7 DEF IInv

LEMMA StutterKeeps == ASSUME IInv, UNCHANGED vars PROVE IInv'
  <1>1. UNCHANGED <<db, work, fails, doubled, marred, overlapped>>
    BY DEF vars
  <1>2. Types'
    BY <1>1 DEF IInv, Types, Carries
  <1>3. \A u \in User : HasFile(u)' /\ CountInv(u)' /\ ShareInv(u)'
    <2> TAKE u \in User
    <2>1. Kept(u)' = Kept(u) /\ Owned(u)' = Owned(u) /\ Owed(work[u])' = Owed(work[u])
      BY <1>1 DEF Kept, Owned, Owed, Uncounted
    <2>2. HasFile(u)' /\ CountInv(u)'
      BY <1>1, <2>1 DEF IInv, HasFile, HasOk, CountInv, CountOk
    <2>3. ShareInv(u)'
      BY <1>1 DEF IInv, ShareInv, ShareOk, Undoing, Adding
    <2> QED BY <2>2, <2>3
  <1>4. \A f \in File : FileInv(f)'
    <2> TAKE f \in File
    <2>1. Owners(f)' = Owners(f) /\ Sharers(f)' = Sharers(f) /\ Count(f)' = Count(f)
      BY <1>1 DEF Owners, Sharers, Count
    <2>2. \A u \in User : Due(work[u], f)' <=> Due(work[u], f)
      BY <1>1, <2>1 DEF Due, Slack, Ahead
    <2> QED BY <1>1, <2>1, <2>2 DEF IInv, FileInv
  <1> QED BY <1>2, <1>3, <1>4 DEF IInv

LEMMA NextKeeps == ASSUME CloudFilesAssumption, IInv, [Next]_vars PROVE IInv'
  <1>1. ASSUME NEW u \in User, Handle(u) PROVE IInv'
    <2>1. fails' = fails /\ overlapped' = overlapped /\ fails' \in Nat
      BY <1>1 DEF Handle, IInv, Types
    <2>2. CASE work[u].kind \in {"count", "total"}
      <3>1. CountFiles(u) \/ CountShared(u)
        BY <1>1, <2>2 DEF Handle, Upload, QuickUpload, Save, Share, Delete, Cancel, Download
      <3>2. work[u].file = None
        BY <2>2 DEF IInv, Types, Carries
      <3> QED BY <1>1, <2>1, <3>1, <3>2, CountingKeeps, HandleGrows, SteppedKeeps
    <2>3. CASE work[u].kind \notin {"count", "total"}
      <3>1. work[u].kind # "none"
        BY <1>1 DEF Handle, Upload, QuickUpload, Save, Share, Delete, Cancel, Download,
           CountFiles, CountShared
      <3>2. PICK f \in File : work[u].file = f
        BY <2>3, <3>1 DEF IInv, Types, Carries
      <3> QED BY <1>1, <2>1, <3>2, HandleKeeps, HandleGrows, SteppedKeeps
    <2> QED BY <2>2, <2>3
  <1>2. ASSUME NEW u \in User, StatementFails(u) PROVE IInv'
    <2> PICK f : work[u].file = f
      OBVIOUS
    <2> QED BY <1>2, FailKeeps, SteppedKeeps
  <1> QED BY <1>1, <1>2, BeginFileKeeps, BeginCountKeeps, CrashKeeps, StutterKeeps DEF Next

LEMMA Invariance == ASSUME CloudFilesAssumption PROVE Spec => []IInv
  BY InitKeeps, NextKeeps, PTL DEF Spec

\* However the requests of the users interleave and whichever statements fail:
\* a user's counter never exceeds the files the user has, and it is exact
\* between the user's requests if none failed.
THEOREM CountersAreExact == ASSUME CloudFilesAssumption PROVE Spec => []UserCountExact
  <1>1. ASSUME IInv PROVE UserCountExact
    <2>1. SUFFICES ASSUME NEW u \in User \ doubled
                   PROVE  /\ Kept(u) <= Cardinality(Owned(u))
                          /\ fails = 0 /\ work[u] = Idle => Kept(u) = Cardinality(Owned(u))
      BY DEF UserCountExact, Kept
    <2>2. CountInv(u) /\ Kept(u) \in Int
      BY <1>1 DEF IInv, Types, Tables, Counter, Kept
    <2>3. Owed(work[u]) \in {0, 1} /\ Owed(Idle) = 0
      BY DEF Owed, Uncounted, Idle, Storing
    <2> QED BY <2>1, <2>2, <2>3, Counted DEF CountInv, CountOk
  <1> QED BY <1>1, Invariance, PTL

\* A file keeps its row in file_info while somebody has it, as long as its
\* requests come one at a time and nobody took a count by quick upload.
THEOREM NoFileIsLost == ASSUME CloudFilesAssumption PROVE Spec => []NotLost
  <1>1. ASSUME IInv PROVE NotLost
    BY <1>1 DEF IInv, FileInv, NotLost
  <1> QED BY <1>1, Invariance, PTL

\* Under the same condition one user shares a file, once; and whatever the
\* requests of others do in between, a user shares only files the user has,
\* unless a statement fails.
THEOREM TheSharesAgree == ASSUME CloudFilesAssumption PROVE Spec => []SharesAgree
  <1>1. ASSUME IInv PROVE SharedOnce
    <2>1. SUFFICES ASSUME NEW f \in File \ (overlapped \cup marred)
                   PROVE  Cardinality(Sharers(f)) <= 1 /\ \A u \in User : db.shares[u][f] <= 1
      BY DEF SharedOnce
    <2>2. FileInv(f)
      BY <1>1 DEF IInv
    <2>3. Cardinality(Sharers(f)) <= 1
      <3>1. CASE Sharers(f) = {}
        BY <3>1, FS_EmptySet
      <3>2. CASE Sharers(f) # {}
        <4>1. PICK x : x \in Sharers(f)
          BY <3>2
        <4>2. Sharers(f) = {x}
          BY <2>1, <2>2, <4>1 DEF FileInv, Sharers
        <4>3. Cardinality(Sharers(f)) = 1
          BY <4>2, FS_Singleton, Zenon
        <4> QED BY <4>3
      <3> QED BY <3>1, <3>2
    <2> QED BY <2>1, <2>2, <2>3 DEF FileInv
  <1>2. ASSUME IInv PROVE SharerOwns
    BY <1>2 DEF IInv, ShareInv, ShareOk, SharerOwns, Sharers, Owners
  <1> QED BY <1>1, <1>2, Invariance, PTL DEF SharesAgree
=============================================================================
