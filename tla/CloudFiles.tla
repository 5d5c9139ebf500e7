----------------------------- MODULE CloudFiles -----------------------------
(***************************************************************************)
(* The file requests of the cloud drive (api/): upload, quick upload by    *)
(* md5, save, share, delete, cancel, download count, and the two counters. *)
(* Every worker thread runs its handler as a series of SQL statements and  *)
(* Redis commands on its own connections, without a transaction: each      *)
(* statement is one step here, and the handlers of different users         *)
(* interleave between any two of them.                                     *)
(*                                                                         *)
(* A file stands for an md5 together with its one file name.  A user waits *)
(* for the answer before the next request.  A statement may fail, and the  *)
(* process may die at a NULL result or reply that it dereferences; tables  *)
(* and Redis live in other processes and outlast it.                       *)
(***************************************************************************)
EXTENDS Integers, Sequences, FiniteSets

CONSTANTS User, File,
          Shared,       \* the row "share_file_count" among the users' counters
          None,         \* no such row, no file
          MaxRequests,  \* bound: requests ever sent
          MaxAtOnce,    \* bound: requests in progress at the same time
          MaxFailures   \* bound: statements that fail

ASSUME CloudFilesAssumption ==
    /\ IsFiniteSet(User) /\ IsFiniteSet(File)
    /\ Shared \notin User
    /\ None \notin Int /\ None \notin File
    /\ MaxRequests \in Nat /\ MaxAtOnce \in Nat /\ MaxFailures \in Nat

VARIABLES
    db,         \* MySQL: info, rows, shares, counts
    redis,      \* Redis: zset FILE_PUBLIC_ZSET and hash FILE_NAME_HASH
    work,       \* each user's request in progress
    told,       \* <<user, file>>: quick upload failed, the client will upload
    overlapped, \* history: files two requests worked on at the same time
    marred,     \* history: files whose count or sharing a step put in doubt
    doubled,    \* history: users whose list came to hold a file twice
    requests, fails

vars == <<db, redis, work, told, overlapped, marred, doubled,
          requests, fails>>

NewRow == [shared |-> FALSE, pv |-> 0]

FileKind == {"upload", "md5", "save", "share", "delete", "cancel", "pv"}
First == [upload |-> "insertInfo", md5 |-> "readRef", save |-> "owned",
          share |-> "zset", delete |-> "zset", cancel |-> "setUnshared",
          pv |-> "readPv", count |-> "readCount", total |-> "readTotal"]

Idle == [kind |-> "none", file |-> None, pc |-> "idle",
         n |-> None, ref |-> 0, hit |-> FALSE]
Request(k, f) == [Idle EXCEPT !.kind = k, !.file = f, !.pc = First[k]]

Busy == {u \in User : work[u] # Idle}
Owned(u) == {f \in File : db.rows[u][f] # <<>>}
Owners(f) == {u \in User : db.rows[u][f] # <<>>}
Sharers(f) == {u \in User : db.shares[u][f] > 0}

\* The count column of the first row of file_info with this md5.
Count(f) == IF db.info[f] = <<>> THEN 0 ELSE db.info[f][1]

Init ==
    /\ db = [info |-> [f \in File |-> <<>>],
             rows |-> [u \in User |-> [f \in File |-> <<>>]],
             shares |-> [u \in User |-> [f \in File |-> 0]],
             counts |-> [k \in User \cup {Shared} |-> None]]
    /\ redis = [zset |-> {}, hash |-> {}]
    /\ work = [u \in User |-> Idle]
    /\ told = {} /\ overlapped = {} /\ marred = {} /\ doubled = {}
    /\ requests = 0 /\ fails = 0

-----------------------------------------------------------------------------
\* One statement of user u's handler: what it does to the tables or to Redis,
\* and the label of the statement that follows ("idle": the request is
\* answered).

At(u, k, l) == work[u].kind = k /\ work[u].pc = l

Goto(u, next) ==
    work' = [work EXCEPT ![u] = IF next = "idle" THEN Idle
                                ELSE [@ EXCEPT !.pc = next, !.n = None]]

Go(u, next) == Goto(u, next) /\ UNCHANGED <<db, redis, told, marred, doubled>>

Sql(u, tables, next) ==
    db' = tables /\ Goto(u, next) /\ UNCHANGED <<redis, told, marred, doubled>>

\* ExecuteUpdate: a cared-for UPDATE that changes no row is an error.
CaredSql(u, tables, next) ==
    Sql(u, tables, IF tables = db THEN "idle" ELSE next)

Redis(u, keys, next) ==
    redis' = keys /\ Goto(u, next) /\ UNCHANGED <<db, told, marred, doubled>>

\* GetResultOneCount on user_file_count: the count, or None without a row.
ReadCount(u, k, next) ==
    /\ work' = [work EXCEPT ![u].n = db.counts[k], ![u].pc = next]
    /\ UNCHANGED <<db, redis, told, marred, doubled>>

\* GetResultOneCount on file_info: the first row's count.
ReadRef(u, f, next) ==
    /\ work' = [work EXCEPT ![u].ref = Count(f), ![u].pc = next]
    /\ UNCHANGED <<db, redis, told, marred, doubled>>

WithCount(k, n) == [db EXCEPT !.counts[k] = n]
\* "where md5 = ..." is every row of the file, not one.
WithRef(f, n) == [db EXCEPT !.info[f] = [i \in DOMAIN @ |-> n]]
WithRowsShared(u, f, b) ==
    [db EXCEPT !.rows[u][f] = [i \in DOMAIN @ |-> [@[i] EXCEPT !.shared = b]]]

WithoutShares(u, f) == [db EXCEPT !.shares[u][f] = 0]

\* The counter after one more file, inserted at the first.  Faulty: it is
\* created without counting the file.
OneMoreOrNone(n) == IF n = None THEN 0 ELSE n + 1
OneMore(n) == IF n = None THEN 1 ELSE n + 1

\* The looks into share_file_list (CheckwhetherHaveRecord) and at the status
\* of the first row of the user's list (GetResultOneStatus).  Faulty: only
\* Redis is asked.
NotListed(f) == FALSE
IsListed(f) == Sharers(f) # {}
NotShared(u, f) == FALSE
HasShared(u, f) == f \in Owned(u) /\ db.rows[u][f][1].shared

\* Where handleDeleteFile goes on once the sharing is undone in MySQL, and once
\* the count is one less.  Faulty: the last but one owner drops the file.
AfterUnlist(w) == IF w.hit THEN "zrem" ELSE "readCount"
AfterSubRefEarly(w) == IF w.ref <= 2 THEN "dropInfo" ELSE "idle"
AfterSubRef(w) == IF w.ref = 1 THEN "dropInfo" ELSE "idle"

Tell(u) == told' = told \cup {<<u, work[u].file>>}

\* The row of user_file_list and the user's counter, as upload, quick upload
\* and save add them.  Nobody else writes this user's counter.
AddToList(u, next) ==
    LET f == work[u].file IN
    \/ /\ work[u].pc = "insertRow"
       /\ db' = [db EXCEPT !.rows[u][f] = Append(@, NewRow)]
       /\ doubled' = IF f \in Owned(u) THEN doubled \cup {u} ELSE doubled
       /\ Goto(u, "readCount")
       /\ UNCHANGED <<redis, told, marred>>
    \/ work[u].pc = "readCount" /\ ReadCount(u, u, "writeCount")
    \/ /\ work[u].pc = "writeCount"
       /\ Sql(u, WithCount(u, OneMore(work[u].n)), next)

-----------------------------------------------------------------------------
\* storeFileinfo, once the content is in FastDFS.  md5 is no unique key: a
\* second upload adds a second row.
Upload(u) ==
    LET f == work[u].file IN
    /\ work[u].kind = "upload"
    /\ \/ /\ work[u].pc = "insertInfo"
          /\ db' = [db EXCEPT !.info[f] = Append(@, 1)]
          /\ marred' = IF db.info[f] = <<>> THEN marred ELSE marred \cup {f}
          /\ Goto(u, "insertRow")
          /\ UNCHANGED <<redis, told, doubled>>
       \/ AddToList(u, "idle")

\* handleDealMd5.  A successful write of the user's counter is taken for a
\* failed one (ExecutePassQuery(..) != 0), the reference count goes back to
\* what was read, and the client is told that the quick upload failed.
QuickUpload(u) ==
    LET f == work[u].file IN
    /\ work[u].kind = "md5"
    /\ \/ /\ work[u].pc = "readRef" /\ db.info[f] = <<>>
          /\ Tell(u) /\ Goto(u, "idle")
          /\ UNCHANGED <<db, redis, marred, doubled>>
       \/ /\ work[u].pc = "readRef" /\ db.info[f] # <<>>
          /\ ReadRef(u, f, "owned")
       \/ /\ work[u].pc = "owned"
          /\ Go(u, IF f \in Owned(u) THEN "idle" ELSE "addRef")
       \/ /\ work[u].pc = "addRef"
          /\ db' = WithRef(f, work[u].ref + 1)
          /\ marred' = marred \cup {f}
          /\ Goto(u, "insertRow")
          /\ UNCHANGED <<redis, told, doubled>>
       \/ AddToList(u, "restore")
       \/ /\ work[u].pc = "restore"
          /\ db' = WithRef(f, work[u].ref)
          /\ Tell(u) /\ Goto(u, "idle")
          /\ UNCHANGED <<redis, marred, doubled>>

\* handleSaveFile: take another user's shared file into one's own list.
Save(u) ==
    LET f == work[u].file IN
    /\ work[u].kind = "save"
    /\ \/ /\ work[u].pc = "owned"
          /\ Go(u, IF f \in Owned(u) THEN "idle" ELSE "readRef")
       \/ work[u].pc = "readRef" /\ db.info[f] = <<>> /\ Go(u, "idle")
       \/ work[u].pc = "readRef" /\ db.info[f] # <<>> /\ ReadRef(u, f, "addRef")
       \/ /\ work[u].pc = "addRef"
          /\ CaredSql(u, WithRef(f, work[u].ref + 1), "insertRow")
       \/ AddToList(u, "idle")

\* handleShareFile.  A file found in share_file_list but not in Redis is put
\* into Redis on the way out.
Share(u) ==
    LET f == work[u].file
        n == work[u].n IN
    /\ work[u].kind = "share"
    /\ \/ work[u].pc = "zset" /\ Go(u, IF f \in redis.zset THEN "idle" ELSE "found")
       \/ /\ work[u].pc = "found"
          /\ Go(u, IF IsListed(f) THEN "zadd" ELSE "setShared")
       \/ /\ work[u].pc = "setShared"
          /\ Sql(u, WithRowsShared(u, f, TRUE), "insertShare")
       \/ /\ work[u].pc = "insertShare"
          /\ Sql(u, [db EXCEPT !.shares[u][f] = @ + 1], "readTotal")
       \/ work[u].pc = "readTotal" /\ ReadCount(u, Shared, "writeTotal")
       \/ /\ work[u].pc = "writeTotal" /\ n # None
          /\ Sql(u, WithCount(Shared, n + 1), "zadd")
       \/ /\ work[u].pc = "writeTotal" /\ n = None /\ db.counts[Shared] = None
          /\ Sql(u, WithCount(Shared, 1), "zadd")
       \/ /\ work[u].pc = "writeTotal" /\ n = None /\ db.counts[Shared] # None
          /\ Go(u, "idle")   \* the key is taken meanwhile
       \/ /\ work[u].pc = "zadd"
          /\ Redis(u, [redis EXCEPT !.zset = @ \cup {f}], "hset")
       \/ /\ work[u].pc = "hset"
          /\ Redis(u, [redis EXCEPT !.hash = @ \cup {f}], "idle")

\* handleDeleteFile, first half: undo the sharing.  A file in Redis counts as
\* shared whoever shared it.
Unlist(u) ==
    LET f == work[u].file
        n == work[u].n IN
    \/ /\ work[u].pc = "zset" /\ f \in redis.zset
       /\ work' = [work EXCEPT ![u].hit = TRUE, ![u].pc = "dropShare"]
       /\ UNCHANGED <<db, redis, told, marred, doubled>>
    \/ work[u].pc = "zset" /\ f \notin redis.zset /\ Go(u, "status")
    \/ /\ work[u].pc = "status"
       /\ Go(u, IF HasShared(u, f) THEN "dropShare" ELSE "readCount")
    \/ /\ work[u].pc = "dropShare"
       /\ Sql(u, WithoutShares(u, f), "readTotal")
    \/ work[u].pc = "readTotal" /\ db.counts[Shared] = None /\ Go(u, "idle")
    \/ /\ work[u].pc = "readTotal" /\ db.counts[Shared] # None
       /\ ReadCount(u, Shared, "writeTotal")
    \/ /\ work[u].pc = "writeTotal"
       /\ CaredSql(u, WithCount(Shared, n - 1), AfterUnlist(work[u]))
    \/ /\ work[u].pc = "zrem"
       /\ Redis(u, [redis EXCEPT !.zset = @ \ {f}], "hdel")
    \/ /\ work[u].pc = "hdel"
       /\ Redis(u, [redis EXCEPT !.hash = @ \ {f}], "readCount")

\* handleDeleteFile, second half: the user's row, then the reference count,
\* and with the last reference the file itself.
Unown(u) ==
    LET f == work[u].file
        n == work[u].n IN
    \/ work[u].pc = "readCount" /\ db.counts[u] = None /\ Go(u, "idle")
    \/ /\ work[u].pc = "readCount" /\ db.counts[u] # None
       /\ IF db.counts[u] >= 1 THEN ReadCount(u, u, "writeCount")
                               ELSE Go(u, "dropRows")
    \/ /\ work[u].pc = "writeCount"
       /\ CaredSql(u, WithCount(u, n - 1), "dropRows")
    \/ /\ work[u].pc = "dropRows"
       /\ Sql(u, [db EXCEPT !.rows[u][f] = <<>>], "readRef")
    \/ work[u].pc = "readRef" /\ db.info[f] = <<>> /\ Go(u, "idle")
    \/ /\ work[u].pc = "readRef" /\ db.info[f] # <<>>
       /\ ReadRef(u, f, IF Count(f) > 0 THEN "subRef" ELSE "dropInfo")
    \/ /\ work[u].pc = "subRef"
       /\ CaredSql(u, WithRef(f, work[u].ref - 1), AfterSubRef(work[u]))
    \/ /\ work[u].pc = "dropInfo"
       /\ Sql(u, [db EXCEPT !.info[f] = <<>>], "idle")

Delete(u) == work[u].kind = "delete" /\ (Unlist(u) \/ Unown(u))

\* handleCancelShareFile: Redis keeps the file.
Cancel(u) ==
    LET f == work[u].file
        n == work[u].n IN
    /\ work[u].kind = "cancel"
    /\ \/ /\ work[u].pc = "setUnshared"
          /\ Sql(u, WithRowsShared(u, f, FALSE), "readTotal")
       \/ work[u].pc = "readTotal" /\ db.counts[Shared] = None /\ Go(u, "idle")
       \/ /\ work[u].pc = "readTotal" /\ db.counts[Shared] # None
          /\ IF db.counts[Shared] >= 1 THEN ReadCount(u, Shared, "writeTotal")
                                       ELSE Go(u, "dropShare")
       \/ work[u].pc = "writeTotal" /\ Sql(u, WithCount(Shared, n - 1), "dropShare")
       \/ /\ work[u].pc = "dropShare"
          /\ Sql(u, WithoutShares(u, f), "idle")

\* handlePvFile: the SELECT has no column "count", so what GetResultOneCount
\* returns is 0 whatever pv is, and the new value is always 1.
Download(u) ==
    LET f == work[u].file IN
    /\ work[u].kind = "pv"
    /\ \/ /\ work[u].pc = "readPv"
          /\ Go(u, IF f \in Owned(u) THEN "writePv" ELSE "idle")
       \/ /\ work[u].pc = "writePv"
          /\ CaredSql(u, [db EXCEPT !.rows[u][f] =
                            [i \in DOMAIN @ |-> [@[i] EXCEPT !.pv = 1]]], "idle")

\* getUserFilesCount: the first look creates the user's counter.
CountFiles(u) ==
    /\ work[u].kind = "count"
    /\ \/ work[u].pc = "readCount" /\ db.counts[u] # None /\ Go(u, "idle")
       \/ /\ work[u].pc = "readCount" /\ db.counts[u] = None
          /\ Go(u, "writeCount")
       \/ work[u].pc = "writeCount" /\ Sql(u, WithCount(u, 0), "idle")

\* getShareFilesCount: so does the first look at the shared total, unless
\* another thread was faster.
CountShared(u) ==
    /\ work[u].kind = "total"
    /\ \/ work[u].pc = "readTotal" /\ db.counts[Shared] # None /\ Go(u, "idle")
       \/ /\ work[u].pc = "readTotal" /\ db.counts[Shared] = None
          /\ Go(u, "writeTotal")
       \/ /\ work[u].pc = "writeTotal" /\ db.counts[Shared] = None
          /\ Sql(u, WithCount(Shared, 0), "idle")
       \/ work[u].pc = "writeTotal" /\ db.counts[Shared] # None /\ Go(u, "idle")

Handle(u) ==
    /\ \/ Upload(u) \/ QuickUpload(u) \/ Save(u) \/ Share(u) \/ Delete(u)
       \/ Cancel(u) \/ Download(u) \/ CountFiles(u) \/ CountShared(u)
    /\ UNCHANGED <<overlapped, requests, fails>>

-----------------------------------------------------------------------------
\* The client offers only what its last view of the lists allows: it uploads
\* after a failed quick upload, acts on files of its own list and saves files
\* of the public list.
Offers(u, k, f) ==
    CASE k = "md5" -> TRUE
      [] k = "upload" -> <<u, f>> \in told
      [] k = "save" -> Sharers(f) # {}
      [] k = "cancel" -> HasShared(u, f)
      [] OTHER -> f \in Owned(u)

MaySend(u) ==
    /\ work[u] = Idle
    /\ requests < MaxRequests /\ Cardinality(Busy) < MaxAtOnce
    /\ requests' = requests + 1
    /\ UNCHANGED <<db, redis, marred, doubled, fails>>

BeginFile(u) ==
    /\ MaySend(u)
    /\ \E k \in FileKind, f \in File :
         /\ Offers(u, k, f)
         /\ work' = [work EXCEPT ![u] = Request(k, f)]
         /\ told' = IF k = "upload" THEN told \ {<<u, f>>} ELSE told
         /\ overlapped' = IF \E v \in User : work[v].file = f
                          THEN overlapped \cup {f} ELSE overlapped

BeginCount(u) ==
    /\ MaySend(u)
    /\ \E k \in {"count", "total"} : work' = [work EXCEPT ![u] = Request(k, None)]
    /\ UNCHANGED <<told, overlapped>>

-----------------------------------------------------------------------------
\* What the handlers do when a statement fails.  Most answer with an error at
\* once and undo nothing.
Gives(w) ==
    \/ w.pc \in {"insertInfo", "setShared", "insertShare", "setUnshared",
                 "writeCount", "writeTotal", "dropShare", "dropRows", "subRef",
                 "dropInfo", "writePv", "zset"}
    \/ w.pc = "insertRow" /\ w.kind # "md5"
    \/ <<w.kind, w.pc>> \in {<<"save", "addRef">>, <<"count", "readCount">>,
                             <<"total", "readTotal">>}

\* The others ignore the failure.
CarriesOn(w) ==
    CASE w.kind = "md5" /\ w.pc = "insertRow" -> "restore"
      [] w.kind = "md5" /\ w.pc = "owned" -> "addRef"   \* taken for "not owned"
      [] w.pc = "zadd" -> "hset"
      [] w.pc = "hset" -> "idle"
      [] w.pc = "zrem" -> "hdel"
      [] w.pc = "hdel" -> "readCount"
      [] OTHER -> "stop"

Failure == fails < MaxFailures /\ fails' = fails + 1

StatementFails(u) ==
    /\ Failure
    /\ UNCHANGED <<overlapped, requests>>
    /\ \/ Gives(work[u]) /\ Go(u, "idle")
       \/ CarriesOn(work[u]) # "stop" /\ Go(u, CarriesOn(work[u]))
       \/ /\ At(u, "md5", "addRef") \/ At(u, "md5", "restore")
          /\ Tell(u) /\ Goto(u, "idle")
          /\ UNCHANGED <<db, redis, marred, doubled>>
       \/ /\ At(u, "share", "found")        \* taken for "nobody shares it"
          /\ marred' = marred \cup {work[u].file}
          /\ Goto(u, "setShared")
          /\ UNCHANGED <<db, redis, told, doubled>>

\* A SELECT fails and its NULL result is dereferenced, or the connection is
\* lost under a command on the sorted set and its NULL reply is: the process
\* dies with every request in it.
Crash(u) ==
    /\ Failure
    /\ \/ work[u].pc \in {"readRef", "status", "readPv", "dropInfo"}
       \/ work[u].pc \in {"readCount", "readTotal"} /\ work[u].file # None
       \/ At(u, "save", "owned")
       \/ work[u].pc \in {"zset", "zadd", "zrem"}
    /\ work' = [v \in User |-> Idle]
    /\ UNCHANGED <<db, redis, told, overlapped, marred, doubled, requests>>

Next == \E u \in User :
    BeginFile(u) \/ BeginCount(u) \/ Handle(u) \/ StatementFails(u) \/ Crash(u)

Spec == Init /\ [][Next]_vars

-----------------------------------------------------------------------------
\* A file with owners keeps its row in file_info, and the reference count
\* covers them: as long as no two requests worked on it at once, no quick
\* upload took a count of it and nobody uploaded it a second time
\* (handleDeleteFile drops the content when the count is 0).
NotLost ==
    \A f \in File \ (overlapped \cup marred) :
        Cardinality(Owners(f)) <= Count(f)

\* What the four places that know of a share agree on.  At most one user
\* shares a file, and by one row of share_file_list, with requests on it one
\* at a time and as long as no failed look into share_file_list passed for an
\* empty one (handleShareFile).  And whatever the handlers of others do in
\* between, a user shares only files the user has: deleting a file finds the
\* user's own share whether or not somebody else removed the file from Redis
\* (handleDeleteFile), unless a statement fails.
SharedOnce ==
    \A f \in File \ (overlapped \cup marred) :
        /\ Cardinality(Sharers(f)) <= 1
        /\ \A u \in User : db.shares[u][f] <= 1
SharerOwns == fails = 0 => \A f \in File : Sharers(f) \subseteq Owners(f)
SharesAgree == SharedOnce /\ SharerOwns

\* Whatever the handlers of others do in between, a user's counter never
\* exceeds the files the user has, and between the user's requests it is exact
\* if no statement failed, for every user whose list never held a file twice
\* (storeFileinfo, handleDealMd5, handleSaveFile, handleDeleteFile).
UserCountExact ==
    \A u \in User \ doubled :
        LET n == IF db.counts[u] = None THEN 0 ELSE db.counts[u] IN
        /\ n <= Cardinality(Owned(u))
        /\ fails = 0 /\ work[u] = Idle => n = Cardinality(Owned(u))

\* A file is dropped when no user refers to it (ApiDealfile.cpp:437), even
\* where nobody took a count of it by quick upload and no statement failed.
DroppedUnowned ==
    fails = 0 => \A f \in File \ marred : db.info[f] = <<>> => Owners(f) = {}
=============================================================================
