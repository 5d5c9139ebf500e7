--------------------------- MODULE ReactorProofs ----------------------------
(***************************************************************************)
(* Proofs about Reactor, for any number of descriptors and workers.        *)
(*                                                                         *)
(* OwnInv is inductive.  It spells out, owner by owner, that an event has  *)
(* one owner: an armed event is in nobody else's hands, the event the      *)
(* reactor holds is not queued, the queue has no repetition, two workers   *)
(* never have the same event.  Three facts carry it through the steps: the *)
(* batch is never stale, an owned event has a connection, and the status   *)
(* of an armed event is 1, so that event_del() really deletes.             *)
(***************************************************************************)
EXTENDS Reactor, FiniteSetTheorems, SequenceTheorems, TLAPS

-----------------------------------------------------------------------------
\* The task queue as a set: it holds no event twice.

\* The elements of a list, and a list without repetitions.
Elems(s) == {s[i] : i \in DOMAIN s}
Distinct(s) == \A i, j \in DOMAIN s : i # j => s[i] # s[j]

\* What Append does to the elements of a list.
LEMMA AppendElems ==
    ASSUME NEW S, NEW s \in Seq(S), NEW x \in S
    PROVE  /\ Append(s, x) \in Seq(S)
           /\ Len(Append(s, x)) = Len(s) + 1
           /\ Elems(Append(s, x)) = Elems(s) \cup {x}
           /\ Distinct(s) /\ x \notin Elems(s) => Distinct(Append(s, x))
  <1>1. /\ Append(s, x) \in Seq(S)
        /\ Len(Append(s, x)) = Len(s) + 1
        /\ \A i \in 1 .. Len(s) : Append(s, x)[i] = s[i]
        /\ Append(s, x)[Len(s) + 1] = x
    BY AppendProperties
  <1>2. Len(s) \in Nat /\ DOMAIN s = 1 .. Len(s)
        /\ DOMAIN Append(s, x) = 1 .. Len(s) + 1
    BY <1>1, LenProperties
  <1>3. Elems(Append(s, x)) = Elems(s) \cup {x}
    <2>1. Elems(Append(s, x)) \subseteq Elems(s) \cup {x}
      <3>1. ASSUME NEW i \in 1 .. Len(s) + 1
            PROVE  Append(s, x)[i] \in Elems(s) \cup {x}
        <4>1. CASE i = Len(s) + 1
          BY <1>1, <4>1
        <4>2. CASE i \in 1 .. Len(s)
          BY <1>1, <1>2, <4>2 DEF Elems
        <4> QED
          BY <1>2, <4>1, <4>2
      <3> QED
        BY <1>2, <3>1 DEF Elems
    <2>2. \A i \in 1 .. Len(s) : i \in 1 .. Len(s) + 1
      BY <1>2
    <2>3. Len(s) + 1 \in 1 .. Len(s) + 1
      BY <1>2
    <2> QED
      BY <1>1, <1>2, <2>1, <2>2, <2>3 DEF Elems
  <1>4. ASSUME Distinct(s), x \notin Elems(s) PROVE Distinct(Append(s, x))
    <2>1. \A i \in 1 .. Len(s) : s[i] # x
      BY <1>2, <1>4 DEF Elems
    <2>2. SUFFICES ASSUME NEW i \in 1 .. Len(s) + 1, NEW j \in 1 .. Len(s) + 1, i # j
                   PROVE  Append(s, x)[i] # Append(s, x)[j]
      BY <1>2 DEF Distinct
    <2>3. CASE i = Len(s) + 1
      <3>1. j \in 1 .. Len(s)
        BY <1>2, <2>2, <2>3
      <3> QED
        BY <1>1, <2>1, <2>3, <3>1
    <2>4. CASE j = Len(s) + 1
      <3>1. i \in 1 .. Len(s)
        BY <1>2, <2>2, <2>4
      <3> QED
        BY <1>1, <2>1, <2>4, <3>1
    <2>5. CASE i \in 1 .. Len(s) /\ j \in 1 .. Len(s)
      BY <1>1, <1>2, <1>4, <2>2, <2>5 DEF Distinct
    <2> QED
      BY <1>2, <2>3, <2>4, <2>5
  <1> QED
    BY <1>1, <1>3, <1>4

\* What Tail does to the elements of a list without repetitions.
LEMMA TailElems ==
    ASSUME NEW S, NEW s \in Seq(S), s # << >>, Distinct(s)
    PROVE  /\ Tail(s) \in Seq(S)
           /\ Len(Tail(s)) = Len(s) - 1
           /\ Head(s) \in S /\ Head(s) \in Elems(s)
           /\ Elems(Tail(s)) = Elems(s) \ {Head(s)}
           /\ Distinct(Tail(s))
  <1>1. /\ Tail(s) \in Seq(S) /\ Head(s) \in S
        /\ Len(Tail(s)) = Len(s) - 1
        /\ \A i \in 1 .. Len(Tail(s)) : Tail(s)[i] = s[i + 1]
    BY HeadTailProperties
  <1>2. /\ Len(s) \in Nat \ {0} /\ DOMAIN s = 1 .. Len(s) /\ Head(s) = s[1]
        /\ DOMAIN Tail(s) = 1 .. Len(s) - 1
    BY <1>1, LenProperties, EmptySeq
  <1>3. \A i \in 1 .. Len(s) - 1 :
           i + 1 \in 1 .. Len(s) /\ i + 1 # 1 /\ Tail(s)[i] = s[i + 1]
    BY <1>1, <1>2
  <1>4. \A j \in 1 .. Len(s) : j # 1 => /\ j - 1 \in 1 .. Len(s) - 1
                                        /\ Tail(s)[j - 1] = s[j]
    <2>1. ASSUME NEW j \in 1 .. Len(s), j # 1
          PROVE  j - 1 \in 1 .. Len(s) - 1 /\ (j - 1) + 1 = j
      BY <1>2, <2>1
    <2> QED
      BY <1>3, <2>1
  <1>5. 1 \in 1 .. Len(s)
    BY <1>2
  <1>6. Elems(Tail(s)) \subseteq Elems(s) \ {Head(s)}
    <2>1. \A i \in 1 .. Len(s) - 1 : s[i + 1] # s[1]
      BY <1>2, <1>3, <1>5 DEF Distinct
    <2> QED
      BY <1>2, <1>3, <2>1 DEF Elems
  <1>7. Elems(s) \ {Head(s)} \subseteq Elems(Tail(s))
    <2>1. ASSUME NEW j \in 1 .. Len(s), s[j] # s[1] PROVE s[j] \in Elems(Tail(s))
      <3>1. j - 1 \in 1 .. Len(s) - 1 /\ Tail(s)[j - 1] = s[j]
        BY <1>4, <2>1
      <3> QED
        BY <1>2, <3>1 DEF Elems
    <2> QED
      BY <1>2, <2>1 DEF Elems
  <1>8. Distinct(Tail(s))
    <2>1. ASSUME NEW i \in 1 .. Len(s) - 1, NEW j \in 1 .. Len(s) - 1, i # j
          PROVE  i + 1 # j + 1
      BY <1>2, <2>1
    <2> QED
      BY <1>2, <1>3, <2>1 DEF Distinct
  <1>9. Head(s) \in Elems(s)
    BY <1>2, <1>5 DEF Elems
  <1> QED
    BY <1>1, <1>6, <1>7, <1>8, <1>9

Queued == Elems(tasks)

\* The types the argument needs.
Shape ==
    /\ interest \in [Fd -> {"none", "in", "out"}]
    /\ peer \in [Fd -> {"absent", "open", "closed", "reset"}]
    /\ status \in [Fd -> {0, 1}] /\ active \in [Fd -> BOOLEAN]
    /\ conn \in [Fd -> {"null", "live"}]
    /\ resp \in [Fd -> {"none", "content", "empty"}]
    /\ rfd \in Fd \cup {NoFd}
    /\ batch \subseteq Fd \X {"in", "out"}
    /\ tasks \in Seq(Fd)
    /\ wpc \in [Workers -> {"idle", "parse", "mark", "arm"}]
    /\ wfd \in [Workers -> Fd \cup {NoFd}]
    /\ wdir \in [Workers -> {"in", "out"}]

\* An event is in one place.
Places ==
    /\ \A f \in Fd : interest[f] # "none" =>
          f # rfd /\ f \notin Queued /\ \A w \in Workers : wfd[w] # f
    /\ rfd # NoFd => rfd \notin Queued /\ \A w \in Workers : wfd[w] # rfd
    /\ Distinct(tasks)
    /\ \A w \in Workers : wfd[w] \notin Queued
    /\ \A v, w \in Workers : v # w /\ wfd[v] = wfd[w] => wfd[v] = NoFd
    /\ \A w \in Workers : wpc[w] = "idle" <=> wfd[w] = NoFd

\* An event in some place has a connection and is active.
Owned(f) ==
    interest[f] # "none" \/ f = rfd \/ f \in Queued \/ \E w \in Workers : wfd[w] = f

Connected ==
    /\ \A f \in Fd : Owned(f) => conn[f] = "live" /\ active[f]
    /\ \A f \in Fd : conn[f] = "live" <=> peer[f] # "absent"
    /\ \A w \in Workers : wpc[w] = "arm" => status[wfd[w]] = 1

OwnInv ==
    /\ Shape
    /\ Places
    /\ Connected
    /\ StatusAgrees
    /\ \A e \in batch : interest[e[1]] = e[2]

LEMMA OwnInvInit == Init => OwnInv
  <1> SUFFICES ASSUME Init PROVE OwnInv
    OBVIOUS
  <1>1. tasks \in Seq(Fd) /\ Queued = {} /\ Distinct(tasks)
    BY EmptySeq DEF Init, Queued, Elems, Distinct
  <1>2. Shape
    BY <1>1 DEF Init, Shape
  <1>3. Places
    BY <1>1, ReactorAssumption DEF Init, Places
  <1>4. Connected /\ StatusAgrees
    BY <1>1, ReactorAssumption DEF Init, Connected, Owned, StatusAgrees
  <1> QED
    BY <1>2, <1>3, <1>4 DEF Init, OwnInv

\* The queue under the reactor's push and a worker's take.
LEMMA QueueGrows ==
    ASSUME NEW f \in Fd, tasks \in Seq(Fd), Distinct(tasks), f \notin Queued,
           tasks' = Append(tasks, f)
    PROVE  tasks' \in Seq(Fd) /\ Queued' = Queued \cup {f} /\ Distinct(tasks')
  BY AppendElems DEF Queued

LEMMA QueueShrinks ==
    ASSUME tasks \in Seq(Fd), Distinct(tasks), tasks # << >>, tasks' = Tail(tasks)
    PROVE  /\ tasks' \in Seq(Fd) /\ Distinct(tasks')
           /\ Head(tasks) \in Fd /\ Head(tasks) \in Queued
           /\ Queued' = Queued \ {Head(tasks)}
  BY TailElems DEF Queued

LEMMA OwnInvStep == OwnInv /\ [Next]_vars => OwnInv'
  <1> SUFFICES ASSUME OwnInv, [Next]_vars PROVE OwnInv'
    OBVIOUS
  <1> USE ReactorAssumption DEF OwnInv, Shape, Places, Connected, Owned, StatusAgrees,
          kernel, event, loop, work, world
  <1>1. CASE UNCHANGED vars
    BY <1>1 DEF vars, Queued
  <1>2. CASE Client
    <2>1. UNCHANGED <<interest, status, active, conn, resp, rfd, batch, tasks, wpc, wfd, wdir>>
      BY <1>2 DEF Client, Connect, Send, Close, Reset
    <2>2. Queued' = Queued
      BY <2>1 DEF Queued
    <2>3. /\ peer' \in [Fd -> {"absent", "open", "closed", "reset"}]
          /\ \A f \in Fd : peer'[f] = "absent" <=> peer[f] = "absent"
      BY <1>2 DEF Client, Connect, Send, Close, Reset
    <2>4. Places' /\ Shape'
      BY <2>1, <2>2, <2>3
    <2>5. Connected' /\ StatusAgrees'
      BY <2>1, <2>2, <2>3
    <2> QED
      BY <2>1, <2>4, <2>5
  <1>3. CASE Poll
    <2>1. UNCHANGED <<interest, peer, status, active, conn, resp, rfd, tasks, wpc, wfd, wdir>>
      BY <1>3 DEF Poll
    <2>2. batch' \subseteq Fd \X {"in", "out"}
      BY <1>3 DEF Poll, Ready
    <2>3. \A e \in batch' : interest[e[1]] = e[2]
      BY <1>3 DEF Poll, Ready
    <2>4. Queued' = Queued
      BY <2>1 DEF Queued
    <2>5. Shape'
      BY <2>1, <2>2
    <2>6. Places' /\ Connected' /\ StatusAgrees'
      BY <2>1, <2>4
    <2> QED
      BY <2>1, <2>3, <2>5, <2>6
  <1>4. CASE PushTask
    <2>1. /\ UNCHANGED <<interest, peer, status, active, conn, resp, batch, wpc, wfd, wdir>>
          /\ rfd \in Fd /\ rfd' = NoFd
      BY <1>4 DEF PushTask
    <2>2. CASE tasks' = tasks
      <3>1. Queued' = Queued
        BY <2>2 DEF Queued
      <3> QED
        BY <2>1, <2>2, <3>1
    <2>3. CASE tasks' = Append(tasks, rfd)
      <3>1. tasks' \in Seq(Fd) /\ Queued' = Queued \cup {rfd} /\ Distinct(tasks')
        BY <2>1, <2>3, QueueGrows
      <3>2. Shape'
        BY <2>1, <3>1
      <3>3. Places'
        BY <2>1, <3>1
      <3>4. Connected' /\ StatusAgrees'
        BY <2>1, <3>1
      <3> QED
        BY <2>1, <3>2, <3>3, <3>4
    <2> QED
      BY <1>4, <2>2, <2>3 DEF PushTask
  <1>5. CASE Accept
    <2>1. /\ UNCHANGED <<rfd, batch, tasks, wpc, wfd, wdir>>
          /\ rfd = NoFd
      BY <1>5 DEF Accept
    <2>2. Queued' = Queued
      BY <2>1 DEF Queued
    <2>3. CASE UNCHANGED <<kernel, event>>
      BY <2>1, <2>2, <2>3
    <2>4. ASSUME NEW f \in Fd, peer[f] = "absent",
                 peer' = [peer EXCEPT ![f] = "open"],
                 conn' = [conn EXCEPT ![f] = "live"],
                 resp' = [resp EXCEPT ![f] = "none"],
                 EventAdd(f, "in")
          PROVE  OwnInv'
      <3>1. /\ ~Owned(f) /\ status[f] = 0 /\ interest[f] = "none"
            /\ \A e \in batch : e[1] # f
        BY <2>4
      <3>2. /\ interest' = [interest EXCEPT ![f] = "in"]
            /\ status' = [status EXCEPT ![f] = 1]
            /\ active' = [active EXCEPT ![f] = TRUE]
        BY <2>4, <3>1 DEF EventAdd
      <3>3. Shape'
        BY <2>1, <2>4, <3>2
      <3>4. Places'
        BY <2>1, <2>2, <3>1, <3>2
      <3>5. Connected' /\ StatusAgrees'
        BY <2>1, <2>2, <2>4, <3>1, <3>2
      <3>6. \A e \in batch' : interest'[e[1]] = e[2]
        BY <2>1, <3>1, <3>2
      <3> QED
        BY <3>3, <3>4, <3>5, <3>6
    <2> QED
      BY <1>5, <2>3, <2>4 DEF Accept
  <1>6. ASSUME NEW f \in Fd, DealWithRead(f) PROVE OwnInv'
    <2>1. /\ UNCHANGED <<peer, status, active, conn, resp, tasks, wpc, wfd, wdir>>
          /\ rfd = NoFd /\ rfd' \in {f, NoFd}
          /\ interest' = [interest EXCEPT ![f] = "none"]
          /\ batch' = batch \ {<<f, "in">>} /\ <<f, "in">> \in batch
      BY <1>6 DEF DealWithRead
    <2>2. Queued' = Queued
      BY <2>1 DEF Queued
    <2>3. interest[f] = "in"
      BY <2>1
    <2>4. Shape'
      BY <2>1
    <2>5. Places'
      BY <2>1, <2>2, <2>3
    <2>6. Connected' /\ StatusAgrees'
      BY <2>1, <2>2, <2>3
    <2>7. \A e \in batch' : interest'[e[1]] = e[2]
      <3>1. ASSUME NEW e \in batch' PROVE e[1] # f
        <4>1. e = <<e[1], e[2]>> /\ e \in batch /\ e # <<f, "in">> /\ interest[e[1]] = e[2]
          BY <2>1
        <4> QED
          BY <2>3, <4>1
      <3> QED
        BY <2>1, <3>1
    <2> QED
      BY <2>4, <2>5, <2>6, <2>7
  <1>7. ASSUME NEW f \in Fd, WriteDone(f) PROVE OwnInv'
    <2>1. /\ UNCHANGED <<rfd, tasks, wpc, wfd, wdir>>
          /\ rfd = NoFd
          /\ resp' = [resp EXCEPT ![f] = "none"]
          /\ batch' = batch \ {<<f, "out">>} /\ <<f, "out">> \in batch
      BY <1>7 DEF WriteDone
    <2>2. Queued' = Queued
      BY <2>1 DEF Queued
    <2>3. interest[f] = "out" /\ status[f] = 1 /\ active[f] /\ conn[f] = "live"
      BY <2>1
    <2>4. \A e \in batch' : e \in batch /\ e[1] # f
      <3>1. ASSUME NEW e \in batch' PROVE e[1] # f
        <4>1. e = <<e[1], e[2]>> /\ e \in batch /\ e # <<f, "out">> /\ interest[e[1]] = e[2]
          BY <2>1
        <4> QED
          BY <2>3, <4>1
      <3> QED
        BY <2>1, <3>1
    <2>5. CASE /\ interest' = [interest EXCEPT ![f] = "in"]
               /\ UNCHANGED <<peer, status, active, conn>>
      <3>1. Shape' /\ Places'
        BY <2>1, <2>2, <2>3, <2>5
      <3>2. Connected' /\ StatusAgrees'
        BY <2>1, <2>2, <2>3, <2>5
      <3> QED
        BY <2>1, <2>4, <2>5, <3>1, <3>2
    <2>6. CASE /\ peer' = [peer EXCEPT ![f] = "absent"]
               /\ interest' = [interest EXCEPT ![f] = "none"]
               /\ status' = [status EXCEPT ![f] = 0]
               /\ active' = [active EXCEPT ![f] = FALSE]
               /\ conn' = [conn EXCEPT ![f] = "null"]
      <3>1. Shape'
        BY <2>1, <2>6
      <3>2. Places'
        BY <2>1, <2>2, <2>3, <2>6
      <3>3. Connected' /\ StatusAgrees'
        BY <2>1, <2>2, <2>3, <2>6
      <3> QED
        BY <2>1, <2>4, <2>6, <3>1, <3>2, <3>3
    <2>7. CASE long[f]
      <3>1. /\ interest' = [interest EXCEPT ![f] = "in"]
            /\ status' = [status EXCEPT ![f] = 1]
            /\ active' = [active EXCEPT ![f] = TRUE]
            /\ UNCHANGED <<peer, conn>>
        BY <1>7, <2>3, <2>7 DEF WriteDone, EventAdd
      <3>2. UNCHANGED <<status, active>>
        BY <2>3, <3>1
      <3> QED
        BY <2>5, <3>1, <3>2
    <2>8. CASE ~long[f]
      BY <1>7, <2>3, <2>6, <2>8 DEF WriteDone, EventDel
    <2> QED
      BY <2>7, <2>8
  <1>8. ASSUME NEW f \in Fd, WriteAgain(f) PROVE OwnInv'
    BY <1>8 DEF WriteAgain, EventAdd, Queued
  <1>9. ASSUME NEW w \in Workers, Take(w) PROVE OwnInv'
    <2> DEFINE f == Head(tasks)
    <2>1. /\ UNCHANGED <<interest, peer, status, active, conn, resp, rfd, batch, wdir>>
          /\ wpc[w] = "idle" /\ wpc' = [wpc EXCEPT ![w] = "parse"]
          /\ wfd' = [wfd EXCEPT ![w] = f]
          /\ tasks # << >> /\ tasks' = Tail(tasks)
      BY <1>9 DEF Take
    <2>2. /\ tasks' \in Seq(Fd) /\ Distinct(tasks')
          /\ f \in Fd /\ f \in Queued /\ Queued' = Queued \ {f}
      BY <2>1, QueueShrinks
    <2> HIDE DEF f
    <2>3. wfd[w] = NoFd /\ f # NoFd /\ f # rfd /\ \A v \in Workers : wfd[v] # f
      BY <2>1, <2>2
    <2>4. Shape'
      BY <2>1, <2>2
    <2>5. \A x \in Fd : Owned(x)' => Owned(x)
      BY <2>1, <2>2
    <2>6. Connected' /\ StatusAgrees'
      BY <2>1, <2>5 DEF Connected, StatusAgrees
    <2>7. Places'
      <3>1. \A x \in Fd : interest'[x] # "none" =>
               x # rfd' /\ x \notin Queued' /\ \A v \in Workers : wfd'[v] # x
        BY <2>1, <2>2
      <3>2. rfd' # NoFd => rfd' \notin Queued' /\ \A v \in Workers : wfd'[v] # rfd'
        BY <2>1, <2>2, <2>3
      <3>3. /\ \A v \in Workers : wfd'[v] \notin Queued'
            /\ \A v \in Workers : wpc'[v] = "idle" <=> wfd'[v] = NoFd
        BY <2>1, <2>2, <2>3
      <3>4. \A u, v \in Workers : u # v /\ wfd'[u] = wfd'[v] => wfd'[u] = NoFd
        BY <2>1, <2>3
      <3> QED
        BY <2>2, <3>1, <3>2, <3>3, <3>4
    <2> QED
      BY <2>1, <2>4, <2>6, <2>7
  <1>10. ASSUME NEW w \in Workers, Parse(w) PROVE OwnInv'
    <2>1. /\ UNCHANGED <<interest, peer, active, conn, rfd, batch, tasks, wfd>>
          /\ wpc[w] = "parse" /\ wpc' = [wpc EXCEPT ![w] = "mark"]
          /\ status' = [status EXCEPT ![wfd[w]] = 0]
      BY <1>10 DEF Parse
    <2>2. /\ resp' \in [Fd -> {"none", "content", "empty"}]
          /\ wdir' \in [Workers -> {"in", "out"}]
      <3>1. /\ \E d \in {"in", "out"} : wdir' = [wdir EXCEPT ![w] = d]
            /\ resp' = resp \/ \E r \in {"content", "empty"} : resp' = [resp EXCEPT ![wfd[w]] = r]
        BY ONLY <1>10 DEF Parse
      <3> QED
        BY <3>1
    <2>3. Queued' = Queued
      BY <2>1 DEF Queued
    <2>4. /\ wfd[w] \in Fd /\ interest[wfd[w]] = "none"
          /\ \A v \in Workers : v # w => wfd[v] # wfd[w]
      BY <2>1
    <2>5. Shape'
      BY <2>1, <2>2, <2>4
    <2>6. Places'
      BY <2>1, <2>3
    <2>7. Connected' /\ StatusAgrees'
      BY <2>1, <2>3, <2>4
    <2> QED
      BY <2>1, <2>5, <2>6, <2>7
  <1>11. ASSUME NEW w \in Workers, Mark(w) PROVE OwnInv'
    <2>1. /\ UNCHANGED <<interest, peer, conn, resp, rfd, batch, tasks, wfd, wdir>>
          /\ wpc[w] = "mark" /\ wpc' = [wpc EXCEPT ![w] = "arm"]
          /\ status' = [status EXCEPT ![wfd[w]] = 1]
          /\ active' = [active EXCEPT ![wfd[w]] = TRUE]
      BY <1>11 DEF Mark
    <2>2. Queued' = Queued
      BY <2>1 DEF Queued
    <2>3. wfd[w] \in Fd /\ conn[wfd[w]] = "live" /\ peer[wfd[w]] # "absent"
      BY <2>1
    <2>4. Shape'
      BY <2>1, <2>3
    <2>5. Places'
      BY <2>1, <2>2
    <2>6. Connected' /\ StatusAgrees'
      BY <2>1, <2>2, <2>3
    <2> QED
      BY <2>1, <2>4, <2>5, <2>6
  <1>12. ASSUME NEW w \in Workers, Arm(w) PROVE OwnInv'
    <2> DEFINE f == wfd[w]
    <2>1. /\ UNCHANGED <<peer, status, active, conn, resp, rfd, batch, tasks, wdir>>
          /\ wpc[w] = "arm" /\ wpc' = [wpc EXCEPT ![w] = "idle"]
          /\ wfd' = [wfd EXCEPT ![w] = NoFd]
          /\ interest' = [interest EXCEPT ![f] = IF @ = "none" THEN wdir[w] ELSE @]
      BY <1>12 DEF Arm
    <2>2. Queued' = Queued
      BY <2>1 DEF Queued
    <2>3. /\ f \in Fd /\ f # rfd /\ f \notin Queued /\ interest[f] = "none"
          /\ \A v \in Workers : v # w => wfd[v] # f
          /\ conn[f] = "live" /\ active[f] /\ peer[f] # "absent" /\ status[f] = 1
      BY <2>1
    <2>4. interest' = [interest EXCEPT ![f] = wdir[w]]
      BY <2>1, <2>3
    <2> HIDE DEF f
    <2>5. Shape'
      BY <2>1, <2>2, <2>3, <2>4
    <2>9. Queued \subseteq Fd
      BY DEF Queued, Elems
    <2>10. Places'
      <3>1. \A x \in Fd : interest'[x] # "none" =>
               x # rfd' /\ x \notin Queued' /\ \A v \in Workers : wfd'[v] # x
        BY <2>1, <2>2, <2>3, <2>4
      <3>2. rfd' # NoFd => rfd' \notin Queued' /\ \A v \in Workers : wfd'[v] # rfd'
        BY <2>1, <2>2, <2>3
      <3>3. /\ \A v \in Workers : wfd'[v] \notin Queued'
            /\ \A v \in Workers : wpc'[v] = "idle" <=> wfd'[v] = NoFd
        BY <2>1, <2>2, <2>9
      <3>4. \A u, v \in Workers : u # v /\ wfd'[u] = wfd'[v] => wfd'[u] = NoFd
        BY <2>1
      <3> QED
        BY <2>1, <3>1, <3>2, <3>3, <3>4
    <2>6. Connected'
      BY <2>1, <2>2, <2>3, <2>4
    <2>7. StatusAgrees'
      BY <2>1, <2>3, <2>4
    <2>8. \A e \in batch' : interest'[e[1]] = e[2]
      BY <2>1, <2>3, <2>4
    <2> QED
      BY <2>5, <2>6, <2>7, <2>8, <2>10
  <1>13. ASSUME NEW f \in Fd, WriteKilled(f) PROVE OwnInv'
    BY <1>13 DEF WriteKilled, Queued
  <1> QED
    BY <1>1, <1>2, <1>3, <1>4, <1>5, <1>6, <1>7, <1>8, <1>9, <1>10, <1>11, <1>12, <1>13
       DEF Next, Loop, Handle, Worker

-----------------------------------------------------------------------------
LEMMA OwnInvHolds == Spec => []OwnInv
  <1> QED
    BY OwnInvInit, OwnInvStep, PTL DEF Spec

\* OwnInv says place by place what Owners gathers in one set.
LEMMA OwnInvOwners == OwnInv => OneOwner /\ NothingStale /\ StatusAgrees
  <1> SUFFICES ASSUME OwnInv PROVE OneOwner /\ NothingStale
    BY DEF OwnInv
  <1> USE ReactorAssumption DEF OwnInv, Shape
  <1>1. ASSUME NEW f \in Fd, NEW a \in Owners(f)
        PROVE  /\ Owned(f)
               /\ \/ a = <<"epoll", 1>> /\ interest[f] # "none"
                  \/ a = <<"reactor", 1>> /\ rfd = f
                  \/ \E i \in DOMAIN tasks : a = <<"task", i>> /\ tasks[i] = f /\ f \in Queued
                  \/ \E w \in Workers : a = <<"worker", w>> /\ wfd[w] = f
    BY <1>1 DEF Owners, Owned, Queued, Elems
  <1>2. ASSUME NEW f \in Fd, NEW a \in Owners(f), NEW b \in Owners(f)
        PROVE  a = b
    <2>1. CASE a = <<"epoll", 1>> /\ interest[f] # "none"
      BY <1>1, <2>1 DEF Places
    <2>2. CASE a = <<"reactor", 1>> /\ rfd = f
      BY <1>1, <2>2 DEF Places
    <2>3. ASSUME NEW i \in DOMAIN tasks, a = <<"task", i>>, tasks[i] = f, f \in Queued
          PROVE  a = b
      BY <1>1, <2>3 DEF Places, Distinct
    <2>4. ASSUME NEW w \in Workers, a = <<"worker", w>>, wfd[w] = f
          PROVE  a = b
      BY <1>1, <2>4 DEF Places
    <2> QED
      BY <1>1, <2>1, <2>2, <2>3, <2>4
  <1>3. OneOwner
    BY <1>2 DEF OneOwner
  <1>4. NothingStale
    BY <1>1 DEF NothingStale, Connected
  <1> QED
    BY <1>3, <1>4

\* No lock guards an event, and none is needed: epoll, the reactor, the
\* queue and the workers pass it on, and only one of them has it at a time.
THEOREM EventHasOneOwner == Spec => []OneOwner
  <1> QED
    BY OwnInvHolds, OwnInvOwners, PTL

\* An event is handled only while its connection exists, and an event that
\* epoll_wait returned is still as it was reported when its turn comes.
THEOREM EventIsNeverStale == Spec => []NothingStale
  <1> QED
    BY OwnInvHolds, OwnInvOwners, PTL

\* event_add always chooses the epoll_ctl operation that succeeds.
THEOREM StatusIsRight == Spec => []StatusAgrees
  <1> QED
    BY OwnInvHolds, OwnInvOwners, PTL

-----------------------------------------------------------------------------
\* The queue holds no event twice and never the one about to be pushed, so
\* it is shorter than the number of descriptors.
LEMMA QueueHasRoom ==
    ASSUME OwnInv, rfd \in Fd, QueueSize >= Cardinality(Fd)
    PROVE  Len(tasks) < QueueSize
  <1> USE ReactorAssumption DEF OwnInv, Shape
  <1>1. tasks \in Seq(Fd) /\ Len(tasks) \in Nat /\ DOMAIN tasks = 1 .. Len(tasks)
    BY LenProperties
  <1>2. tasks \in Injection(1 .. Len(tasks), Fd)
    <2>1. tasks \in [1 .. Len(tasks) -> Fd]
      BY <1>1
    <2>2. \A i, j \in 1 .. Len(tasks) : tasks[i] = tasks[j] => i = j
      BY <1>1 DEF Places, Distinct
    <2> QED
      BY <2>1, <2>2 DEF Injection, IsInjective
  <1>3. tasks \notin Surjection(1 .. Len(tasks), Fd)
    <2>1. rfd \notin Queued
      BY DEF Places
    <2>2. \A i \in 1 .. Len(tasks) : tasks[i] # rfd
      BY <1>1, <2>1 DEF Queued, Elems
    <2> QED
      BY <2>2 DEF Surjection
  <1>4. \A k \in Nat : Cardinality(1 .. k) = k
    BY FS_Interval
  <1> DEFINE n == 1 .. Len(tasks)
  <1>5. Cardinality(Fd) \in Nat
    BY FS_CardinalityType
  <1> HIDE DEF n
  <1>6. tasks \in Injection(n, Fd) /\ tasks \notin Surjection(n, Fd) /\ IsFiniteSet(Fd)
    BY <1>2, <1>3 DEF n
  <1>7. Cardinality(n) <= Cardinality(Fd) /\ Cardinality(n) # Cardinality(Fd)
    <2>1. /\ Cardinality(n) <= Cardinality(Fd)
          /\ Cardinality(n) = Cardinality(Fd) <=> tasks \in Surjection(n, Fd)
      BY ONLY <1>6, FS_Injection
    <2> QED
      BY ONLY <1>6, <2>1
  <1>8. Cardinality(n) = Len(tasks)
    BY ONLY <1>1, <1>4 DEF n
  <1> QED
    BY <1>1, <1>5, <1>7, <1>8

\* A pool whose queue has a slot per descriptor refuses no event.
THEOREM EnoughSlotsRefuseNothing == Spec => []NoRefusalWithASlotEach
  <1>1. Init => NoRefusalWithASlotEach
    BY DEF Init, NoRefusalWithASlotEach
  <1>2. OwnInv /\ NoRefusalWithASlotEach /\ [Next]_vars => NoRefusalWithASlotEach'
    <2> SUFFICES ASSUME OwnInv, QueueSize >= Cardinality(Fd), refused = {}, [Next]_vars
                 PROVE  refused' = {}
      BY DEF NoRefusalWithASlotEach
    <2>1. CASE PushTask
      <3>1. rfd \in Fd
        BY <2>1 DEF PushTask, OwnInv, Shape
      <3> QED
        BY <2>1, <3>1, QueueHasRoom DEF PushTask
    <2>2. CASE ~PushTask
      BY <2>2 DEF Next, vars, Client, Connect, Send, Close, Reset, Loop, Poll, Handle,
                  Accept, DealWithRead, WriteDone, WriteAgain, WriteKilled, Worker, Take,
                  Parse, Mark, Arm
    <2> QED
      BY <2>1, <2>2
  <1> QED
    BY <1>1, <1>2, OwnInvHolds, PTL DEF Spec
-----------------------------------------------------------------------------
(* How a connection can be lost.                                           *)

\* A connection that nobody has was refused, or read empty after its client
\* had gone.  What epoll reports as readable stays so until it is read.
LostInv ==
    /\ sock \in [Fd -> Nat] /\ buf \in [Fd -> Nat]
    /\ \A f \in Fd : <<f, "in">> \in batch => Readable(f)
    /\ \A f \in Fd : conn[f] = "live" /\ ~Owned(f) =>
          f \in refused \/ (Gone(f) /\ buf[f] = 0)

LEMMA LostInvInit == Init => LostInv
  BY DEF Init, LostInv

LEMMA LostInvStep == OwnInv /\ OwnInv' /\ LostInv /\ [Next]_vars => LostInv'
  <1> SUFFICES ASSUME OwnInv, OwnInv', LostInv, [Next]_vars PROVE LostInv'
    OBVIOUS
  <1> USE ReactorAssumption DEF LostInv, Owned, Readable, Gone
  <1>0. /\ peer \in [Fd -> {"absent", "open", "closed", "reset"}] /\ conn \in [Fd -> {"null", "live"}]
        /\ interest \in [Fd -> {"none", "in", "out"}] /\ tasks \in Seq(Fd)
        /\ \A e \in batch : e \in Fd \X {"in", "out"} /\ interest[e[1]] = e[2]
        /\ wfd \in [Workers -> Fd \cup {NoFd}]
        /\ \A f \in Fd : Owned(f) => conn[f] = "live"
        /\ \A f \in Fd : conn[f] = "live" <=> peer[f] # "absent"
        /\ \A w \in Workers : wpc[w] = "idle" <=> wfd[w] = NoFd
    BY DEF OwnInv, Shape, Connected, Places
  <1>1. CASE UNCHANGED vars
    BY <1>1 DEF vars, kernel, event, loop, work, world, Queued
  <1>2. CASE Client
    <2> DEFINE Grows == /\ UNCHANGED <<interest, conn, buf, rfd, batch, tasks, wfd, refused>>
                        /\ sock' \in [Fd -> Nat] /\ \A f \in Fd : sock'[f] >= sock[f]
                        /\ \A f \in Fd : Gone(f) => Gone(f)'
    <2>0. sock \in [Fd -> Nat]
      OBVIOUS
    <2>1. Grows
      <3>1. CASE Connect
        BY <2>0, <3>1 DEF Connect, event, loop, work
      <3>2. ASSUME NEW f \in Fd, Send(f) PROVE Grows
        BY ONLY <2>0, <3>2 DEF Send, Gone, event, loop, work
      <3>3. ASSUME NEW f \in Fd, Close(f) PROVE Grows
        BY ONLY <1>0, <2>0, <3>3 DEF Close, Gone, event, loop, work
      <3>4. ASSUME NEW f \in Fd, Reset(f) PROVE Grows
        BY ONLY <1>0, <2>0, <3>4 DEF Reset, Gone, event, loop, work
      <3> HIDE DEF Grows
      <3> QED BY <1>2, <3>1, <3>2, <3>3, <3>4 DEF Client
    <2>2. Queued' = Queued
      BY <2>1 DEF Queued
    <2> QED BY <2>1, <2>2
  <1>3. CASE Poll
    <2>1. UNCHANGED <<interest, peer, sock, conn, buf, rfd, tasks, wfd, refused>> /\ batch' = Ready
      BY <1>3 DEF Poll, kernel, event, work
    <2>2. Queued' = Queued
      BY <2>1 DEF Queued
    <2>3. \A f \in Fd : <<f, "in">> \in batch' => Readable(f)
      BY <2>1 DEF Ready
    <2> QED BY <2>1, <2>2, <2>3
  <1>4. CASE PushTask
    <2>1. UNCHANGED <<interest, peer, sock, conn, buf, batch, wfd>> /\ rfd' = NoFd /\ rfd \in Fd
      BY <1>4 DEF PushTask, kernel, event, work, OwnInv, Shape
    <2>2. CASE tasks' = tasks /\ refused' = refused \cup {rfd}
      <3>1. Queued' = Queued
        BY <2>2 DEF Queued
      <3> QED BY <2>1, <2>2, <3>1
    <2>3. CASE tasks' = Append(tasks, rfd) /\ refused' = refused
      <3>1. Queued' = Queued \cup {rfd}
        BY <1>0, <2>1, <2>3, AppendElems DEF Queued
      <3> QED BY <2>1, <2>3, <3>1
    <2> QED BY <1>4, <2>2, <2>3 DEF PushTask
  <1>5. CASE Accept
    <2>1. UNCHANGED <<rfd, batch, tasks, wfd, refused>>
      BY <1>5 DEF Accept, work
    <2>2. Queued' = Queued
      BY <2>1 DEF Queued
    <2>3. CASE UNCHANGED <<kernel, event>>
      BY <2>1, <2>2, <2>3 DEF kernel, event
    <2>4. ASSUME NEW f \in Fd, peer[f] = "absent", peer' = [peer EXCEPT ![f] = "open"],
                 sock' = [sock EXCEPT ![f] = 0], conn' = [conn EXCEPT ![f] = "live"],
                 buf' = [buf EXCEPT ![f] = 0], EventAdd(f, "in")
          PROVE  LostInv'
      <3>1. status[f] = 0 /\ interest[f] = "none"
        BY <2>4 DEF OwnInv, StatusAgrees
      <3>2. interest' = [interest EXCEPT ![f] = "in"]
        BY <1>0, <2>4, <3>1 DEF EventAdd
      <3>3. <<f, "in">> \notin batch
        BY <1>0, <3>1
      <3> QED BY <1>0, <2>1, <2>2, <2>4, <3>2, <3>3
    <2> QED BY <1>5, <2>3, <2>4 DEF Accept
  <1>6. ASSUME NEW f \in Fd, DealWithRead(f) PROVE LostInv'
    <2>1. /\ UNCHANGED <<peer, conn, tasks, wfd, refused>> /\ rfd = NoFd
          /\ interest' = [interest EXCEPT ![f] = "none"]
          /\ batch' = batch \ {<<f, "in">>} /\ <<f, "in">> \in batch
          /\ rfd' = IF buf'[f] > 0 THEN f ELSE NoFd
      BY <1>6 DEF DealWithRead, work
    <2>2. Queued' = Queued
      BY <2>1 DEF Queued
    <2>3. /\ buf' \in [Fd -> Nat] /\ sock' \in [Fd -> Nat]
          /\ \A g \in Fd \ {f} : buf'[g] = buf[g] /\ sock'[g] = sock[g]
          /\ buf'[f] = 0 => sock[f] = 0
      <3>0. /\ sock \in [Fd -> Nat] /\ buf \in [Fd -> Nat]
            /\ Full \in Nat \ {0}
        OBVIOUS
      <3>1. CASE buf[f] < Full
        BY ONLY <1>6, <3>0, <3>1 DEF DealWithRead
      <3>2. CASE ~(buf[f] < Full)
        BY ONLY <1>6, <3>0, <3>2 DEF DealWithRead
      <3> QED BY <3>1, <3>2
    <2>4. \A g \in Fd : <<g, "in">> \in batch' => Readable(g)'
      BY <2>1, <2>3
    <2>5. buf'[f] = 0 => Gone(f)'
      BY <2>1, <2>3
    <2>6. \A g \in Fd \ {f} : Owned(g)' <=> Owned(g)
      BY <1>0, <2>1, <2>2
    <2>7. Owned(f)' \/ buf'[f] = 0
      BY <2>1, <2>3
    <2> QED BY <2>1, <2>3, <2>4, <2>5, <2>6, <2>7
  <1>7. ASSUME NEW f \in Fd, WriteDone(f) \/ WriteAgain(f) PROVE LostInv'
    <2>1. /\ UNCHANGED <<buf, rfd, tasks, wfd, refused>>
          /\ batch' = batch \ {<<f, "out">>} /\ <<f, "out">> \in batch
      BY <1>7 DEF WriteDone, WriteAgain, work
    <2>2. Queued' = Queued
      BY <2>1 DEF Queued
    <2>3. interest[f] = "out" /\ status[f] = 1
      BY <1>0, <2>1 DEF OwnInv, StatusAgrees
    <2>4. <<f, "in">> \notin batch
      BY <1>0, <2>3
    <2>5. CASE \E d \in {"in", "out"} : EventAdd(f, d) /\ UNCHANGED <<peer, sock, conn>>
      <3>1. interest'[f] # "none" /\ \A g \in Fd \ {f} : interest'[g] = interest[g]
        BY <1>0, <2>3, <2>5 DEF EventAdd
      <3> QED BY <2>1, <2>2, <2>5, <3>1
    <2>6. CASE EventDel(f)
      <3>1. /\ conn' = [conn EXCEPT ![f] = "null"] /\ sock' = [sock EXCEPT ![f] = 0]
            /\ interest' = [interest EXCEPT ![f] = "none"]
            /\ \A g \in Fd \ {f} : peer'[g] = peer[g]
        BY <1>0, <2>3, <2>6 DEF EventDel
      <3> QED BY <1>0, <2>1, <2>2, <2>4, <3>1
    <2> QED BY <1>7, <2>5, <2>6 DEF WriteDone, WriteAgain
  <1>9. ASSUME NEW w \in Workers, Take(w) PROVE LostInv'
    <2>1. /\ UNCHANGED <<interest, peer, sock, conn, buf, rfd, batch, refused>>
          /\ wfd' = [wfd EXCEPT ![w] = Head(tasks)]
          /\ tasks # << >> /\ tasks' = Tail(tasks) /\ wfd[w] = NoFd
      BY <1>0, <1>9 DEF Take, kernel, event, loop
    <2>2. /\ Queued' = Queued \ {Head(tasks)}
      BY <1>0, <2>1, QueueShrinks DEF OwnInv, Places
    <2>3. \A g \in Fd : Owned(g)' <=> Owned(g)
      BY <1>0, <2>1, <2>2, QueueShrinks DEF OwnInv, Places
    <2> QED BY <2>1, <2>3
  <1>10. ASSUME NEW w \in Workers, Parse(w) PROVE LostInv'
    <2>1. /\ UNCHANGED <<interest, peer, sock, conn, rfd, batch, tasks, wfd, refused>>
          /\ \E left \in 0 .. buf[wfd[w]] : buf' = [buf EXCEPT ![wfd[w]] = left]
          /\ wpc[w] = "parse"
      BY <1>10 DEF Parse, kernel, loop
    <2>2. Queued' = Queued
      BY <2>1 DEF Queued
    <2>3. wfd[w] \in Fd /\ Owned(wfd[w])
      BY <1>0, <2>1
    <2>4. buf' \in [Fd -> Nat] /\ \A g \in Fd \ {wfd[w]} : buf'[g] = buf[g]
      BY <2>1, <2>3
    <2> QED BY <1>0, <2>1, <2>2, <2>3, <2>4
  <1>11. ASSUME NEW w \in Workers, Mark(w) PROVE LostInv'
    BY <1>11 DEF Mark, kernel, loop, Queued
  <1>12. ASSUME NEW w \in Workers, Arm(w) PROVE LostInv'
    <2>1. /\ UNCHANGED <<peer, sock, conn, buf, rfd, batch, tasks, refused>>
          /\ wpc[w] = "arm" /\ wfd' = [wfd EXCEPT ![w] = NoFd]
          /\ interest' = [interest EXCEPT ![wfd[w]] = IF @ = "none" THEN wdir[w] ELSE @]
      BY <1>12 DEF Arm, event, loop
    <2>2. Queued' = Queued
      BY <2>1 DEF Queued
    <2>3. wfd[w] \in Fd /\ wdir[w] # "none"
      BY <1>0, <2>1 DEF OwnInv, Shape
    <2>4. \A g \in Fd : Owned(g) => Owned(g)'
      BY <1>0, <2>1, <2>2, <2>3
    <2> QED BY <2>1, <2>4
  <1>13. ASSUME NEW f \in Fd, WriteKilled(f) PROVE LostInv'
    BY <1>13 DEF WriteKilled, kernel, event, loop, work, Queued
  <1> QED
    BY <1>1, <1>2, <1>3, <1>4, <1>5, <1>6, <1>7, <1>9, <1>10, <1>11, <1>12, <1>13
       DEF Next, Loop, Handle, Worker

\* A connection is lost in two ways only, for any number of descriptors and
\* workers and any queue: its push was refused, or dealwithread found nothing
\* to read because the client had gone.
THEOREM LostForAReason == Spec => []ForgottenForAReason
  <1>1. OwnInv /\ LostInv => ForgottenForAReason
    <2> SUFFICES ASSUME OwnInv, LostInv, NEW f \in Fd, Owned(f)
                 PROVE  Owners(f) # {}
      BY DEF ForgottenForAReason, Forgotten, LostInv, Gone
    <2>1. CASE f \in Queued
      BY <2>1 DEF Queued, Elems, Owners
    <2>2. CASE f \notin Queued
      BY <2>2 DEF Owned, Owners
    <2> QED BY <2>1, <2>2
  <1> QED
    BY <1>1, LostInvInit, LostInvStep, OwnInvHolds, PTL DEF Spec
=============================================================================
