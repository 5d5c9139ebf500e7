-------------------------- MODULE RedisAsyncProofs --------------------------
(***************************************************************************)
(* Proofs about RedisAsync, for any topics and any number of commands and  *)
(* messages.                                                               *)
(***************************************************************************)
EXTENDS RedisAsync, FiniteSetTheorems, SequenceTheorems, WellFoundedInduction, TLAPS

\* What is on the way to the program, and the commands on their way to the
\* server, each in order.
Wire == inbox \o srv.out
Waiting == srv.in \o ac.obuf

Kind == {"ordinary", "subscribe", "unsubscribe"}
Counts == {Cardinality(S) : S \in SUBSET Topics}
Reply == [kind : {"reply", "error", "subscribe", "unsubscribe", "message", "null"},
          n : Nat, topic : Topics \cup {NoTopic}, count : Counts]
Order == [kind : Kind, n : Nat, topics : Seq(Topics)]
Back == [n : Nat, topic : Topics \cup {NoTopic}]
Issued == [kind : Kind, topics : Seq(Topics), list : {"replies", "invalid"}]
Tables == UNION {[D -> [n : Nat, pending : Nat]] : D \in SUBSET Topics}
Context == [connected : BOOLEAN, disconnecting : BOOLEAN, freeing : BOOLEAN,
            subscribed : BOOLEAN, err : BOOLEAN, obuf : Seq(Order), replies : Seq(Back),
            invalid : Seq(Back), topics : Tables,
            addRead : BOOLEAN, addWrite : BOOLEAN]
Server == [up : BOOLEAN, in : Seq(Order), out : Seq(Reply), topics : SUBSET Topics, sent : Nat]

Types ==
    /\ ac \in Context /\ srv \in Server
    /\ inbox \in Seq(Reply) /\ cb \in Back /\ got \in Reply
    /\ pc \in {"loop", "process", "callback", "freed", "pending", "unsubscribed"}
    /\ issued \in Seq(Issued) /\ ran \in Seq(Seq(Reply)) /\ Len(ran) = Len(issued)
    /\ told \in {"nothing", "ok", "error"}

-----------------------------------------------------------------------------
\* A command as the server sees it; the commands of a kind, of a list, of a
\* topic.
Order_(n) == [kind |-> issued[n].kind, n |-> n, topics |-> issued[n].topics]
Is(n, kind) == n \in 1 .. Len(issued) /\ issued[n].kind = kind
Regular(n) == Is(n, "ordinary") /\ issued[n].list = "replies"
Invalid(n) == Is(n, "ordinary") /\ issued[n].list = "invalid"
Names(n, t) == \E k \in 1 .. Len(issued[n].topics) : issued[n].topics[k] = t
Subs(n, t) == Is(n, "subscribe") /\ Names(n, t)
Unsubs(n, t) == Is(n, "unsubscribe") /\ issued[n].topics[1] = t

\* The error of a server that refuses the client.
Refusal == Message("error", 0, NoTopic, 0)

\* What a message on the wire is the answer to.
Answered(m) ==
    \/ m.kind = "reply" /\ Is(m.n, "ordinary") /\ m.topic = NoTopic
    \/ m.kind = "error" /\ m.n \in 1 .. Len(issued) /\ m.topic = NoTopic
    \/ m = Refusal
    \/ m.kind = "subscribe" /\ m.topic \in Topics /\ Subs(m.n, m.topic)
    \/ m.kind = "unsubscribe" /\ m.topic \in Topics /\ Unsubs(m.n, m.topic)
    \/ m.kind = "message" /\ m.n = 0 /\ m.topic \in Topics

\* The commands wait in the order of their numbers, the last accepted last,
\* and the answers come in that order; only the confirmations of one
\* SUBSCRIBE share a number.
Issues == \A n \in 1 .. Len(issued) :
    /\ issued[n].kind = "subscribe" => issued[n].topics # <<>>
    /\ issued[n].kind = "unsubscribe" => Len(issued[n].topics) = 1
Queued ==
    /\ Len(Waiting) <= Len(issued)
    /\ \A i \in 1 .. Len(Waiting) : Waiting[i] = Order_(Len(issued) - Len(Waiting) + i)
    /\ \A i \in 1 .. Len(Wire) : Wire[i].n <= Len(issued) - Len(Waiting)
Inorder ==
    \A i, j \in 1 .. Len(Wire) : i < j /\ Wire[j].n # 0 =>
       /\ Wire[i].n <= Wire[j].n
       /\ Wire[i].n = Wire[j].n => Wire[i].kind = "subscribe" /\ Wire[j].kind = "subscribe"
Accounted ==
    /\ \A i \in 1 .. Len(Wire) : Answered(Wire[i])
    /\ srv.up => \A i \in 1 .. Len(Wire) : Wire[i] # Refusal
Numbered == Issues /\ Queued /\ Inorder /\ Accounted

-----------------------------------------------------------------------------
\* What pending_subs counts: the confirmations of a topic that are still to
\* come, those on the wire and those of commands that have no answer yet; a
\* command that was rejected is counted until its error has been read.
Confirms(m, t) == m.kind = "subscribe" /\ m.topic = t
OnWire(w, t) == {i \in 1 .. Len(w) : Confirms(w[i], t)}
Awaited(n) == \/ \E i \in 1 .. Len(Waiting) : Waiting[i].n = n
              \/ \E i \in 1 .. Len(Wire) : Wire[i].kind = "error" /\ Wire[i].n = n
Spots(list, t, i) == {k \in 1 .. i : list[k] = t}
Places(n, t) == Spots(issued[n].topics, t, Len(issued[n].topics))
Behind(t) == UNION {{n} \X Places(n, t) : n \in {m \in 1 .. Len(issued) : Awaited(m) /\ Is(m, "subscribe")}}
Pendings(t) == IF t \in Subscribed THEN ac.topics[t].pending ELSE 0

Counted == \A t \in Topics : Cardinality(OnWire(Wire, t)) + Cardinality(Behind(t)) <= Pendings(t)
Heard == srv.topics \subseteq Subscribed
Renewed == \A t \in srv.topics : \A i \in 1 .. Len(Wire) :
    Wire[i].kind = "unsubscribe" /\ Wire[i].topic = t =>
        \E k \in 1 .. Len(Wire) : i < k /\ Confirms(Wire[k], t)
Knows == Subscribed # {} => ac.subscribed

HeardInv == Types /\ (Live => Numbered /\ Counted /\ Heard /\ Renewed /\ Knows)

-----------------------------------------------------------------------------
\* The commands of the replies list are the next to be answered.
Aligned == \A i \in 1 .. Len(Wire) :
    \/ Wire[i] = Refusal
    \/ IF i <= Len(ac.replies) THEN Wire[i].n = ac.replies[i].n ELSE ~Regular(Wire[i].n)
AlignedBehind == srv.up =>
    /\ Len(ac.replies) <= Len(Wire) + Len(Waiting)
    /\ \A i \in 1 .. Len(Waiting) :
          IF Len(Wire) + i <= Len(ac.replies) THEN Waiting[i].n = ac.replies[Len(Wire) + i].n
          ELSE ~Regular(Waiting[i].n)
    /\ srv.topics # {} => Len(ac.replies) <= Len(Wire)
Replies == \A i \in 1 .. Len(ac.replies) : ac.replies[i].topic = NoTopic /\ Regular(ac.replies[i].n)
Plain == ~ac.subscribed =>
    /\ \A i \in 1 .. Len(Wire) : Wire[i] = Refusal \/ Regular(Wire[i].n)
    /\ srv.up => \A i \in 1 .. Len(Waiting) : Regular(Waiting[i].n)
Lined == Aligned /\ AlignedBehind /\ Replies /\ Plain

\* The callbacks of the invalid list are those of the commands that were
\* sent in subscribed mode and have not been answered.
Invalids ==
    /\ \A i \in 1 .. Len(ac.invalid) : ac.invalid[i].topic = NoTopic /\ Invalid(ac.invalid[i].n)
    /\ \A i, j \in 1 .. Len(ac.invalid) : i < j => ac.invalid[i].n < ac.invalid[j].n
InInvalid(n) == \E k \in 1 .. Len(ac.invalid) : ac.invalid[k].n = n
Expected ==
    /\ \A i \in 1 .. Len(Wire) : Invalid(Wire[i].n) => InInvalid(Wire[i].n)
    /\ \A k \in 1 .. Len(ac.invalid) : \A i \in 1 .. Len(Wire) :
          ac.invalid[k].n < Wire[i].n => \E j \in 1 .. Len(Wire) : Wire[j].n = ac.invalid[k].n
    /\ srv.up =>
          /\ \A i \in 1 .. Len(Waiting) : Invalid(Waiting[i].n) => InInvalid(Waiting[i].n)
          /\ \A k \in 1 .. Len(ac.invalid) :
                \/ \E j \in 1 .. Len(Wire) : Wire[j].n = ac.invalid[k].n
                \/ \E j \in 1 .. Len(Waiting) : Waiting[j].n = ac.invalid[k].n
Numbers == Invalids /\ Expected

-----------------------------------------------------------------------------
\* What is still to be answered or confirmed concerns topics that have an
\* entry: an unsubscription, the subscription that followed it, a message.
Entries == \A t \in Subscribed : Subs(ac.topics[t].n, t)
Leaving == \A t \in Topics :
    /\ \A i \in 1 .. Len(Wire) : Unsubs(Wire[i].n, t) => t \in Subscribed
    /\ srv.up => \A i \in 1 .. Len(Waiting) : Unsubs(Waiting[i].n, t) => t \in Subscribed
Alternate == \A t \in Topics : \A m, n \in 1 .. Len(issued) :
    m < n /\ Unsubs(m, t) /\ Unsubs(n, t) => \E k \in 1 .. Len(issued) : m < k /\ k < n /\ Subs(k, t)
InFlight(n, t) ==
    \/ Awaited(n)
    \/ \E i \in 1 .. Len(Wire) : Wire[i].n = n /\ Confirms(Wire[i], t)
Following == \A t \in Topics : \A n \in 1 .. Len(issued) : \A i \in 1 .. Len(Wire) :
    Subs(n, t) /\ Wire[i].n # 0 /\ Wire[i].n < n /\ (srv.up \/ \E j \in 1 .. Len(Wire) : n < Wire[j].n) =>
        InFlight(n, t)
Wants == srv.up => \A t \in Topics : Wanted(t) => t \in Subscribed
Messages == \A j \in 1 .. Len(Wire) : Wire[j].kind = "message" =>
    /\ Wire[j].topic \in Subscribed
    /\ \A i \in 1 .. Len(Wire) :
          i < j /\ Wire[i].kind = "unsubscribe" /\ Wire[i].topic = Wire[j].topic =>
             \E k \in 1 .. Len(Wire) : i < k /\ k < j /\ Confirms(Wire[k], Wire[j].topic)
LastWord ==
    /\ \A i \in 1 .. Len(Wire) : Wire[i].kind = "unsubscribe" =>
          \A n \in 1 .. Len(issued) : Wire[i].n < n => ~Is(n, "ordinary")
    /\ \A i \in 1 .. Len(Waiting) : Waiting[i].kind = "unsubscribe" =>
          \A n \in 1 .. Len(issued) : Waiting[i].n < n => ~Is(n, "ordinary")
Topical == Entries /\ Leaving /\ Alternate /\ Following /\ Wants /\ Messages /\ LastWord

\* A callback that is still registered has not run, one that is not has run
\* once; the one that runs is the one its reply is for.
Pends(n) == InInvalid(n) \/ \E k \in 1 .. Len(ac.replies) : ac.replies[k].n = n
Once ==
    /\ \A i, j \in 1 .. Len(ac.replies) : i # j => ac.replies[i].n # ac.replies[j].n
    /\ \A n \in 1 .. Len(issued) : Is(n, "ordinary") =>
          IF Pends(n) THEN ran[n] = <<>> ELSE Len(ran[n]) = 1 /\ ran[n][1].kind # "null"
    /\ told = "nothing"
Speaks == pc = "callback" =>
    IF got.topic = NoTopic THEN got.n \in {cb.n, 0} ELSE cb.topic = got.topic /\ Subs(cb.n, cb.topic)

\* The context lives and every answer is matched, or it was freed when all
\* of it was settled.
Matched == Lined /\ Numbers /\ Topical /\ Once /\ Speaks
MatchInv == /\ HeardInv
            /\ Live => Matched
            /\ pc \in {"loop", "process", "callback", "freed"}
            /\ ExactlyOnce /\ CleanMeansAnswered

-----------------------------------------------------------------------------
\* Types.

LEMMA InitTypes == Init => Types
  <1> SUFFICES ASSUME Init PROVE Types
    OBVIOUS
  <1>1. 0 \in Counts
    BY FS_EmptySet DEF Counts
  <1>2. ac \in Context
    <2>1. [t \in {} |-> 0] \in Tables
      <3>1. [t \in {} |-> 0] \in [{} -> [n : Nat, pending : Nat]] /\ {} \in SUBSET Topics
        OBVIOUS
      <3> QED BY <3>1 DEF Tables
    <2> QED BY <2>1 DEF Init, Context
  <1> QED BY <1>1, <1>2 DEF Init, Types, Server, Back, Reply, NoCallback, Callback, NullReply, Message

\* The fields of a context, and a context with other ones.
LEMMA ContextFields ==
    ASSUME Types
    PROVE  /\ ac.obuf \in Seq(Order) /\ ac.replies \in Seq(Back) /\ ac.invalid \in Seq(Back)
           /\ ac.subscribed \in BOOLEAN /\ Subscribed \subseteq Topics
           /\ \A t \in Subscribed : ac.topics[t].n \in Nat /\ ac.topics[t].pending \in Nat
           /\ srv.in \in Seq(Order) /\ srv.out \in Seq(Reply) /\ srv.topics \subseteq Topics
           /\ srv.up \in BOOLEAN /\ inbox \in Seq(Reply)
           /\ Wire \in Seq(Reply) /\ Waiting \in Seq(Order)
  <1>1. /\ ac.obuf \in Seq(Order) /\ ac.replies \in Seq(Back) /\ ac.invalid \in Seq(Back)
        /\ ac.subscribed \in BOOLEAN /\ srv.in \in Seq(Order) /\ srv.out \in Seq(Reply)
        /\ srv.topics \subseteq Topics /\ srv.up \in BOOLEAN /\ inbox \in Seq(Reply)
    BY DEF Types, Context, Server
  <1>2. PICK D \in SUBSET Topics : ac.topics \in [D -> [n : Nat, pending : Nat]]
    BY DEF Types, Context, Tables
  <1>3. Wire \in Seq(Reply) /\ Waiting \in Seq(Order)
    BY <1>1, ConcatProperties DEF Wire, Waiting
  <1> QED BY <1>1, <1>2, <1>3 DEF Subscribed

-----------------------------------------------------------------------------
\* What the steps do to the wire and to the commands that wait.

\* A list that is cut somewhere and put together again.
LEMMA CutAnywhere ==
    ASSUME NEW S, NEW s \in Seq(S), NEW t \in Seq(S), NEW k \in 0 .. Len(t)
    PROVE  /\ SubSeq(t, 1, k) \in Seq(S) /\ SubSeq(t, k + 1, Len(t)) \in Seq(S)
           /\ (s \o SubSeq(t, 1, k)) \o SubSeq(t, k + 1, Len(t)) = s \o t
  <1>1. /\ Len(t) \in Nat /\ \A i \in 1 .. Len(t) : t[i] \in S
    BY LenProperties, ElementOfSeq
  <1>2. SubSeq(t, 1, k) \in Seq(S) /\ SubSeq(t, k + 1, Len(t)) \in Seq(S)
    <2>1. (\A i \in 1 .. k : t[i] \in S) /\ (\A i \in k + 1 .. Len(t) : t[i] \in S)
      BY <1>1
    <2> QED BY <1>1, <2>1, SubSeqProperties
  <1>3. SubSeq(t, 1, k) \o SubSeq(t, k + 1, Len(t)) = t
    <2>1. SubSeq(t, 1, k) \o SubSeq(t, k + 1, Len(t)) = SubSeq(t, 1, Len(t))
      <3>1. 1 \in 1 .. Len(t) + 1 /\ k \in 1 - 1 .. Len(t) /\ Len(t) \in k .. Len(t)
        BY <1>1
      <3> QED BY <3>1, ConcatAdjacentSubSeq
    <2> QED BY <2>1, SubSeqFull
  <1>4. ASSUME NEW u \in Seq(S), NEW v \in Seq(S), u \o v = t
        PROVE  (s \o u) \o v = s \o t
    <2>1. (s \o u) \o v = s \o (u \o v)
      BY ONLY ConcatAssociative, s \in Seq(S), u \in Seq(S), v \in Seq(S)
    <2> QED BY <1>4, <2>1, Zenon
  <1> QED BY <1>2, <1>3, <1>4

\* The first of two lists, one after the other, when it is not empty.
LEMMA FrontOfConcat ==
    ASSUME NEW S, NEW s \in Seq(S), NEW t \in Seq(S), s # <<>>
    PROVE  /\ s \o t # <<>> /\ Tail(s \o t) = Tail(s) \o t
           /\ Head(s) = (s \o t)[1] /\ Tail(s) \in Seq(S) /\ Head(s) \in S
  <1>1. /\ Tail(s) \in Seq(S) /\ Len(Tail(s)) = Len(s) - 1 /\ Len(s) \in Nat \ {0} /\ Len(t) \in Nat
        /\ \A i \in 1 .. Len(Tail(s)) : Tail(s)[i] = s[i + 1]
        /\ Head(s) \in S /\ Head(s) = s[1]
    BY HeadTailProperties, EmptySeq, LenProperties
  <1>2. /\ s \o t \in Seq(S) /\ Len(s \o t) = Len(s) + Len(t)
        /\ \A i \in 1 .. Len(s) + Len(t) : (s \o t)[i] = IF i <= Len(s) THEN s[i] ELSE t[i - Len(s)]
    BY ConcatProperties
  <1>3. s \o t # <<>>
    BY <1>1, <1>2, EmptySeq
  <1>4. /\ Tail(s \o t) \in Seq(S) /\ Len(Tail(s \o t)) = Len(s) + Len(t) - 1
        /\ \A i \in 1 .. Len(s) + Len(t) - 1 : Tail(s \o t)[i] = (s \o t)[i + 1]
    BY <1>2, <1>3, HeadTailProperties
  <1>5. /\ Tail(s) \o t \in Seq(S) /\ Len(Tail(s) \o t) = Len(s) - 1 + Len(t)
        /\ \A i \in 1 .. Len(s) - 1 + Len(t) :
              (Tail(s) \o t)[i] = IF i <= Len(s) - 1 THEN Tail(s)[i] ELSE t[i - (Len(s) - 1)]
    BY <1>1, ConcatProperties
  <1>6. ASSUME NEW i \in 1 .. Len(s) + Len(t) - 1
        PROVE  Tail(s \o t)[i] = (Tail(s) \o t)[i]
    <2>1. Tail(s \o t)[i] = IF i + 1 <= Len(s) THEN s[i + 1] ELSE t[i + 1 - Len(s)]
      BY <1>1, <1>2, <1>4
    <2>2. i - (Len(s) - 1) = i + 1 - Len(s)
      BY <1>1
    <2> QED BY <1>1, <1>5, <2>1, <2>2
  <1>7. Tail(s \o t) = Tail(s) \o t
    BY <1>1, <1>4, <1>5, <1>6, SeqEqual
  <1>8. (s \o t)[1] = s[1]
    BY <1>1, <1>2
  <1> QED BY <1>1, <1>3, <1>7, <1>8

-----------------------------------------------------------------------------
\* SUBSCRIBE adds to the table.

\* A set of natural numbers that is not empty has a least element.
LEMMA Least == ASSUME NEW N, N \subseteq Nat, N # {}
               PROVE  \E x \in N : \A y \in N : x <= y
  <1> DEFINE R == OpToRel(<, Nat)
  <1>1. IsWellFoundedOn(R, Nat) /\ R = {ss \in Nat \X Nat : ss[1] < ss[2]}
    BY NatLessThanWellFounded, Zenon DEF OpToRel
  <1> HIDE DEF R
  <1>2. PICK x \in N : \A y \in N : ~(<<y, x>> \in R)
    BY <1>1, WFMin
  <1>3. ASSUME NEW y \in N PROVE x <= y
    <2>1. x \in Nat /\ y \in Nat /\ <<y, x>> \notin R
      BY <1>2
    <2>2. y < x => <<y, x>> \in R
      BY <2>1, <1>1
    <2> QED BY <2>1, <2>2
  <1> QED BY <1>3

\* The topics of a list are added one by one, whatever the list.
Adding(f, list, n) ==
    f = [i \in 0 .. n |-> IF i = 0 THEN [pending |-> 1, topics |-> ac.topics] ELSE AddTopic(f[i - 1], list[i])]

LEMMA AddingExists == ASSUME NEW list, NEW n \in Nat PROVE \E f : Adding(f, list, n)
  <1> DEFINE N == {m \in Nat : ~\E f : Adding(f, list, m)}
  <1>1. SUFFICES ASSUME N # {} PROVE FALSE
    OBVIOUS
  <1>2. PICK m \in N : \A k \in N : m <= k
    BY <1>1, Least, N \subseteq Nat
  <1>3. m \in Nat /\ ~\E f : Adding(f, list, m)
    OBVIOUS
  <1>4. CASE m = 0
    <2> DEFINE f == [i \in 0 .. 0 |-> [pending |-> 1, topics |-> ac.topics]]
    <2>1. \A i \in 0 .. 0 : i = 0
      OBVIOUS
    <2>2. Adding(f, list, 0)
      BY <2>1 DEF Adding
    <2> QED BY <2>2, <1>3, <1>4
  <1>5. CASE m # 0
    <2>1. m - 1 \in Nat /\ m - 1 \notin N
      BY <1>2, <1>3, <1>5
    <2>2. PICK g : Adding(g, list, m - 1)
      BY <2>1
    <2> DEFINE f == [i \in 0 .. m |-> IF i = m THEN AddTopic(g[m - 1], list[m]) ELSE g[i]]
    <2>3. ASSUME NEW i \in 0 .. m
          PROVE  f[i] = IF i = 0 THEN [pending |-> 1, topics |-> ac.topics] ELSE AddTopic(f[i - 1], list[i])
      <3>1. CASE i = m
        <4>1. m - 1 \in 0 .. m /\ m - 1 # m
          BY <1>3, <1>5
        <4> QED BY <3>1, <4>1, <1>5
      <3>2. CASE i # m
        <4>1. i \in 0 .. m - 1 /\ f[i] = g[i] /\ (i # 0 => i - 1 \in 0 .. m /\ i - 1 # m)
          BY <3>2, <1>3, <1>5
        <4>2. g[i] = IF i = 0 THEN [pending |-> 1, topics |-> ac.topics] ELSE AddTopic(g[i - 1], list[i])
          BY <4>1, <2>2 DEF Adding
        <4> QED BY <4>1, <4>2
      <3> QED BY <3>1, <3>2
    <2>4. Adding(f, list, m)
      <3> HIDE DEF f
      <3>1. f = [i \in 0 .. m |-> f[i]]
        BY DEF f
      <3> QED BY <2>3, <3>1 DEF Adding
    <2> QED BY <2>4, <1>3
  <1> QED BY <1>4, <1>5

\* How often a topic stands among the first topics of a list.
LEMMA SpotsGrow ==
    ASSUME NEW list, NEW t, NEW i \in Nat
    PROVE  /\ IsFiniteSet(Spots(list, t, i)) /\ Cardinality(Spots(list, t, i)) \in Nat
           /\ Cardinality(Spots(list, t, i + 1)) =
                 Cardinality(Spots(list, t, i)) + (IF list[i + 1] = t THEN 1 ELSE 0)
           /\ Cardinality(Spots(list, t, 0)) = 0
  <1>1. ASSUME NEW j \in Nat PROVE IsFiniteSet(Spots(list, t, j))
    <2>1. IsFiniteSet(1 .. j) /\ Spots(list, t, j) \in SUBSET (1 .. j)
      BY FS_Interval DEF Spots
    <2> QED BY <2>1, FS_Subset
  <1>2. Cardinality(Spots(list, t, i)) \in Nat
    BY <1>1, FS_CardinalityType
  <1>3. CASE list[i + 1] = t
    <2>1. Spots(list, t, i + 1) = Spots(list, t, i) \cup {i + 1} /\ i + 1 \notin Spots(list, t, i)
      <3>1. 1 .. i + 1 = (1 .. i) \cup {i + 1} /\ i + 1 \notin 1 .. i
        OBVIOUS
      <3> QED BY <1>3, <3>1 DEF Spots
    <2> QED BY <1>1, <1>2, <1>3, <2>1, FS_AddElement, FS_EmptySet, Spots(list, t, 0) = {} DEF Spots
  <1>4. CASE list[i + 1] # t
    <2>1. Spots(list, t, i + 1) = Spots(list, t, i)
      <3>1. 1 .. i + 1 = (1 .. i) \cup {i + 1} /\ i + 1 \notin 1 .. i
        OBVIOUS
      <3> QED BY <1>4, <3>1 DEF Spots
    <2> QED BY <1>1, <1>2, <1>4, <2>1, FS_EmptySet, Spots(list, t, 0) = {} DEF Spots
  <1> QED BY <1>1, <1>2, <1>3, <1>4

\* The table after the first i topics of a list.
Table(acc, list, i) ==
    /\ acc = [pending |-> acc.pending, topics |-> acc.topics]
    /\ acc.pending \in Nat \ {0}
    /\ acc.topics \in [Subscribed \cup {list[k] : k \in 1 .. i} -> [n : Nat, pending : Nat]]
    /\ \A t \in DOMAIN acc.topics :
          /\ acc.topics[t].n = IF \E k \in 1 .. i : list[k] = t THEN Len(issued) + 1 ELSE ac.topics[t].n
          /\ Pendings(t) + Cardinality(Spots(list, t, i)) <= acc.topics[t].pending

LEMMA TableGrows ==
    ASSUME Types, NEW list, NEW i \in Nat, NEW acc, Table(acc, list, i)
    PROVE  Table(AddTopic(acc, list[i + 1]), list, i + 1)
  <1> DEFINE t == list[i + 1]
             pending == IF t \in DOMAIN acc.topics THEN acc.topics[t].pending + 1 ELSE acc.pending
             entry == [n |-> Len(issued) + 1, pending |-> pending]
             D == Subscribed \cup {list[k] : k \in 1 .. i}
             topics == [x \in D \cup {t} |-> IF x = t THEN entry ELSE acc.topics[x]]
             next == AddTopic(acc, t)
  <1>1. DOMAIN acc.topics = D
    BY DEF Table
  <1>2. next = [pending |-> pending, topics |-> topics]
    BY <1>1 DEF AddTopic
  <1>3. D \cup {t} = Subscribed \cup {list[k] : k \in 1 .. i + 1}
    <2>1. 1 .. i + 1 = (1 .. i) \cup {i + 1}
      OBVIOUS
    <2> QED BY <2>1
  <1>4. Len(issued) \in Nat
    BY LenProperties DEF Types
  <1>5. \A x \in D : acc.topics[x] \in [n : Nat, pending : Nat]
    BY DEF Table
  <1>6. pending \in Nat \ {0}
    <2>1. CASE t \in D
      <3>1. acc.topics[t].pending \in Nat
        BY <1>5, <2>1
      <3> QED BY <1>1, <2>1, <3>1
    <2>2. CASE t \notin D
      BY <1>1, <2>2 DEF Table
    <2> QED BY <2>1, <2>2
  <1>7. entry \in [n : Nat, pending : Nat]
    BY <1>4, <1>6
  <1>8. topics \in [D \cup {t} -> [n : Nat, pending : Nat]]
    BY <1>5, <1>7
  <1>9. ASSUME NEW x \in D \cup {t}
        PROVE  /\ topics[x].n = IF \E k \in 1 .. i + 1 : list[k] = x THEN Len(issued) + 1 ELSE ac.topics[x].n
               /\ Pendings(x) + Cardinality(Spots(list, x, i + 1)) <= topics[x].pending
    <2>1. (\E k \in 1 .. i + 1 : list[k] = x) <=> x = t \/ \E k \in 1 .. i : list[k] = x
      <3>1. 1 .. i + 1 = (1 .. i) \cup {i + 1}
        OBVIOUS
      <3> QED BY <3>1
    <2>2. /\ Cardinality(Spots(list, x, i)) \in Nat
          /\ Cardinality(Spots(list, x, i + 1)) =
                Cardinality(Spots(list, x, i)) + (IF list[i + 1] = x THEN 1 ELSE 0)
      BY SpotsGrow
    <2>3. Pendings(x) \in Nat
      BY ContextFields DEF Pendings
    <2>4. x \in D => /\ acc.topics[x].n = IF \E k \in 1 .. i : list[k] = x THEN Len(issued) + 1 ELSE ac.topics[x].n
                     /\ Pendings(x) + Cardinality(Spots(list, x, i)) <= acc.topics[x].pending
                     /\ acc.topics[x].pending \in Nat
      BY <1>1, <1>5 DEF Table
    <2>5. CASE x # t
      <3>1. x \in D /\ topics[x] = acc.topics[x]
        BY <2>5
      <3> QED BY <2>1, <2>2, <2>4, <2>5, <3>1
    <2>6. CASE x = t
      <3>1. topics[x].n = Len(issued) + 1 /\ topics[x].pending = pending
        BY <2>6
      <3>2. CASE t \in D
        <4>1. pending = acc.topics[t].pending + 1
          BY <1>1, <3>2
        <4> HIDE DEF pending, topics, D
        <4> QED BY <2>1, <2>2, <2>3, <2>4, <2>6, <3>1, <3>2, <4>1
      <3>3. CASE t \notin D
        <4>1. Spots(list, t, i) = {}
          BY <3>3 DEF Spots
        <4>2. Pendings(t) = 0 /\ Cardinality(Spots(list, t, i)) = 0
          BY <3>3, <4>1, FS_EmptySet DEF Pendings
        <4> HIDE DEF pending, topics, D
        <4> QED BY <1>6, <2>1, <2>2, <2>6, <3>1, <4>2
      <3> QED BY <3>2, <3>3
    <2> QED BY <2>5, <2>6
  <1>10. next.pending = pending /\ next.topics = topics /\ DOMAIN topics = D \cup {t}
    BY <1>2
  <1> HIDE DEF next, topics, pending, D
  <1>11. Table(next, list, i + 1)
    BY <1>2, <1>3, <1>6, <1>8, <1>9, <1>10 DEF Table
  <1> QED BY <1>11 DEF next

LEMMA AddedTable ==
    ASSUME Types, NEW list \in Seq(Topics)
    PROVE  /\ Added(list) \in [Subscribed \cup {list[k] : k \in 1 .. Len(list)} -> [n : Nat, pending : Nat]]
           /\ \A t \in DOMAIN Added(list) :
                 /\ Added(list)[t].n = IF \E k \in 1 .. Len(list) : list[k] = t THEN Len(issued) + 1 ELSE ac.topics[t].n
                 /\ Pendings(t) + Cardinality(Spots(list, t, Len(list))) <= Added(list)[t].pending
           /\ Added(list) \in Tables
  <1> DEFINE f == CHOOSE f : Adding(f, list, Len(list))
  <1>1. Len(list) \in Nat /\ \A k \in 1 .. Len(list) : list[k] \in Topics
    BY LenProperties, ElementOfSeq
  <1>2. Adding(f, list, Len(list))
    BY <1>1, AddingExists
  <1>3. Added(list) = f[Len(list)].topics
    BY DEF Added, Adding
  <1> HIDE DEF f
  <1> DEFINE N == {m \in 0 .. Len(list) : ~Table(f[m], list, m)}
  <1>4. Table(f[0], list, 0)
    <2> DEFINE acc == [pending |-> 1, topics |-> ac.topics]
    <2>1. f[0] = acc
      BY <1>1, <1>2 DEF Adding
    <2>2. Subscribed \cup {list[k] : k \in 1 .. 0} = Subscribed
      OBVIOUS
    <2>3. ac.topics \in [Subscribed -> [n : Nat, pending : Nat]]
      BY DEF Types, Context, Tables, Subscribed
    <2>4. ASSUME NEW t \in Subscribed
          PROVE  /\ ~\E k \in 1 .. 0 : list[k] = t
                 /\ Pendings(t) + Cardinality(Spots(list, t, 0)) <= ac.topics[t].pending
      <3>1. Cardinality(Spots(list, t, 0)) = 0 /\ Pendings(t) \in Nat
        BY SpotsGrow, ContextFields DEF Pendings
      <3> QED BY <3>1 DEF Pendings
    <2>5. Table(acc, list, 0)
      <3>1. /\ acc = [pending |-> acc.pending, topics |-> acc.topics]
            /\ acc.pending = 1 /\ acc.topics = ac.topics /\ DOMAIN ac.topics = Subscribed
        BY DEF Subscribed
      <3> HIDE DEF acc
      <3>2. acc.topics \in [Subscribed \cup {list[k] : k \in 1 .. 0} -> [n : Nat, pending : Nat]]
        BY <2>2, <2>3, <3>1, Zenon
      <3>3. acc.pending \in Nat \ {0}
        BY <3>1
      <3>4. \A t \in DOMAIN acc.topics :
               /\ acc.topics[t].n = IF \E k \in 1 .. 0 : list[k] = t THEN Len(issued) + 1 ELSE ac.topics[t].n
               /\ Pendings(t) + Cardinality(Spots(list, t, 0)) <= acc.topics[t].pending
        BY <2>4, <3>1, Zenon
      <3> QED BY <3>1, <3>2, <3>3, <3>4, Zenon DEF Table
    <2> QED BY <2>1, <2>5
  <1>5. N = {}
    <2>1. SUFFICES ASSUME N # {} PROVE FALSE
      OBVIOUS
    <2>2. PICK m \in N : \A k \in N : m <= k
      BY <1>1, <2>1, Least, N \subseteq Nat
    <2>3. m \in 0 .. Len(list) /\ ~Table(f[m], list, m) /\ m # 0
      BY <1>4
    <2>4. m - 1 \in 0 .. Len(list) /\ m - 1 \notin N /\ m - 1 \in Nat /\ m - 1 + 1 = m
      BY <1>1, <2>2, <2>3
    <2>5. Table(f[m - 1], list, m - 1)
      BY <2>4
    <2>6. f[m] = AddTopic(f[m - 1], list[m])
      BY <1>2, <2>3 DEF Adding
    <2>7. Table(AddTopic(f[m - 1], list[m - 1 + 1]), list, m - 1 + 1)
      BY <2>4, <2>5, TableGrows
    <2> QED BY <2>3, <2>4, <2>6, <2>7
  <1>6. Table(f[Len(list)], list, Len(list))
    BY <1>1, <1>5
  <1>7. Added(list) \in [Subscribed \cup {list[k] : k \in 1 .. Len(list)} -> [n : Nat, pending : Nat]]
    BY <1>3, <1>6 DEF Table
  <1>8. Subscribed \cup {list[k] : k \in 1 .. Len(list)} \in SUBSET Topics
    BY <1>1, ContextFields
  <1>9. Added(list) \in Tables
    BY <1>7, <1>8 DEF Tables
  <1> QED BY <1>3, <1>6, <1>7, <1>9 DEF Table

-----------------------------------------------------------------------------
\* The steps, as they change the wire, the commands that wait and the lists
\* of the context.

\* Nothing changes that the invariants speak of, except that the program
\* may leave its callback.
View == <<Wire, Waiting, srv.up, srv.topics, issued, ran, told,
          ac.replies, ac.invalid, ac.topics, ac.subscribed>>
Quiet_ == UNCHANGED View /\ Live' /\ (pc' = "callback" => pc = "callback" /\ UNCHANGED <<cb, got>>)

\* The program sends a command, which waits behind the others.
Sends(kind, topics) ==
    /\ pc \in {"loop", "callback"}
    /\ Waiting' = Append(Waiting, [kind |-> kind, n |-> Len(issued) + 1, topics |-> topics])
    /\ issued' = Append(issued, [kind |-> kind, topics |-> topics, list |-> IF ac.subscribed THEN "invalid" ELSE "replies"])
    /\ ran' = Append(ran, <<>>)
    /\ UNCHANGED <<Wire, srv, told, pc, cb, got>>

\* It takes what comes first on the wire.
Takes == /\ pc = "process" /\ Wire # <<>> /\ Wire' = Tail(Wire) /\ Head(inbox) = Wire[1]
         /\ UNCHANGED <<Waiting, srv, issued, told>>

\* The server takes the first command and puts something on the wire.
Serves(messages) ==
    /\ Live /\ srv.up /\ Waiting # <<>> /\ Head(srv.in) = Waiting[1]
    /\ Waiting' = Tail(Waiting) /\ Wire' = Wire \o messages
    /\ UNCHANGED <<ac, issued, ran, told, pc, cb, got, srv.up>>

LEMMA FreeKeeps ==
    ASSUME Types, NEW a \in Context, AsyncFree(a)
    PROVE  /\ ran' \in Seq(Seq(Reply)) /\ Len(ran') = Len(ran)
           /\ told' \in {"nothing", "ok", "error"} /\ ac' \in Context /\ pc' = "freed"
           /\ ~Live'
  <1>1. ran \in Seq(Seq(Reply)) /\ Len(ran) \in Nat /\ DOMAIN ran = 1 .. Len(ran)
    BY LenProperties DEF Types
  <1>2. NullReply \in Reply
    BY FS_EmptySet, 0 \in Counts DEF NullReply, Message, Reply, Counts
  <1>3. ASSUME NEW i \in 1 .. Len(ran) PROVE ran'[i] \in Seq(Reply)
    <2>1. ran[i] \in Seq(Reply)
      BY <1>1, ElementOfSeq
    <2>2. Append(ran[i], NullReply) \in Seq(Reply)
      BY <2>1, <1>2, AppendProperties
    <2> QED BY <1>1, <2>1, <2>2 DEF AsyncFree
  <1>4. ran' \in [1 .. Len(ran) -> Seq(Reply)]
    BY <1>1, <1>3 DEF AsyncFree
  <1>5. ran' \in Seq(Seq(Reply)) /\ Len(ran') = Len(ran)
    BY <1>1, <1>4
  <1>6. ac' \in Context
    BY EmptySeq DEF AsyncFree, Context
  <1> QED BY <1>5, <1>6 DEF AsyncFree, Status, Types, Live

LEMMA DisconnectKeeps ==
    ASSUME Types, NEW a \in Context, AsyncDisconnect(a)
    PROVE  /\ ran' \in Seq(Seq(Reply)) /\ Len(ran') = Len(ran)
           /\ told' \in {"nothing", "ok", "error"} /\ ac' \in Context /\ pc' \in {"freed", "pending"}
           /\ ~Live'
  <1>1. CASE AsyncFree(a)
    BY <1>1, FreeKeeps
  <1>2. CASE AsyncFree([a EXCEPT !.disconnecting = TRUE])
    BY <1>2, FreeKeeps, [a EXCEPT !.disconnecting = TRUE] \in Context DEF Context
  <1>3. CASE pc' = "pending" /\ ac' = a /\ UNCHANGED <<ran, told>>
    BY <1>3 DEF Types, Live
  <1> QED BY <1>1, <1>2, <1>3 DEF AsyncDisconnect

LEMMA DisconnectSteps == ASSUME Types, Live, Disconnect PROVE Types' /\ (~Live' \/ Quiet_)
  <1>1. [ac EXCEPT !.disconnecting = TRUE] \in Context
    BY DEF Types, Context
  <1>2. CASE DisconnectsNow
    <2>1. AsyncDisconnect([ac EXCEPT !.disconnecting = TRUE])
      BY <1>2 DEF Disconnect
    <2> QED BY <1>1, <2>1, DisconnectKeeps DEF Types, Disconnect
  <1>3. CASE ~DisconnectsNow
    <2>1. ac' = [ac EXCEPT !.disconnecting = TRUE] /\ UNCHANGED <<pc, ran, told, inbox, cb, got, srv, issued>>
      BY <1>3 DEF Disconnect
    <2>2. UNCHANGED <<ac.obuf, ac.replies, ac.invalid, ac.topics, ac.subscribed>>
      BY <2>1 DEF Types, Context
    <2> QED BY <1>1, <2>1, <2>2 DEF Types, Quiet_, View, Wire, Waiting, Live
  <1> QED BY <1>2, <1>3

LEMMA FreeSteps == ASSUME Types, Live, Free PROVE Types' /\ (~Live' \/ Quiet_)
  <1>1. [ac EXCEPT !.freeing = TRUE] \in Context
    BY DEF Types, Context
  <1>2. CASE pc = "loop"
    BY <1>1, <1>2, FreeKeeps DEF Free, Types
  <1>3. CASE pc # "loop"
    <2>1. ac' = [ac EXCEPT !.freeing = TRUE] /\ UNCHANGED <<pc, ran, told, inbox, cb, got, srv, issued>>
      BY <1>3 DEF Free
    <2>2. UNCHANGED <<ac.obuf, ac.replies, ac.invalid, ac.topics, ac.subscribed>>
      BY <2>1 DEF Types, Context
    <2> QED BY <1>1, <2>1, <2>2 DEF Types, Quiet_, View, Wire, Waiting, Live
  <1> QED BY <1>2, <1>3

LEMMA AcceptSteps ==
    ASSUME Types, NEW a \in Context, a.obuf = ac.obuf, NEW kind \in Kind, NEW topics \in Seq(Topics),
           Accept(a, kind, topics)
    PROVE  /\ Types' /\ Live' /\ Sends(kind, topics)
           /\ ac'.replies = a.replies /\ ac'.invalid = a.invalid
           /\ ac'.topics = a.topics /\ ac'.subscribed = a.subscribed
  <1> DEFINE order == [kind |-> kind, n |-> Len(issued) + 1, topics |-> topics]
             entry == [kind |-> kind, topics |-> topics, list |-> IF ac.subscribed THEN "invalid" ELSE "replies"]
  <1>1. Len(issued) \in Nat /\ issued \in Seq(Issued) /\ ran \in Seq(Seq(Reply)) /\ Len(ran) = Len(issued)
    BY LenProperties DEF Types
  <1>2. order \in Order /\ entry \in Issued /\ <<>> \in Seq(Reply)
    BY <1>1 DEF Order, Issued
  <1>3. /\ a.obuf \in Seq(Order) /\ srv.in \in Seq(Order)
        /\ ac' = [a EXCEPT !.obuf = Append(a.obuf, order), !.addWrite = TRUE]
    BY DEF Accept, Types, Context, Server
  <1>4. Append(a.obuf, order) \in Seq(Order)
    BY <1>2, <1>3, AppendProperties
  <1>5. ac' \in Context /\ ac'.obuf = Append(ac.obuf, order)
    BY <1>3, <1>4 DEF Context
  <1>6. Append(issued, entry) \in Seq(Issued) /\ Len(Append(issued, entry)) = Len(issued) + 1
        /\ Append(ran, <<>>) \in Seq(Seq(Reply)) /\ Len(Append(ran, <<>>)) = Len(ran) + 1
    BY <1>1, <1>2, AppendProperties
  <1>7. issued' = Append(issued, entry) /\ ran' = Append(ran, <<>>)
    BY DEF Accept
  <1>8. Waiting' = Append(Waiting, order)
    <2>1. \A s, t \in Seq(Order) : \A x \in Order : s \o Append(t, x) = Append(s \o t, x)
      <3> SUFFICES ASSUME NEW s \in Seq(Order), NEW t \in Seq(Order), NEW x \in Order
                   PROVE  s \o Append(t, x) = Append(s \o t, x)
        OBVIOUS
      <3>1. /\ Append(t, x) = t \o <<x>> /\ <<x>> \in Seq(Order) /\ s \o t \in Seq(Order)
            /\ Append(s \o t, x) = (s \o t) \o <<x>>
        BY AppendIsConcat, ConcatProperties
      <3>2. \A u \in Seq(Order) : s \o (t \o u) = (s \o t) \o u
        BY ONLY ConcatAssociative, s \in Seq(Order), t \in Seq(Order)
      <3> QED BY <3>1, <3>2, Zenon
    <2>2. srv' = srv
      BY DEF Accept
    <2> HIDE DEF order
    <2> QED BY <1>2, <1>3, <1>5, <2>1, <2>2 DEF Waiting
  <1>9. Types'
    <2> HIDE DEF order, entry
    <2> QED BY <1>1, <1>5, <1>6, <1>7 DEF Types, Accept
  <1>10. Sends(kind, topics) /\ Live'
    BY <1>7, <1>8 DEF Sends, Accept, Wire, Live
  <1>11. ac'.replies = a.replies /\ ac'.invalid = a.invalid
         /\ ac'.topics = a.topics /\ ac'.subscribed = a.subscribed
    BY <1>3 DEF Context
  <1> QED BY <1>9, <1>10, <1>11

\* An ordinary command has its callback in one of the two lists.
LEMMA CommandSteps ==
    ASSUME Types, Command
    PROVE  /\ Types' /\ Live' /\ Sends("ordinary", <<>>)
           /\ UNCHANGED <<ac.topics, ac.subscribed>>
           /\ IF ac.subscribed
              THEN ac'.invalid = Append(ac.invalid, Callback(Len(issued) + 1, NoTopic)) /\ UNCHANGED ac.replies
              ELSE ac'.replies = Append(ac.replies, Callback(Len(issued) + 1, NoTopic)) /\ UNCHANGED ac.invalid
  <1> DEFINE c == Callback(Len(issued) + 1, NoTopic)
             a == IF ac.subscribed THEN [ac EXCEPT !.invalid = Append(@, c)]
                  ELSE [ac EXCEPT !.replies = Append(@, c)]
  <1>1. c \in Back
    BY LenProperties DEF Types, Callback, Back
  <1>2. ac \in Context /\ ac.invalid \in Seq(Back) /\ ac.replies \in Seq(Back)
    BY DEF Types, Context
  <1>3. Append(ac.invalid, c) \in Seq(Back) /\ Append(ac.replies, c) \in Seq(Back)
    BY <1>1, <1>2, AppendProperties
  <1>4. a \in Context /\ a.obuf = ac.obuf
    <2> HIDE DEF c
    <2> QED BY <1>2, <1>3 DEF Context
  <1>5. Accept(a, "ordinary", <<>>) /\ <<>> \in Seq(Topics) /\ "ordinary" \in Kind
    BY DEF Command, Kind
  <1>6. /\ a.topics = ac.topics /\ a.subscribed = ac.subscribed
        /\ IF ac.subscribed THEN a.invalid = Append(ac.invalid, c) /\ a.replies = ac.replies
           ELSE a.replies = Append(ac.replies, c) /\ a.invalid = ac.invalid
    <2> HIDE DEF c
    <2> QED BY <1>2 DEF Context
  <1> HIDE DEF a
  <1>7. /\ Types' /\ Live' /\ Sends("ordinary", <<>>)
        /\ ac'.replies = a.replies /\ ac'.invalid = a.invalid
        /\ ac'.topics = a.topics /\ ac'.subscribed = a.subscribed
    BY <1>4, <1>5, AcceptSteps
  <1> QED BY <1>6, <1>7

LEMMA SubscribeSteps ==
    ASSUME Types, NEW list \in Seq(Topics), Subscribe(list)
    PROVE  /\ Types' /\ Live' /\ Sends("subscribe", list)
           /\ UNCHANGED <<ac.replies, ac.invalid>> /\ ac'.subscribed = TRUE
           /\ ac'.topics = Added(list)
  <1> DEFINE a == [ac EXCEPT !.subscribed = TRUE, !.topics = Added(list)]
  <1>1. a \in Context /\ a.obuf = ac.obuf
    BY AddedTable DEF Types, Context
  <1>2. Accept(a, "subscribe", list) /\ "subscribe" \in Kind
    BY DEF Subscribe, Kind
  <1>3. a.replies = ac.replies /\ a.invalid = ac.invalid /\ a.subscribed = TRUE /\ a.topics = Added(list)
    BY DEF Types, Context
  <1> HIDE DEF a
  <1> QED BY <1>1, <1>2, <1>3, AcceptSteps

LEMMA UnsubscribeSteps ==
    ASSUME Types, NEW t \in Topics, Unsubscribe(t)
    PROVE  /\ Types' /\ Live' /\ Sends("unsubscribe", <<t>>) /\ ac.subscribed /\ Wanted(t)
           /\ UNCHANGED <<ac.replies, ac.invalid, ac.subscribed, ac.topics>>
  <1>1. Accept(ac, "unsubscribe", <<t>>) /\ "unsubscribe" \in Kind /\ <<t>> \in Seq(Topics)
        /\ ac \in Context
    BY DEF Unsubscribe, Kind, Types
  <1> QED BY <1>1, AcceptSteps DEF Unsubscribe

\* What Append and a concatenation at the end of the wire come to.
LEMMA Associate ==
    ASSUME NEW S, NEW s \in Seq(S), NEW t \in Seq(S), NEW u \in Seq(S)
    PROVE  s \o (t \o u) = (s \o t) \o u
  BY ConcatAssociative

LEMMA AppendBehind ==
    ASSUME NEW S, NEW s \in Seq(S), NEW t \in Seq(S), NEW u \in Seq(S), NEW x \in S
    PROVE  /\ s \o (t \o u) = (s \o t) \o u
           /\ s \o Append(t, x) = Append(s \o t, x)
           /\ Append(t, x) = t \o <<x>> /\ <<x>> \in Seq(S)
  <1>1. s \o (t \o u) = (s \o t) \o u
    BY ONLY ConcatAssociative, s \in Seq(S), t \in Seq(S), u \in Seq(S)
  <1>2. /\ Append(t, x) = t \o <<x>> /\ <<x>> \in Seq(S) /\ s \o t \in Seq(S)
        /\ Append(s \o t, x) = (s \o t) \o <<x>>
    BY AppendIsConcat, ConcatProperties
  <1>3. s \o (t \o <<x>>) = (s \o t) \o <<x>>
    <2>1. \A v \in Seq(S) : s \o (t \o v) = (s \o t) \o v
      BY ONLY ConcatAssociative, s \in Seq(S), t \in Seq(S)
    <2> QED BY <1>2, <2>1, Zenon
  <1> QED BY <1>1, <1>2, <1>3, Zenon

LEMMA AnswersType ==
    ASSUME Types, NEW c \in Order, c.kind = "unsubscribe" => c.topics # <<>>
    PROVE  Answers(c) \in Seq(Reply)
  <1>0. \A S \in SUBSET Topics : Cardinality(S) \in Counts
    BY DEF Counts
  <1>00. srv.topics \subseteq Topics /\ c.n \in Nat /\ c.topics \in Seq(Topics) /\ 0 \in Counts
    BY FS_EmptySet, 0 \in Counts DEF Types, Server, Order, Counts
  <1>000. Len(c.topics) \in Nat /\ DOMAIN c.topics = 1 .. Len(c.topics)
          /\ \A k \in 1 .. Len(c.topics) : c.topics[k] \in Topics
    BY <1>00, LenProperties, ElementOfSeq
  <1>1. CASE c.kind = "ordinary"
    <2> DEFINE m == Message(IF srv.topics = {} THEN "reply" ELSE "error", c.n, NoTopic, 0)
    <2>1. m \in Reply
      BY <1>00 DEF Message, Reply
    <2>2. Answers(c) = <<m>>
      BY <1>1 DEF Answers
    <2> QED BY <2>1, <2>2
  <1>2. CASE c.kind = "subscribe"
    <2> DEFINE count(k) == Cardinality(srv.topics \cup Range(SubSeq(c.topics, 1, k)))
               m(k) == Message("subscribe", c.n, c.topics[k], count(k))
    <2>1. Answers(c) = [k \in 1 .. Len(c.topics) |-> m(k)]
      BY <1>2, <1>000 DEF Answers
    <2>2. ASSUME NEW k \in 1 .. Len(c.topics) PROVE m(k) \in Reply
      <3>1. \A j \in 1 .. k : c.topics[j] \in Topics
        BY <1>000
      <3>2. SubSeq(c.topics, 1, k) \in Seq(Topics)
        BY <3>1, SubSeqProperties
      <3>3. Range(SubSeq(c.topics, 1, k)) \subseteq Topics
        <4> DEFINE q == SubSeq(c.topics, 1, k)
        <4>1. q \in Seq(Topics)
          BY <3>2
        <4> HIDE DEF q
        <4>2. DOMAIN q = 1 .. Len(q) /\ \A j \in 1 .. Len(q) : q[j] \in Topics
          BY <4>1, LenProperties, ElementOfSeq
        <4>3. Range(q) \subseteq Topics
          BY <4>2 DEF Range
        <4> QED BY <4>3 DEF q
      <3>4. count(k) \in Counts
        BY <1>0, <1>00, <3>3
      <3> HIDE DEF count
      <3> QED BY <1>00, <1>000, <3>4 DEF Message, Reply
    <2> HIDE DEF m
    <2> QED BY <1>000, <2>1, <2>2
  <1>3. CASE c.kind = "unsubscribe"
    <2> DEFINE count == Cardinality(srv.topics \ Range(c.topics))
               m == Message("unsubscribe", c.n, c.topics[1], count)
    <2>1. Answers(c) = <<m>>
      BY <1>3 DEF Answers
    <2>2. 1 \in 1 .. Len(c.topics)
      BY <1>3, <1>00, <1>000, EmptySeq
    <2>3. count \in Counts
      BY <1>0, <1>00
    <2>4. m \in Reply
      <3> HIDE DEF count
      <3> QED BY <1>00, <1>000, <2>2, <2>3 DEF Message, Reply
    <2> QED BY <2>1, <2>4
  <1> QED BY <1>1, <1>2, <1>3 DEF Order, Kind

LEMMA ServerTypes ==
    ASSUME Types, srv' \in Server, UNCHANGED <<ac, inbox, pc, cb, got, issued, ran, told>>
    PROVE  Types'
  BY DEF Types

\* The server takes the first command, for the sequence it puts on the wire.
LEMMA ServesSteps ==
    ASSUME Types, Live, srv.up, srv.in # <<>>, NEW messages \in Seq(Reply), NEW topics \in SUBSET Topics,
           srv' = [srv EXCEPT !.in = Tail(@), !.out = @ \o messages, !.topics = topics],
           UNCHANGED <<ac, inbox, pc, cb, got, issued, ran, told>>
    PROVE  Types' /\ Live' /\ Serves(messages) /\ srv'.topics = topics
  <1>1. /\ srv \in Server /\ srv.in \in Seq(Order) /\ srv.out \in Seq(Reply) /\ ac.obuf \in Seq(Order)
        /\ inbox \in Seq(Reply)
    BY DEF Types, Server, Context
  <1>2. /\ Waiting # <<>> /\ Tail(Waiting) = Tail(srv.in) \o ac.obuf
        /\ Head(srv.in) = Waiting[1] /\ Tail(srv.in) \in Seq(Order)
    BY <1>1, FrontOfConcat DEF Waiting
  <1>3. srv.out \o messages \in Seq(Reply)
    BY <1>1, ConcatProperties
  <1>4. /\ srv' \in Server /\ srv'.in = Tail(srv.in) /\ srv'.out = srv.out \o messages
        /\ srv'.topics = topics /\ srv'.up = srv.up
    BY <1>1, <1>2, <1>3 DEF Server
  <1>5. Wire' = Wire \o messages
    <2>1. inbox \o (srv.out \o messages) = (inbox \o srv.out) \o messages
      <3>1. \A s, t, u \in Seq(Reply) : s \o (t \o u) = (s \o t) \o u
        <4> SUFFICES ASSUME NEW s \in Seq(Reply), NEW t \in Seq(Reply), NEW u \in Seq(Reply)
                     PROVE  s \o (t \o u) = (s \o t) \o u
          OBVIOUS
        <4> QED BY ONLY Associate, s \in Seq(Reply), t \in Seq(Reply), u \in Seq(Reply)
      <3> QED BY <1>1, <3>1, Zenon
    <2> QED BY <1>4, <2>1, Zenon DEF Wire
  <1>6. Waiting' = Tail(Waiting)
    BY <1>2, <1>4 DEF Waiting
  <1> QED BY <1>2, <1>4, <1>5, <1>6, ServerTypes DEF Serves, Live

LEMMA AnswersSteps ==
    ASSUME Types, Live, ServerAnswers, srv.in # <<>> => (Head(srv.in).kind = "unsubscribe" => Head(srv.in).topics # <<>>)
    PROVE  /\ Types' /\ Live' /\ Serves(Answers(Head(srv.in)))
           /\ srv'.topics = CASE Head(srv.in).kind = "subscribe" -> srv.topics \cup Range(Head(srv.in).topics)
                              [] Head(srv.in).kind = "unsubscribe" -> srv.topics \ Range(Head(srv.in).topics)
                              [] Head(srv.in).kind = "ordinary" -> srv.topics
  <1> DEFINE c == Head(srv.in)
             topics == CASE c.kind = "subscribe" -> srv.topics \cup Range(c.topics)
                         [] c.kind = "unsubscribe" -> srv.topics \ Range(c.topics)
                         [] c.kind = "ordinary" -> srv.topics
  <1>1. srv.in # <<>> /\ srv.up /\ UNCHANGED <<ac, inbox, pc, cb, got, issued, ran, told>>
        /\ srv' = [srv EXCEPT !.in = Tail(@), !.out = @ \o Answers(c), !.topics = topics]
    BY DEF ServerAnswers
  <1>2. c \in Order
    BY <1>1, HeadTailProperties DEF Types, Server
  <1>3. Answers(c) \in Seq(Reply)
    BY <1>1, <1>2, AnswersType
  <1>4. topics \in SUBSET Topics
    <2>1. Range(c.topics) \subseteq Topics /\ srv.topics \subseteq Topics
      <3>1. c.topics \in Seq(Topics)
        BY <1>2 DEF Order
      <3>2. DOMAIN c.topics = 1 .. Len(c.topics) /\ \A k \in 1 .. Len(c.topics) : c.topics[k] \in Topics
        BY <3>1, LenProperties, ElementOfSeq
      <3> HIDE DEF c
      <3> QED BY <3>2 DEF Range, Types, Server
    <2>2. c.kind \in {"ordinary", "subscribe", "unsubscribe"}
      BY <1>2 DEF Order, Kind
    <2> HIDE DEF c
    <2> QED BY <2>1, <2>2
  <1> HIDE DEF topics
  <1>5. Types' /\ Live' /\ Serves(Answers(c)) /\ srv'.topics = topics
    BY <1>1, <1>3, <1>4, ServesSteps
  <1> QED BY <1>5 DEF topics

LEMMA RejectsSteps ==
    ASSUME Types, Live, ServerRejects
    PROVE  /\ Types' /\ Live' /\ Serves(<<Message("error", Head(srv.in).n, NoTopic, 0)>>)
           /\ srv'.topics = srv.topics
  <1> DEFINE m == Message("error", Head(srv.in).n, NoTopic, 0)
  <1>1. srv.in # <<>> /\ srv.up /\ UNCHANGED <<ac, inbox, pc, cb, got, issued, ran, told>>
        /\ srv' = [srv EXCEPT !.in = Tail(@), !.out = Append(@, m)]
    BY DEF ServerRejects
  <1>2. Head(srv.in) \in Order
    BY <1>1, HeadTailProperties DEF Types, Server
  <1>3. 0 \in Counts
    BY FS_EmptySet DEF Counts
  <1>4. m \in Reply
    BY <1>2, <1>3 DEF Message, Reply, Order
  <1> HIDE DEF m
  <1>5. /\ srv.out \in Seq(Reply) /\ <<m>> \in Seq(Reply) /\ srv \in Server /\ srv.topics \in SUBSET Topics
        /\ Append(srv.out, m) = srv.out \o <<m>>
    BY <1>4, AppendIsConcat DEF Types, Server
  <1>6. srv' = [srv EXCEPT !.in = Tail(@), !.out = @ \o <<m>>, !.topics = srv.topics]
    BY <1>1, <1>5 DEF Server
  <1>7. Types' /\ Live' /\ Serves(<<m>>) /\ srv'.topics = srv.topics
    BY <1>1, <1>5, <1>6, ServesSteps
  <1> QED BY <1>7 DEF m

\* The commands behind a QUIT that the server has read are lost.
Quits(m) ==
    /\ Live /\ srv.up /\ Waiting # <<>> /\ Waiting[1].kind = "ordinary"
    /\ m = Message("reply", Waiting[1].n, NoTopic, 0)
    /\ \E d \in 1 .. Len(Waiting) : /\ Len(Waiting') = Len(Waiting) - d
                                    /\ \A i \in 1 .. Len(Waiting) - d : Waiting'[i] = Waiting[d + i]
    /\ Wire' = Append(Wire, m) /\ srv'.up = FALSE
    /\ UNCHANGED <<ac, issued, ran, told, pc, cb, got, srv.topics>>

LEMMA BehindIsSuffix ==
    ASSUME NEW S, NEW s \in Seq(S), NEW t \in Seq(S), s # <<>>
    PROVE  /\ Len(s) \in 1 .. Len(s \o t) /\ Len(t) = Len(s \o t) - Len(s)
           /\ \A i \in 1 .. Len(s \o t) - Len(s) : t[i] = (s \o t)[Len(s) + i]
  <1>1. Len(s) \in Nat \ {0} /\ Len(t) \in Nat
    BY EmptySeq, LenProperties
  <1>2. /\ Len(s \o t) = Len(s) + Len(t)
        /\ \A i \in 1 .. Len(s) + Len(t) : (s \o t)[i] = IF i <= Len(s) THEN s[i] ELSE t[i - Len(s)]
    BY ConcatProperties
  <1>3. ASSUME NEW n \in Nat, NEW m \in Nat, NEW i \in 1 .. m
        PROVE  n + i \in 1 .. n + m /\ ~(n + i <= n) /\ n + i - n = i
    OBVIOUS
  <1>4. ASSUME NEW i \in 1 .. Len(t) PROVE t[i] = (s \o t)[Len(s) + i]
    BY <1>1, <1>2, <1>3
  <1>5. Len(s) \in 1 .. Len(s) + Len(t) /\ Len(s) + Len(t) - Len(s) = Len(t)
    BY <1>1
  <1> QED BY <1>2, <1>4, <1>5

LEMMA QuitsSteps == ASSUME Types, Live, ServerQuits
                    PROVE  Types' /\ Live' /\ \E m \in Reply : Quits(m)
  <1> DEFINE m == Message("reply", Head(srv.in).n, NoTopic, 0)
  <1>1. srv.in # <<>> /\ srv.up /\ UNCHANGED <<ac, inbox, pc, cb, got, issued, ran, told>>
        /\ Head(srv.in).kind = "ordinary"
        /\ srv' = [srv EXCEPT !.in = <<>>, !.out = Append(@, m), !.up = FALSE]
    BY DEF ServerQuits
  <1>2. Head(srv.in) \in Order
    BY <1>1, HeadTailProperties DEF Types, Server
  <1>3. 0 \in Counts
    BY FS_EmptySet DEF Counts
  <1>4. m \in Reply
    BY <1>2, <1>3 DEF Message, Reply, Order
  <1>5. /\ srv.out \in Seq(Reply) /\ srv \in Server /\ srv.in \in Seq(Order) /\ ac.obuf \in Seq(Order)
        /\ inbox \in Seq(Reply)
    BY DEF Types, Server, Context
  <1>60. srv.in # <<>>
    BY <1>1
  <1>6. Waiting # <<>> /\ Head(srv.in) = Waiting[1]
    BY <1>60, <1>5, FrontOfConcat DEF Waiting
  <1>7. m = Message("reply", Waiting[1].n, NoTopic, 0)
    BY <1>6
  <1> HIDE DEF m
  <1>8. Append(srv.out, m) \in Seq(Reply) /\ <<>> \in Seq(Order)
    BY <1>4, <1>5, AppendProperties
  <1>9. /\ srv' \in Server /\ srv'.in = <<>> /\ srv'.out = Append(srv.out, m)
        /\ srv'.topics = srv.topics /\ srv'.up = FALSE
    BY <1>1, <1>5, <1>8 DEF Server
  <1>10. Wire' = Append(Wire, m)
    <2>1. \A s, t \in Seq(Reply) : s \o Append(t, m) = Append(s \o t, m)
      BY <1>4, AppendBehind
    <2> QED BY <1>1, <1>5, <1>9, <2>1 DEF Wire
  <1>11. Waiting' = ac.obuf
    BY <1>1, <1>5, <1>9, ConcatEmptySeq DEF Waiting
  <1>13. /\ Len(srv.in) \in 1 .. Len(Waiting) /\ Len(Waiting') = Len(Waiting) - Len(srv.in)
         /\ \A i \in 1 .. Len(Waiting) - Len(srv.in) : Waiting'[i] = Waiting[Len(srv.in) + i]
    <2>1. /\ Len(srv.in) \in 1 .. Len(Waiting) /\ Len(ac.obuf) = Len(Waiting) - Len(srv.in)
          /\ \A i \in 1 .. Len(Waiting) - Len(srv.in) : ac.obuf[i] = Waiting[Len(srv.in) + i]
      BY <1>5, <1>60, BehindIsSuffix DEF Waiting
    <2> QED BY <1>11, <2>1, Zenon
  <1>14. Types' /\ Live'
    BY <1>1, <1>9, ServerTypes DEF Live
  <1> QED BY <1>1, <1>4, <1>6, <1>7, <1>9, <1>10, <1>13, <1>14 DEF Quits

\* A message goes to a client that is subscribed.
Publishes(t) ==
    /\ Live /\ t \in srv.topics /\ Wire' = Append(Wire, Message("message", 0, t, 0))
    /\ UNCHANGED <<ac, Waiting, issued, ran, told, pc, cb, got, srv.up, srv.topics>>
\* The server goes away, or it was never there.
Closes ==
    /\ Live /\ srv.up
    /\ Wire' = Wire \/ (Wire' = Append(Wire, Refusal) /\ issued = <<>>)
    /\ srv'.up = FALSE
    /\ UNCHANGED <<ac, Waiting, issued, ran, told, pc, cb, got, srv.topics>>

LEMMA PublishesSteps == ASSUME Types, Live, NEW t \in Topics, ServerPublishes(t)
                        PROVE  Types' /\ Live' /\ Publishes(t) /\ srv.up
  <1> DEFINE m == Message("message", 0, t, 0)
  <1>1. srv.up /\ UNCHANGED <<ac, inbox, pc, cb, got, issued, ran, told>> /\ t \in srv.topics
        /\ srv' = [srv EXCEPT !.out = Append(@, m), !.sent = @ + 1]
    BY DEF ServerPublishes
  <1>2. 0 \in Counts
    BY FS_EmptySet DEF Counts
  <1>3. m \in Reply
    BY <1>2 DEF Message, Reply
  <1> HIDE DEF m
  <1>4. srv.out \in Seq(Reply) /\ srv \in Server /\ inbox \in Seq(Reply) /\ srv.sent \in Nat
    BY DEF Types, Server
  <1>5. Append(srv.out, m) \in Seq(Reply)
    BY <1>3, <1>4, AppendProperties
  <1>6. /\ srv' \in Server /\ srv'.in = srv.in /\ srv'.out = Append(srv.out, m)
        /\ srv'.topics = srv.topics /\ srv'.up = srv.up
    <2>1. srv' = [srv EXCEPT !.out = Append(srv.out, m), !.sent = srv.sent + 1] /\ srv.sent + 1 \in Nat
      BY <1>1, <1>4
    <2> QED BY <1>4, <1>5, <2>1 DEF Server
  <1>7. Wire' = Append(Wire, m)
    <2>1. \A s, u \in Seq(Reply) : s \o Append(u, m) = Append(s \o u, m)
      BY <1>3, AppendBehind
    <2> QED BY <1>1, <1>4, <1>6, <2>1 DEF Wire
  <1> QED BY <1>1, <1>6, <1>7, ServerTypes DEF Publishes, Waiting, m, Live

LEMMA ClosesSteps == ASSUME Types, Live, NEW refuses \in BOOLEAN, ServerCloses(refuses)
                     PROVE  Types' /\ Live' /\ Closes
  <1>1. srv.up /\ UNCHANGED <<ac, inbox, pc, cb, got, issued, ran, told>>
        /\ (refuses => srv.in = <<>> /\ srv.out = <<>> /\ ac.obuf = <<>> /\ issued = <<>>)
        /\ srv' = [srv EXCEPT !.up = FALSE, !.out = IF refuses THEN <<Refusal>> ELSE @]
    BY DEF ServerCloses, Refusal
  <1>2. 0 \in Counts
    BY FS_EmptySet DEF Counts
  <1>3. Refusal \in Reply
    BY <1>2 DEF Message, Reply, Refusal
  <1>4. srv.out \in Seq(Reply) /\ srv \in Server /\ inbox \in Seq(Reply) /\ <<Refusal>> \in Seq(Reply)
    BY <1>3 DEF Types, Server
  <1>5. /\ srv' \in Server /\ srv'.in = srv.in /\ srv'.topics = srv.topics /\ srv'.up = FALSE
        /\ srv'.out = IF refuses THEN <<Refusal>> ELSE srv.out
    BY <1>1, <1>4 DEF Server
  <1>6. Wire' = Wire \/ (Wire' = Append(Wire, Refusal) /\ issued = <<>>)
    <2>1. CASE refuses
      <3>1. Wire = inbox
        BY <1>1, <1>4, <2>1, ConcatEmptySeq DEF Wire
      <3>2. Wire' = inbox \o <<Refusal>>
        BY <1>1, <1>5, <2>1 DEF Wire
      <3>3. inbox \o <<Refusal>> = Append(inbox, Refusal)
        BY <1>3, <1>4, AppendIsConcat
      <3>4. issued = <<>>
        BY <1>1, <2>1
      <3> QED BY <3>1, <3>2, <3>3, <3>4, Zenon
    <2>2. CASE ~refuses
      <3>1. srv'.out = srv.out /\ inbox' = inbox
        BY <1>1, <1>5, <2>2
      <3>2. Wire' = Wire
        BY ONLY <3>1 DEF Wire
      <3> QED BY <3>2
    <2> QED BY <2>1, <2>2
  <1> QED BY <1>1, <1>5, <1>6, ServerTypes DEF Closes, Waiting, Live

\* The events that read and write, and the ends of a callback and of the
\* replies, move nothing.
LEMMA ConnectFailsSteps == ASSUME Types, ConnectFails PROVE Types' /\ ~Live'
  <1>1. [ac EXCEPT !.err = TRUE] \in Context
    BY DEF Types, Context
  <1> QED BY <1>1, DisconnectKeeps DEF ConnectFails, Types

LEMMA HandleWriteSteps == ASSUME Types, HandleWrite PROVE Types' /\ (~Live' \/ Quiet_)
  <1>1. UNCHANGED <<inbox, cb, got, issued>> /\ pc = "loop"
    BY DEF HandleWrite
  <1>2. /\ ac \in Context /\ srv \in Server /\ srv.in \in Seq(Order) /\ ac.obuf \in Seq(Order)
    BY DEF Types, Context, Server
  <1>3. ASSUME AsyncDisconnect([ac EXCEPT !.connected = TRUE, !.err = TRUE]), UNCHANGED srv
        PROVE  Types' /\ ~Live'
    <2>1. [ac EXCEPT !.connected = TRUE, !.err = TRUE] \in Context
      BY <1>2 DEF Context
    <2> QED BY <1>1, <1>3, <2>1, DisconnectKeeps DEF Types
  <1>4. ASSUME NEW k \in 0 .. Len(ac.obuf), NEW rest, rest = SubSeq(ac.obuf, k + 1, Len(ac.obuf)),
               ac' = [ac EXCEPT !.connected = TRUE, !.obuf = rest, !.addWrite = rest # <<>>, !.addRead = TRUE],
               srv' = [srv EXCEPT !.in = @ \o SubSeq(ac.obuf, 1, k)],
               UNCHANGED <<pc, ran, told>>
        PROVE  Types' /\ Quiet_
    <2>1. SubSeq(ac.obuf, 1, k) \in Seq(Order) /\ rest \in Seq(Order)
          /\ (srv.in \o SubSeq(ac.obuf, 1, k)) \o rest = srv.in \o ac.obuf
      BY <1>2, <1>4, CutAnywhere
    <2>2. srv.in \o SubSeq(ac.obuf, 1, k) \in Seq(Order)
      BY <1>2, <2>1, ConcatProperties
    <2>3. /\ srv' \in Server /\ srv'.in = srv.in \o SubSeq(ac.obuf, 1, k)
          /\ UNCHANGED <<srv.out, srv.up, srv.topics>>
      BY <1>2, <1>4, <2>2 DEF Server
    <2>4. /\ ac' \in Context /\ ac'.obuf = rest
          /\ UNCHANGED <<ac.replies, ac.invalid, ac.topics, ac.subscribed>>
      BY <1>2, <1>4, <2>1 DEF Context
    <2>5. Waiting' = Waiting /\ Wire' = Wire
      BY <1>1, <2>1, <2>3, <2>4 DEF Waiting, Wire
    <2>6. Types'
      BY <1>1, <1>4, <2>3, <2>4 DEF Types
    <2> QED BY <1>1, <1>4, <2>3, <2>4, <2>5, <2>6 DEF Quiet_, View, Live
  <1> QED BY <1>3, <1>4 DEF HandleWrite

LEMMA HandleReadSteps == ASSUME Types, HandleRead PROVE Types' /\ (~Live' \/ Quiet_)
  <1>1. UNCHANGED <<got, issued>> /\ pc = "loop"
    BY DEF HandleRead
  <1>2. /\ ac \in Context /\ srv \in Server /\ srv.out \in Seq(Reply) /\ inbox \in Seq(Reply)
    BY DEF Types, Context, Server
  <1>3. ASSUME AsyncDisconnect([ac EXCEPT !.err = TRUE]), UNCHANGED <<inbox, cb, srv>>
        PROVE  Types' /\ ~Live'
    <2>1. [ac EXCEPT !.err = TRUE] \in Context
      BY <1>2 DEF Context
    <2> QED BY <1>1, <1>3, <2>1, DisconnectKeeps DEF Types
  <1>4. ASSUME NEW k \in 1 .. Len(srv.out), inbox' = inbox \o SubSeq(srv.out, 1, k),
               srv' = [srv EXCEPT !.out = SubSeq(@, k + 1, Len(@))],
               pc' = "process", cb' = NoCallback, UNCHANGED <<ac, ran, told>>
        PROVE  Types' /\ Quiet_
    <2> DEFINE rest == SubSeq(srv.out, k + 1, Len(srv.out))
    <2>0. k \in 0 .. Len(srv.out)
      OBVIOUS
    <2>1. SubSeq(srv.out, 1, k) \in Seq(Reply) /\ rest \in Seq(Reply)
          /\ (inbox \o SubSeq(srv.out, 1, k)) \o rest = inbox \o srv.out
      BY <1>2, <2>0, CutAnywhere
    <2>2. inbox' \in Seq(Reply)
      BY <1>2, <1>4, <2>1, ConcatProperties
    <2>3. srv' = [srv EXCEPT !.out = rest]
      BY <1>4
    <2> HIDE DEF rest
    <2>4. /\ srv' \in Server /\ srv'.out = rest
          /\ UNCHANGED <<srv.in, srv.up, srv.topics>>
      BY <1>2, <2>1, <2>3 DEF Server
    <2>5. Waiting' = Waiting /\ Wire' = Wire
      BY <1>4, <2>1, <2>4 DEF Waiting, Wire
    <2>6. NoCallback \in Back
      BY DEF NoCallback, Callback, Back
    <2>7. Types'
      BY <1>1, <1>4, <2>2, <2>4, <2>6 DEF Types
    <2> QED BY <1>1, <1>4, <2>4, <2>5, <2>7 DEF Quiet_, View, Live
  <1> QED BY <1>3, <1>4 DEF HandleRead

LEMMA ProcessNoneSteps == ASSUME Types, ProcessNone PROVE Types' /\ (~Live' \/ Quiet_)
  <1>1. UNCHANGED <<inbox, cb, got, srv, issued>>
    BY DEF ProcessNone
  <1>2. CASE AsyncDisconnect(ac)
    BY <1>1, <1>2, DisconnectKeeps DEF Types
  <1>3. CASE pc' = "loop" /\ UNCHANGED <<ac, ran, told>>
    BY <1>1, <1>3 DEF Types, Quiet_, View, Live, Waiting, Wire
  <1> QED BY <1>2, <1>3 DEF ProcessNone

LEMMA ReturnsSteps == ASSUME Types, CallbackReturns PROVE Types' /\ (~Live' \/ Quiet_)
  <1>1. UNCHANGED <<inbox, cb, got, srv, issued>>
    BY DEF CallbackReturns
  <1>2. CASE AsyncFree(ac)
    BY <1>1, <1>2, FreeKeeps DEF Types
  <1>3. CASE pc' = "process" /\ UNCHANGED <<ac, ran, told>>
    BY <1>1, <1>3 DEF Types, Quiet_, View, Live, Waiting, Wire
  <1> QED BY <1>2, <1>3 DEF CallbackReturns

LEMMA UnexpectedSteps == ASSUME Types, ProcessUnexpected PROVE Types' /\ ~Live'
  <1>1. UNCHANGED <<cb, got, srv, issued>> /\ inbox' = Tail(inbox) /\ inbox # <<>>
    BY DEF ProcessUnexpected
  <1>2. inbox' \in Seq(Reply)
    BY <1>1, HeadTailProperties DEF Types
  <1>3. CASE AsyncDisconnect([ac EXCEPT !.err = TRUE])
    <2>1. [ac EXCEPT !.err = TRUE] \in Context
      BY DEF Types, Context
    <2> QED BY <1>1, <1>2, <1>3, <2>1, DisconnectKeeps DEF Types
  <1>4. CASE pc' = "unsubscribed" /\ UNCHANGED <<ac, ran, told>>
    BY <1>1, <1>2, <1>4 DEF Types, Live
  <1> QED BY <1>3, <1>4 DEF ProcessUnexpected

-----------------------------------------------------------------------------
\* A reply is processed.

LEMMA TakesSteps ==
    ASSUME Types, pc = "process", inbox # <<>>, inbox' = Tail(inbox),
           UNCHANGED <<srv, issued, told, ac.obuf>>, ac' \in Context,
           NEW c \in Back, RunCallback(c, Head(inbox))
    PROVE  Types' /\ Takes /\ Live' /\ Head(inbox) \in Reply
  <1>1. inbox \in Seq(Reply) /\ srv.out \in Seq(Reply)
    BY DEF Types, Server
  <1>2. /\ Wire # <<>> /\ Tail(Wire) = Tail(inbox) \o srv.out /\ Head(inbox) = Wire[1]
        /\ Tail(inbox) \in Seq(Reply) /\ Head(inbox) \in Reply
    BY <1>1, FrontOfConcat DEF Wire
  <1>3. Takes
    BY <1>2 DEF Takes, Wire, Waiting
  <1>4. ran' \in Seq(Seq(Reply)) /\ Len(ran') = Len(ran)
    <2>1. ran \in Seq(Seq(Reply)) /\ Len(ran) \in Nat /\ DOMAIN ran = 1 .. Len(ran)
      BY LenProperties DEF Types
    <2>2. CASE ran' = ran
      BY <2>1, <2>2
    <2>3. CASE ran' = [ran EXCEPT ![c.n] = Append(@, Head(inbox))]
      <3>1. ASSUME NEW i \in 1 .. Len(ran) PROVE ran'[i] \in Seq(Reply)
        <4>1. ran[i] \in Seq(Reply) /\ Append(ran[i], Head(inbox)) \in Seq(Reply)
          BY <1>2, <2>1, ElementOfSeq, AppendProperties
        <4> QED BY <2>1, <2>3, <4>1
      <3>2. ran' \in [1 .. Len(ran) -> Seq(Reply)]
        BY <2>1, <2>3, <3>1
      <3> QED BY ONLY Len(ran) \in Nat, <2>1, <3>2
    <2> QED BY <2>2, <2>3 DEF RunCallback
  <1>5. Types' /\ Live'
    BY <1>2, <1>4 DEF Types, RunCallback, Live
  <1> QED BY <1>2, <1>3, <1>5

LEMMA RegularSteps ==
    ASSUME Types, ProcessRegular
    PROVE  /\ Types' /\ Takes /\ Live' /\ ac.replies # <<>> /\ ac'.replies = Tail(ac.replies)
           /\ UNCHANGED <<ac.invalid, ac.topics, ac.subscribed>>
           /\ RunCallback(ac.replies[1], Wire[1])
  <1>1. /\ ac \in Context /\ ac.replies \in Seq(Back) /\ ac.replies # <<>>
        /\ Tail(ac.replies) \in Seq(Back) /\ ac.replies[1] \in Back
    BY HeadTailProperties, EmptySeq, ElementOfSeq DEF Types, Context, ProcessRegular
  <1>2. /\ ac' = [ac EXCEPT !.replies = Tail(@)] /\ RunCallback(ac.replies[1], Head(inbox))
        /\ pc = "process" /\ inbox # <<>> /\ inbox' = Tail(inbox) /\ UNCHANGED <<srv, issued, told>>
    BY DEF ProcessRegular, First
  <1>3. /\ ac' \in Context /\ ac'.replies = Tail(ac.replies)
        /\ UNCHANGED <<ac.obuf, ac.invalid, ac.topics, ac.subscribed>>
    BY <1>1, <1>2 DEF Context
  <1>4. Types' /\ Takes /\ Live'
    BY <1>1, <1>2, <1>3, TakesSteps
  <1> QED BY <1>1, <1>2, <1>3, <1>4 DEF Takes

LEMMA InvalidSteps ==
    ASSUME Types, ProcessInvalid
    PROVE  /\ Types' /\ Takes /\ Live' /\ ac.replies = <<>> /\ ac.subscribed /\ Wire[1].kind = "reply"
           /\ UNCHANGED <<ac.replies, ac.topics, ac.subscribed>>
           /\ ac'.invalid = SubSeq(ac.invalid, 2, Len(ac.invalid))
           /\ RunCallback(IF ac.invalid = <<>> THEN cb ELSE ac.invalid[1], Wire[1])
  <1> DEFINE c == IF ac.invalid = <<>> THEN cb ELSE ac.invalid[1]
  <1>1. ac \in Context /\ ac.invalid \in Seq(Back) /\ cb \in Back
    BY DEF Types, Context
  <1>2. ac.invalid # <<>> => Head(ac.invalid) = ac.invalid[1]
    BY <1>1
  <1>3. /\ ac' = [ac EXCEPT !.invalid = SubSeq(ac.invalid, 2, Len(ac.invalid))] /\ RunCallback(c, Head(inbox))
        /\ pc = "process" /\ inbox # <<>> /\ inbox' = Tail(inbox) /\ UNCHANGED <<srv, issued, told>>
        /\ ac.replies = <<>> /\ ac.subscribed /\ Head(inbox).kind = "reply"
    BY <1>2 DEF ProcessInvalid
  <1>4. c \in Back
    BY <1>1, EmptySeq, ElementOfSeq
  <1>5. SubSeq(ac.invalid, 2, Len(ac.invalid)) \in Seq(Back)
    <2>1. /\ Len(ac.invalid) \in Nat
          /\ \A i \in 2 .. Len(ac.invalid) : ac.invalid[i] \in Back
      BY <1>1, LenProperties, ElementOfSeq
    <2> QED BY <2>1, SubSeqProperties
  <1>6. /\ ac' \in Context /\ ac'.invalid = SubSeq(ac.invalid, 2, Len(ac.invalid))
        /\ UNCHANGED <<ac.obuf, ac.replies, ac.topics, ac.subscribed>>
    BY <1>1, <1>3, <1>5 DEF Context
  <1> HIDE DEF c
  <1>7. Types' /\ Takes /\ Live'
    BY <1>3, <1>4, <1>6, TakesSteps
  <1> QED BY <1>3, <1>6, <1>7 DEF Takes, c

\* The confirmation of a subscription is one of those that are counted.
LEMMA TopicSteps ==
    ASSUME Types, ProcessTopic,
           Wire[1].kind = "subscribe" => Pendings(Wire[1].topic) > 0
    PROVE  /\ Types' /\ Takes /\ Live' /\ ac.replies = <<>> /\ ac.subscribed /\ Wire[1].topic # NoTopic
           /\ UNCHANGED <<ac.replies, ac.invalid>>
           /\ IF Wire[1].topic \in Subscribed
              THEN /\ ac'.topics = Confirmed(ac.topics, Wire[1])
                   /\ ac'.subscribed = ~(Wire[1].kind = "unsubscribe" /\ Wire[1].count = 0 /\ Subscribed' = {})
                   /\ RunCallback(Callback(ac.topics[Wire[1].topic].n, Wire[1].topic), Wire[1])
              ELSE ac' = ac /\ RunCallback(cb, Wire[1])
  <1> DEFINE m == Head(inbox)
             topics == Confirmed(ac.topics, m)
             c == IF m.topic \in Subscribed THEN Callback(ac.topics[m.topic].n, m.topic) ELSE cb
  <1>1. /\ inbox # <<>> /\ inbox \in Seq(Reply) /\ srv.out \in Seq(Reply) /\ ac \in Context /\ cb \in Back
        /\ pc = "process" /\ inbox' = Tail(inbox) /\ UNCHANGED <<srv, issued, told>>
        /\ ac.replies = <<>> /\ ac.subscribed /\ m.topic # NoTopic
    BY DEF ProcessTopic, Types, Server
  <1>2. m = Wire[1] /\ m \in Reply
    BY <1>1, FrontOfConcat DEF Wire
  <1>3. PICK D \in SUBSET Topics : ac.topics \in [D -> [n : Nat, pending : Nat]]
    BY DEF Types, Context, Tables
  <1>4. D = Subscribed
    BY <1>3 DEF Subscribed
  <1>5. c \in Back
    <2>1. CASE m.topic \in Subscribed
      <3>1. ac.topics[m.topic].n \in Nat /\ m.topic \in Topics
        BY <1>3, <1>4, <2>1
      <3> QED BY <2>1, <3>1 DEF Callback, Back
    <2> QED BY <1>1, <2>1
  <1>6. ASSUME m.topic \in Subscribed PROVE topics \in Tables
    <2> HIDE DEF m
    <2>1. CASE m.kind = "subscribe"
      <3>1. ac.topics[m.topic].pending > 0
        BY <1>2, <1>6, <2>1 DEF Pendings
      <3>2. ac.topics[m.topic] \in [n : Nat, pending : Nat]
        BY <1>3, <1>4, <1>6
      <3>3. [ac.topics[m.topic] EXCEPT !.pending = @ - 1] \in [n : Nat, pending : Nat]
        BY <3>1, <3>2
      <3>4. topics = [ac.topics EXCEPT ![m.topic] = [ac.topics[m.topic] EXCEPT !.pending = @ - 1]]
        BY <1>3, <1>4, <1>6, <2>1 DEF Confirmed
      <3>5. topics \in [D -> [n : Nat, pending : Nat]]
        BY <1>3, <3>3, <3>4
      <3> QED BY <3>5 DEF Tables
    <2>2. CASE m.kind = "unsubscribe" /\ ac.topics[m.topic].pending = 0
      <3>1. topics = [x \in D \ {m.topic} |-> ac.topics[x]]
        BY <1>3, <2>2 DEF Confirmed
      <3>2. topics \in [D \ {m.topic} -> [n : Nat, pending : Nat]] /\ D \ {m.topic} \in SUBSET Topics
        BY <1>3, <3>1
      <3> QED BY <3>2 DEF Tables
    <2>3. CASE m.kind # "subscribe" /\ ~(m.kind = "unsubscribe" /\ ac.topics[m.topic].pending = 0)
      <3>1. topics = ac.topics
        BY <2>3 DEF Confirmed
      <3> QED BY <1>3, <3>1 DEF Tables
    <2> QED BY <2>1, <2>2, <2>3
  <1>7. CASE m.topic \in Subscribed
    <2>1. /\ ac' = [ac EXCEPT !.topics = topics,
                              !.subscribed = ~(m.kind = "unsubscribe" /\ m.count = 0 /\ DOMAIN topics = {})]
          /\ RunCallback(c, m)
      BY <1>7 DEF ProcessTopic
    <2>2. topics \in Tables
      BY <1>6, <1>7
    <2> HIDE DEF topics, c, m
    <2>3. /\ ac' \in Context /\ UNCHANGED <<ac.obuf, ac.replies, ac.invalid>> /\ ac'.topics = topics
          /\ ac'.subscribed = ~(m.kind = "unsubscribe" /\ m.count = 0 /\ DOMAIN topics = {})
      BY <1>1, <2>1, <2>2 DEF Context
    <2>4. Types' /\ Takes /\ Live'
      BY <1>1, <1>5, <2>1, <2>3, TakesSteps DEF m
    <2>5. Subscribed' = DOMAIN topics
      BY <2>3 DEF Subscribed
    <2>6. /\ ac'.topics = Confirmed(ac.topics, Wire[1])
          /\ ac'.subscribed = ~(Wire[1].kind = "unsubscribe" /\ Wire[1].count = 0 /\ Subscribed' = {})
      BY <1>2, <2>3, <2>5 DEF topics
    <2>7. RunCallback(Callback(ac.topics[Wire[1].topic].n, Wire[1].topic), Wire[1])
      BY <1>2, <1>7, <2>1 DEF c
    <2> QED BY <1>1, <1>2, <1>7, <2>3, <2>4, <2>6, <2>7
  <1>8. CASE m.topic \notin Subscribed
    <2>1. ac' = ac /\ RunCallback(c, m)
      BY <1>8 DEF ProcessTopic
    <2>2. c = cb
      BY <1>8
    <2> HIDE DEF topics, c
    <2>3. Types' /\ Takes /\ Live'
      BY <1>1, <1>5, <2>1, TakesSteps
    <2> QED BY <1>1, <1>2, <1>8, <2>1, <2>2, <2>3
  <1> QED BY <1>7, <1>8

-----------------------------------------------------------------------------
\* The server's steps in one form: something at the end of the wire for the
\* first commands, d of them.
Gives(messages, d) ==
    /\ Live /\ srv.up /\ messages \in Seq(Reply) /\ d \in 0 .. Len(Waiting)
    /\ Wire' = Wire \o messages
    /\ Len(Waiting') = Len(Waiting) - d
    /\ \A i \in 1 .. Len(Waiting) - d : Waiting'[i] = Waiting[d + i]
    /\ UNCHANGED <<ac, issued, ran, told, pc, cb, got>>
    /\ \A j \in 1 .. Len(messages) :
          /\ Answered(messages[j])
          /\ messages[j].n = 0 \/ (d > 0 /\ messages[j].n = Waiting[1].n)
          /\ messages[j] = Refusal => ~srv'.up
    /\ \A i, j \in 1 .. Len(messages) : i < j => messages[i].kind = "subscribe" /\ messages[j].kind = "subscribe"

\* A command is answered, or rejected.
GivesReply(m) == /\ Gives(<<m>>, 1) /\ Waiting[1].kind = "ordinary" /\ m.n = Waiting[1].n
                 /\ m.kind \in {"reply", "error"} /\ UNCHANGED <<srv.topics, srv.up>>
GivesError(m) == Gives(<<m>>, 1) /\ m = Message("error", Waiting[1].n, NoTopic, 0) /\ UNCHANGED <<srv.topics, srv.up>>
GivesSubscribe(messages) ==
    /\ Gives(messages, 1) /\ Waiting[1].kind = "subscribe" /\ srv'.up = srv.up
    /\ Len(messages) = Len(Waiting[1].topics)
    /\ \A j \in 1 .. Len(messages) : /\ messages[j].kind = "subscribe" /\ messages[j].n = Waiting[1].n
                                     /\ messages[j].topic = Waiting[1].topics[j]
    /\ srv'.topics = srv.topics \cup {Waiting[1].topics[k] : k \in 1 .. Len(Waiting[1].topics)}
GivesUnsubscribe(m) ==
    /\ Gives(<<m>>, 1) /\ Waiting[1].kind = "unsubscribe" /\ srv'.up = srv.up
    /\ m.kind = "unsubscribe" /\ m.n = Waiting[1].n /\ m.topic = Waiting[1].topics[1]
    /\ srv'.topics = srv.topics \ {m.topic}
\* It quits, publishes, or goes away.
GivesQuit(m, d) == /\ Gives(<<m>>, d) /\ d > 0 /\ Waiting[1].kind = "ordinary" /\ m.n = Waiting[1].n /\ m.kind = "reply"
                   /\ srv'.up = FALSE /\ UNCHANGED srv.topics
GivesMessage(m) == /\ Gives(<<m>>, 0) /\ m.kind = "message" /\ m.n = 0 /\ m.topic \in srv.topics
                   /\ UNCHANGED <<srv.up, srv.topics>>
GivesUp(messages) == /\ Gives(messages, 0) /\ srv'.up = FALSE /\ UNCHANGED srv.topics
                     /\ messages = <<>> \/ (messages = <<Refusal>> /\ issued = <<>>)

\* Two lists in a row, and a list and one more, by their indices.
LEMMA WireGrows ==
    ASSUME Types, NEW messages, NEW d, Gives(messages, d)
    PROVE  /\ Wire \in Seq(Reply) /\ Len(Wire) \in Nat /\ Len(messages) \in Nat
           /\ Len(Wire') = Len(Wire) + Len(messages)
           /\ \A i \in 1 .. Len(Wire) : Wire'[i] = Wire[i]
           /\ \A j \in 1 .. Len(messages) : Wire'[Len(Wire) + j] = messages[j]
           /\ \A i \in 1 .. Len(Wire') : i \in 1 .. Len(Wire) \/ \E j \in 1 .. Len(messages) : i = Len(Wire) + j
           /\ Waiting \in Seq(Order) /\ Len(Waiting) \in Nat /\ d \in Nat
  <1>1. Wire \in Seq(Reply) /\ Waiting \in Seq(Order) /\ messages \in Seq(Reply)
    BY ContextFields DEF Gives
  <1>2. Len(Wire) \in Nat /\ Len(Waiting) \in Nat /\ Len(messages) \in Nat
    BY <1>1, LenProperties
  <1>3. /\ Len(Wire \o messages) = Len(Wire) + Len(messages)
        /\ \A i \in 1 .. Len(Wire) + Len(messages) :
              (Wire \o messages)[i] = IF i <= Len(Wire) THEN Wire[i] ELSE messages[i - Len(Wire)]
    BY <1>1, ConcatProperties
  <1>4. Wire' = Wire \o messages /\ d \in Nat
    BY <1>2 DEF Gives
  <1>5. ASSUME NEW n \in Nat, NEW m \in Nat
        PROVE  /\ \A i \in 1 .. n : i \in 1 .. n + m /\ i <= n
               /\ \A j \in 1 .. m : n + j \in 1 .. n + m /\ ~(n + j <= n) /\ n + j - n = j
               /\ \A i \in 1 .. n + m : i \in 1 .. n \/ (i - n \in 1 .. m /\ i = n + (i - n))
    OBVIOUS
  <1> HIDE <1>4
  <1>6. /\ \A i \in 1 .. Len(Wire) : (Wire \o messages)[i] = Wire[i]
        /\ \A j \in 1 .. Len(messages) : (Wire \o messages)[Len(Wire) + j] = messages[j]
        /\ \A i \in 1 .. Len(Wire) + Len(messages) :
              i \in 1 .. Len(Wire) \/ \E j \in 1 .. Len(messages) : i = Len(Wire) + j
    BY <1>2, <1>3, <1>5
  <1> QED BY <1>1, <1>2, <1>3, <1>4, <1>6

LEMMA IssuedGrows ==
    ASSUME Types, NEW kind \in Kind, NEW topics \in Seq(Topics), Sends(kind, topics)
    PROVE  /\ Len(issued) \in Nat /\ Len(issued') = Len(issued) + 1
           /\ \A n \in 1 .. Len(issued) : issued'[n] = issued[n]
           /\ issued'[Len(issued) + 1] =
                 [kind |-> kind, topics |-> topics, list |-> IF ac.subscribed THEN "invalid" ELSE "replies"]
           /\ Len(Waiting) \in Nat /\ Len(Waiting') = Len(Waiting) + 1
           /\ \A i \in 1 .. Len(Waiting) : Waiting'[i] = Waiting[i]
           /\ Waiting'[Len(Waiting) + 1] = [kind |-> kind, n |-> Len(issued) + 1, topics |-> topics]
           /\ Len(Wire) \in Nat /\ Wire' = Wire /\ srv' = srv
  <1> DEFINE order == [kind |-> kind, n |-> Len(issued) + 1, topics |-> topics]
             entry == [kind |-> kind, topics |-> topics, list |-> IF ac.subscribed THEN "invalid" ELSE "replies"]
  <1>1. issued \in Seq(Issued) /\ Len(issued) \in Nat /\ Waiting \in Seq(Order) /\ Len(Waiting) \in Nat
        /\ Len(Wire) \in Nat
    BY ContextFields, LenProperties DEF Types
  <1>2. order \in Order /\ entry \in Issued
    BY <1>1 DEF Order, Issued
  <1>3. issued' = Append(issued, entry) /\ Waiting' = Append(Waiting, order) /\ Wire' = Wire /\ srv' = srv
    BY DEF Sends
  <1> HIDE DEF order, entry
  <1>4. /\ Len(issued') = Len(issued) + 1 /\ \A n \in 1 .. Len(issued) : issued'[n] = issued[n]
        /\ issued'[Len(issued) + 1] = entry
    BY <1>1, <1>2, <1>3, AppendProperties
  <1>5. /\ Len(Waiting') = Len(Waiting) + 1 /\ \A n \in 1 .. Len(Waiting) : Waiting'[n] = Waiting[n]
        /\ Waiting'[Len(Waiting) + 1] = order
    BY <1>1, <1>2, <1>3, AppendProperties
  <1> QED BY <1>1, <1>3, <1>4, <1>5 DEF order, entry

\* What was said of a command that was sent stays true.
LEMMA IssuedStays ==
    ASSUME Types, NEW kind \in Kind, NEW topics \in Seq(Topics), Sends(kind, topics),
           NEW n \in 1 .. Len(issued)
    PROVE  /\ n \in 1 .. Len(issued') /\ issued'[n] = issued[n]
           /\ \A k : (Is(n, k))' <=> Is(n, k)
           /\ (Regular(n))' <=> Regular(n)
           /\ (Invalid(n))' <=> Invalid(n)
           /\ \A t : (Names(n, t))' <=> Names(n, t)
           /\ \A t : (Subs(n, t))' <=> Subs(n, t)
           /\ \A t : (Unsubs(n, t))' <=> Unsubs(n, t)
           /\ (Order_(n))' = Order_(n)
  <1>1. n \in 1 .. Len(issued') /\ issued'[n] = issued[n]
    <2>1. /\ Len(issued) \in Nat /\ Len(issued') = Len(issued) + 1
          /\ \A m \in 1 .. Len(issued) : issued'[m] = issued[m]
      BY IssuedGrows
    <2> QED BY <2>1
  <1>2. \A k : (Is(n, k))' <=> Is(n, k)
    BY <1>1 DEF Is
  <1>3. \A t : (Names(n, t))' <=> Names(n, t)
    BY <1>1 DEF Names
  <1>4. (Order_(n))' = Order_(n)
    BY <1>1 DEF Order_
  <1> QED BY <1>1, <1>2, <1>3, <1>4 DEF Regular, Invalid, Subs, Unsubs

LEMMA AnsweredStays ==
    ASSUME Types, NEW kind \in Kind, NEW topics \in Seq(Topics), Sends(kind, topics),
           NEW m, Answered(m)
    PROVE  Answered(m)'
  <1>1. m.n \in 1 .. Len(issued) => /\ m.n \in 1 .. Len(issued')
                                    /\ \A k : (Is(m.n, k))' <=> Is(m.n, k)
                                    /\ \A t : (Subs(m.n, t))' <=> Subs(m.n, t)
                                    /\ \A t : (Unsubs(m.n, t))' <=> Unsubs(m.n, t)
    BY IssuedStays
  <1>2. \A k : Is(m.n, k) => m.n \in 1 .. Len(issued)
    BY DEF Is
  <1>3. \A t : Subs(m.n, t) \/ Unsubs(m.n, t) => m.n \in 1 .. Len(issued)
    BY <1>2 DEF Subs, Unsubs
  <1> QED BY <1>1, <1>2, <1>3 DEF Answered, Refusal

-----------------------------------------------------------------------------
\* The numbers.

LEMMA NumberedGives ==
    ASSUME Types, Numbered, NEW messages, NEW d, Gives(messages, d), srv'.up \in BOOLEAN
    PROVE  Numbered'
  <1> DEFINE L == Len(Wire)
  <1>1. /\ L \in Nat /\ Len(messages) \in Nat /\ Len(Wire') = L + Len(messages)
        /\ \A i \in 1 .. L : Wire'[i] = Wire[i]
        /\ \A j \in 1 .. Len(messages) : Wire'[L + j] = messages[j]
        /\ \A i \in 1 .. Len(Wire') : i \in 1 .. L \/ \E j \in 1 .. Len(messages) : i = L + j
        /\ Len(Waiting) \in Nat /\ d \in Nat /\ d <= Len(Waiting)
    BY WireGrows DEF Gives
  <1>2. /\ issued' = issued /\ Len(issued) \in Nat
        /\ Len(Waiting') = Len(Waiting) - d /\ \A i \in 1 .. Len(Waiting) - d : Waiting'[i] = Waiting[d + i]
    BY LenProperties DEF Gives, Types
  <1>3. \A i \in 1 .. Len(Waiting) : Waiting[i] = Order_(Len(issued) - Len(Waiting) + i)
    BY DEF Numbered, Queued
  <1>4. ASSUME d > 0 PROVE Waiting[1].n = Len(issued) - Len(Waiting) + 1
    <2>1. 1 \in 1 .. Len(Waiting)
      BY <1>1, <1>4
    <2>2. \A n : Order_(n).n = n
      BY DEF Order_
    <2> QED BY <1>3, <2>1, <2>2
  <1>5. \A i \in 1 .. L : Wire[i].n \in Nat /\ Wire[i].n <= Len(issued) - Len(Waiting)
    <2>1. \A i \in 1 .. L : Wire[i] \in Reply
      BY ContextFields, ElementOfSeq
    <2> QED BY <2>1 DEF Numbered, Queued, Reply
  <1>6. \A j \in 1 .. Len(messages) :
           /\ Answered(messages[j])
           /\ messages[j].n = 0 \/ (d > 0 /\ messages[j].n = Len(issued) - Len(Waiting) + 1)
           /\ messages[j] = Refusal => ~srv'.up
    BY <1>4 DEF Gives
  <1>7. Issues'
    BY <1>2 DEF Numbered, Issues
  <1>8. Queued'
    <2>1. Len(Waiting') <= Len(issued')
      BY <1>1, <1>2 DEF Numbered, Queued
    <2>2. ASSUME NEW i \in 1 .. Len(Waiting')
          PROVE  Waiting'[i] = Order_(Len(issued) - Len(Waiting') + i)
      <3>1. i \in 1 .. Len(Waiting) - d /\ d + i \in 1 .. Len(Waiting)
            /\ Len(issued) - Len(Waiting) + (d + i) = Len(issued) - (Len(Waiting) - d) + i
        BY <1>1, <1>2
      <3>2. Waiting'[i] = Order_(Len(issued) - Len(Waiting) + (d + i))
        BY <1>2, <1>3, <3>1
      <3> QED BY <1>2, <3>1, <3>2
    <2>3. ASSUME NEW i \in 1 .. Len(Wire') PROVE Wire'[i].n <= Len(issued) - Len(Waiting')
      <3>1. CASE i \in 1 .. L
        BY <1>1, <1>2, <1>5, <3>1
      <3>2. CASE \E j \in 1 .. Len(messages) : i = L + j
        <4>1. PICK j \in 1 .. Len(messages) : i = L + j
          BY <3>2
        <4>2. Wire'[i] = messages[j]
          BY <1>1, <4>1
        <4>3. Len(Waiting) <= Len(issued)
          BY DEF Numbered, Queued
        <4>4. CASE messages[j].n = 0
          BY <1>1, <1>2, <4>2, <4>3, <4>4
        <4>5. CASE d > 0 /\ messages[j].n = Len(issued) - Len(Waiting) + 1
          BY <1>1, <1>2, <4>2, <4>5
        <4> QED BY <1>6, <4>4, <4>5
      <3> QED BY <1>1, <3>1, <3>2
    <2>4. \A n : (Order_(n))' = Order_(n)
      BY <1>2 DEF Order_
    <2> QED BY <1>2, <2>1, <2>2, <2>3, <2>4 DEF Queued
  <1>9. Inorder'
    <2> SUFFICES ASSUME NEW i \in 1 .. Len(Wire'), NEW j \in 1 .. Len(Wire'), i < j, Wire'[j].n # 0
                 PROVE  /\ Wire'[i].n <= Wire'[j].n
                        /\ Wire'[i].n = Wire'[j].n => Wire'[i].kind = "subscribe" /\ Wire'[j].kind = "subscribe"
      BY DEF Inorder
    <2>1. CASE i \in 1 .. L /\ j \in 1 .. L
      BY <1>1, <2>1 DEF Numbered, Inorder
    <2>2. CASE j \notin 1 .. L
      <3>1. PICK jj \in 1 .. Len(messages) : j = L + jj
        BY <1>1, <2>2
      <3>2. Wire'[j] = messages[jj]
        BY <1>1, <3>1
      <3>3. messages[jj].n = Len(issued) - Len(Waiting) + 1
        BY <1>6, <3>2
      <3>4. CASE i \in 1 .. L
        <4>1. Wire'[i] = Wire[i]
          BY <1>1, <3>4
        <4> QED BY <1>1, <1>2, <1>5, <3>2, <3>3, <3>4, <4>1
      <3>5. CASE i \notin 1 .. L
        <4>1. PICK ii \in 1 .. Len(messages) : i = L + ii
          BY <1>1, <3>5
        <4>2. Wire'[i] = messages[ii] /\ ii < jj
          BY <1>1, <3>1, <4>1
        <4>3. messages[ii].kind = "subscribe" /\ messages[jj].kind = "subscribe"
          BY <4>2 DEF Gives
        <4>4. messages[ii].n = 0 \/ messages[ii].n = Len(issued) - Len(Waiting) + 1
          BY <1>6
        <4>5. Len(Waiting) <= Len(issued)
          BY DEF Numbered, Queued
        <4> QED BY <1>1, <1>2, <3>2, <3>3, <4>2, <4>3, <4>4, <4>5
      <3> QED BY <3>4, <3>5
    <2>3. CASE i \notin 1 .. L /\ j \in 1 .. L
      BY <1>1, <2>3
    <2> QED BY <2>1, <2>2, <2>3
  <1>10. Accounted'
    <2>1. \A m : Answered(m)' <=> Answered(m)
      BY <1>2 DEF Answered, Is, Subs, Unsubs, Names, Refusal
    <2>2. ASSUME NEW i \in 1 .. Len(Wire')
          PROVE  Answered(Wire'[i]) /\ (srv'.up => Wire'[i] # Refusal)
      <3>1. CASE i \in 1 .. L
        <4>1. Wire'[i] = Wire[i] /\ srv.up
          BY <1>1, <3>1 DEF Gives
        <4> QED BY <3>1, <4>1 DEF Numbered, Accounted
      <3>2. CASE \E j \in 1 .. Len(messages) : i = L + j
        BY <1>1, <1>6, <3>2
      <3> QED BY <1>1, <3>1, <3>2
    <2> QED BY <2>1, <2>2 DEF Accounted, Refusal
  <1> QED BY <1>7, <1>8, <1>9, <1>10 DEF Numbered

LEMMA NumberedSends ==
    ASSUME Types, Numbered, NEW kind \in Kind, NEW topics \in Seq(Topics), Sends(kind, topics),
           kind = "subscribe" => topics # <<>>, kind = "unsubscribe" => Len(topics) = 1
    PROVE  Numbered'
  <1>1. /\ Len(issued) \in Nat /\ Len(issued') = Len(issued) + 1
        /\ \A n \in 1 .. Len(issued) : issued'[n] = issued[n]
        /\ issued'[Len(issued) + 1] =
              [kind |-> kind, topics |-> topics, list |-> IF ac.subscribed THEN "invalid" ELSE "replies"]
        /\ Len(Waiting) \in Nat /\ Len(Waiting') = Len(Waiting) + 1
        /\ \A i \in 1 .. Len(Waiting) : Waiting'[i] = Waiting[i]
        /\ Waiting'[Len(Waiting) + 1] = [kind |-> kind, n |-> Len(issued) + 1, topics |-> topics]
        /\ Len(Wire) \in Nat /\ Wire' = Wire /\ srv' = srv
    BY IssuedGrows
  <1>2. \A n \in 1 .. Len(issued') : n \in 1 .. Len(issued) \/ n = Len(issued) + 1
    BY <1>1
  <1>3. Issues'
    <2> SUFFICES ASSUME NEW n \in 1 .. Len(issued')
                 PROVE  /\ issued'[n].kind = "subscribe" => issued'[n].topics # <<>>
                        /\ issued'[n].kind = "unsubscribe" => Len(issued'[n].topics) = 1
      BY DEF Issues
    <2>1. CASE n \in 1 .. Len(issued)
      BY <1>1, <2>1 DEF Numbered, Issues
    <2>2. CASE n = Len(issued) + 1
      BY <1>1, <2>2
    <2> QED BY <1>2, <2>1, <2>2
  <1>4. Queued'
    <2>1. Len(Waiting') <= Len(issued')
      BY <1>1 DEF Numbered, Queued
    <2>2. ASSUME NEW i \in 1 .. Len(Waiting')
          PROVE  Waiting'[i] = (Order_(Len(issued) - Len(Waiting) + i))'
      <3>1. Len(issued') - Len(Waiting') + i = Len(issued) - Len(Waiting) + i
        BY <1>1
      <3>2. CASE i \in 1 .. Len(Waiting)
        <4> DEFINE n == Len(issued) - Len(Waiting) + i
        <4>1. n \in 1 .. Len(issued)
          BY <1>1, <3>2 DEF Numbered, Queued
        <4>2. Waiting'[i] = Order_(n)
          BY <1>1, <3>2 DEF Numbered, Queued
        <4>3. issued'[n] = issued[n]
          BY <1>1, <4>1
        <4>4. [kind |-> issued'[n].kind, n |-> n, topics |-> issued'[n].topics] = Order_(n)
          BY <4>3 DEF Order_
        <4> HIDE DEF n
        <4>5. Waiting'[i] = [kind |-> issued'[n].kind, n |-> n, topics |-> issued'[n].topics]
          BY <4>2, <4>4
        <4>6. Len(issued') - Len(Waiting') + i = n
          BY <3>1 DEF n
        <4> QED BY <4>5, <4>6 DEF Order_
      <3>3. CASE i = Len(Waiting) + 1
        <4>1. Len(issued') - Len(Waiting') + i = Len(issued) + 1
          BY <1>1, <3>3
        <4>2. Waiting'[i] = [kind |-> issued'[Len(issued) + 1].kind, n |-> Len(issued) + 1,
                             topics |-> issued'[Len(issued) + 1].topics]
          BY <1>1, <3>3
        <4> QED BY <4>1, <4>2 DEF Order_
      <3> QED BY <1>1, <3>2, <3>3
    <2>3. \A i \in 1 .. Len(Wire') : Wire'[i].n <= Len(issued') - Len(Waiting')
      BY <1>1 DEF Numbered, Queued
    <2>4. Len(issued') - Len(Waiting') = Len(issued) - Len(Waiting)
      BY <1>1
    <2> QED BY <2>1, <2>2, <2>3, <2>4 DEF Queued
  <1>5. Inorder'
    BY <1>1 DEF Numbered, Inorder
  <1>6. Accounted'
    <2>1. \A m : Answered(m) => Answered(m)'
      BY AnsweredStays
    <2> QED BY <1>1, <2>1 DEF Numbered, Accounted, Refusal
  <1> QED BY <1>3, <1>4, <1>5, <1>6 DEF Numbered

\* What is on the wire, one place further.
LEMMA WireShrinks ==
    ASSUME Types, Takes
    PROVE  /\ Wire \in Seq(Reply) /\ Len(Wire) \in Nat \ {0} /\ Len(Wire') = Len(Wire) - 1
           /\ \A i \in 1 .. Len(Wire') : i + 1 \in 1 .. Len(Wire) /\ i + 1 # 1 /\ Wire'[i] = Wire[i + 1]
           /\ \A j \in 1 .. Len(Wire) : j # 1 => j - 1 \in 1 .. Len(Wire') /\ Wire'[j - 1] = Wire[j]
           /\ 1 \in 1 .. Len(Wire) /\ Wire[1] \in Reply
  <1>1. Wire \in Seq(Reply) /\ Wire # <<>> /\ Wire' = Tail(Wire)
    BY ContextFields DEF Takes
  <1> HIDE <1>1
  <1>2. /\ Len(Wire) \in Nat \ {0} /\ Len(Tail(Wire)) = Len(Wire) - 1
        /\ \A i \in 1 .. Len(Tail(Wire)) : Tail(Wire)[i] = Wire[i + 1]
    BY <1>1, HeadTailProperties, EmptySeq
  <1>3. \A i \in 1 .. Len(Wire) - 1 : i + 1 \in 1 .. Len(Wire) /\ i + 1 # 1 /\ Tail(Wire)[i] = Wire[i + 1]
    BY <1>2
  <1>4. \A j \in 1 .. Len(Wire) : j # 1 => j - 1 \in 1 .. Len(Wire) - 1 /\ Tail(Wire)[j - 1] = Wire[j]
    <2> SUFFICES ASSUME NEW j \in 1 .. Len(Wire), j # 1
                 PROVE  j - 1 \in 1 .. Len(Wire) - 1 /\ Tail(Wire)[j - 1] = Wire[j]
      OBVIOUS
    <2>1. j - 1 \in 1 .. Len(Wire) - 1 /\ (j - 1) + 1 = j
      BY <1>2
    <2> QED BY <1>3, <2>1
  <1>5. 1 \in 1 .. Len(Wire) /\ Wire[1] \in Reply
    BY <1>1, <1>2, ElementOfSeq
  <1> QED BY <1>1, <1>2, <1>3, <1>4, <1>5

LEMMA NumberedTakes == ASSUME Types, Numbered, Takes PROVE Numbered'
  <1>1. /\ Len(Wire) \in Nat \ {0} /\ Len(Wire') = Len(Wire) - 1
        /\ \A i \in 1 .. Len(Wire') : i + 1 \in 1 .. Len(Wire) /\ i + 1 # 1 /\ Wire'[i] = Wire[i + 1]
    BY WireShrinks
  <1>2. UNCHANGED <<Waiting, srv, issued>>
    BY DEF Takes
  <1>3. Issues'
    BY <1>2 DEF Numbered, Issues
  <1>4. Queued'
    BY <1>1, <1>2 DEF Numbered, Queued, Order_
  <1>5. Inorder'
    <2> SUFFICES ASSUME NEW i \in 1 .. Len(Wire'), NEW j \in 1 .. Len(Wire'), i < j, Wire'[j].n # 0
                 PROVE  /\ Wire'[i].n <= Wire'[j].n
                        /\ Wire'[i].n = Wire'[j].n => Wire'[i].kind = "subscribe" /\ Wire'[j].kind = "subscribe"
      BY DEF Inorder
    <2>1. /\ i + 1 \in 1 .. Len(Wire) /\ j + 1 \in 1 .. Len(Wire) /\ i + 1 < j + 1
          /\ Wire'[i] = Wire[i + 1] /\ Wire'[j] = Wire[j + 1]
      BY <1>1
    <2> QED BY <2>1 DEF Numbered, Inorder
  <1>6. Accounted'
    <2>1. \A m : Answered(m)' <=> Answered(m)
      BY <1>2 DEF Answered, Is, Subs, Unsubs, Names, Refusal
    <2> QED BY <1>1, <1>2, <2>1 DEF Numbered, Accounted, Refusal
  <1> QED BY <1>3, <1>4, <1>5, <1>6 DEF Numbered

\* The server's steps.
LEMMA GivesForms ==
    ASSUME Types, Live, Numbered
    PROVE  /\ \A c : Waiting # <<>> /\ c = Waiting[1] =>
                 /\ c \in Order /\ c.n \in 1 .. Len(issued) /\ Is(c.n, c.kind)
                 /\ c.topics = issued[c.n].topics
                 /\ c.kind = "subscribe" => c.topics # <<>>
                 /\ c.kind = "unsubscribe" => Len(c.topics) = 1
           /\ 1 \in 1 .. Len(Waiting) <=> Waiting # <<>>
  <1>1. Waiting \in Seq(Order) /\ Len(Waiting) \in Nat /\ Len(issued) \in Nat
    BY ContextFields, LenProperties DEF Types
  <1>2. 1 \in 1 .. Len(Waiting) <=> Waiting # <<>>
    BY <1>1, EmptySeq
  <1>3. ASSUME Waiting # <<>>, NEW c, c = Waiting[1]
        PROVE  /\ c \in Order /\ c.n \in 1 .. Len(issued) /\ Is(c.n, c.kind)
               /\ c.topics = issued[c.n].topics
               /\ c.kind = "subscribe" => c.topics # <<>>
               /\ c.kind = "unsubscribe" => Len(c.topics) = 1
    <2>1. 1 \in 1 .. Len(Waiting)
      BY <1>2, <1>3
    <2>2. c \in Order
      BY <1>1, <1>3, <2>1, ElementOfSeq
    <2>3. c = Order_(Len(issued) - Len(Waiting) + 1) /\ Len(Waiting) <= Len(issued)
      BY <1>3, <2>1 DEF Numbered, Queued
    <2>4. c.n = Len(issued) - Len(Waiting) + 1 /\ c.kind = issued[c.n].kind /\ c.topics = issued[c.n].topics
      BY <2>3 DEF Order_
    <2>5. c.n \in 1 .. Len(issued)
      BY <1>1, <2>1, <2>3, <2>4
    <2> QED BY <2>2, <2>4, <2>5 DEF Is, Numbered, Issues
  <1> QED BY <1>2, <1>3

LEMMA ServesGives ==
    ASSUME Types, Numbered, NEW messages \in Seq(Reply), Serves(messages), UNCHANGED srv.up,
           \A j \in 1 .. Len(messages) : Answered(messages[j]) /\ messages[j].n = Waiting[1].n,
           \A i, j \in 1 .. Len(messages) : i < j => messages[i].kind = "subscribe" /\ messages[j].kind = "subscribe"
    PROVE  Gives(messages, 1)
  <1>1. Waiting \in Seq(Order) /\ Waiting # <<>> /\ Waiting' = Tail(Waiting) /\ Live
    BY ContextFields DEF Serves
  <1>2. /\ Len(Waiting) \in Nat \ {0} /\ Len(Waiting') = Len(Waiting) - 1
        /\ \A i \in 1 .. Len(Waiting) - 1 : Waiting'[i] = Waiting[i + 1] /\ i + 1 = 1 + i
    BY <1>1, HeadTailProperties, EmptySeq
  <1>3. Waiting[1].n \in 1 .. Len(issued) /\ Len(issued) \in Nat
    BY <1>1, GivesForms, LenProperties DEF Types
  <1>4. \A j \in 1 .. Len(messages) : messages[j] # Refusal
    BY <1>3 DEF Refusal, Message
  <1> QED BY <1>1, <1>2, <1>4 DEF Gives, Serves

\* One message is a list of them.
LEMMA OneMessage ==
    ASSUME NEW m \in Reply
    PROVE  /\ <<m>> \in Seq(Reply) /\ Len(<<m>>) = 1
           /\ \A j \in 1 .. Len(<<m>>) : j = 1 /\ <<m>>[j] = m
           /\ \A i, j \in 1 .. Len(<<m>>) : ~(i < j)
           /\ \A t : OnWire(<<m>>, t) = IF Confirms(m, t) THEN {1} ELSE {}
  <1>1. <<m>> \in Seq(Reply) /\ Len(<<m>>) = 1 /\ <<m>>[1] = m
    OBVIOUS
  <1>2. \A j \in 1 .. 1 : j = 1
    OBVIOUS
  <1> QED BY <1>1, <1>2 DEF OnWire

LEMMA ServesOne ==
    ASSUME Types, Numbered, NEW m \in Reply, Serves(<<m>>), UNCHANGED srv.up,
           Answered(m), m.n = Waiting[1].n
    PROVE  Gives(<<m>>, 1)
  <1> DEFINE messages == <<m>>
  <1>1. /\ messages \in Seq(Reply) /\ Serves(messages)
        /\ \A j \in 1 .. Len(messages) : messages[j] = m
        /\ \A i, j \in 1 .. Len(messages) : ~(i < j)
    BY OneMessage
  <1> HIDE DEF messages
  <1>2. \A j \in 1 .. Len(messages) : Answered(messages[j]) /\ messages[j].n = Waiting[1].n
    BY <1>1
  <1>3. Gives(messages, 1)
    BY <1>1, <1>2, ServesGives
  <1> QED BY <1>3 DEF messages

LEMMA AnswersForms ==
    ASSUME Types, Live, Numbered, ServerAnswers
    PROVE  /\ Types' /\ Live'
           /\ \/ \E m \in Reply : GivesReply(m)
              \/ \E m \in Reply : GivesUnsubscribe(m)
              \/ \E messages \in Seq(Reply) : GivesSubscribe(messages)
  <1> DEFINE c == Waiting[1]
  <1>1. /\ srv.in # <<>> /\ srv.in \in Seq(Order) /\ ac.obuf \in Seq(Order)
    BY ContextFields DEF ServerAnswers
  <1>2. Head(srv.in) = c /\ Waiting # <<>>
    BY <1>1, FrontOfConcat DEF Waiting
  <1>3. /\ c \in Order /\ c.n \in 1 .. Len(issued) /\ Is(c.n, c.kind)
        /\ c.topics = issued[c.n].topics
        /\ c.kind = "subscribe" => c.topics # <<>>
        /\ c.kind = "unsubscribe" => Len(c.topics) = 1
    BY <1>2, GivesForms
  <1> HIDE DEF c
  <1>30. c.kind = "unsubscribe" => c.topics # <<>>
    <2> SUFFICES ASSUME c.kind = "unsubscribe", c.topics = <<>> PROVE FALSE
      OBVIOUS
    <2>1. Len(c.topics) = 1
      BY <1>3
    <2> QED BY <2>1
  <1>4. /\ Types' /\ Live' /\ Serves(Answers(c))
        /\ srv'.topics = CASE c.kind = "subscribe" -> srv.topics \cup Range(c.topics)
                           [] c.kind = "unsubscribe" -> srv.topics \ Range(c.topics)
                           [] c.kind = "ordinary" -> srv.topics
    BY <1>2, <1>30, AnswersSteps
  <1>5. /\ c.topics \in Seq(Topics) /\ Len(c.topics) \in Nat /\ DOMAIN c.topics = 1 .. Len(c.topics)
        /\ \A k \in 1 .. Len(c.topics) : c.topics[k] \in Topics
        /\ c.kind \in {"ordinary", "subscribe", "unsubscribe"}
    <2>1. c.topics \in Seq(Topics) /\ c.kind \in {"ordinary", "subscribe", "unsubscribe"}
      BY <1>3 DEF Order, Kind
    <2> QED BY <2>1, LenProperties, ElementOfSeq
  <1>6. Range(c.topics) = {c.topics[k] : k \in 1 .. Len(c.topics)}
    BY <1>5 DEF Range
  <1>7. UNCHANGED srv.up
    BY <1>4 DEF Serves
  <1>8. Answers(c) \in Seq(Reply)
    BY <1>3, <1>30, AnswersType
  <1>9. CASE c.kind = "ordinary"
    <2> DEFINE m == Message(IF srv.topics = {} THEN "reply" ELSE "error", c.n, NoTopic, 0)
    <2>1. Answers(c) = <<m>>
      BY <1>9 DEF Answers
    <2>2. /\ m.kind \in {"reply", "error"} /\ m.n = c.n /\ m.topic = NoTopic
      BY DEF Message
    <2> HIDE DEF m
    <2>3. m \in Reply
      BY <1>8, <2>1
    <2>4. Answered(m)
      BY <1>3, <1>9, <2>2 DEF Answered
    <2>5. Gives(<<m>>, 1)
      BY <1>4, <1>7, <2>1, <2>2, <2>3, <2>4, ServesOne DEF c
    <2>6. GivesReply(m)
      BY <1>4, <1>7, <1>9, <2>2, <2>5 DEF GivesReply, c
    <2> QED BY <1>4, <2>3, <2>6
  <1>10. CASE c.kind = "unsubscribe"
    <2> DEFINE m == Message("unsubscribe", c.n, c.topics[1], Cardinality(srv.topics \ Range(c.topics)))
    <2>1. Answers(c) = <<m>>
      BY <1>10 DEF Answers
    <2>2. /\ m.kind = "unsubscribe" /\ m.n = c.n /\ m.topic = c.topics[1]
      BY DEF Message
    <2> HIDE DEF m
    <2>3. m \in Reply
      BY <1>8, <2>1
    <2>4. 1 \in 1 .. Len(c.topics) /\ \A k \in 1 .. Len(c.topics) : k = 1
      <3>1. Len(c.topics) = 1
        BY <1>3, <1>10
      <3> QED BY <3>1
    <2>5. Answered(m)
      <3>1. Unsubs(m.n, m.topic) /\ m.topic \in Topics
        BY <1>3, <1>5, <1>10, <2>2, <2>4 DEF Unsubs
      <3> QED BY <2>2, <3>1 DEF Answered
    <2>6. Gives(<<m>>, 1)
      BY <1>4, <1>7, <2>1, <2>2, <2>3, <2>5, ServesOne DEF c
    <2>7. srv'.topics = srv.topics \ {m.topic}
      <3>1. Range(c.topics) = {m.topic}
        BY <1>6, <2>2, <2>4
      <3> QED BY <1>4, <1>10, <3>1
    <2>8. GivesUnsubscribe(m)
      BY <1>7, <1>10, <2>2, <2>6, <2>7 DEF GivesUnsubscribe, c
    <2> QED BY <1>4, <2>3, <2>8
  <1>11. CASE c.kind = "subscribe"
    <2> DEFINE messages == Answers(c)
    <2>1. messages = [i \in 1 .. Len(c.topics) |-> Message("subscribe", c.n, c.topics[i],
                                            Cardinality(srv.topics \cup Range(SubSeq(c.topics, 1, i))))]
      BY <1>5, <1>11 DEF Answers
    <2>2. Len(messages) = Len(c.topics)
      BY <1>5, <2>1
    <2>3. \A j \in 1 .. Len(messages) : /\ messages[j].kind = "subscribe" /\ messages[j].n = c.n
                                        /\ messages[j].topic = c.topics[j]
      BY <2>1, <2>2 DEF Message
    <2> HIDE DEF messages
    <2>4. \A j \in 1 .. Len(messages) : Answered(messages[j])
      <3> SUFFICES ASSUME NEW j \in 1 .. Len(messages) PROVE Answered(messages[j])
        OBVIOUS
      <3>1. Names(c.n, c.topics[j]) /\ c.topics[j] \in Topics
        BY <1>3, <1>5, <2>2 DEF Names
      <3>2. Subs(c.n, c.topics[j])
        BY <1>3, <1>11, <3>1 DEF Subs
      <3> QED BY <2>3, <3>1, <3>2 DEF Answered
    <2>5. Gives(messages, 1)
      <3>1. messages \in Seq(Reply) /\ Serves(messages)
        BY <1>4, <1>8 DEF messages
      <3> QED BY <1>7, <2>3, <2>4, <3>1, ServesGives DEF c
    <2>6. srv'.topics = srv.topics \cup {c.topics[k] : k \in 1 .. Len(c.topics)}
      BY <1>4, <1>6, <1>11
    <2>7. GivesSubscribe(messages)
      BY <1>7, <1>11, <2>2, <2>3, <2>5, <2>6 DEF GivesSubscribe, c
    <2>8. messages \in Seq(Reply)
      BY <1>8 DEF messages
    <2> QED BY <1>4, <2>7, <2>8
  <1> QED BY <1>5, <1>9, <1>10, <1>11

LEMMA RejectsForms ==
    ASSUME Types, Live, Numbered, ServerRejects
    PROVE  Types' /\ Live' /\ \E m \in Reply : GivesError(m)
  <1> DEFINE m == Message("error", Waiting[1].n, NoTopic, 0)
  <1>1. /\ srv.in # <<>> /\ srv.in \in Seq(Order) /\ ac.obuf \in Seq(Order)
    BY ContextFields DEF ServerRejects
  <1>2. Head(srv.in) = Waiting[1] /\ Waiting # <<>>
    BY <1>1, FrontOfConcat DEF Waiting
  <1>3. /\ Types' /\ Live' /\ Serves(<<m>>) /\ srv'.topics = srv.topics
    BY <1>2, RejectsSteps
  <1>4. Waiting[1] \in Order /\ Waiting[1].n \in 1 .. Len(issued)
    BY <1>2, GivesForms
  <1>5. m.kind = "error" /\ m.n = Waiting[1].n /\ m.topic = NoTopic
    BY DEF Message
  <1>6. m \in Reply
    <2>1. 0 \in Counts
      BY FS_EmptySet DEF Counts
    <2> QED BY <1>4, <2>1 DEF Message, Reply, Order
  <1>7. m = Message("error", Waiting[1].n, NoTopic, 0)
    OBVIOUS
  <1> HIDE DEF m
  <1>8. Answered(m) /\ UNCHANGED srv.up
    BY <1>3, <1>4, <1>5 DEF Answered, Serves
  <1>9. Gives(<<m>>, 1)
    BY <1>3, <1>5, <1>6, <1>8, ServesOne
  <1> QED BY <1>3, <1>6, <1>7, <1>8, <1>9 DEF GivesError

LEMMA QuitsForms ==
    ASSUME Types, Live, Numbered, ServerQuits
    PROVE  Types' /\ Live' /\ \E m \in Reply : \E d \in Nat : GivesQuit(m, d)
  <1>1. PICK m \in Reply : Quits(m)
    BY QuitsSteps
  <1>2. PICK d \in 1 .. Len(Waiting) : /\ Len(Waiting') = Len(Waiting) - d
                                       /\ \A i \in 1 .. Len(Waiting) - d : Waiting'[i] = Waiting[d + i]
    BY <1>1 DEF Quits
  <1>3. /\ Waiting[1] \in Order /\ Waiting[1].n \in 1 .. Len(issued) /\ Is(Waiting[1].n, "ordinary")
    BY <1>1, GivesForms DEF Quits
  <1>4. m.kind = "reply" /\ m.n = Waiting[1].n /\ m.topic = NoTopic
    BY <1>1 DEF Quits, Message
  <1>5. Answered(m) /\ m # Refusal
    BY <1>3, <1>4 DEF Answered, Refusal, Message
  <1>6. Wire' = Wire \o <<m>>
    <2>1. Append(Wire, m) = Wire \o <<m>>
      BY ContextFields, AppendIsConcat
    <2> QED BY <1>1, <2>1 DEF Quits
  <1>7. d \in Nat /\ d > 0 /\ d \in 0 .. Len(Waiting)
    <2>1. Len(Waiting) \in Nat
      BY ContextFields, LenProperties
    <2> QED BY <2>1
  <1>8. Gives(<<m>>, d)
    <2> DEFINE messages == <<m>>
    <2>1. /\ messages \in Seq(Reply) /\ \A j \in 1 .. Len(messages) : messages[j] = m
          /\ \A i, j \in 1 .. Len(messages) : ~(i < j)
      BY OneMessage
    <2>2. Wire' = Wire \o messages
      BY <1>6
    <2> HIDE DEF messages
    <2>3. /\ Live /\ srv.up /\ UNCHANGED <<ac, issued, ran, told, pc, cb, got>>
          /\ Answered(m) /\ m.n = Waiting[1].n /\ m # Refusal /\ d > 0
      BY <1>1, <1>4, <1>5, <1>7 DEF Quits
    <2>4. Gives(messages, d)
      BY ONLY <1>2, <1>7, <2>1, <2>2, <2>3 DEF Gives
    <2> QED BY <2>4 DEF messages
  <1> QED BY <1>1, <1>4, <1>7, <1>8, QuitsSteps DEF GivesQuit, Quits

LEMMA PublishesForms ==
    ASSUME Types, Live, Numbered, NEW t \in Topics, ServerPublishes(t)
    PROVE  Types' /\ Live' /\ \E m \in Reply : GivesMessage(m)
  <1> DEFINE m == Message("message", 0, t, 0)
  <1>1. Types' /\ Live' /\ Publishes(t) /\ srv.up
    BY PublishesSteps
  <1>2. m.kind = "message" /\ m.n = 0 /\ m.topic = t /\ m # Refusal
    BY DEF Message, Refusal
  <1>3. m \in Reply
    <2>1. 0 \in Counts
      BY FS_EmptySet DEF Counts
    <2> QED BY <2>1 DEF Message, Reply
  <1>4. Wire' = Append(Wire, m)
    BY <1>1 DEF Publishes
  <1> HIDE DEF m
  <1>5. Answered(m)
    BY <1>2 DEF Answered
  <1>6. Wire' = Wire \o <<m>>
    <2>1. Append(Wire, m) = Wire \o <<m>>
      BY <1>3, ContextFields, AppendIsConcat
    <2> QED BY <1>4, <2>1
  <1>7. Len(Waiting) \in Nat /\ \A i \in 1 .. Len(Waiting) : 0 + i = i
    BY ContextFields, LenProperties
  <1>8. Gives(<<m>>, 0)
    <2>1. UNCHANGED <<ac, Waiting, issued, ran, told, pc, cb, got>>
      BY <1>1 DEF Publishes
    <2>2. /\ Len(Waiting') = Len(Waiting) - 0 /\ \A i \in 1 .. Len(Waiting) - 0 : Waiting'[i] = Waiting[0 + i]
          /\ 0 \in 0 .. Len(Waiting)
      BY <1>7, <2>1
    <2> QED BY <1>1, <1>2, <1>3, <1>5, <1>6, <2>1, <2>2 DEF Gives
  <1> QED BY <1>1, <1>2, <1>3, <1>8 DEF GivesMessage, Publishes

LEMMA ClosesForms ==
    ASSUME Types, Live, Numbered, NEW refuses \in BOOLEAN, ServerCloses(refuses)
    PROVE  Types' /\ Live' /\ \E messages \in Seq(Reply) : GivesUp(messages)
  <1>1. Types' /\ Live' /\ Closes
    BY ClosesSteps
  <1>2. Refusal \in Reply
    <2>1. 0 \in Counts
      BY FS_EmptySet DEF Counts
    <2> QED BY <2>1 DEF Message, Reply, Refusal
  <1>3. Len(Waiting) \in Nat /\ \A i \in 1 .. Len(Waiting) : 0 + i = i
    BY ContextFields, LenProperties
  <1>4. PICK messages \in Seq(Reply) : /\ Wire' = Wire \o messages
                                       /\ messages = <<>> \/ (messages = <<Refusal>> /\ issued = <<>>)
    <2>1. CASE Wire' = Wire
      <3>1. Wire \o <<>> = Wire /\ <<>> \in Seq(Reply)
        BY ContextFields, ConcatEmptySeq
      <3> QED BY <2>1, <3>1
    <2>2. CASE Wire' = Append(Wire, Refusal) /\ issued = <<>>
      <3>1. Append(Wire, Refusal) = Wire \o <<Refusal>> /\ <<Refusal>> \in Seq(Reply)
        BY <1>2, ContextFields, AppendIsConcat
      <3> QED BY <2>2, <3>1
    <2> QED BY <1>1, <2>1, <2>2 DEF Closes
  <1>5. \A j \in 1 .. Len(messages) : Answered(messages[j]) /\ messages[j].n = 0
    <2>1. CASE messages = <<>>
      BY <2>1
    <2>2. CASE messages = <<Refusal>>
      BY <2>2 DEF Answered, Refusal, Message
    <2> QED BY <1>4, <2>1, <2>2
  <1>6. \A i, j \in 1 .. Len(messages) : ~(i < j)
    <2>1. CASE messages = <<>>
      <3>1. Len(messages) = 0
        BY <2>1, EmptySeq, Zenon
      <3> QED BY <3>1
    <2>2. CASE messages = <<Refusal>>
      BY <1>2, <2>2, OneMessage, Zenon
    <2> QED BY <1>4, <2>1, <2>2
  <1>7. Gives(messages, 0)
    <2>1. UNCHANGED <<ac, Waiting, issued, ran, told, pc, cb, got>> /\ srv.up /\ srv'.up = FALSE /\ Live
      BY <1>1 DEF Closes
    <2>2. /\ Len(Waiting') = Len(Waiting) - 0 /\ \A i \in 1 .. Len(Waiting) - 0 : Waiting'[i] = Waiting[0 + i]
          /\ 0 \in 0 .. Len(Waiting)
      BY <1>3, <2>1
    <2>3. Wire' = Wire \o messages
      BY <1>4
    <2> QED BY ONLY messages \in Seq(Reply), <1>5, <1>6, <2>1, <2>2, <2>3 DEF Gives
  <1> QED BY <1>1, <1>4, <1>7 DEF GivesUp, Closes

-----------------------------------------------------------------------------
\* The confirmations that are still to come, counted.

LEMMA OnWireFinite ==
    ASSUME NEW S, NEW w \in Seq(S), NEW t
    PROVE  IsFiniteSet(OnWire(w, t)) /\ Cardinality(OnWire(w, t)) \in Nat
  <1>1. Len(w) \in Nat
    BY LenProperties
  <1>2. IsFiniteSet(1 .. Len(w)) /\ OnWire(w, t) \in SUBSET (1 .. Len(w))
    BY <1>1, FS_Interval DEF OnWire
  <1>3. IsFiniteSet(OnWire(w, t))
    BY <1>2, FS_Subset
  <1> QED BY <1>3, FS_CardinalityType

\* A set of places, all moved by the same amount.
LEMMA Moved ==
    ASSUME NEW A \in SUBSET Int, IsFiniteSet(A), NEW d \in Int
    PROVE  /\ IsFiniteSet({i + d : i \in A})
           /\ Cardinality({i + d : i \in A}) = Cardinality(A)
  <1> DEFINE B == {i + d : i \in A}
             f == [i \in A |-> i + d]
  <1>1. \A i, j \in A : i + d = j + d => i = j
    OBVIOUS
  <1>2. f \in Bijection(A, B)
    BY <1>1 DEF Bijection, Injection, Surjection, IsInjective
  <1>3. ExistsBijection(A, B)
    BY <1>2 DEF ExistsBijection
  <1> QED BY <1>3, FS_Bijection

LEMMA OnWireTail ==
    ASSUME NEW S, NEW w \in Seq(S), w # <<>>, NEW t
    PROVE  Cardinality(OnWire(Tail(w), t)) =
              Cardinality(OnWire(w, t)) - (IF Confirms(w[1], t) THEN 1 ELSE 0)
  <1> DEFINE A == OnWire(Tail(w), t)
             B == {i + 1 : i \in A}
  <1>1. /\ Tail(w) \in Seq(S) /\ Len(w) \in Nat \ {0} /\ Len(Tail(w)) = Len(w) - 1
        /\ \A i \in 1 .. Len(w) - 1 : Tail(w)[i] = w[i + 1]
    BY HeadTailProperties, EmptySeq
  <1>2. IsFiniteSet(A) /\ A \in SUBSET Int
    <2> DEFINE v == Tail(w)
    <2>1. v \in Seq(S) /\ Len(v) \in Nat
      BY <1>1
    <2> HIDE DEF v
    <2>2. IsFiniteSet(OnWire(v, t)) /\ OnWire(v, t) \in SUBSET Int
      <3>1. IsFiniteSet(OnWire(v, t))
        BY <2>1, OnWireFinite
      <3>2. OnWire(v, t) \subseteq 1 .. Len(v)
        BY DEF OnWire
      <3>3. 1 .. Len(v) \subseteq Int
        BY <2>1
      <3> QED BY <3>1, <3>2, <3>3
    <2> QED BY <2>2 DEF v
  <1>3. Cardinality(B) = Cardinality(A)
    <2> HIDE DEF A
    <2>1. 1 \in Int
      OBVIOUS
    <2> QED BY <1>2, <2>1, Moved
  <1>4. B = OnWire(w, t) \ {1}
    <2>1. ASSUME NEW i \in A PROVE i + 1 \in OnWire(w, t) /\ i + 1 # 1
      BY <1>1 DEF OnWire
    <2>2. ASSUME NEW j \in OnWire(w, t), j # 1 PROVE j - 1 \in A /\ (j - 1) + 1 = j
      <3>1. j \in 1 .. Len(w) /\ Confirms(w[j], t)
        BY DEF OnWire
      <3>2. j - 1 \in 1 .. Len(w) - 1 /\ (j - 1) + 1 = j
        BY <1>1, <2>2, <3>1
      <3> QED BY <1>1, <3>1, <3>2 DEF OnWire
    <2> HIDE DEF A
    <2> QED BY <2>1, <2>2
  <1>5. 1 \in OnWire(w, t) <=> Confirms(w[1], t)
    BY <1>1 DEF OnWire
  <1>6. IsFiniteSet(OnWire(w, t)) /\ Cardinality(OnWire(w, t)) \in Nat
    BY OnWireFinite
  <1>7. Cardinality(OnWire(w, t) \ {1}) = IF 1 \in OnWire(w, t) THEN Cardinality(OnWire(w, t)) - 1
                                          ELSE Cardinality(OnWire(w, t))
    BY <1>6, FS_RemoveElement
  <1> HIDE DEF A, B
  <1>8. Cardinality(A) = Cardinality(OnWire(w, t)) - (IF Confirms(w[1], t) THEN 1 ELSE 0)
    BY <1>3, <1>4, <1>5, <1>6, <1>7
  <1> QED BY <1>8 DEF A

LEMMA OnWireConcat ==
    ASSUME NEW S, NEW w \in Seq(S), NEW v \in Seq(S), NEW t
    PROVE  Cardinality(OnWire(w \o v, t)) = Cardinality(OnWire(w, t)) + Cardinality(OnWire(v, t))
  <1> DEFINE L == Len(w)
             A == OnWire(w, t)
             B == {j + L : j \in OnWire(v, t)}
  <1>1. /\ L \in Nat /\ Len(v) \in Nat /\ w \o v \in Seq(S) /\ Len(w \o v) = L + Len(v)
        /\ \A i \in 1 .. L + Len(v) : (w \o v)[i] = IF i <= L THEN w[i] ELSE v[i - L]
    BY ConcatProperties, LenProperties
  <1>2. /\ IsFiniteSet(A) /\ Cardinality(A) \in Nat /\ A \subseteq 1 .. L
        /\ IsFiniteSet(OnWire(v, t)) /\ Cardinality(OnWire(v, t)) \in Nat /\ OnWire(v, t) \subseteq 1 .. Len(v)
    BY OnWireFinite DEF OnWire
  <1>3. /\ IsFiniteSet(B) /\ Cardinality(B) = Cardinality(OnWire(v, t))
    <2>1. OnWire(v, t) \in SUBSET Int /\ L \in Int
      BY <1>1, <1>2
    <2> QED BY <1>2, <2>1, Moved
  <1>4. A \cap B = {}
    BY <1>1, <1>2
  <1>5. OnWire(w \o v, t) = A \cup B
    <2>1. ASSUME NEW i \in A PROVE i \in OnWire(w \o v, t)
      <3>1. i \in 1 .. L /\ Confirms(w[i], t)
        BY DEF OnWire
      <3>2. i \in 1 .. L + Len(v) /\ i <= L
        BY <1>1, <3>1
      <3> QED BY <1>1, <3>1, <3>2 DEF OnWire
    <2>2. ASSUME NEW j \in OnWire(v, t) PROVE j + L \in OnWire(w \o v, t)
      <3>1. j \in 1 .. Len(v) /\ Confirms(v[j], t)
        BY DEF OnWire
      <3>2. j + L \in 1 .. L + Len(v) /\ ~(j + L <= L) /\ j + L - L = j
        BY <1>1, <3>1
      <3> QED BY <1>1, <3>1, <3>2 DEF OnWire
    <2>3. ASSUME NEW i \in OnWire(w \o v, t) PROVE i \in A \cup B
      <3>1. i \in 1 .. L + Len(v) /\ Confirms((w \o v)[i], t)
        BY <1>1 DEF OnWire
      <3>2. CASE i <= L
        <4>1. i \in 1 .. L /\ Confirms(w[i], t)
          BY <1>1, <3>1, <3>2
        <4> QED BY <4>1 DEF OnWire
      <3>3. CASE ~(i <= L)
        <4>1. i - L \in 1 .. Len(v) /\ Confirms(v[i - L], t) /\ (i - L) + L = i
          BY <1>1, <3>1, <3>3
        <4>2. i - L \in OnWire(v, t)
          BY <4>1 DEF OnWire
        <4>3. (i - L) + L \in B
          BY <4>2
        <4> QED BY <4>1, <4>3
      <3> QED BY <3>2, <3>3
    <2> HIDE DEF A, L
    <2> QED BY <2>1, <2>2, <2>3
  <1> HIDE DEF A, B
  <1>6. Cardinality(A \cup B) = Cardinality(A) + Cardinality(B) - Cardinality({})
    BY <1>2, <1>3, <1>4, FS_Union
  <1>7. Cardinality(OnWire(w \o v, t)) = Cardinality(A) + Cardinality(B)
    BY <1>2, <1>3, <1>5, <1>6, FS_EmptySet
  <1> QED BY <1>3, <1>7 DEF A

\* The confirmations of the commands that have no answer.
LEMMA BehindIn ==
    ASSUME NEW t, NEW x
    PROVE  x \in Behind(t) <=> \E n \in 1 .. Len(issued) : \E k \in Places(n, t) :
              x = <<n, k>> /\ Awaited(n) /\ Is(n, "subscribe")
  BY DEF Behind

LEMMA PlacesFinite ==
    ASSUME NEW list, Len(list) \in Nat, NEW t, NEW n
    PROVE  /\ IsFiniteSet(Spots(list, t, Len(list))) /\ Cardinality(Spots(list, t, Len(list))) \in Nat
           /\ IsFiniteSet({n} \X Spots(list, t, Len(list)))
           /\ Cardinality({n} \X Spots(list, t, Len(list))) = Cardinality(Spots(list, t, Len(list)))
  <1>1. IsFiniteSet(Spots(list, t, Len(list))) /\ Cardinality(Spots(list, t, Len(list))) \in Nat
    BY SpotsGrow
  <1>2. IsFiniteSet({n}) /\ Cardinality({n}) = 1
    BY FS_Singleton
  <1>3. \A A : IsFiniteSet(A) => /\ IsFiniteSet({n} \X A)
                                 /\ Cardinality({n} \X A) = Cardinality({n}) * Cardinality(A)
    BY <1>2, FS_Product
  <1>4. \A c \in Nat : 1 * c = c
    OBVIOUS
  <1> QED BY <1>1, <1>2, <1>3, <1>4

LEMMA BehindFinite ==
    ASSUME Types, NEW t
    PROVE  IsFiniteSet(Behind(t)) /\ Cardinality(Behind(t)) \in Nat
  <1> DEFINE A == {m \in 1 .. Len(issued) : Awaited(m) /\ Is(m, "subscribe")}
             F == {{n} \X Places(n, t) : n \in A}
             f == [n \in A |-> {n} \X Places(n, t)]
  <1>1. issued \in Seq(Issued) /\ Len(issued) \in Nat
    BY LenProperties DEF Types
  <1>2. IsFiniteSet(A)
    <2>1. IsFiniteSet(1 .. Len(issued)) /\ A \in SUBSET (1 .. Len(issued))
      BY <1>1, FS_Interval
    <2> QED BY <2>1, FS_Subset
  <1>3. IsFiniteSet(F)
    <2>1. f \in Surjection(A, F)
      <3> HIDE DEF A
      <3> QED BY DEF Surjection
    <2> HIDE DEF A, F, f
    <2> QED BY <1>2, <2>1, FS_Surjection
  <1>4. ASSUME NEW T \in F PROVE IsFiniteSet(T)
    <2>1. PICK n \in A : T = {n} \X Places(n, t)
      OBVIOUS
    <2>2. n \in 1 .. Len(issued)
      OBVIOUS
    <2>3. Len(issued[n].topics) \in Nat
      <3>1. issued[n] \in Issued
        BY <1>1, <2>2, ElementOfSeq
      <3>2. issued[n].topics \in Seq(Topics)
        BY <3>1 DEF Issued
      <3> QED BY <3>2, LenProperties
    <2> QED BY <2>1, <2>3, PlacesFinite DEF Places
  <1>5. Behind(t) = UNION F
    BY DEF Behind
  <1> HIDE DEF A, F
  <1>6. IsFiniteSet(Behind(t))
    BY <1>3, <1>4, <1>5, FS_UNION
  <1> QED BY <1>6, FS_CardinalityType

LEMMA AwaitedGives ==
    ASSUME Types, Numbered, NEW messages, NEW d, Gives(messages, d), NEW n \in 1 .. Len(issued), Awaited(n)'
    PROVE  Awaited(n)
  <1>1. /\ Len(Wire) \in Nat
        /\ \A i \in 1 .. Len(Wire) : Wire'[i] = Wire[i]
        /\ \A j \in 1 .. Len(messages) : Wire'[Len(Wire) + j] = messages[j]
        /\ \A i \in 1 .. Len(Wire') : i \in 1 .. Len(Wire) \/ \E j \in 1 .. Len(messages) : i = Len(Wire) + j
        /\ Len(Waiting) \in Nat /\ d \in Nat /\ Len(issued) \in Nat
    BY WireGrows, LenProperties DEF Types
  <1>2. /\ Len(Waiting') = Len(Waiting) - d /\ d <= Len(Waiting)
        /\ \A i \in 1 .. Len(Waiting) - d : Waiting'[i] = Waiting[d + i]
        /\ \A j \in 1 .. Len(messages) : messages[j].n = 0 \/ (d > 0 /\ messages[j].n = Waiting[1].n)
    BY <1>1 DEF Gives
  <1>3. CASE \E i \in 1 .. Len(Waiting') : Waiting'[i].n = n
    <2>1. PICK i \in 1 .. Len(Waiting') : Waiting'[i].n = n
      BY <1>3
    <2>2. d + i \in 1 .. Len(Waiting) /\ Waiting[d + i].n = n
      BY <1>1, <1>2, <2>1
    <2> QED BY <2>2 DEF Awaited
  <1>4. CASE \E i \in 1 .. Len(Wire') : Wire'[i].kind = "error" /\ Wire'[i].n = n
    <2>1. PICK i \in 1 .. Len(Wire') : Wire'[i].kind = "error" /\ Wire'[i].n = n
      BY <1>4
    <2>2. CASE i \in 1 .. Len(Wire)
      BY <1>1, <2>1, <2>2 DEF Awaited
    <2>3. CASE \E j \in 1 .. Len(messages) : i = Len(Wire) + j
      <3>1. PICK j \in 1 .. Len(messages) : i = Len(Wire) + j
        BY <2>3
      <3>2. messages[j].n = n /\ n # 0
        BY <1>1, <2>1, <3>1
      <3>3. 1 \in 1 .. Len(Waiting) /\ Waiting[1].n = n
        BY <1>1, <1>2, <3>2
      <3> QED BY <3>3 DEF Awaited
    <2> QED BY <1>1, <2>2, <2>3
  <1> QED BY <1>3, <1>4 DEF Awaited

LEMMA AwaitedTakes ==
    ASSUME Types, Takes, NEW n, Awaited(n)'
    PROVE  Awaited(n)
  <1>1. /\ \A i \in 1 .. Len(Wire') : i + 1 \in 1 .. Len(Wire) /\ Wire'[i] = Wire[i + 1]
        /\ Waiting' = Waiting
    BY WireShrinks DEF Takes
  <1>2. CASE \E i \in 1 .. Len(Waiting') : Waiting'[i].n = n
    BY <1>1, <1>2 DEF Awaited
  <1>3. CASE \E i \in 1 .. Len(Wire') : Wire'[i].kind = "error" /\ Wire'[i].n = n
    BY <1>1, <1>3 DEF Awaited
  <1> QED BY <1>2, <1>3 DEF Awaited

\* Fewer commands that are awaited, fewer confirmations behind them.
LEMMA BehindShrinks ==
    ASSUME Types, issued' = issued, \A n \in 1 .. Len(issued) : Awaited(n)' => Awaited(n), NEW t
    PROVE  /\ Behind(t)' \subseteq Behind(t) /\ IsFiniteSet(Behind(t)')
           /\ Cardinality(Behind(t)') \in Nat /\ Cardinality(Behind(t)') <= Cardinality(Behind(t))
           /\ \A n \in 1 .. Len(issued) : Is(n, "subscribe") /\ Awaited(n) /\ ~Awaited(n)' =>
                 Cardinality(Places(n, t)) + Cardinality(Behind(t)') <= Cardinality(Behind(t))
  <1>1. \A x : x \in Behind(t)' <=> \E n \in 1 .. Len(issued) : \E k \in Places(n, t) :
              x = <<n, k>> /\ Awaited(n)' /\ Is(n, "subscribe")
    BY DEF Behind, Places, Is
  <1>2. \A x : x \in Behind(t) <=> \E n \in 1 .. Len(issued) : \E k \in Places(n, t) :
              x = <<n, k>> /\ Awaited(n) /\ Is(n, "subscribe")
    BY BehindIn
  <1>3. Behind(t)' \subseteq Behind(t)
    BY <1>1, <1>2
  <1>4. IsFiniteSet(Behind(t)) /\ Cardinality(Behind(t)) \in Nat
    BY BehindFinite
  <1>5. /\ IsFiniteSet(Behind(t)') /\ Cardinality(Behind(t)') <= Cardinality(Behind(t))
        /\ Cardinality(Behind(t)') \in Nat
    BY <1>3, <1>4, FS_Subset, FS_CardinalityType
  <1>6. ASSUME NEW n \in 1 .. Len(issued), Is(n, "subscribe"), Awaited(n), ~Awaited(n)'
        PROVE  Cardinality(Places(n, t)) + Cardinality(Behind(t)') <= Cardinality(Behind(t))
    <2> DEFINE P == {n} \X Places(n, t)
    <2>1. \A x \in P : x[1] = n /\ \E k \in Places(n, t) : x = <<n, k>>
      OBVIOUS
    <2>2. P \subseteq Behind(t)
      BY <1>2, <1>6, <2>1
    <2>3. P \cap Behind(t)' = {}
      <3>1. ASSUME NEW x \in P, x \in Behind(t)' PROVE FALSE
        <4>1. PICK m \in 1 .. Len(issued) : \E k \in Places(m, t) : x = <<m, k>> /\ Awaited(m)'
          BY <1>1, <3>1
        <4>2. x[1] = m
          BY <4>1
        <4>3. x[1] = n
          BY <2>1, <3>1
        <4> QED BY <1>6, <4>1, <4>2, <4>3
      <3> QED BY <3>1
    <2>4. IsFiniteSet(P) /\ Cardinality(P) = Cardinality(Places(n, t)) /\ Cardinality(Places(n, t)) \in Nat
      <3>1. issued[n] \in Issued
        BY ElementOfSeq DEF Types
      <3>2. Len(issued[n].topics) \in Nat
        BY <3>1, LenProperties DEF Issued
      <3> QED BY <3>2, PlacesFinite DEF Places
    <2> HIDE DEF P
    <2>5. P \cup Behind(t)' \in SUBSET Behind(t)
      BY <1>3, <2>2
    <2>6. Cardinality(P \cup Behind(t)') <= Cardinality(Behind(t))
      BY <1>4, <2>5, FS_Subset
    <2>7. Cardinality(P \cup Behind(t)') = Cardinality(P) + Cardinality(Behind(t)') - Cardinality({})
      BY <1>5, <2>3, <2>4, FS_Union
    <2>8. Cardinality({}) = 0
      BY FS_EmptySet
    <2> QED BY <1>4, <1>5, <2>4, <2>6, <2>7, <2>8
  <1> QED BY <1>3, <1>5, <1>6

LEMMA CountedGives ==
    ASSUME Types, Numbered, Counted, NEW messages \in Seq(Reply), NEW d, Gives(messages, d),
           \/ \A t \in Topics : OnWire(messages, t) = {}
           \/ GivesSubscribe(messages)
    PROVE  Counted'
  <1> SUFFICES ASSUME NEW t \in Topics
               PROVE  Cardinality(OnWire(Wire', t)) + Cardinality(Behind(t)') <= Pendings(t)'
    BY DEF Counted
  <1>1. Pendings(t)' = Pendings(t) /\ issued' = issued /\ Wire' = Wire \o messages
    BY DEF Gives, Pendings, Subscribed
  <1>2. /\ Cardinality(OnWire(Wire', t)) = Cardinality(OnWire(Wire, t)) + Cardinality(OnWire(messages, t))
        /\ Cardinality(OnWire(Wire, t)) \in Nat /\ Cardinality(OnWire(messages, t)) \in Nat
    <2>1. Wire \in Seq(Reply)
      BY ContextFields
    <2>2. Cardinality(OnWire(Wire \o messages, t)) = Cardinality(OnWire(Wire, t)) + Cardinality(OnWire(messages, t))
      BY <2>1, OnWireConcat
    <2> QED BY <1>1, <2>1, <2>2, OnWireFinite
  <1>3. Cardinality(OnWire(Wire, t)) + Cardinality(Behind(t)) <= Pendings(t)
    BY DEF Counted
  <1>4. Cardinality(Behind(t)) \in Nat /\ Pendings(t) \in Nat
    BY BehindFinite, ContextFields DEF Pendings
  <1>5. \A n \in 1 .. Len(issued) : Awaited(n)' => Awaited(n)
    BY AwaitedGives
  <1>6. Cardinality(Behind(t)') \in Nat /\ Cardinality(Behind(t)') <= Cardinality(Behind(t))
    BY <1>1, <1>5, BehindShrinks
  <1>7. CASE OnWire(messages, t) = {}
    <2>1. Cardinality(OnWire(messages, t)) = 0
      BY <1>7, FS_EmptySet
    <2> QED BY <1>1, <1>2, <1>3, <1>4, <1>6, <2>1
  <1>8. CASE GivesSubscribe(messages)
    <2>1. Waiting # <<>> /\ Waiting[1].kind = "subscribe" /\ Gives(messages, 1)
      <3>1. 1 \in 0 .. Len(Waiting)
        BY <1>8 DEF GivesSubscribe, Gives
      <3>2. Len(<<>>) = 0
        BY EmptySeq
      <3> QED BY <1>8, <3>1, <3>2 DEF GivesSubscribe
    <2>20. /\ Waiting[1].n \in 1 .. Len(issued) /\ Is(Waiting[1].n, "subscribe")
           /\ Waiting[1].topics = issued[Waiting[1].n].topics /\ 1 \in 1 .. Len(Waiting)
      BY <2>1, GivesForms DEF Gives
    <2>2. PICK n \in 1 .. Len(issued) :
             n = Waiting[1].n /\ Is(n, "subscribe") /\ Waiting[1].topics = issued[n].topics
      BY <2>20
    <2>3. Awaited(n)
      BY <2>2, <2>20 DEF Awaited
    <2>4. ~Awaited(n)'
      <3>1. /\ Len(Wire) \in Nat
            /\ \A i \in 1 .. Len(Wire) : Wire'[i] = Wire[i]
            /\ \A j \in 1 .. Len(messages) : Wire'[Len(Wire) + j] = messages[j]
            /\ \A i \in 1 .. Len(Wire') : i \in 1 .. Len(Wire) \/ \E j \in 1 .. Len(messages) : i = Len(Wire) + j
            /\ Len(Waiting) \in Nat /\ Len(issued) \in Nat
        BY WireGrows, LenProperties DEF Types
      <3>2. /\ \A i \in 1 .. Len(Waiting) : Waiting[i].n = Len(issued) - Len(Waiting) + i
            /\ \A i \in 1 .. Len(Wire) : Wire[i].n <= Len(issued) - Len(Waiting)
        <4>1. \A x : Order_(x).n = x
          BY DEF Order_
        <4> QED BY <4>1 DEF Numbered, Queued
      <3>3. ASSUME NEW i \in 1 .. Len(Waiting'), Waiting'[i].n = n PROVE FALSE
        <4>1. i \in 1 .. Len(Waiting) - 1 /\ 1 + i \in 1 .. Len(Waiting) /\ Waiting'[i] = Waiting[1 + i]
          BY <2>1, <3>1 DEF Gives
        <4>2. Waiting'[i].n = Len(issued) - Len(Waiting) + (1 + i) /\ n = Len(issued) - Len(Waiting) + 1
          BY <2>2, <2>20, <3>2, <4>1
        <4> QED BY <3>1, <3>3, <4>1, <4>2
      <3>4. ASSUME NEW i \in 1 .. Len(Wire'), Wire'[i].kind = "error", Wire'[i].n = n PROVE FALSE
        <4>1. CASE i \in 1 .. Len(Wire)
          <5>1. Wire'[i].n <= Len(issued) - Len(Waiting) /\ n = Len(issued) - Len(Waiting) + 1
            BY <2>2, <2>20, <3>1, <3>2, <4>1
          <5> QED BY <3>1, <3>4, <5>1
        <4>2. CASE \E j \in 1 .. Len(messages) : i = Len(Wire) + j
          BY <1>8, <3>1, <3>4, <4>2 DEF GivesSubscribe
        <4> QED BY <3>1, <4>1, <4>2
      <3> QED BY <3>3, <3>4 DEF Awaited
    <2>5. Cardinality(Places(n, t)) + Cardinality(Behind(t)') <= Cardinality(Behind(t))
      BY <1>1, <1>5, <2>2, <2>3, <2>4, BehindShrinks
    <2>6. OnWire(messages, t) = Places(n, t)
      <3>1. Len(messages) = Len(issued[n].topics)
            /\ \A j \in 1 .. Len(messages) : messages[j].kind = "subscribe" /\ messages[j].topic = issued[n].topics[j]
        BY <1>8, <2>2 DEF GivesSubscribe
      <3> QED BY <2>2, <3>1 DEF OnWire, Places, Spots, Confirms
    <2> QED BY <1>1, <1>2, <1>3, <1>4, <1>6, <2>5, <2>6
  <1> QED BY <1>7, <1>8

\* A command that is sent is awaited, with the places of its topics.
LEMMA BehindSends ==
    ASSUME Types, NEW kind \in Kind, NEW topics \in Seq(Topics), Sends(kind, topics), NEW t
    PROVE  Behind(t)' \subseteq Behind(t) \cup
              (IF kind = "subscribe" THEN {Len(issued) + 1} \X Spots(topics, t, Len(topics)) ELSE {})
  <1>1. /\ Len(issued) \in Nat /\ Len(issued') = Len(issued) + 1
        /\ issued'[Len(issued) + 1] =
              [kind |-> kind, topics |-> topics, list |-> IF ac.subscribed THEN "invalid" ELSE "replies"]
        /\ Len(Waiting) \in Nat /\ Len(Waiting') = Len(Waiting) + 1
        /\ \A i \in 1 .. Len(Waiting) : Waiting'[i] = Waiting[i]
        /\ Waiting'[Len(Waiting) + 1] = [kind |-> kind, n |-> Len(issued) + 1, topics |-> topics]
        /\ Wire' = Wire
    BY IssuedGrows
  <1>2. \A n \in 1 .. Len(issued') : n \in 1 .. Len(issued) \/ n = Len(issued) + 1
    BY <1>1
  <1>3. \A x : x \in Behind(t)' <=> \E n \in 1 .. Len(issued') : \E k \in (Places(n, t))' :
              x = <<n, k>> /\ Awaited(n)' /\ Is(n, "subscribe")'
    BY DEF Behind
  <1>4. \A x : x \in Behind(t) <=> \E n \in 1 .. Len(issued) : \E k \in Places(n, t) :
              x = <<n, k>> /\ Awaited(n) /\ Is(n, "subscribe")
    BY BehindIn
  <1>5. ASSUME NEW n \in 1 .. Len(issued), Awaited(n)' PROVE Awaited(n)
    <2>1. CASE \E i \in 1 .. Len(Waiting') : Waiting'[i].n = n
      <3>1. PICK i \in 1 .. Len(Waiting') : Waiting'[i].n = n
        BY <2>1
      <3>2. i \in 1 .. Len(Waiting) \/ i = Len(Waiting) + 1
        BY <1>1
      <3>3. i # Len(Waiting) + 1
        BY <1>1, <3>1
      <3> QED BY <1>1, <3>1, <3>2, <3>3 DEF Awaited
    <2>2. CASE \E i \in 1 .. Len(Wire') : Wire'[i].kind = "error" /\ Wire'[i].n = n
      BY <1>1, <2>2 DEF Awaited
    <2> QED BY <1>5, <2>1, <2>2 DEF Awaited
  <1> SUFFICES ASSUME NEW x \in Behind(t)', x \notin Behind(t)
               PROVE  kind = "subscribe" /\ x \in {Len(issued) + 1} \X Spots(topics, t, Len(topics))
    OBVIOUS
  <1>6. PICK n \in 1 .. Len(issued') : \E k \in (Places(n, t))' : x = <<n, k>> /\ Awaited(n)' /\ Is(n, "subscribe")'
    BY <1>3
  <1>7. ASSUME n \in 1 .. Len(issued) PROVE FALSE
    <2>1. issued'[n] = issued[n] /\ Is(n, "subscribe")
      BY <1>6, <1>7, IssuedStays
    <2>2. (Places(n, t))' = Places(n, t)
      BY <2>1 DEF Places
    <2> QED BY <1>4, <1>5, <1>6, <1>7, <2>1, <2>2
  <1>8. n = Len(issued) + 1
    BY <1>2, <1>7
  <1>9. issued'[n].kind = kind /\ issued'[n].topics = topics
    BY <1>1, <1>8
  <1>10. kind = "subscribe" /\ (Places(n, t))' = Spots(topics, t, Len(topics))
    BY <1>6, <1>9 DEF Is, Places
  <1> QED BY <1>6, <1>8, <1>10

LEMMA PendingsNext == ASSUME Types', NEW t PROVE Pendings(t)' \in Nat
  <1>1. PICK D \in SUBSET Topics : ac'.topics \in [D -> [n : Nat, pending : Nat]]
    BY DEF Types, Context, Tables
  <1>2. Subscribed' = D
    BY <1>1 DEF Subscribed
  <1>3. t \in D => ac'.topics[t].pending \in Nat
    BY <1>1
  <1> QED BY <1>2, <1>3 DEF Pendings

LEMMA CountedSends ==
    ASSUME Types, Counted, NEW kind \in Kind, NEW topics \in Seq(Topics), Sends(kind, topics), Types',
           \A t \in Topics : Pendings(t)' >= Pendings(t)
              + (IF kind = "subscribe" THEN Cardinality(Spots(topics, t, Len(topics))) ELSE 0)
    PROVE  Counted'
  <1> SUFFICES ASSUME NEW t \in Topics
               PROVE  Cardinality(OnWire(Wire', t)) + Cardinality(Behind(t)') <= Pendings(t)'
    BY DEF Counted
  <1> DEFINE P == {Len(issued) + 1} \X Spots(topics, t, Len(topics))
             C == Cardinality(Spots(topics, t, Len(topics)))
             more == IF kind = "subscribe" THEN C ELSE 0
  <1>1. Wire' = Wire /\ Wire \in Seq(Reply) /\ Len(topics) \in Nat
    BY ContextFields, LenProperties DEF Sends
  <1>2. Cardinality(OnWire(Wire, t)) \in Nat
    BY <1>1, OnWireFinite
  <1>3. IsFiniteSet(P) /\ Cardinality(P) = C /\ C \in Nat
    BY <1>1, PlacesFinite
  <1>4. IsFiniteSet(Behind(t)) /\ Cardinality(Behind(t)) \in Nat
    BY BehindFinite
  <1>5. Cardinality(OnWire(Wire, t)) + Cardinality(Behind(t)) <= Pendings(t) /\ Pendings(t)' >= Pendings(t) + more
    BY DEF Counted
  <1>6. Pendings(t) \in Nat
    BY ContextFields DEF Pendings
  <1>60. Pendings(t)' \in Nat
    BY PendingsNext
  <1>7. Behind(t)' \subseteq Behind(t) \cup (IF kind = "subscribe" THEN P ELSE {})
    BY BehindSends
  <1> HIDE DEF P, C
  <1>8. Cardinality(Behind(t)') <= Cardinality(Behind(t)) + more /\ Cardinality(Behind(t)') \in Nat
    <2>1. CASE kind = "subscribe"
      <3>1. Behind(t)' \in SUBSET (Behind(t) \cup P)
        BY <1>7, <2>1
      <3>2. IsFiniteSet(Behind(t) \cup P) /\ IsFiniteSet(Behind(t) \cap P)
            /\ Cardinality(Behind(t) \cup P) = Cardinality(Behind(t)) + Cardinality(P) - Cardinality(Behind(t) \cap P)
        BY <1>3, <1>4, FS_Union, FS_Intersection
      <3>3. Cardinality(Behind(t) \cap P) \in Nat
        BY <3>2, FS_CardinalityType
      <3>4. IsFiniteSet(Behind(t)') /\ Cardinality(Behind(t)') <= Cardinality(Behind(t) \cup P)
        BY <3>1, <3>2, FS_Subset
      <3>5. Cardinality(Behind(t)') \in Nat
        BY <3>4, FS_CardinalityType
      <3> QED BY <1>3, <1>4, <2>1, <3>2, <3>3, <3>4, <3>5
    <2>2. CASE kind # "subscribe"
      <3>1. Behind(t)' \in SUBSET Behind(t)
        BY <1>7, <2>2
      <3>2. IsFiniteSet(Behind(t)') /\ Cardinality(Behind(t)') <= Cardinality(Behind(t))
        BY <1>4, <3>1, FS_Subset
      <3>3. Cardinality(Behind(t)') \in Nat
        BY <3>2, FS_CardinalityType
      <3> QED BY <1>4, <2>2, <3>2, <3>3
    <2> QED BY <2>1, <2>2
  <1>9. more \in Nat
    BY <1>3
  <1> HIDE DEF more
  <1> QED BY <1>1, <1>2, <1>4, <1>5, <1>6, <1>60, <1>8, <1>9

LEMMA CountedTakes ==
    ASSUME Types, Counted, Takes, Types',
           \A t \in Topics : Pendings(t)' >= Pendings(t) - (IF Confirms(Wire[1], t) THEN 1 ELSE 0)
    PROVE  Counted'
  <1> SUFFICES ASSUME NEW t \in Topics
               PROVE  Cardinality(OnWire(Wire', t)) + Cardinality(Behind(t)') <= Pendings(t)'
    BY DEF Counted
  <1> DEFINE less == IF Confirms(Wire[1], t) THEN 1 ELSE 0
  <1>1. Wire \in Seq(Reply) /\ Wire # <<>> /\ Wire' = Tail(Wire) /\ issued' = issued
    BY ContextFields DEF Takes
  <1>2. Cardinality(OnWire(Wire', t)) = Cardinality(OnWire(Wire, t)) - less
        /\ Cardinality(OnWire(Wire, t)) \in Nat
    BY <1>1, OnWireTail, OnWireFinite
  <1>3. Cardinality(Behind(t)) \in Nat
    BY BehindFinite
  <1>4. \A n \in 1 .. Len(issued) : Awaited(n)' => Awaited(n)
    BY AwaitedTakes
  <1>5. Cardinality(Behind(t)') \in Nat /\ Cardinality(Behind(t)') <= Cardinality(Behind(t))
    BY <1>1, <1>4, BehindShrinks
  <1>6. Cardinality(OnWire(Wire, t)) + Cardinality(Behind(t)) <= Pendings(t) /\ Pendings(t)' >= Pendings(t) - less
    BY DEF Counted
  <1>7. Pendings(t) \in Nat
    BY ContextFields DEF Pendings
  <1>8. Pendings(t)' \in Nat
    BY PendingsNext
  <1>9. less \in Int
    OBVIOUS
  <1> HIDE DEF less
  <1> QED BY <1>2, <1>3, <1>5, <1>6, <1>7, <1>8, <1>9

-----------------------------------------------------------------------------
\* What the server publishes to has a callback.

\* An unsubscription of a topic, the server's last word on it unless a
\* confirmation follows.
LEMMA HeardGives ==
    ASSUME Types, Numbered, Counted, Heard, Renewed, NEW messages \in Seq(Reply), NEW d, Gives(messages, d),
           \/ /\ UNCHANGED srv.topics
              /\ \A j \in 1 .. Len(messages) : messages[j].kind \notin {"subscribe", "unsubscribe"}
           \/ GivesSubscribe(messages)
           \/ \E m \in Reply : messages = <<m>> /\ GivesUnsubscribe(m)
    PROVE  Counted' /\ Heard' /\ Renewed'
  <1> DEFINE L == Len(Wire)
  <1>1. /\ L \in Nat /\ Len(messages) \in Nat /\ Len(Wire') = L + Len(messages)
        /\ \A i \in 1 .. L : Wire'[i] = Wire[i]
        /\ \A j \in 1 .. Len(messages) : Wire'[L + j] = messages[j]
        /\ \A i \in 1 .. Len(Wire') : i \in 1 .. L \/ \E j \in 1 .. Len(messages) : i = L + j
    BY WireGrows
  <1>2. UNCHANGED <<ac, issued>>
    BY DEF Gives
  <1>3. ASSUME NEW m \in Reply, messages = <<m>>, GivesUnsubscribe(m), NEW j \in 1 .. Len(messages)
        PROVE  /\ messages[j].kind = "unsubscribe" /\ messages[j].topic = m.topic
               /\ srv'.topics = srv.topics \ {m.topic}
    <2>1. messages[j] = m
      BY <1>3, OneMessage
    <2> QED BY <1>3, <2>1 DEF GivesUnsubscribe
  <1>4. Counted'
    <2>1. CASE GivesSubscribe(messages)
      BY <2>1, CountedGives
    <2>2. CASE ~GivesSubscribe(messages)
      <3>1. \A j \in 1 .. Len(messages) : messages[j].kind # "subscribe"
        BY <1>3, <2>2
      <3>2. \A t \in Topics : OnWire(messages, t) = {}
        BY <3>1 DEF OnWire, Confirms
      <3> QED BY <3>2, CountedGives
    <2> QED BY <2>1, <2>2
  <1>5. Heard'
    <2>1. CASE UNCHANGED srv.topics
      BY <1>2, <2>1 DEF Heard, Subscribed
    <2>2. CASE GivesSubscribe(messages)
      <3>1. Waiting # <<>> /\ Waiting[1].kind = "subscribe"
        <4>1. 1 \in 0 .. Len(Waiting)
          BY <2>2 DEF GivesSubscribe, Gives
        <4>2. Len(<<>>) = 0
          BY EmptySeq
        <4> QED BY <2>2, <4>1, <4>2 DEF GivesSubscribe
      <3>2. /\ Waiting[1].n \in 1 .. Len(issued) /\ Is(Waiting[1].n, "subscribe")
            /\ Waiting[1].topics = issued[Waiting[1].n].topics /\ 1 \in 1 .. Len(Waiting)
            /\ Waiting[1].topics \in Seq(Topics)
        <4>1. Waiting[1] \in Order /\ Live
          BY <3>1, GivesForms DEF Gives
        <4> QED BY <3>1, <4>1, GivesForms DEF Order
      <3>3. ASSUME NEW k \in 1 .. Len(Waiting[1].topics) PROVE Waiting[1].topics[k] \in Subscribed
        <4> DEFINE t == Waiting[1].topics[k]
                   n == Waiting[1].n
        <4>1. k \in Places(n, t) /\ t \in Topics
          BY <3>2, ElementOfSeq DEF Places, Spots
        <4>2. Awaited(n)
          BY <3>2 DEF Awaited
        <4> HIDE DEF t
        <4>3. <<n, k>> \in Behind(t)
          BY <3>2, <4>1, <4>2, BehindIn
        <4>4. Cardinality(Behind(t)) \in Nat /\ Cardinality(Behind(t)) # 0
          BY <4>3, BehindFinite, FS_EmptySet
        <4>5. Cardinality(OnWire(Wire, t)) \in Nat
          BY ContextFields, OnWireFinite
        <4>6. Cardinality(OnWire(Wire, t)) + Cardinality(Behind(t)) <= Pendings(t)
          BY <4>1 DEF Counted
        <4>7. Pendings(t) # 0
          BY <4>4, <4>5, <4>6
        <4>8. t \in Subscribed
          BY <4>7 DEF Pendings
        <4> QED BY <4>8 DEF t
      <3> QED BY <1>2, <2>2, <3>3 DEF Heard, Subscribed, GivesSubscribe
    <2>3. CASE \E m \in Reply : messages = <<m>> /\ GivesUnsubscribe(m)
      BY <1>2, <2>3 DEF Heard, Subscribed, GivesUnsubscribe
    <2> QED BY <2>1, <2>2, <2>3
  <1>6. Renewed'
    <2> SUFFICES ASSUME NEW t \in srv'.topics, NEW i \in 1 .. Len(Wire'),
                        Wire'[i].kind = "unsubscribe", Wire'[i].topic = t
                 PROVE  \E k \in 1 .. Len(Wire') : i < k /\ Confirms(Wire'[k], t)
      BY DEF Renewed, Confirms
    <2>1. CASE t \in srv.topics /\ i \in 1 .. L
      <3>1. PICK k \in 1 .. L : i < k /\ Confirms(Wire[k], t)
        BY <1>1, <2>1 DEF Renewed
      <3>2. k \in 1 .. Len(Wire') /\ Wire'[k] = Wire[k]
        BY <1>1
      <3> QED BY <3>1, <3>2
    <2>2. ASSUME i \notin 1 .. L PROVE FALSE
      <3>1. PICK j \in 1 .. Len(messages) : i = L + j
        BY <1>1, <2>2
      <3>2. messages[j].kind = "unsubscribe" /\ messages[j].topic = t
        BY <1>1, <3>1
      <3>3. ~GivesSubscribe(messages)
        BY <3>2 DEF GivesSubscribe
      <3>4. PICK m \in Reply : messages = <<m>> /\ GivesUnsubscribe(m)
        BY <3>2, <3>3
      <3> QED BY <1>3, <3>2, <3>4
    <2>3. CASE t \notin srv.topics
      <3>1. GivesSubscribe(messages)
        <4>1. ~\E m \in Reply : messages = <<m>> /\ GivesUnsubscribe(m)
          BY <2>3 DEF GivesUnsubscribe
        <4> QED BY <2>3, <4>1
      <3>2. PICK k \in 1 .. Len(Waiting[1].topics) : t = Waiting[1].topics[k]
        BY <2>3, <3>1 DEF GivesSubscribe
      <3>3. k \in 1 .. Len(messages) /\ Confirms(messages[k], t)
        BY <3>1, <3>2 DEF GivesSubscribe, Confirms
      <3>4. L + k \in 1 .. Len(Wire') /\ Wire'[L + k] = messages[k] /\ i < L + k
        BY <1>1, <2>2, <3>3
      <3> QED BY <3>3, <3>4
    <2> QED BY <2>1, <2>2, <2>3
  <1> QED BY <1>4, <1>5, <1>6

\* A topic of which a confirmation is on the wire has an entry.
LEMMA Confirmable ==
    ASSUME Types, Counted, NEW i \in 1 .. Len(Wire), NEW t \in Topics, Confirms(Wire[i], t)
    PROVE  Pendings(t) > 0 /\ t \in Subscribed
  <1>1. i \in OnWire(Wire, t)
    BY DEF OnWire
  <1>2. IsFiniteSet(OnWire(Wire, t)) /\ Cardinality(OnWire(Wire, t)) \in Nat
    BY ContextFields, OnWireFinite
  <1>3. Cardinality(OnWire(Wire, t)) # 0
    BY <1>1, <1>2, FS_EmptySet
  <1>4. Cardinality(Behind(t)) \in Nat /\ Pendings(t) \in Nat
    BY BehindFinite, ContextFields DEF Pendings
  <1>5. Cardinality(OnWire(Wire, t)) + Cardinality(Behind(t)) <= Pendings(t)
    BY DEF Counted
  <1>6. Pendings(t) > 0
    BY <1>2, <1>3, <1>4, <1>5
  <1> QED BY <1>6 DEF Pendings

HeardLive == Numbered /\ Counted /\ Heard /\ Renewed /\ Knows

LEMMA HeardServer ==
    ASSUME Types, Live, HeardLive,
           \/ ServerAnswers \/ ServerRejects \/ ServerQuits
           \/ \E t \in Topics : ServerPublishes(t)
           \/ \E refuses \in BOOLEAN : ServerCloses(refuses)
    PROVE  Types' /\ HeardLive'
  <1>1. ASSUME NEW messages \in Seq(Reply), NEW d, Gives(messages, d), Types',
               \/ /\ UNCHANGED srv.topics
                  /\ \A j \in 1 .. Len(messages) : messages[j].kind \notin {"subscribe", "unsubscribe"}
               \/ GivesSubscribe(messages)
               \/ \E m \in Reply : messages = <<m>> /\ GivesUnsubscribe(m)
        PROVE  HeardLive'
    <2>1. srv'.up \in BOOLEAN
      BY <1>1 DEF Types, Server
    <2>2. Numbered'
      BY <1>1, <2>1, NumberedGives DEF HeardLive
    <2>3. Counted' /\ Heard' /\ Renewed'
      BY <1>1, HeardGives DEF HeardLive
    <2>4. Knows'
      BY <1>1 DEF HeardLive, Knows, Gives, Subscribed
    <2> QED BY <2>2, <2>3, <2>4 DEF HeardLive
  <1>2. ASSUME NEW m \in Reply, NEW d, Gives(<<m>>, d), Types', UNCHANGED srv.topics,
               m.kind \notin {"subscribe", "unsubscribe"}
        PROVE  HeardLive'
    <2> DEFINE messages == <<m>>
    <2>1. /\ messages \in Seq(Reply) /\ Gives(messages, d)
          /\ \A j \in 1 .. Len(messages) : messages[j].kind \notin {"subscribe", "unsubscribe"}
      BY <1>2, OneMessage
    <2> HIDE DEF messages
    <2> QED BY <1>1, <1>2, <2>1
  <1>3. Numbered
    BY DEF HeardLive
  <1>4. CASE ServerAnswers
    <2>1. Types'
      BY <1>3, <1>4, AnswersForms
    <2>2. CASE \E m \in Reply : GivesReply(m)
      <3>1. PICK m \in Reply : GivesReply(m)
        BY <2>2
      <3> QED BY <1>2, <2>1, <3>1 DEF GivesReply
    <2>3. CASE \E m \in Reply : GivesUnsubscribe(m)
      <3>1. PICK m \in Reply : GivesUnsubscribe(m)
        BY <2>3
      <3>2. <<m>> \in Seq(Reply) /\ Gives(<<m>>, 1)
        BY <3>1, OneMessage DEF GivesUnsubscribe
      <3> QED BY ONLY <1>1, <2>1, <3>1, <3>2
    <2>4. CASE \E messages \in Seq(Reply) : GivesSubscribe(messages)
      <3>1. PICK messages \in Seq(Reply) : GivesSubscribe(messages)
        BY <2>4
      <3>2. Gives(messages, 1)
        BY <3>1 DEF GivesSubscribe
      <3> QED BY <1>1, <2>1, <3>1, <3>2
    <2> QED BY <1>3, <1>4, <2>1, <2>2, <2>3, <2>4, AnswersForms
  <1>5. CASE ServerRejects
    <2>1. Types' /\ \E m \in Reply : GivesError(m)
      BY <1>3, <1>5, RejectsForms
    <2>2. PICK m \in Reply : GivesError(m)
      BY <2>1
    <2>3. m.kind = "error"
      BY <2>2 DEF GivesError, Message
    <2> QED BY <1>2, <2>1, <2>2, <2>3 DEF GivesError
  <1>6. CASE ServerQuits
    <2>1. Types' /\ \E m \in Reply : \E d \in Nat : GivesQuit(m, d)
      BY <1>3, <1>6, QuitsForms
    <2>2. PICK m \in Reply : \E d \in Nat : GivesQuit(m, d)
      BY <2>1
    <2>3. PICK d \in Nat : GivesQuit(m, d)
      BY <2>2
    <2> QED BY <1>2, <2>1, <2>3 DEF GivesQuit
  <1>7. CASE \E t \in Topics : ServerPublishes(t)
    <2>1. Types' /\ \E m \in Reply : GivesMessage(m)
      BY <1>3, <1>7, PublishesForms
    <2>2. PICK m \in Reply : GivesMessage(m)
      BY <2>1
    <2> QED BY <1>2, <2>1, <2>2 DEF GivesMessage
  <1>8. CASE \E refuses \in BOOLEAN : ServerCloses(refuses)
    <2>1. Types' /\ \E messages \in Seq(Reply) : GivesUp(messages)
      BY <1>3, <1>8, ClosesForms
    <2>2. PICK messages \in Seq(Reply) : GivesUp(messages)
      BY <2>1
    <2>3. \A j \in 1 .. Len(messages) : messages[j].kind \notin {"subscribe", "unsubscribe"}
      <3>1. CASE messages = <<>>
        BY <3>1
      <3>2. CASE messages = <<Refusal>>
        BY <3>2 DEF Refusal, Message
      <3> QED BY <2>2, <3>1, <3>2 DEF GivesUp
    <2> QED BY <1>1, <2>1, <2>2, <2>3 DEF GivesUp
  <1> QED BY <1>4, <1>5, <1>6, <1>7, <1>8

LEMMA HeardSends ==
    ASSUME Types, HeardLive, Types', NEW kind \in Kind, NEW topics \in Seq(Topics), Sends(kind, topics),
           kind = "subscribe" => topics # <<>> /\ ac'.topics = Added(topics) /\ ac'.subscribed = TRUE,
           kind # "subscribe" => UNCHANGED <<ac.topics, ac.subscribed>>,
           kind = "unsubscribe" => Len(topics) = 1
    PROVE  HeardLive'
  <1>1. Numbered'
    BY NumberedSends DEF HeardLive
  <1>2. Wire' = Wire /\ srv' = srv
    BY DEF Sends
  <1>3. CASE kind # "subscribe"
    <2>1. \A t : Pendings(t)' = Pendings(t)
      BY <1>3 DEF Pendings, Subscribed
    <2>2. \A t \in Topics : Pendings(t) \in Nat
      BY ContextFields DEF Pendings
    <2>3. \A t \in Topics : Pendings(t)' >= Pendings(t)
              + (IF kind = "subscribe" THEN Cardinality(Spots(topics, t, Len(topics))) ELSE 0)
      BY <1>3, <2>1, <2>2
    <2>4. Counted'
      BY <2>3, CountedSends DEF HeardLive
    <2> QED BY <1>1, <1>2, <1>3, <2>4 DEF HeardLive, Heard, Renewed, Knows, Subscribed
  <1>4. CASE kind = "subscribe"
    <2>1. /\ Subscribed' = Subscribed \cup {topics[k] : k \in 1 .. Len(topics)}
          /\ \A t \in Subscribed' : Pendings(t) + Cardinality(Spots(topics, t, Len(topics))) <= Pendings(t)'
      <3>1. ac'.topics = Added(topics) /\ Subscribed' = DOMAIN Added(topics)
        BY <1>4 DEF Subscribed
      <3>2. Subscribed' = Subscribed \cup {topics[k] : k \in 1 .. Len(topics)}
        BY <3>1, AddedTable
      <3>3. \A t \in Subscribed' : Pendings(t)' = Added(topics)[t].pending
        BY <3>1 DEF Pendings
      <3>4. \A t \in DOMAIN Added(topics) :
               Pendings(t) + Cardinality(Spots(topics, t, Len(topics))) <= Added(topics)[t].pending
        BY AddedTable
      <3> QED BY <3>1, <3>2, <3>3, <3>4
    <2>2. ASSUME NEW t \in Topics
          PROVE  Pendings(t)' >= Pendings(t) + Cardinality(Spots(topics, t, Len(topics)))
      <3>1. Len(topics) \in Nat
        BY LenProperties
      <3>2. Pendings(t) \in Nat /\ Pendings(t)' \in Nat /\ Cardinality(Spots(topics, t, Len(topics))) \in Nat
        BY <3>1, PendingsNext, SpotsGrow, ContextFields DEF Pendings
      <3>3. CASE t \in Subscribed'
        BY <2>1, <3>2, <3>3
      <3>4. CASE t \notin Subscribed'
        <4>1. Spots(topics, t, Len(topics)) = {}
          BY <2>1, <3>4 DEF Spots
        <4>2. Pendings(t) = 0 /\ Cardinality(Spots(topics, t, Len(topics))) = 0
          BY <2>1, <3>4, <4>1, FS_EmptySet DEF Pendings
        <4> QED BY <3>2, <4>2
      <3> QED BY <3>3, <3>4
    <2>3. Counted'
      BY <1>4, <2>2, CountedSends DEF HeardLive
    <2>4. Heard' /\ Renewed' /\ Knows'
      BY <1>2, <1>4, <2>1 DEF HeardLive, Heard, Renewed, Knows
    <2> QED BY <1>1, <2>3, <2>4 DEF HeardLive
  <1> QED BY <1>3, <1>4

LEMMA HeardQuiet == ASSUME HeardLive, Quiet_ PROVE HeardLive'
  <1>1. UNCHANGED <<Wire, Waiting, srv.up, srv.topics, issued, ac.topics, ac.subscribed>>
    BY DEF Quiet_, View
  <1>2. Numbered'
    BY <1>1 DEF HeardLive, Numbered, Issues, Queued, Inorder, Accounted, Order_, Answered, Is, Subs, Unsubs, Names, Refusal
  <1>3. Counted'
    <2>1. \A n : Awaited(n)' <=> Awaited(n)
      BY <1>1 DEF Awaited
    <2>2. \A t : Behind(t)' = Behind(t)
      BY <1>1, <2>1 DEF Behind, Is, Places
    <2>3. \A t : Pendings(t)' = Pendings(t)
      BY <1>1 DEF Pendings, Subscribed
    <2> QED BY <1>1, <2>2, <2>3 DEF HeardLive, Counted
  <1>4. Heard' /\ Renewed' /\ Knows'
    BY <1>1 DEF HeardLive, Heard, Renewed, Knows, Subscribed
  <1> QED BY <1>2, <1>3, <1>4 DEF HeardLive

LEMMA HeardTakes ==
    ASSUME Types, HeardLive, Types', ProcessRegular \/ ProcessTopic \/ ProcessInvalid
    PROVE  HeardLive'
  <1>1. 1 \in 1 .. Len(Wire) /\ Wire[1] \in Reply /\ Takes
    <2>1. inbox # <<>> /\ inbox \in Seq(Reply) /\ srv.out \in Seq(Reply) /\ pc = "process"
      BY ContextFields DEF ProcessRegular, ProcessTopic, ProcessInvalid
    <2>2. Wire # <<>> /\ Tail(Wire) = Tail(inbox) \o srv.out /\ Head(inbox) = Wire[1]
      BY <2>1, FrontOfConcat DEF Wire
    <2>3. Wire \in Seq(Reply)
      BY ContextFields
    <2>4. 1 \in 1 .. Len(Wire) /\ Wire[1] \in Reply
      BY <2>2, <2>3, EmptySeq, LenProperties, ElementOfSeq
    <2>5. CASE ProcessRegular
      BY <2>4, <2>5, RegularSteps
    <2>6. CASE ProcessInvalid
      BY <2>4, <2>6, InvalidSteps
    <2>7. CASE ProcessTopic
      <3>1. Wire[1].topic \in Topics
        BY <2>2, <2>4, <2>7 DEF ProcessTopic, Reply
      <3>2. Wire[1].kind = "subscribe" => Pendings(Wire[1].topic) > 0
        BY <2>4, <3>1, Confirmable DEF HeardLive, Confirms
      <3> QED BY <2>4, <2>7, <3>2, TopicSteps
    <2> QED BY <2>5, <2>6, <2>7
  <1>2. Numbered'
    BY <1>1, NumberedTakes DEF HeardLive
  <1>3. \A t \in Topics : Pendings(t) \in Nat
    BY ContextFields DEF Pendings
  <1>4. /\ \A i \in 1 .. Len(Wire') : i + 1 \in 1 .. Len(Wire) /\ i + 1 # 1 /\ Wire'[i] = Wire[i + 1]
        /\ \A j \in 1 .. Len(Wire) : j # 1 => j - 1 \in 1 .. Len(Wire') /\ Wire'[j - 1] = Wire[j]
        /\ srv' = srv /\ Len(Wire) \in Nat
    BY <1>1, WireShrinks DEF Takes
  <1>5. Renewed'
    <2> SUFFICES ASSUME NEW t \in srv'.topics, NEW i \in 1 .. Len(Wire'),
                        Wire'[i].kind = "unsubscribe", Wire'[i].topic = t
                 PROVE  \E k \in 1 .. Len(Wire') : i < k /\ Confirms(Wire'[k], t)
      BY DEF Renewed, Confirms
    <2>1. /\ i + 1 \in 1 .. Len(Wire) /\ Wire[i + 1].kind = "unsubscribe" /\ Wire[i + 1].topic = t
          /\ t \in srv.topics
      BY <1>4
    <2>2. PICK k \in 1 .. Len(Wire) : i + 1 < k /\ Confirms(Wire[k], t)
      BY <2>1 DEF HeardLive, Renewed
    <2>3. k # 1 /\ i < k - 1
      BY <2>2
    <2> QED BY <1>4, <2>2, <2>3
  <1>6. ASSUME UNCHANGED <<ac.topics, ac.subscribed>>, ~ProcessTopic PROVE HeardLive'
    <2>1. \A t : Pendings(t)' = Pendings(t)
      BY <1>6 DEF Pendings, Subscribed
    <2>2. \A t \in Topics : Pendings(t)' >= Pendings(t) - (IF Confirms(Wire[1], t) THEN 1 ELSE 0)
      BY <1>3, <2>1
    <2>3. Counted'
      BY <1>1, <2>2, CountedTakes DEF HeardLive
    <2> QED BY <1>2, <1>4, <1>5, <1>6, <2>3 DEF HeardLive, Heard, Knows, Subscribed
  <1>7. CASE ProcessTopic
    <2> DEFINE m == Wire[1]
               t == m.topic
    <2>1. t \in Topics
      <3>1. /\ inbox # <<>> /\ inbox \in Seq(Reply) /\ srv.out \in Seq(Reply) /\ Head(inbox).topic # NoTopic
        BY <1>7, ContextFields DEF ProcessTopic
      <3>2. Head(inbox) = m
        BY <3>1, FrontOfConcat DEF Wire
      <3> QED BY <1>1, <3>1, <3>2 DEF Reply
    <2>2. m.kind = "subscribe" => Pendings(t) > 0
      BY <1>1, <2>1, Confirmable DEF HeardLive, Confirms
    <2>3. IF t \in Subscribed
          THEN /\ ac'.topics = Confirmed(ac.topics, m)
               /\ ac'.subscribed = ~(m.kind = "unsubscribe" /\ m.count = 0 /\ Subscribed' = {})
          ELSE ac' = ac
      BY <1>7, <2>2, TopicSteps
    <2>4. PICK D \in SUBSET Topics : ac.topics \in [D -> [n : Nat, pending : Nat]]
      BY DEF Types, Context, Tables
    <2>5. D = Subscribed
      BY <2>4 DEF Subscribed
    <2>6. CASE t \in Subscribed /\ m.kind = "subscribe"
      <3>1. ac'.topics = [ac.topics EXCEPT ![t] = [ac.topics[t] EXCEPT !.pending = ac.topics[t].pending - 1]]
        BY <2>3, <2>6 DEF Confirmed
      <3>2. /\ Subscribed' = Subscribed /\ \A x \in Subscribed : x # t => ac'.topics[x] = ac.topics[x]
            /\ ac'.topics[t].pending = ac.topics[t].pending - 1 /\ ac'.subscribed = TRUE
        <4>1. ac.topics[t] \in [n : Nat, pending : Nat] /\ t \in D
          BY <2>4, <2>5, <2>6
        <4>2. ac'.subscribed = TRUE
          BY <2>3, <2>6
        <4> HIDE DEF t, m
        <4>3. /\ DOMAIN ac'.topics = D /\ \A x \in D : x # t => ac'.topics[x] = ac.topics[x]
              /\ ac'.topics[t] = [ac.topics[t] EXCEPT !.pending = ac.topics[t].pending - 1]
          BY <2>4, <3>1, <4>1
        <4>4. ac'.topics[t].pending = ac.topics[t].pending - 1
          BY <4>1, <4>3
        <4> QED BY <2>5, <4>2, <4>3, <4>4 DEF Subscribed
      <3>3. \A x \in Topics : Pendings(x)' >= Pendings(x) - (IF Confirms(m, x) THEN 1 ELSE 0)
        <4> SUFFICES ASSUME NEW x \in Topics PROVE Pendings(x)' >= Pendings(x) - (IF Confirms(m, x) THEN 1 ELSE 0)
          OBVIOUS
        <4>1. CASE x = t
          <5>1. Confirms(m, x) /\ Pendings(x)' = Pendings(x) - 1 /\ Pendings(x) \in Nat
            BY <1>3, <2>6, <3>2, <4>1 DEF Confirms, Pendings
          <5> QED BY <5>1
        <4>2. CASE x # t
          <5>1. Pendings(x)' = Pendings(x) /\ Pendings(x) \in Nat
            BY <1>3, <3>2, <4>2 DEF Pendings
          <5> HIDE DEF m
          <5> QED BY <5>1
        <4> QED BY <4>1, <4>2
      <3>4. Counted'
        BY <1>1, <3>3, CountedTakes DEF HeardLive
      <3> QED BY <1>2, <1>4, <1>5, <3>2, <3>4 DEF HeardLive, Heard, Knows
    <2>7. CASE t \in Subscribed /\ m.kind = "unsubscribe" /\ ac.topics[t].pending = 0
      <3>1. ac'.topics = [x \in D \ {t} |-> ac.topics[x]]
        BY <2>3, <2>4, <2>7 DEF Confirmed
      <3>2. Subscribed' = Subscribed \ {t} /\ \A x \in Subscribed' : ac'.topics[x] = ac.topics[x]
        <4> HIDE DEF t, m
        <4> QED BY <2>5, <3>1 DEF Subscribed
      <3>3. \A x \in Topics : Pendings(x)' = Pendings(x)
        <4> HIDE DEF t, m
        <4> QED BY <2>7, <3>2 DEF Pendings
      <3>4. \A x \in Topics : Pendings(x)' >= Pendings(x) - (IF Confirms(m, x) THEN 1 ELSE 0)
        <4> HIDE DEF m
        <4> QED BY <1>3, <3>3
      <3>5. Counted'
        BY <1>1, <3>4, CountedTakes DEF HeardLive
      <3>6. t \notin srv.topics
        <4>1. ASSUME t \in srv.topics PROVE FALSE
          <5>1. PICK k \in 1 .. Len(Wire) : Confirms(Wire[k], t)
            BY <1>1, <2>7, <4>1 DEF HeardLive, Renewed
          <5>2. Pendings(t) > 0
            BY <2>1, <5>1, Confirmable DEF HeardLive
          <5> QED BY <2>7, <5>2 DEF Pendings
        <4> QED BY <4>1
      <3>7. Heard' /\ Knows'
        BY <1>4, <2>3, <2>7, <3>2, <3>6 DEF HeardLive, Heard, Knows
      <3> QED BY <1>2, <1>5, <3>5, <3>7 DEF HeardLive
    <2>8. CASE \/ t \notin Subscribed
               \/ m.kind # "subscribe" /\ ~(m.kind = "unsubscribe" /\ ac.topics[t].pending = 0)
      <3>1. ac'.topics = ac.topics
        BY <2>3, <2>8 DEF Confirmed
      <3>2. Knows'
        BY <2>3, <3>1 DEF HeardLive, Knows, Subscribed
      <3>3. \A x : Pendings(x)' = Pendings(x)
        BY <3>1 DEF Pendings, Subscribed
      <3>4. \A x \in Topics : Pendings(x)' >= Pendings(x) - (IF Confirms(Wire[1], x) THEN 1 ELSE 0)
        BY <1>3, <3>3
      <3>5. Counted'
        BY <1>1, <3>4, CountedTakes DEF HeardLive
      <3> QED BY <1>2, <1>4, <1>5, <3>1, <3>2, <3>5 DEF HeardLive, Heard, Subscribed
    <2> QED BY <2>6, <2>7, <2>8
  <1>8. CASE ProcessRegular /\ ~ProcessTopic
    BY <1>6, <1>8, RegularSteps
  <1>9. CASE ProcessInvalid /\ ~ProcessTopic
    BY <1>6, <1>9, InvalidSteps
  <1> QED BY <1>7, <1>8, <1>9

LEMMA HeardInvInit == Init => HeardInv
  <1> SUFFICES ASSUME Init PROVE HeardInv
    OBVIOUS
  <1>1. Types
    BY InitTypes
  <1>2. Wire = <<>> /\ Waiting = <<>> /\ issued = <<>> /\ srv.topics = {} /\ Subscribed = {}
    <2>1. inbox = <<>> /\ srv.out = <<>> /\ srv.in = <<>> /\ ac.obuf = <<>>
      BY DEF Init
    <2>2. \A S : <<>> \in Seq(S)
      OBVIOUS
    <2>3. Wire = <<>> /\ Waiting = <<>>
      BY <2>1, <2>2, ConcatEmptySeq DEF Wire, Waiting
    <2> QED BY <2>3 DEF Init, Subscribed
  <1>3. Len(<<>>) = 0
    BY EmptySeq
  <1>4. Numbered
    BY <1>2, <1>3 DEF Numbered, Issues, Queued, Inorder, Accounted
  <1>5. Counted
    <2> SUFFICES ASSUME NEW t \in Topics
                 PROVE  Cardinality(OnWire(Wire, t)) + Cardinality(Behind(t)) <= Pendings(t)
      BY DEF Counted
    <2>1. OnWire(Wire, t) = {} /\ Behind(t) = {} /\ Pendings(t) = 0
      BY <1>2, <1>3 DEF OnWire, Behind, Pendings
    <2> QED BY <2>1, FS_EmptySet
  <1> QED BY <1>1, <1>2, <1>4, <1>5 DEF HeardInv, Heard, Renewed, Knows

LEMMA HeardInvStep == HeardInv /\ [Next]_vars => HeardInv'
  <1> SUFFICES ASSUME HeardInv, [Next]_vars PROVE HeardInv'
    OBVIOUS
  <1>1. Types /\ (Live => HeardLive)
    BY DEF HeardInv, HeardLive
  <1>2. ASSUME Types', ~Live' PROVE HeardInv'
    BY <1>2 DEF HeardInv
  <1>3. ASSUME Types', HeardLive' PROVE HeardInv'
    BY <1>3 DEF HeardInv, HeardLive
  <1>5. ASSUME Types', ~Live' \/ Quiet_, Live PROVE HeardInv'
    BY <1>1, <1>2, <1>3, <1>5, HeardQuiet
  <1>4. CASE UNCHANGED vars
    <2>1. Types' /\ (Live' <=> Live)
      BY <1>1, <1>4 DEF vars, Types, Live
    <2>2. Live => Quiet_
      BY <1>4 DEF vars, Live, Quiet_, View, Wire, Waiting
    <2> QED BY <1>2, <1>5, <2>1, <2>2
  <1>6. CASE Disconnect \/ Free
    <2>1. Live
      BY <1>6 DEF Disconnect, Free, Live
    <2> QED BY <1>1, <1>5, <1>6, <2>1, DisconnectSteps, FreeSteps
  <1>7. CASE ConnectFails \/ HandleWrite \/ HandleRead \/ ProcessNone \/ CallbackReturns \/ ProcessUnexpected
    <2>1. Live
      BY <1>7 DEF ConnectFails, HandleWrite, HandleRead, ProcessNone, CallbackReturns, ProcessUnexpected, Live
    <2>2. Types' /\ (~Live' \/ Quiet_)
      BY <1>1, <1>7, ConnectFailsSteps, HandleWriteSteps, HandleReadSteps, ProcessNoneSteps, ReturnsSteps, UnexpectedSteps
    <2> QED BY <1>5, <2>1, <2>2
  <1>8. ASSUME NEW kind \in Kind, NEW topics \in Seq(Topics), Sends(kind, topics), Types',
               kind = "subscribe" => topics # <<>> /\ ac'.topics = Added(topics) /\ ac'.subscribed = TRUE,
               kind # "subscribe" => UNCHANGED <<ac.topics, ac.subscribed>>,
               kind = "unsubscribe" => Len(topics) = 1
        PROVE  HeardInv'
    <2>1. Live
      BY <1>8 DEF Sends, Live
    <2>2. HeardLive'
      BY <1>1, <1>8, <2>1, HeardSends
    <2> QED BY <1>3, <1>8, <2>2
  <1>9. CASE Command
    <2>1. Types' /\ Sends("ordinary", <<>>) /\ UNCHANGED <<ac.topics, ac.subscribed>>
      BY <1>1, <1>9, CommandSteps
    <2>2. "ordinary" \in Kind /\ <<>> \in Seq(Topics) /\ "ordinary" # "subscribe" /\ "ordinary" # "unsubscribe"
      BY DEF Kind
    <2> QED BY <1>8, <2>1, <2>2
  <1>10. ASSUME NEW list \in Subscriptions, Subscribe(list) PROVE HeardInv'
    <2>1. list \in Seq(Topics) /\ list # <<>> /\ "subscribe" \in Kind /\ "subscribe" # "unsubscribe"
      BY AsyncAssumption DEF Kind
    <2>2. Types' /\ Sends("subscribe", list) /\ ac'.subscribed = TRUE /\ ac'.topics = Added(list)
      BY <1>1, <1>10, <2>1, SubscribeSteps
    <2> QED BY <1>8, <2>1, <2>2
  <1>11. ASSUME NEW t \in Topics, Unsubscribe(t) PROVE HeardInv'
    <2>1. Types' /\ Sends("unsubscribe", <<t>>) /\ UNCHANGED <<ac.subscribed, ac.topics>>
      BY <1>1, <1>11, UnsubscribeSteps
    <2>2. "unsubscribe" \in Kind /\ "unsubscribe" # "subscribe" /\ <<t>> \in Seq(Topics) /\ Len(<<t>>) = 1
      BY DEF Kind
    <2> QED BY <1>8, <2>1, <2>2
  <1>12. CASE ProcessRegular
    <2>1. Types' /\ Live
      BY <1>1, <1>12, RegularSteps DEF ProcessRegular, Live
    <2> QED BY <1>1, <1>3, <1>12, <2>1, HeardTakes
  <1>13. CASE ProcessInvalid
    <2>1. Types' /\ Live
      BY <1>1, <1>13, InvalidSteps DEF ProcessInvalid, Live
    <2> QED BY <1>1, <1>3, <1>13, <2>1, HeardTakes
  <1>14. CASE ProcessTopic
    <2>0. Live /\ inbox # <<>> /\ Head(inbox).topic # NoTopic
      BY <1>14 DEF ProcessTopic, Live
    <2>1. Wire[1].kind = "subscribe" => Pendings(Wire[1].topic) > 0
      <3>1. inbox \in Seq(Reply) /\ srv.out \in Seq(Reply) /\ Wire \in Seq(Reply)
        BY <1>1, ContextFields
      <3>2. Wire # <<>> /\ Head(inbox) = Wire[1]
        BY <2>0, <3>1, FrontOfConcat DEF Wire
      <3>3. 1 \in 1 .. Len(Wire) /\ Wire[1] \in Reply
        BY <3>1, <3>2, EmptySeq, LenProperties, ElementOfSeq
      <3>4. Wire[1].topic \in Topics
        BY <2>0, <3>2, <3>3 DEF Reply
      <3> QED BY <1>1, <2>0, <3>3, <3>4, Confirmable DEF HeardLive, Confirms
    <2>2. Types'
      BY <1>1, <1>14, <2>1, TopicSteps
    <2> QED BY <1>1, <1>3, <1>14, <2>0, <2>2, HeardTakes
  <1>15. CASE \/ ServerAnswers \/ ServerRejects \/ ServerQuits
              \/ \E t \in Topics : ServerPublishes(t)
              \/ \E refuses \in BOOLEAN : ServerCloses(refuses)
    <2>1. Live
      BY <1>15 DEF ServerAnswers, ServerRejects, ServerQuits, ServerPublishes, ServerCloses
    <2> QED BY <1>1, <1>3, <1>15, <2>1, HeardServer
  <1>16. CASE Ended
    BY <1>4, <1>16 DEF Ended
  <1> QED BY <1>4, <1>6, <1>7, <1>9, <1>10, <1>11, <1>12, <1>13, <1>14, <1>15, <1>16 DEF Next, Progress

LEMMA HeardInvAlways == Spec => []HeardInv
  BY HeardInvInit, HeardInvStep, PTL DEF Spec

\* Whatever the program sends while an UNSUBSCRIBE is under way, the
\* dictionary entry of a topic the server publishes to survives the
\* confirmation of an earlier UNSUBSCRIBE of it: pending_subs is at least the
\* number of confirmations that are still to come.
THEOREM TopicsAreHeard == Spec => []TopicsHeard
  <1>1. HeardInv => TopicsHeard
    BY DEF HeardInv, TopicsHeard, Quiet, Live, Heard, Knows
  <1> QED BY <1>1, HeardInvAlways, PTL

-----------------------------------------------------------------------------
\* What the numbers of the commands and of their answers say.

LEMMA Kinds ==
    ASSUME Types, NEW n
    PROVE  /\ Regular(n) \/ Invalid(n) => Is(n, "ordinary")
           /\ Regular(n) => ~Invalid(n)
           /\ Is(n, "ordinary") => n \in 1 .. Len(issued) /\ n \in Nat /\ n # 0 /\ (Regular(n) \/ Invalid(n))
           /\ \A t : Subs(n, t) \/ Unsubs(n, t) => n \in 1 .. Len(issued) /\ ~Is(n, "ordinary")
           /\ \A t, u : Unsubs(n, t) /\ Unsubs(n, u) => t = u
           /\ \A t, u : ~(Subs(n, t) /\ Unsubs(n, u))
  <1>1. issued \in Seq(Issued) /\ Len(issued) \in Nat
    BY LenProperties DEF Types
  <1>2. n \in 1 .. Len(issued) => issued[n].list \in {"replies", "invalid"} /\ n \in Nat /\ n # 0
    <2>1. n \in 1 .. Len(issued) => issued[n] \in Issued
      BY <1>1, ElementOfSeq
    <2> QED BY <1>1, <2>1 DEF Issued
  <1> QED BY <1>2 DEF Regular, Invalid, Is, Subs, Unsubs

\* A message on the wire.
LEMMA OnTheWire ==
    ASSUME Types, Numbered, NEW i \in 1 .. Len(Wire)
    PROVE  /\ Wire[i] \in Reply /\ Wire[i].n \in Nat /\ Wire[i].n <= Len(issued) - Len(Waiting)
           /\ Wire[i].n <= Len(issued) /\ Answered(Wire[i]) /\ Wire[i].kind # "null"
           /\ Is(Wire[i].n, "ordinary") => Wire[i].kind \in {"reply", "error"} /\ Wire[i].topic = NoTopic
           /\ Wire[i].kind \in {"reply", "error"} <=> Wire[i].topic = NoTopic
           /\ Wire[i].kind = "reply" => Is(Wire[i].n, "ordinary")
           /\ Wire[i].n = 0 => Wire[i] = Refusal \/ Wire[i].kind = "message"
  <1>1. Wire[i] \in Reply /\ Wire \in Seq(Reply) /\ Len(issued) \in Nat /\ Len(Waiting) \in Nat
    BY ContextFields, ElementOfSeq, LenProperties DEF Types
  <1>2. Wire[i].n \in Nat /\ Wire[i].n <= Len(issued) - Len(Waiting) /\ Answered(Wire[i])
    BY <1>1 DEF Numbered, Queued, Accounted, Reply
  <1>3. Wire[i].n <= Len(issued)
    BY <1>1, <1>2
  <1>4. Refusal.kind = "error" /\ Refusal.n = 0 /\ Refusal.topic = NoTopic
    BY DEF Refusal, Message
  <1> DEFINE m == Wire[i]
  <1>5. NoTopic \notin Topics
    BY AsyncAssumption
  <1>6. /\ \A t : Subs(m.n, t) \/ Unsubs(m.n, t) => m.n # 0 /\ ~Is(m.n, "ordinary")
        /\ Is(m.n, "ordinary") => m.n # 0
    <2>1. \A n : n \in 1 .. Len(issued) => n # 0
      BY <1>1
    <2> QED BY <2>1, Kinds
  <1>7. m.n \in 1 .. Len(issued) => m.n # 0
    BY <1>1
  <1> HIDE DEF m
  <1>8. /\ m.kind # "null"
        /\ Is(m.n, "ordinary") => m.kind \in {"reply", "error"} /\ m.topic = NoTopic
        /\ m.kind \in {"reply", "error"} <=> m.topic = NoTopic
        /\ m.kind = "reply" => Is(m.n, "ordinary")
        /\ m.n = 0 => m = Refusal \/ m.kind = "message"
    <2>0. Answered(m)
      BY <1>2 DEF m
    <2>1. CASE m.kind = "reply" /\ Is(m.n, "ordinary") /\ m.topic = NoTopic
      BY <1>6, <2>1
    <2>2. CASE m.kind = "error" /\ m.n \in 1 .. Len(issued) /\ m.topic = NoTopic
      BY <1>7, <2>2
    <2>3. CASE m = Refusal
      BY <1>4, <2>3
    <2>4. CASE m.kind = "subscribe" /\ m.topic \in Topics /\ Subs(m.n, m.topic)
      BY <1>5, <1>6, <2>4
    <2>5. CASE m.kind = "unsubscribe" /\ m.topic \in Topics /\ Unsubs(m.n, m.topic)
      BY <1>5, <1>6, <2>5
    <2>6. CASE m.kind = "message" /\ m.n = 0 /\ m.topic \in Topics
      BY <1>5, <1>6, <2>6
    <2> QED BY <2>0, <2>1, <2>2, <2>3, <2>4, <2>5, <2>6 DEF Answered
  <1> QED BY <1>1, <1>2, <1>3, <1>8 DEF m

\* A command that waits.
LEMMA InTheQueue ==
    ASSUME Types, Numbered
    PROVE  /\ Len(issued) \in Nat /\ Len(Waiting) \in Nat /\ Len(Waiting) <= Len(issued) /\ Len(Wire) \in Nat
           /\ \A i \in 1 .. Len(Waiting) :
                 /\ Waiting[i].n = Len(issued) - Len(Waiting) + i /\ Waiting[i].n \in 1 .. Len(issued)
                 /\ Is(Waiting[i].n, Waiting[i].kind)
           /\ \A n \in 1 .. Len(issued) : n > Len(issued) - Len(Waiting) =>
                 \E i \in 1 .. Len(Waiting) : Waiting[i].n = n
  <1>1. Len(issued) \in Nat /\ Len(Waiting) \in Nat /\ Len(Wire) \in Nat
    BY ContextFields, LenProperties DEF Types
  <1>2. Len(Waiting) <= Len(issued)
    BY DEF Numbered, Queued
  <1>3. ASSUME NEW i \in 1 .. Len(Waiting)
        PROVE  /\ Waiting[i].n = Len(issued) - Len(Waiting) + i /\ Waiting[i].n \in 1 .. Len(issued)
               /\ Is(Waiting[i].n, Waiting[i].kind)
    <2> DEFINE n == Len(issued) - Len(Waiting) + i
    <2>1. Waiting[i] = Order_(n)
      BY DEF Numbered, Queued
    <2>2. n \in 1 .. Len(issued)
      BY <1>1, <1>2
    <2> HIDE DEF n
    <2>3. Waiting[i].n = n /\ Waiting[i].kind = issued[n].kind
      BY <2>1 DEF Order_
    <2>4. Is(n, Waiting[i].kind)
      BY <2>2, <2>3 DEF Is
    <2> QED BY <2>2, <2>3, <2>4 DEF n
  <1>4. ASSUME NEW n \in 1 .. Len(issued), n > Len(issued) - Len(Waiting)
        PROVE  \E i \in 1 .. Len(Waiting) : Waiting[i].n = n
    <2> DEFINE i == n - (Len(issued) - Len(Waiting))
    <2>1. i \in 1 .. Len(Waiting) /\ Len(issued) - Len(Waiting) + i = n
      BY <1>1, <1>2, <1>4
    <2> QED BY <1>3, <2>1
  <1> QED BY <1>1, <1>2, <1>3, <1>4

\* A subscription that has not been confirmed is counted.
LEMMA InFlightCounts ==
    ASSUME Types, Counted, NEW t \in Topics, NEW n, Subs(n, t), InFlight(n, t)
    PROVE  Pendings(t) > 0 /\ t \in Subscribed
  <1>1. CASE Awaited(n)
    <2>1. n \in 1 .. Len(issued) /\ Is(n, "subscribe") /\ \E k \in 1 .. Len(issued[n].topics) : issued[n].topics[k] = t
      BY DEF Subs, Is, Names
    <2>2. PICK k \in Places(n, t) : TRUE
      BY <2>1 DEF Places, Spots
    <2>3. <<n, k>> \in Behind(t)
      BY <1>1, <2>1, <2>2, BehindIn
    <2>4. Cardinality(Behind(t)) \in Nat /\ Cardinality(Behind(t)) # 0
      BY <2>3, BehindFinite, FS_EmptySet
    <2>5. Cardinality(OnWire(Wire, t)) \in Nat /\ Pendings(t) \in Nat
      BY ContextFields, OnWireFinite DEF Pendings
    <2>6. Cardinality(OnWire(Wire, t)) + Cardinality(Behind(t)) <= Pendings(t)
      BY DEF Counted
    <2>7. Pendings(t) > 0
      BY <2>4, <2>5, <2>6
    <2> QED BY <2>7 DEF Pendings
  <1>2. CASE \E i \in 1 .. Len(Wire) : Wire[i].n = n /\ Confirms(Wire[i], t)
    BY <1>2, Confirmable
  <1> QED BY <1>1, <1>2 DEF InFlight

\* What the server puts on the wire, by the places.
LEMMA GivesPlaces ==
    ASSUME Types, Numbered, NEW messages, NEW d, Gives(messages, d)
    PROVE  /\ Len(Wire) \in Nat /\ Len(messages) \in Nat /\ Len(Wire') = Len(Wire) + Len(messages)
           /\ Len(Waiting) \in Nat /\ d \in Nat /\ d <= Len(Waiting) /\ Len(Waiting') = Len(Waiting) - d
           /\ \A i \in 1 .. Len(Wire) : i \in 1 .. Len(Wire') /\ Wire'[i] = Wire[i]
           /\ \A i \in 1 .. Len(Wire') : i \in 1 .. Len(Wire) \/
                 (i > Len(Wire) /\ (Wire'[i].n = 0 \/ (d > 0 /\ Wire'[i].n = Waiting[1].n))
                  /\ \E j \in 1 .. Len(messages) : i = Len(Wire) + j /\ Wire'[i] = messages[j])
           /\ \A i \in 1 .. Len(Waiting') : d + i \in 1 .. Len(Waiting) /\ Waiting'[i] = Waiting[d + i]
           /\ d > 0 => 1 \in 1 .. Len(Waiting)
           /\ issued' = issued /\ ac' = ac /\ srv.up
           /\ \A n : (Regular(n)' <=> Regular(n)) /\ (Invalid(n)' <=> Invalid(n))
  <1>1. /\ Len(Wire) \in Nat /\ Len(messages) \in Nat /\ Len(Wire') = Len(Wire) + Len(messages)
        /\ \A i \in 1 .. Len(Wire) : Wire'[i] = Wire[i]
        /\ \A j \in 1 .. Len(messages) : Wire'[Len(Wire) + j] = messages[j]
        /\ \A i \in 1 .. Len(Wire') : i \in 1 .. Len(Wire) \/ \E j \in 1 .. Len(messages) : i = Len(Wire) + j
        /\ Len(Waiting) \in Nat /\ d \in Nat
    BY WireGrows
  <1>2. /\ d <= Len(Waiting) /\ Len(Waiting') = Len(Waiting) - d
        /\ \A i \in 1 .. Len(Waiting) - d : Waiting'[i] = Waiting[d + i]
        /\ \A j \in 1 .. Len(messages) : messages[j].n = 0 \/ (d > 0 /\ messages[j].n = Waiting[1].n)
        /\ issued' = issued /\ ac' = ac /\ srv.up
    BY <1>1 DEF Gives
  <1>3. ASSUME NEW i \in 1 .. Len(Wire'), i \notin 1 .. Len(Wire)
        PROVE  /\ i > Len(Wire) /\ (Wire'[i].n = 0 \/ (d > 0 /\ Wire'[i].n = Waiting[1].n))
               /\ \E j \in 1 .. Len(messages) : i = Len(Wire) + j /\ Wire'[i] = messages[j]
    <2>1. PICK j \in 1 .. Len(messages) : i = Len(Wire) + j
      BY <1>1, <1>3
    <2>2. Wire'[i] = messages[j] /\ i > Len(Wire)
      BY <1>1, <2>1
    <2> QED BY <1>2, <2>1, <2>2
  <1>4. \A i \in 1 .. Len(Wire) : i \in 1 .. Len(Wire')
    BY <1>1
  <1>5. ASSUME NEW i \in 1 .. Len(Waiting') PROVE d + i \in 1 .. Len(Waiting) /\ Waiting'[i] = Waiting[d + i]
    BY <1>1, <1>2
  <1>6. d > 0 => 1 \in 1 .. Len(Waiting)
    BY <1>1, <1>2
  <1>7. \A n : (Regular(n)' <=> Regular(n)) /\ (Invalid(n)' <=> Invalid(n))
    BY <1>2 DEF Regular, Invalid, Is
  <1> QED BY <1>1, <1>2, <1>3, <1>4, <1>5, <1>6, <1>7

\* A command that was accepted.
LEMMA EntryOf ==
    ASSUME Types, NEW n \in 1 .. Len(issued)
    PROVE  /\ issued[n].kind \in Kind /\ issued[n].topics \in Seq(Topics) /\ n \in Nat /\ n # 0
           /\ Is(n, "ordinary") \/ Is(n, "subscribe") \/ Is(n, "unsubscribe")
           /\ Numbered /\ Is(n, "unsubscribe") => /\ issued[n].topics[1] \in Topics
                                                  /\ Unsubs(n, issued[n].topics[1])
           /\ Numbered /\ Is(n, "subscribe") => /\ issued[n].topics[1] \in Topics
                                                /\ Subs(n, issued[n].topics[1])
  <1>1. issued \in Seq(Issued) /\ Len(issued) \in Nat
    BY LenProperties DEF Types
  <1>2. issued[n] \in Issued /\ n \in Nat /\ n # 0
    BY <1>1, ElementOfSeq
  <1>3. issued[n].kind \in Kind /\ issued[n].topics \in Seq(Topics)
    BY <1>2 DEF Issued
  <1>4. Len(issued[n].topics) \in Nat
    BY <1>3, LenProperties
  <1>5. Numbered /\ (Is(n, "subscribe") \/ Is(n, "unsubscribe")) => 1 \in 1 .. Len(issued[n].topics)
    <2>1. Numbered /\ Is(n, "subscribe") => issued[n].topics # <<>>
      BY DEF Is, Numbered, Issues
    <2>2. Numbered /\ Is(n, "unsubscribe") => Len(issued[n].topics) = 1
      BY DEF Is, Numbered, Issues
    <2>3. issued[n].topics # <<>> => Len(issued[n].topics) # 0
      BY <1>3, EmptySeq
    <2> QED BY <1>4, <2>1, <2>2, <2>3
  <1>6. 1 \in 1 .. Len(issued[n].topics) => issued[n].topics[1] \in Topics
    BY <1>3, ElementOfSeq
  <1> QED BY <1>2, <1>3, <1>5, <1>6 DEF Is, Kind, Subs, Unsubs, Names

-----------------------------------------------------------------------------
\* The server's steps, by what they put at the end of the wire: a message to
\* the subscribed, nothing or a refusal when it goes away, the reply or the
\* error of the first command (the last one with QUIT), the confirmations.
Posts(messages, d) ==
    /\ d = 0 /\ Len(messages) = 1 /\ messages[1].kind = "message" /\ messages[1].topic \in srv.topics
    /\ srv'.up = srv.up
Leaves(messages, d) ==
    d = 0 /\ srv'.up = FALSE /\ \A j \in 1 .. Len(messages) : messages[j] = Refusal /\ issued = <<>>
Settles(messages, d) ==
    /\ d > 0 /\ Len(messages) = 1 /\ messages[1].n = Waiting[1].n /\ messages[1].kind \in {"reply", "error"}
    /\ messages[1].kind = "reply" => Waiting[1].kind = "ordinary"
    /\ \/ d = 1 /\ srv'.up = srv.up
       \/ messages[1].kind = "reply" /\ srv'.up = FALSE
Drops(messages, d) ==
    /\ d = 1 /\ Len(messages) = 1 /\ messages[1].n = Waiting[1].n /\ messages[1].kind = "unsubscribe"
    /\ messages[1].topic = Waiting[1].topics[1] /\ Waiting[1].kind = "unsubscribe" /\ srv'.up = srv.up
    /\ srv'.topics = srv.topics \ {messages[1].topic}
Form(messages, d) ==
    \/ /\ UNCHANGED srv.topics
       /\ Posts(messages, d) \/ Leaves(messages, d) \/ Settles(messages, d)
    \/ d = 1 /\ GivesSubscribe(messages)
    \/ Drops(messages, d)
ServerStep ==
    \/ ServerAnswers \/ ServerRejects \/ ServerQuits
    \/ \E t \in Topics : ServerPublishes(t)
    \/ \E refuses \in BOOLEAN : ServerCloses(refuses)

LEMMA OneForm ==
    ASSUME NEW m \in Reply, NEW d, Gives(<<m>>, d),
           ASSUME NEW messages, messages = <<m>>, Len(messages) = 1, messages[1] = m PROVE Form(messages, d)
    PROVE  \E messages \in Seq(Reply) : Gives(messages, d) /\ Form(messages, d)
  <1>1. <<m>> \in Seq(Reply) /\ Len(<<m>>) = 1 /\ <<m>>[1] = m
    OBVIOUS
  <1>2. Form(<<m>>, d)
    BY <1>1
  <1> QED BY <1>1, <1>2

LEMMA ServerForms ==
    ASSUME Types, Live, Numbered, ServerStep
    PROVE  Types' /\ Live' /\ \E messages \in Seq(Reply) : \E d \in Nat : Gives(messages, d) /\ Form(messages, d)
  <1>1. CASE ServerAnswers
    <2>1. Types' /\ Live'
      BY <1>1, AnswersForms
    <2>2. CASE \E m \in Reply : GivesReply(m)
      <3>1. PICK m \in Reply : GivesReply(m)
        BY <2>2
      <3>2. Gives(<<m>>, 1) /\ 1 \in Nat
        BY <3>1 DEF GivesReply
      <3>3. ASSUME NEW messages, messages = <<m>>, Len(messages) = 1, messages[1] = m PROVE Form(messages, 1)
        BY <3>1, <3>3 DEF GivesReply, Form, Settles
      <3>4. \E messages \in Seq(Reply) : Gives(messages, 1) /\ Form(messages, 1)
        BY <3>2, <3>3, OneForm
      <3> QED BY <2>1, <3>4
    <2>3. CASE \E m \in Reply : GivesUnsubscribe(m)
      <3>1. PICK m \in Reply : GivesUnsubscribe(m)
        BY <2>3
      <3>2. Gives(<<m>>, 1) /\ 1 \in Nat
        BY <3>1 DEF GivesUnsubscribe
      <3>3. ASSUME NEW messages, messages = <<m>>, Len(messages) = 1, messages[1] = m PROVE Form(messages, 1)
        BY <3>1, <3>3 DEF GivesUnsubscribe, Form, Drops
      <3>4. \E messages \in Seq(Reply) : Gives(messages, 1) /\ Form(messages, 1)
        BY <3>2, <3>3, OneForm
      <3> QED BY <2>1, <3>4
    <2>4. CASE \E messages \in Seq(Reply) : GivesSubscribe(messages)
      <3>1. PICK messages \in Seq(Reply) : GivesSubscribe(messages)
        BY <2>4
      <3>2. Gives(messages, 1) /\ Form(messages, 1) /\ 1 \in Nat
        BY <3>1 DEF GivesSubscribe, Form
      <3> QED BY <2>1, <3>2
    <2> QED BY <1>1, <2>2, <2>3, <2>4, AnswersForms
  <1>2. CASE ServerRejects
    <2>1. Types' /\ Live' /\ \E m \in Reply : GivesError(m)
      BY <1>2, RejectsForms
    <2>2. PICK m \in Reply : GivesError(m)
      BY <2>1
    <2>3. Gives(<<m>>, 1) /\ 1 \in Nat /\ m.kind = "error" /\ m.n = Waiting[1].n /\ UNCHANGED <<srv.topics, srv.up>>
      BY <2>2 DEF GivesError, Message
    <2>4. ASSUME NEW messages, messages = <<m>>, Len(messages) = 1, messages[1] = m PROVE Form(messages, 1)
      BY <2>3, <2>4 DEF Form, Settles
    <2>5. \E messages \in Seq(Reply) : Gives(messages, 1) /\ Form(messages, 1)
      BY <2>3, <2>4, OneForm
    <2> QED BY <2>1, <2>5
  <1>3. CASE ServerQuits
    <2>1. Types' /\ Live' /\ \E m \in Reply : \E d \in Nat : GivesQuit(m, d)
      BY <1>3, QuitsForms
    <2>2. PICK m \in Reply : \E d \in Nat : GivesQuit(m, d)
      BY <2>1
    <2>3. PICK d \in Nat : GivesQuit(m, d)
      BY <2>2
    <2>4. Gives(<<m>>, d)
      BY <2>3 DEF GivesQuit
    <2>5. ASSUME NEW messages, messages = <<m>>, Len(messages) = 1, messages[1] = m PROVE Form(messages, d)
      BY <2>3, <2>5 DEF Form, Settles, GivesQuit
    <2>6. \E messages \in Seq(Reply) : Gives(messages, d) /\ Form(messages, d)
      BY <2>4, <2>5, OneForm
    <2> QED BY <2>1, <2>6
  <1>4. CASE \E t \in Topics : ServerPublishes(t)
    <2>1. Types' /\ Live' /\ \E m \in Reply : GivesMessage(m)
      BY <1>4, PublishesForms
    <2>2. PICK m \in Reply : GivesMessage(m)
      BY <2>1
    <2>3. Gives(<<m>>, 0) /\ 0 \in Nat
      BY <2>2 DEF GivesMessage
    <2>4. ASSUME NEW messages, messages = <<m>>, Len(messages) = 1, messages[1] = m PROVE Form(messages, 0)
      BY <2>2, <2>4 DEF Form, Posts, GivesMessage
    <2>5. \E messages \in Seq(Reply) : Gives(messages, 0) /\ Form(messages, 0)
      BY <2>3, <2>4, OneForm
    <2> QED BY <2>1, <2>5
  <1>5. CASE \E refuses \in BOOLEAN : ServerCloses(refuses)
    <2>1. Types' /\ Live' /\ \E messages \in Seq(Reply) : GivesUp(messages)
      BY <1>5, ClosesForms
    <2>2. PICK messages \in Seq(Reply) : GivesUp(messages)
      BY <2>1
    <2>3. \A j \in 1 .. Len(messages) : messages[j] = Refusal /\ issued = <<>>
      <3>1. CASE messages = <<>>
        BY <3>1
      <3>2. CASE messages = <<Refusal>> /\ issued = <<>>
        <4>1. Len(messages) = 1 /\ messages[1] = Refusal
          BY <3>2
        <4>2. \A j \in 1 .. 1 : j = 1
          OBVIOUS
        <4> QED BY <3>2, <4>1, <4>2
      <3> QED BY <2>2, <3>1, <3>2 DEF GivesUp
    <2>4. Gives(messages, 0) /\ Form(messages, 0) /\ 0 \in Nat
      BY <2>2, <2>3 DEF Form, Leaves, GivesUp
    <2> QED BY <2>1, <2>4
  <1> QED BY <1>1, <1>2, <1>3, <1>4, <1>5 DEF ServerStep

\* The same by the places: what is new on the wire.
LEMMA FormPlaces ==
    ASSUME Types, Live, Numbered, NEW messages, NEW d, Gives(messages, d), Form(messages, d), srv'.up \in BOOLEAN
    PROVE  /\ \A i \in 1 .. Len(Wire') : i \notin 1 .. Len(Wire) =>
                 \/ Wire'[i] = Refusal /\ ~srv'.up /\ d = 0 /\ issued = <<>>
                 \/ Wire'[i].kind = "message" /\ Wire'[i].n = 0 /\ d = 0 /\ Wire'[i].topic \in srv.topics
                 \/ /\ d > 0 /\ Wire'[i].n = Waiting[1].n /\ Waiting[1].n \in 1 .. Len(issued) /\ Waiting[1].n # 0
                    /\ Is(Waiting[1].n, Waiting[1].kind)
                    /\ Is(Waiting[1].n, "ordinary") => Wire'[i].kind \in {"reply", "error"} /\ i = Len(Wire) + 1
                    /\ Wire'[i].kind \in {"reply", "error", "subscribe", "unsubscribe"}
           /\ d > 0 => /\ Len(Wire) + 1 \in 1 .. Len(Wire') /\ Wire'[Len(Wire) + 1].n = Waiting[1].n
                       /\ Is(Waiting[1].n, "ordinary") => Len(Wire') = Len(Wire) + 1
           /\ srv'.up => d \in {0, 1}
           /\ srv'.up /\ d = 0 => srv.topics # {} /\ UNCHANGED srv.topics
           /\ srv.topics = {} /\ srv'.topics # {} => d = 1 /\ Is(Waiting[1].n, "subscribe")
           /\ d \in Nat
  <1>1. /\ Len(Wire) \in Nat /\ Len(messages) \in Nat /\ Len(Wire') = Len(Wire) + Len(messages)
        /\ d \in Nat /\ (d > 0 => 1 \in 1 .. Len(Waiting))
        /\ \A i \in 1 .. Len(Wire') : i \in 1 .. Len(Wire) \/
              \E j \in 1 .. Len(messages) : i = Len(Wire) + j /\ Wire'[i] = messages[j]
    BY GivesPlaces
  <1>2. d > 0 => /\ Waiting[1].n \in 1 .. Len(issued) /\ Waiting[1].n # 0 /\ Is(Waiting[1].n, Waiting[1].kind)
                 /\ Len(issued) \in Nat
    BY <1>1, InTheQueue
  <1>20. \A k : Is(Waiting[1].n, Waiting[1].kind) /\ Is(Waiting[1].n, k) => Waiting[1].kind = k
    BY DEF Is
  <1>3. ASSUME NEW j \in 1 .. Len(messages)
        PROVE  \/ messages[j] = Refusal /\ ~srv'.up /\ d = 0 /\ issued = <<>>
               \/ messages[j].kind = "message" /\ messages[j].n = 0 /\ d = 0 /\ messages[j].topic \in srv.topics
               \/ /\ d > 0 /\ messages[j].n = Waiting[1].n
                  /\ Is(Waiting[1].n, "ordinary") => messages[j].kind \in {"reply", "error"} /\ Len(messages) = 1
                  /\ messages[j].kind \in {"reply", "error", "subscribe", "unsubscribe"}
    <2>1. CASE Len(messages) = 1
      <3>1. j = 1
        BY <2>1
      <3>2. CASE Posts(messages, d)
        BY <3>1, <3>2 DEF Posts, Gives
      <3>3. CASE Leaves(messages, d)
        BY <3>3 DEF Leaves
      <3>4. CASE Settles(messages, d)
        BY <2>1, <3>1, <3>4 DEF Settles
      <3>5. CASE Drops(messages, d)
        <4>1. d > 0 /\ ~Is(Waiting[1].n, "ordinary")
          BY <1>2, <1>20, <3>5 DEF Drops
        <4> QED BY <3>1, <3>5, <4>1 DEF Drops
      <3>6. CASE d = 1 /\ GivesSubscribe(messages)
        <4>1. d > 0 /\ ~Is(Waiting[1].n, "ordinary")
          BY <1>2, <1>20, <3>6 DEF GivesSubscribe
        <4> QED BY <3>6, <4>1 DEF GivesSubscribe
      <3> QED BY <3>2, <3>3, <3>4, <3>5, <3>6 DEF Form
    <2>2. CASE Len(messages) # 1
      <3>1. CASE Leaves(messages, d)
        BY <3>1 DEF Leaves
      <3>2. CASE d = 1 /\ GivesSubscribe(messages)
        <4>1. d > 0 /\ ~Is(Waiting[1].n, "ordinary")
          BY <1>2, <1>20, <3>2 DEF GivesSubscribe
        <4> QED BY <3>2, <4>1 DEF GivesSubscribe
      <3> QED BY <2>2, <3>1, <3>2 DEF Form, Posts, Settles, Drops
    <2> QED BY <2>1, <2>2
  <1>4. ASSUME NEW i \in 1 .. Len(Wire'), i \notin 1 .. Len(Wire)
        PROVE  \/ Wire'[i] = Refusal /\ ~srv'.up /\ d = 0 /\ issued = <<>>
               \/ Wire'[i].kind = "message" /\ Wire'[i].n = 0 /\ d = 0 /\ Wire'[i].topic \in srv.topics
               \/ /\ d > 0 /\ Wire'[i].n = Waiting[1].n /\ Waiting[1].n \in 1 .. Len(issued) /\ Waiting[1].n # 0
                  /\ Is(Waiting[1].n, Waiting[1].kind)
                  /\ Is(Waiting[1].n, "ordinary") => Wire'[i].kind \in {"reply", "error"} /\ i = Len(Wire) + 1
                  /\ Wire'[i].kind \in {"reply", "error", "subscribe", "unsubscribe"}
    <2>1. PICK j \in 1 .. Len(messages) : i = Len(Wire) + j /\ Wire'[i] = messages[j]
      BY <1>1, <1>4
    <2>2. Len(messages) = 1 => i = Len(Wire) + 1
      BY <2>1
    <2> QED BY <1>2, <1>3, <2>1, <2>2
  <1>5. d > 0 => Len(messages) > 0 /\ (Is(Waiting[1].n, "ordinary") => Len(messages) = 1)
    <2>1. CASE d = 1 /\ GivesSubscribe(messages)
      <3>1. Len(messages) = Len(Waiting[1].topics) /\ Waiting[1].kind = "subscribe" /\ 1 \in 1 .. Len(Waiting)
        BY <1>1, <2>1 DEF GivesSubscribe
      <3>2. Waiting[1].topics # <<>> /\ Waiting[1].topics \in Seq(Topics)
        BY <3>1, GivesForms DEF Order
      <3>3. Len(Waiting[1].topics) # 0
        BY <3>2, EmptySeq
      <3> QED BY <1>1, <1>2, <1>20, <2>1, <3>1, <3>3
    <2>2. CASE Posts(messages, d) \/ Leaves(messages, d)
      BY <1>1, <2>2 DEF Posts, Leaves
    <2> QED BY <2>1, <2>2 DEF Form, Settles, Drops
  <1>6. d > 0 => Len(Wire) + 1 \in 1 .. Len(Wire') /\ Len(Wire) + 1 \notin 1 .. Len(Wire)
    BY <1>1, <1>5
  <1>7. srv'.up => d \in {0, 1}
    BY <1>1 DEF Form, Posts, Leaves, Settles, Drops
  <1>8. srv'.up /\ d = 0 => srv.topics # {} /\ UNCHANGED srv.topics
    BY DEF Form, Posts, Leaves, Settles, Drops
  <1>9. srv.topics = {} /\ srv'.topics # {} => d = 1 /\ Is(Waiting[1].n, "subscribe")
    <2>1. Drops(messages, d) => srv'.topics \subseteq srv.topics
      BY DEF Drops
    <2>2. d = 1 /\ GivesSubscribe(messages) => Is(Waiting[1].n, "subscribe")
      BY <1>2 DEF GivesSubscribe
    <2> QED BY <2>1, <2>2 DEF Form
  <1>10. d > 0 => Wire'[Len(Wire) + 1].n = Waiting[1].n
    BY <1>4, <1>6
  <1>11. d > 0 /\ Is(Waiting[1].n, "ordinary") => Len(Wire') = Len(Wire) + 1
    BY <1>1, <1>5
  <1> QED BY <1>1, <1>4, <1>6, <1>7, <1>8, <1>9, <1>10, <1>11

-----------------------------------------------------------------------------
\* The commands of the replies list are the next to be answered.

\* The first command that waits is of the list, or the list ends before it.
LEMMA NextInLine ==
    ASSUME Types, Numbered, AlignedBehind, Replies, srv.up, Waiting # <<>>
    PROVE  IF Regular(Waiting[1].n) THEN Len(Wire) + 1 <= Len(ac.replies) /\ Waiting[1].n = ac.replies[Len(Wire) + 1].n
           ELSE Len(ac.replies) <= Len(Wire)
  <1>1. Len(Wire) \in Nat /\ Len(ac.replies) \in Nat
    BY ContextFields, LenProperties
  <1>2. 1 \in 1 .. Len(Waiting)
    BY ContextFields, LenProperties, EmptySeq
  <1>3. IF Len(Wire) + 1 <= Len(ac.replies) THEN Waiting[1].n = ac.replies[Len(Wire) + 1].n ELSE ~Regular(Waiting[1].n)
    BY <1>2 DEF AlignedBehind
  <1>4. Len(Wire) + 1 <= Len(ac.replies) => Regular(ac.replies[Len(Wire) + 1].n)
    BY <1>1 DEF Replies
  <1> QED BY <1>1, <1>3, <1>4

LEMMA LinedGiven ==
    ASSUME Types, Live, Numbered, Heard, Knows, Lined,
           NEW messages, NEW d, Gives(messages, d), Form(messages, d), srv'.up \in BOOLEAN
    PROVE  Lined'
  <1> DEFINE L == Len(Wire)
             R == Len(ac.replies)
  <1>1. /\ L \in Nat /\ Len(Wire') \in Nat /\ L <= Len(Wire') /\ R \in Nat
        /\ Len(Waiting) \in Nat /\ d \in Nat /\ d <= Len(Waiting) /\ Len(Waiting') = Len(Waiting) - d
        /\ \A i \in 1 .. L : i \in 1 .. Len(Wire') /\ Wire'[i] = Wire[i]
        /\ \A i \in 1 .. Len(Waiting') : d + i \in 1 .. Len(Waiting) /\ Waiting'[i] = Waiting[d + i]
        /\ issued' = issued /\ ac' = ac /\ srv.up
        /\ d > 0 => 1 \in 1 .. Len(Waiting)
    <2>1. /\ L \in Nat /\ Len(messages) \in Nat /\ Len(Wire') = L + Len(messages)
          /\ Len(Waiting) \in Nat /\ d \in Nat /\ d <= Len(Waiting) /\ Len(Waiting') = Len(Waiting) - d
          /\ \A i \in 1 .. L : i \in 1 .. Len(Wire') /\ Wire'[i] = Wire[i]
          /\ \A i \in 1 .. Len(Waiting') : d + i \in 1 .. Len(Waiting) /\ Waiting'[i] = Waiting[d + i]
          /\ issued' = issued /\ ac' = ac /\ srv.up
          /\ d > 0 => 1 \in 1 .. Len(Waiting)
      BY GivesPlaces
    <2>2. R \in Nat
      BY ContextFields, LenProperties
    <2>3. Len(Wire') \in Nat /\ L <= Len(Wire')
      BY <2>1
    <2> HIDE DEF L, R
    <2> QED BY <2>1, <2>2, <2>3
  <1>2. /\ \A i \in 1 .. Len(Wire') : i \notin 1 .. L =>
                 \/ Wire'[i] = Refusal
                 \/ Wire'[i].kind = "message" /\ Wire'[i].n = 0 /\ d = 0 /\ Wire'[i].topic \in srv.topics
                 \/ /\ d > 0 /\ Wire'[i].n = Waiting[1].n
                    /\ Is(Waiting[1].n, "ordinary") => i = L + 1
        /\ d > 0 => /\ L + 1 \in 1 .. Len(Wire')
                    /\ Is(Waiting[1].n, "ordinary") => Len(Wire') = L + 1
        /\ srv'.up => d \in {0, 1}
        /\ srv'.up /\ d = 0 => srv.topics # {} /\ UNCHANGED srv.topics
        /\ srv.topics = {} /\ srv'.topics # {} => d = 1 /\ Is(Waiting[1].n, "subscribe")
    BY FormPlaces
  <1>3. d > 0 => IF Regular(Waiting[1].n) THEN L + 1 <= R /\ Waiting[1].n = ac.replies[L + 1].n ELSE R <= L
    <2>1. d > 0 => Waiting # <<>>
      BY <1>1, EmptySeq
    <2> QED BY <1>1, <2>1, NextInLine DEF Lined
  <1>4. ~Regular(0)
    <2>1. 0 \notin 1 .. Len(issued)
      BY LenProperties DEF Types
    <2> QED BY <2>1 DEF Regular, Is
  <1>5. \A n : (Regular(n) => Is(n, "ordinary")) /\ (Is(n, "subscribe") => ~Regular(n))
    BY DEF Regular, Is
  <1>6. srv.topics # {} => R <= L /\ ac.subscribed
    BY <1>1, ContextFields DEF Lined, AlignedBehind, Heard, Knows
  <1> HIDE DEF L, R
  <1>7. ASSUME NEW i \in 1 .. Len(Wire')
        PROVE  \/ Wire'[i] = Refusal
               \/ IF i <= R THEN Wire'[i].n = ac.replies[i].n ELSE ~Regular(Wire'[i].n)
    <2>1. CASE i \in 1 .. L
      BY <1>1, <2>1 DEF Lined, Aligned, L, R
    <2>2. CASE i \notin 1 .. L
      <3>1. i > L
        BY <1>1, <2>2
      <3>2. CASE Wire'[i].n = 0 /\ d = 0 /\ Wire'[i].topic \in srv.topics
        BY <1>1, <1>4, <1>6, <3>1, <3>2
      <3>3. CASE d > 0 /\ Wire'[i].n = Waiting[1].n /\ (Is(Waiting[1].n, "ordinary") => i = L + 1)
        BY <1>1, <1>3, <1>5, <3>1, <3>3
      <3> QED BY <1>2, <2>2, <3>2, <3>3
    <2> QED BY <2>1, <2>2
  <1>8. Aligned'
    BY <1>1, <1>7 DEF Aligned, Refusal, R, Regular, Is
  <1>9. AlignedBehind'
    <2>1. SUFFICES ASSUME srv'.up
                   PROVE  /\ R <= Len(Wire') + Len(Waiting')
                          /\ \A i \in 1 .. Len(Waiting') :
                                IF Len(Wire') + i <= R THEN Waiting'[i].n = ac.replies[Len(Wire') + i].n
                                ELSE ~Regular(Waiting'[i].n)
                          /\ srv'.topics # {} => R <= Len(Wire')
      BY <1>1 DEF AlignedBehind, R, Regular, Is
    <2>2. /\ R <= L + Len(Waiting)
          /\ \A i \in 1 .. Len(Waiting) : IF L + i <= R THEN Waiting[i].n = ac.replies[L + i].n ELSE ~Regular(Waiting[i].n)
      BY <1>1 DEF Lined, AlignedBehind, L, R
    <2>20. \A i \in 1 .. Len(Waiting) : R <= L => ~Regular(Waiting[i].n)
      BY <1>1, <2>2
    <2>3. CASE d = 0
      <3>1. R <= L
        BY <1>2, <1>6, <2>1, <2>3
      <3> QED BY <1>1, <2>20, <2>3, <3>1
    <2>4. CASE d = 1 /\ Regular(Waiting[1].n)
      <3>1. Len(Wire') = L + 1 /\ L + 1 <= R /\ srv.topics = {}
        BY <1>1, <1>2, <1>3, <1>5, <1>6, <2>4
      <3>2. srv'.topics = {}
        BY <1>2, <1>5, <2>4, <3>1
      <3>3. ASSUME NEW i \in 1 .. Len(Waiting')
            PROVE  IF Len(Wire') + i <= R THEN Waiting'[i].n = ac.replies[Len(Wire') + i].n ELSE ~Regular(Waiting'[i].n)
        <4>0. d + i \in 1 .. Len(Waiting) /\ Waiting'[i] = Waiting[d + i]
          BY <1>1
        <4>1. 1 + i \in 1 .. Len(Waiting) /\ Waiting'[i] = Waiting[1 + i] /\ L + (1 + i) = Len(Wire') + i
          BY <1>1, <2>4, <3>1, <4>0
        <4> QED BY <2>2, <4>1
      <3> QED BY <1>1, <2>2, <2>4, <3>1, <3>2, <3>3
    <2>5. CASE d = 1 /\ ~Regular(Waiting[1].n)
      <3>1. R <= L
        BY <1>3, <2>5
      <3> QED BY <1>1, <2>20, <2>5, <3>1
    <2> QED BY <1>2, <2>1, <2>3, <2>4, <2>5
  <1>10. Replies'
    BY <1>1 DEF Lined, Replies, Regular, Is
  <1>11. Plain'
    <2>1. SUFFICES ASSUME ~ac.subscribed
                   PROVE  /\ \A i \in 1 .. Len(Wire') : Wire'[i] = Refusal \/ Regular(Wire'[i].n)
                          /\ srv'.up => \A i \in 1 .. Len(Waiting') : Regular(Waiting'[i].n)
      BY <1>1 DEF Plain, Refusal, Regular, Is
    <2>2. /\ \A i \in 1 .. L : Wire[i] = Refusal \/ Regular(Wire[i].n)
          /\ \A i \in 1 .. Len(Waiting) : Regular(Waiting[i].n)
      BY <1>1, <2>1 DEF Lined, Plain, L
    <2>3. srv.topics = {}
      BY <1>6, <2>1
    <2>4. \A i \in 1 .. Len(Wire') : Wire'[i] = Refusal \/ Regular(Wire'[i].n)
      BY <1>1, <1>2, <2>2, <2>3
    <2> QED BY <1>1, <2>2, <2>4
  <1> QED BY <1>8, <1>9, <1>10, <1>11 DEF Lined

\* What is said of a command, when another one has been sent.
LEMMA NewCommand ==
    ASSUME Types, NEW kind \in Kind, NEW topics \in Seq(Topics), Sends(kind, topics)
    PROVE  /\ \A n : n # Len(issued) + 1 =>
                 /\ n \in 1 .. Len(issued') <=> n \in 1 .. Len(issued)
                 /\ Regular(n)' <=> Regular(n)
                 /\ Invalid(n)' <=> Invalid(n)
                 /\ \A k : Is(n, k)' <=> Is(n, k)
                 /\ \A t : (Subs(n, t)' <=> Subs(n, t)) /\ (Unsubs(n, t)' <=> Unsubs(n, t))
           /\ \A n : n = Len(issued) + 1 =>
                 /\ n \in 1 .. Len(issued')
                 /\ Regular(n)' <=> kind = "ordinary" /\ ~ac.subscribed
                 /\ Invalid(n)' <=> kind = "ordinary" /\ ac.subscribed
                 /\ \A k : Is(n, k)' <=> k = kind
                 /\ \A t : Subs(n, t)' <=> kind = "subscribe" /\ \E k \in 1 .. Len(topics) : topics[k] = t
                 /\ \A t : Unsubs(n, t)' <=> kind = "unsubscribe" /\ topics[1] = t
  <1>1. /\ Len(issued) \in Nat /\ Len(issued') = Len(issued) + 1
        /\ issued'[Len(issued) + 1] =
              [kind |-> kind, topics |-> topics, list |-> IF ac.subscribed THEN "invalid" ELSE "replies"]
    BY IssuedGrows
  <1>2. ASSUME NEW n, n # Len(issued) + 1
        PROVE  /\ n \in 1 .. Len(issued') <=> n \in 1 .. Len(issued)
               /\ Regular(n)' <=> Regular(n)
               /\ Invalid(n)' <=> Invalid(n)
               /\ \A k : Is(n, k)' <=> Is(n, k)
               /\ \A t : (Subs(n, t)' <=> Subs(n, t)) /\ (Unsubs(n, t)' <=> Unsubs(n, t))
    <2>1. n \in 1 .. Len(issued') <=> n \in 1 .. Len(issued)
      BY <1>1, <1>2
    <2>2. CASE n \in 1 .. Len(issued)
      BY <2>1, <2>2, IssuedStays
    <2>3. CASE n \notin 1 .. Len(issued)
      BY <2>1, <2>3 DEF Regular, Invalid, Is, Subs, Unsubs
    <2> QED BY <2>1, <2>2, <2>3
  <1>3. ASSUME NEW n, n = Len(issued) + 1
        PROVE  /\ n \in 1 .. Len(issued')
               /\ Regular(n)' <=> kind = "ordinary" /\ ~ac.subscribed
               /\ Invalid(n)' <=> kind = "ordinary" /\ ac.subscribed
               /\ \A k : Is(n, k)' <=> k = kind
               /\ \A t : Subs(n, t)' <=> kind = "subscribe" /\ \E k \in 1 .. Len(topics) : topics[k] = t
               /\ \A t : Unsubs(n, t)' <=> kind = "unsubscribe" /\ topics[1] = t
    <2>1. n \in 1 .. Len(issued') /\ issued'[n].kind = kind /\ issued'[n].topics = topics
          /\ issued'[n].list = IF ac.subscribed THEN "invalid" ELSE "replies"
      BY <1>1, <1>3
    <2> HIDE <1>3
    <2> QED BY <2>1 DEF Regular, Invalid, Is, Subs, Unsubs, Names
  <1> QED BY <1>2, <1>3

LEMMA LinedSends ==
    ASSUME Types, Numbered, Heard, Knows, Lined, NEW kind \in Kind, NEW topics \in Seq(Topics), Sends(kind, topics),
           \/ /\ kind = "ordinary" /\ ~ac.subscribed /\ ~ac'.subscribed
              /\ ac'.replies = Append(ac.replies, Callback(Len(issued) + 1, NoTopic))
           \/ /\ kind # "ordinary" \/ ac.subscribed
              /\ ac'.subscribed /\ ac'.replies = ac.replies
    PROVE  Lined'
  <1> DEFINE L == Len(Wire)
             R == Len(ac.replies)
             W == Len(Waiting)
             N == Len(issued)
  <1>1. /\ N \in Nat /\ L \in Nat /\ R \in Nat /\ W \in Nat /\ Len(Waiting') = W + 1
        /\ \A i \in 1 .. W : Waiting'[i] = Waiting[i]
        /\ Waiting'[W + 1].n = N + 1
        /\ Wire' = Wire /\ srv' = srv
    <2>1. R \in Nat
      BY ContextFields, LenProperties
    <2>2. /\ N \in Nat /\ L \in Nat /\ W \in Nat /\ Len(Waiting') = W + 1
          /\ \A i \in 1 .. W : Waiting'[i] = Waiting[i]
          /\ Waiting'[W + 1] = [kind |-> kind, n |-> N + 1, topics |-> topics]
          /\ Wire' = Wire /\ srv' = srv
      BY IssuedGrows
    <2> HIDE DEF L, R, W, N
    <2> QED BY <2>1, <2>2
  <1>2. /\ \A n : n # N + 1 => (Regular(n)' <=> Regular(n))
        /\ \A n : n = N + 1 => (Regular(n)' <=> kind = "ordinary" /\ ~ac.subscribed)
    BY NewCommand
  <1>3. \A i \in 1 .. L : Wire[i].n # N + 1
    BY <1>1, OnTheWire
  <1>4. \A i \in 1 .. W : Waiting[i].n # N + 1
    BY <1>1, InTheQueue
  <1>5. \A i \in 1 .. R : ac.replies[i].topic = NoTopic /\ Regular(ac.replies[i].n) /\ ac.replies[i].n # N + 1
    <2>1. \A n : Regular(n) => n # N + 1
      BY <1>1 DEF Regular, Is
    <2> QED BY <2>1 DEF Lined, Replies
  <1>6. \A i \in 1 .. W + 1 : i \in 1 .. W \/ i = W + 1
    BY <1>1
  <1>7. /\ \A i \in 1 .. L : \/ Wire[i] = Refusal
                             \/ IF i <= R THEN Wire[i].n = ac.replies[i].n ELSE ~Regular(Wire[i].n)
        /\ srv.up => /\ R <= L + W
                     /\ \A i \in 1 .. W :
                           IF L + i <= R THEN Waiting[i].n = ac.replies[L + i].n ELSE ~Regular(Waiting[i].n)
                     /\ srv.topics # {} => R <= L
    BY DEF Lined, Aligned, AlignedBehind
  <1>8. ASSUME NEW n, n # N + 1, NEW m, m = n PROVE Regular(m)' <=> Regular(n)
    BY <1>2, <1>8
  <1> HIDE DEF L, R, W, N
  <1>9. CASE kind = "ordinary" /\ ~ac.subscribed
    <2> DEFINE c == Callback(N + 1, NoTopic)
    <2>1. /\ Len(ac'.replies) = R + 1 /\ \A i \in 1 .. R : ac'.replies[i] = ac.replies[i]
          /\ ac'.replies[R + 1].n = N + 1 /\ ac'.replies[R + 1].topic = NoTopic /\ ~ac'.subscribed
      <3>1. ac'.replies = Append(ac.replies, c) /\ c \in Back /\ ac.replies \in Seq(Back) /\ ~ac'.subscribed
        BY <1>1, <1>9, ContextFields DEF Callback, Back, N
      <3>2. c.n = N + 1 /\ c.topic = NoTopic
        BY DEF Callback
      <3> HIDE DEF c
      <3>3. Len(ac'.replies) = R + 1 /\ (\A i \in 1 .. R : ac'.replies[i] = ac.replies[i]) /\ ac'.replies[R + 1] = c
        BY <3>1, AppendProperties DEF R
      <3> QED BY <3>1, <3>2, <3>3
    <2> HIDE DEF c
    <2>2. /\ \A i \in 1 .. L : Wire[i] = Refusal \/ Regular(Wire[i].n)
          /\ srv.up => \A i \in 1 .. W : Regular(Waiting[i].n)
      BY <1>9 DEF Lined, Plain, L, W
    <2>3. srv.topics = {}
      BY <1>9, ContextFields DEF Heard, Knows
    <2>4. srv.up => R = L + W
      <3>1. srv.up => \A i \in 1 .. L : i <= R
        <4>1. srv.up => \A i \in 1 .. L : Wire[i] # Refusal
          BY DEF Numbered, Accounted, L
        <4> QED BY <1>7, <2>2, <4>1
      <3>2. srv.up => \A i \in 1 .. W : L + i <= R
        BY <1>7, <2>2
      <3>3. CASE W = 0 /\ L # 0 /\ srv.up
        <4>1. L \in 1 .. L
          BY <1>1, <3>3
        <4> QED BY <1>1, <1>7, <3>1, <3>3, <4>1
      <3>4. CASE W # 0 /\ srv.up
        <4>1. W \in 1 .. W
          BY <1>1, <3>4
        <4> QED BY <1>1, <1>7, <3>2, <3>4, <4>1
      <3> QED BY <1>1, <1>7, <3>3, <3>4
    <2>5. Aligned'
      <3>1. ASSUME NEW i \in 1 .. L, NEW n, n = Wire[i].n
            PROVE  \/ Wire[i] = Refusal
                   \/ IF i <= R + 1 THEN n = ac'.replies[i].n ELSE ~Regular(n)'
        BY <1>1, <1>2, <1>3, <1>7, <2>1, <2>2, <3>1
      <3> QED BY <1>1, <2>1, <3>1 DEF Aligned, Refusal, L
    <2>6. AlignedBehind'
      <3>1. ASSUME srv.up, NEW i \in 1 .. W + 1, NEW n, n = Waiting'[i].n
            PROVE  IF L + i <= R + 1 THEN n = ac'.replies[L + i].n ELSE ~Regular(n)'
        <4>1. CASE i \in 1 .. W
          <5>1. L + i <= R /\ L + i \in 1 .. R
            BY <1>1, <2>4, <3>1, <4>1
          <5>2. ac'.replies[L + i] = ac.replies[L + i] /\ n = Waiting[i].n
            BY <1>1, <2>1, <3>1, <4>1, <5>1
          <5>3. Waiting[i].n = ac.replies[L + i].n
            BY <1>7, <3>1, <4>1, <5>1
          <5>4. L + i <= R + 1
            BY <1>1, <5>1
          <5> QED BY <5>2, <5>3, <5>4
        <4>2. CASE i = W + 1
          <5>1. L + i = R + 1
            BY <1>1, <2>4, <3>1, <4>2
          <5> QED BY <1>1, <2>1, <3>1, <4>2, <5>1
        <4> QED BY <1>6, <4>1, <4>2
      <3>2. srv.up => R + 1 <= L + (W + 1)
        BY <1>1, <2>4
      <3> QED BY <1>1, <2>1, <2>3, <3>1, <3>2 DEF AlignedBehind, L
    <2>7. Replies'
      <3>1. ASSUME NEW i \in 1 .. R + 1, NEW n, n = ac'.replies[i].n
            PROVE  ac'.replies[i].topic = NoTopic /\ Regular(n)'
        <4>1. CASE i \in 1 .. R
          BY <1>2, <1>5, <2>1, <3>1, <4>1
        <4>2. CASE i = R + 1
          BY <1>2, <1>9, <2>1, <3>1, <4>2
        <4> QED BY <1>1, <4>1, <4>2
      <3> QED BY <2>1, <3>1 DEF Replies
    <2>8. Plain'
      <3>1. ASSUME NEW i \in 1 .. L, NEW n, n = Wire[i].n PROVE Wire[i] = Refusal \/ Regular(n)'
        BY <1>2, <1>3, <2>2, <3>1
      <3>2. ASSUME srv.up, NEW i \in 1 .. W + 1, NEW n, n = Waiting'[i].n PROVE Regular(n)'
        BY <1>1, <1>2, <1>4, <1>6, <1>9, <2>2, <3>2
      <3> QED BY <1>1, <3>1, <3>2 DEF Plain, Refusal, L
    <2> QED BY <2>5, <2>6, <2>7, <2>8 DEF Lined
  <1>10. CASE ~(kind = "ordinary" /\ ~ac.subscribed)
    <2>1. ac'.subscribed /\ ac'.replies = ac.replies
      BY <1>10
    <2>2. Aligned'
      <3>1. ASSUME NEW i \in 1 .. L, NEW n, n = Wire[i].n
            PROVE  \/ Wire[i] = Refusal
                   \/ IF i <= R THEN n = ac.replies[i].n ELSE ~Regular(n)'
        BY <1>2, <1>3, <1>7, <3>1
      <3> QED BY <1>1, <2>1, <3>1 DEF Aligned, Refusal, L, R
    <2>3. AlignedBehind'
      <3>1. ASSUME srv.up, NEW i \in 1 .. W + 1, NEW n, n = Waiting'[i].n
            PROVE  IF L + i <= R THEN n = ac.replies[L + i].n ELSE ~Regular(n)'
        <4>1. CASE i \in 1 .. W
          BY <1>1, <1>2, <1>4, <1>7, <3>1, <4>1
        <4>2. CASE i = W + 1
          BY <1>1, <1>2, <1>7, <1>10, <3>1, <4>2
        <4> QED BY <1>6, <4>1, <4>2
      <3>2. srv.up => R <= L + (W + 1)
        BY <1>1, <1>7
      <3> QED BY <1>1, <1>7, <2>1, <3>1, <3>2 DEF AlignedBehind, L, R
    <2>4. Replies'
      <3>1. ASSUME NEW i \in 1 .. R, NEW n, n = ac.replies[i].n PROVE ac.replies[i].topic = NoTopic /\ Regular(n)'
        BY <1>2, <1>5, <3>1
      <3> QED BY <2>1, <3>1 DEF Replies, R
    <2>5. Plain'
      BY <2>1 DEF Plain
    <2> QED BY <2>2, <2>3, <2>4, <2>5 DEF Lined
  <1> QED BY <1>9, <1>10

\* The lists, when the first reply is taken by a regular callback, and when
\* none is waiting.
LEMMA LinedTail ==
    ASSUME Types, Lined, Takes, ac.replies # <<>>, ac'.replies = Tail(ac.replies), UNCHANGED ac.subscribed
    PROVE  Lined'
  <1> DEFINE L == Len(Wire)
             R == Len(ac.replies)
             W == Len(Waiting)
  <1>1. /\ L \in Nat \ {0} /\ Len(Wire') = L - 1
        /\ \A i \in 1 .. L - 1 : i + 1 \in 1 .. L /\ Wire'[i] = Wire[i + 1]
        /\ Waiting' = Waiting /\ srv' = srv /\ issued' = issued /\ W \in Nat
    <2>1. W \in Nat
      BY ContextFields, LenProperties
    <2> QED BY <2>1, WireShrinks DEF Takes
  <1>2. /\ R \in Nat \ {0} /\ Len(ac'.replies) = R - 1
        /\ \A i \in 1 .. R - 1 : i + 1 \in 1 .. R /\ ac'.replies[i] = ac.replies[i + 1]
    <2>1. ac.replies \in Seq(Back) /\ ac.replies # <<>>
      BY ContextFields
    <2>2. /\ R \in Nat \ {0} /\ Len(Tail(ac.replies)) = R - 1
          /\ \A i \in 1 .. R - 1 : Tail(ac.replies)[i] = ac.replies[i + 1]
      BY <2>1, HeadTailProperties, EmptySeq, LenProperties
    <2> QED BY <2>2
  <1>3. /\ \A i \in 1 .. L : \/ Wire[i] = Refusal
                             \/ IF i <= R THEN Wire[i].n = ac.replies[i].n ELSE ~Regular(Wire[i].n)
        /\ srv.up => /\ R <= L + W
                     /\ \A i \in 1 .. W :
                           IF L + i <= R THEN Waiting[i].n = ac.replies[L + i].n ELSE ~Regular(Waiting[i].n)
                     /\ srv.topics # {} => R <= L
        /\ \A i \in 1 .. R : ac.replies[i].topic = NoTopic /\ Regular(ac.replies[i].n)
        /\ ~ac.subscribed => /\ \A i \in 1 .. L : Wire[i] = Refusal \/ Regular(Wire[i].n)
                             /\ srv.up => \A i \in 1 .. W : Regular(Waiting[i].n)
    BY DEF Lined, Aligned, AlignedBehind, Replies, Plain
  <1> HIDE DEF L, R, W
  <1>4. \A i \in 1 .. L - 1 : \/ Wire'[i] = Refusal
                              \/ IF i <= R - 1 THEN Wire'[i].n = ac'.replies[i].n ELSE ~Regular(Wire'[i].n)
    <2> SUFFICES ASSUME NEW i \in 1 .. L - 1
                 PROVE  \/ Wire[i + 1] = Refusal
                        \/ IF i <= R - 1 THEN Wire[i + 1].n = ac'.replies[i].n ELSE ~Regular(Wire[i + 1].n)
      BY <1>1
    <2>1. \/ Wire[i + 1] = Refusal
          \/ IF i + 1 <= R THEN Wire[i + 1].n = ac.replies[i + 1].n ELSE ~Regular(Wire[i + 1].n)
      BY <1>1, <1>3
    <2>2. i + 1 <= R <=> i <= R - 1
      BY <1>2
    <2> QED BY <1>2, <2>1, <2>2
  <1>5. Aligned'
    BY <1>1, <1>2, <1>4 DEF Aligned, Refusal, Regular, Is
  <1>6. AlignedBehind'
    <2>1. ASSUME srv.up, NEW i \in 1 .. W
          PROVE  IF L - 1 + i <= R - 1 THEN Waiting[i].n = ac'.replies[L - 1 + i].n ELSE ~Regular(Waiting[i].n)
      <3>1. IF L + i <= R THEN Waiting[i].n = ac.replies[L + i].n ELSE ~Regular(Waiting[i].n)
        BY <1>3, <2>1
      <3>2. (L + i <= R <=> L - 1 + i <= R - 1) /\ L - 1 + i + 1 = L + i
        BY <1>1, <1>2
      <3>3. L + i <= R => L - 1 + i \in 1 .. R - 1
        BY <1>1, <1>2
      <3>4. L + i <= R => ac'.replies[L - 1 + i] = ac.replies[L + i]
        BY <1>2, <3>2, <3>3
      <3> QED BY <3>1, <3>2, <3>4
    <2>2. srv.up => R - 1 <= L - 1 + W /\ (srv.topics # {} => R - 1 <= L - 1)
      BY <1>1, <1>2, <1>3
    <2> QED BY <1>1, <1>2, <2>1, <2>2 DEF AlignedBehind, Regular, Is, W
  <1>7. Replies'
    BY <1>1, <1>2, <1>3 DEF Replies, Regular, Is
  <1>8. Plain'
    <2>1. ~ac.subscribed => /\ \A i \in 1 .. L - 1 : Wire'[i] = Refusal \/ Regular(Wire'[i].n)
                            /\ srv.up => \A i \in 1 .. W : Regular(Waiting[i].n)
      BY <1>1, <1>3
    <2> QED BY <1>1, <2>1 DEF Plain, Refusal, Regular, Is, W
  <1> QED BY <1>5, <1>6, <1>7, <1>8 DEF Lined

LEMMA LinedEmpty ==
    ASSUME Types, Lined, Takes, ac.replies = <<>>, UNCHANGED ac.replies, Plain'
    PROVE  Lined'
  <1> DEFINE L == Len(Wire)
             W == Len(Waiting)
  <1>1. /\ L \in Nat \ {0} /\ Len(Wire') = L - 1
        /\ \A i \in 1 .. L - 1 : i + 1 \in 1 .. L /\ Wire'[i] = Wire[i + 1]
        /\ Waiting' = Waiting /\ srv' = srv /\ issued' = issued /\ W \in Nat
    <2>1. W \in Nat
      BY ContextFields, LenProperties
    <2> QED BY <2>1, WireShrinks DEF Takes
  <1>2. Len(ac.replies) = 0 /\ ac'.replies = ac.replies
    BY EmptySeq
  <1>3. /\ \A i \in 1 .. L : Wire[i] = Refusal \/ ~Regular(Wire[i].n)
        /\ srv.up => \A i \in 1 .. W : ~Regular(Waiting[i].n)
    BY <1>1, <1>2 DEF Lined, Aligned, AlignedBehind
  <1> HIDE DEF L, W
  <1>4. Aligned'
    <2>1. \A i \in 1 .. L - 1 : Wire'[i] = Refusal \/ ~Regular(Wire'[i].n)
      BY <1>1, <1>3
    <2>2. \A i \in 1 .. L - 1 : ~(i <= 0)
      BY <1>1
    <2> QED BY <1>1, <1>2, <2>1, <2>2 DEF Aligned, Refusal, Regular, Is
  <1>5. AlignedBehind'
    <2>1. \A i \in 1 .. W : ~(L - 1 + i <= 0)
      BY <1>1
    <2>2. 0 <= L - 1 + W /\ 0 <= L - 1
      BY <1>1
    <2> QED BY <1>1, <1>2, <1>3, <2>1, <2>2 DEF AlignedBehind, Regular, Is, W
  <1>6. Replies'
    BY <1>2 DEF Replies
  <1> QED BY <1>4, <1>5, <1>6 DEF Lined

\* When the last topic goes, nothing behind its confirmation is of the
\* subscribed mode: a SUBSCRIBE would be counted, and every later UNSUBSCRIBE
\* of the topic follows a SUBSCRIBE of it.
Ends(t) == /\ Wire # <<>> /\ Wire[1].kind = "unsubscribe" /\ t = Wire[1].topic
           /\ Subscribed = {t} /\ Pendings(t) = 0

LEMMA Spent ==
    ASSUME Types, Numbered, Counted, Alternate, Following, LastWord, NEW t \in Topics, Ends(t),
           NEW n \in 1 .. Len(issued), Wire[1].n < n, srv.up \/ \E j \in 1 .. Len(Wire) : n = Wire[j].n
    PROVE  ~Is(n, "ordinary") /\ ~(Is(n, "subscribe") /\ Awaited(n)) /\ ~Unsubs(n, t)
  <1>1. /\ 1 \in 1 .. Len(Wire) /\ Len(Wire) \in Nat /\ Len(issued) \in Nat /\ Wire[1].n \in Nat
        /\ issued \in Seq(Issued)
    <2>1. 1 \in 1 .. Len(Wire) /\ Len(Wire) \in Nat
      BY ContextFields, LenProperties, EmptySeq DEF Ends
    <2> QED BY <2>1, OnTheWire, LenProperties DEF Types
  <1>2. \A u \in Topics : \A m : Subs(m, u) /\ InFlight(m, u) => FALSE
    <2>1. \A u \in Topics : \A m : Subs(m, u) /\ InFlight(m, u) => Pendings(u) > 0 /\ u \in Subscribed
      BY InFlightCounts
    <2> QED BY <2>1 DEF Ends
  <1>3. ~Is(n, "ordinary")
    BY <1>1 DEF LastWord, Ends
  <1>4. ASSUME Is(n, "subscribe"), Awaited(n) PROVE FALSE
    <2>1. issued[n].topics[1] \in Topics /\ Subs(n, issued[n].topics[1])
      BY <1>4, EntryOf
    <2> QED BY <1>2, <1>4, <2>1 DEF InFlight
  <1>5. ASSUME Unsubs(n, t) PROVE FALSE
    <2>1. Unsubs(Wire[1].n, t) /\ Wire[1].n \in 1 .. Len(issued)
      <3>1. Answered(Wire[1]) /\ Wire[1].kind = "unsubscribe" /\ Wire[1].topic = t
        BY <1>1, OnTheWire DEF Ends
      <3>2. Unsubs(Wire[1].n, t)
        BY <3>1 DEF Answered, Refusal, Message
      <3> QED BY <3>2 DEF Unsubs, Is
    <2>2. PICK k \in 1 .. Len(issued) : Wire[1].n < k /\ k < n /\ Subs(k, t)
      BY <1>5, <2>1 DEF Alternate
    <2>3. srv.up \/ \E j \in 1 .. Len(Wire) : k < Wire[j].n
      BY <2>2
    <2>4. Wire[1].n # 0
      BY <1>1, <2>1
    <2>5. InFlight(k, t)
      BY <1>1, <2>2, <2>3, <2>4 DEF Following
    <2> QED BY <1>2, <2>2, <2>5
  <1> QED BY <1>3, <1>4, <1>5

LEMMA PlainEnds ==
    ASSUME Types, Numbered, Counted, Alternate, Following, LastWord, Leaving, Messages, Takes,
           NEW t \in Topics, Ends(t)
    PROVE  Plain'
  <1>1. /\ 1 \in 1 .. Len(Wire) /\ Len(Wire) \in Nat /\ Len(issued) \in Nat /\ Len(Waiting) \in Nat
        /\ Wire[1].n \in Nat /\ Wire[1].n <= Len(issued) - Len(Waiting)
        /\ issued \in Seq(Issued)
    <2>1. 1 \in 1 .. Len(Wire) /\ Len(Wire) \in Nat
      BY ContextFields, LenProperties, EmptySeq DEF Ends
    <2> QED BY <2>1, OnTheWire, InTheQueue DEF Types
  <1>2. /\ Len(Wire') = Len(Wire) - 1
        /\ \A i \in 1 .. Len(Wire') : i + 1 \in 1 .. Len(Wire) /\ i + 1 # 1 /\ Wire'[i] = Wire[i + 1]
        /\ Waiting' = Waiting /\ srv' = srv /\ issued' = issued
    BY WireShrinks DEF Takes
  <1>3. \A u \in Topics : \A i \in 1 .. Len(Wire) : ~Confirms(Wire[i], u)
    <2>1. \A u \in Topics : \A i \in 1 .. Len(Wire) : Confirms(Wire[i], u) => Pendings(u) > 0 /\ u \in Subscribed
      BY Confirmable
    <2> QED BY <2>1 DEF Ends
  <1>4. \A n \in 1 .. Len(issued) : Is(n, "unsubscribe") => issued[n].topics[1] \in Topics
    BY EntryOf
  <1>5. ASSUME NEW j \in 1 .. Len(Wire), j # 1, Wire[j] # Refusal PROVE FALSE
    <2> DEFINE n == Wire[j].n
    <2>1. Answered(Wire[j]) /\ n \in Nat
      BY OnTheWire
    <2>2. n # 0 => Wire[1].n < n
      <3>1. n # 0 => Wire[1].n <= n /\ (Wire[1].n = n => Wire[1].kind = "subscribe")
        BY <1>1, <1>5 DEF Numbered, Inorder
      <3>2. Wire[1].kind = "unsubscribe"
        BY DEF Ends
      <3> QED BY <1>1, <2>1, <3>1, <3>2
    <2>3. n \in 1 .. Len(issued) =>
             ~Is(n, "ordinary") /\ ~(Is(n, "subscribe") /\ Awaited(n)) /\ ~Unsubs(n, t)
      <3>1. n \in 1 .. Len(issued) => n # 0
        BY <1>1
      <3> QED BY <2>2, <3>1, Spent
    <2>4. \A u \in Topics : Unsubs(n, u) => u = t
      BY DEF Leaving, Ends
    <2>5. Is(n, "unsubscribe") => Unsubs(n, issued[n].topics[1]) /\ n \in 1 .. Len(issued)
      BY DEF Is, Unsubs
    <2>6. ~(n \in 1 .. Len(issued) /\ Is(n, "unsubscribe"))
      BY <1>4, <2>3, <2>4, <2>5
    <2>7. n \in 1 .. Len(issued) => Is(n, "ordinary") \/ Is(n, "subscribe") \/ Is(n, "unsubscribe")
      BY EntryOf
    <2>8. CASE Wire[j].kind = "reply" /\ Is(n, "ordinary")
      BY <2>3, <2>8 DEF Is
    <2>9. CASE Wire[j].kind = "error" /\ n \in 1 .. Len(issued)
      BY <2>3, <2>6, <2>7, <2>9 DEF Awaited
    <2>10. CASE Wire[j].kind = "subscribe" /\ Wire[j].topic \in Topics
      BY <1>3, <2>10 DEF Confirms
    <2>11. CASE Wire[j].kind = "unsubscribe" /\ Wire[j].topic \in Topics /\ Unsubs(n, Wire[j].topic)
      BY <2>6, <2>11 DEF Unsubs, Is
    <2>12. CASE Wire[j].kind = "message" /\ Wire[j].topic \in Topics
      <3>1. Wire[j].topic \in Subscribed
        BY <2>12 DEF Messages
      <3>2. Wire[j].topic = t /\ Wire[1].kind = "unsubscribe" /\ Wire[1].topic = t
        BY <3>1 DEF Ends
      <3>3. 1 < j
        BY <1>5
      <3>4. \E k \in 1 .. Len(Wire) : Confirms(Wire[k], t)
        BY <1>1, <2>12, <3>2, <3>3 DEF Messages
      <3> QED BY <1>3, <3>4
    <2> QED BY <1>5, <2>1, <2>8, <2>9, <2>10, <2>11, <2>12 DEF Answered
  <1>6. ASSUME srv.up, NEW i \in 1 .. Len(Waiting) PROVE FALSE
    <2> DEFINE n == Waiting[i].n
    <2>1. n = Len(issued) - Len(Waiting) + i /\ n \in 1 .. Len(issued) /\ Is(n, Waiting[i].kind)
      BY InTheQueue
    <2>2. Wire[1].n < n
      BY <1>1, <2>1
    <2>3. Awaited(n)
      BY DEF Awaited
    <2>4. ~Is(n, "ordinary") /\ ~(Is(n, "subscribe") /\ Awaited(n)) /\ ~Unsubs(n, t)
      BY <1>6, <2>1, <2>2, Spent
    <2>5. Is(n, "unsubscribe")
      BY <2>1, <2>3, <2>4, EntryOf
    <2>6. Unsubs(n, issued[n].topics[1]) /\ issued[n].topics[1] \in Topics
      BY <1>4, <2>1, <2>5 DEF Unsubs
    <2>7. issued[n].topics[1] = t
      BY <1>6, <2>6 DEF Leaving, Ends
    <2> QED BY <2>4, <2>6, <2>7
  <1> QED BY <1>2, <1>5, <1>6 DEF Plain, Refusal

-----------------------------------------------------------------------------
\* The callbacks of the invalid list.

LEMMA NumbersOf ==
    ASSUME Types, Numbered, Numbers
    PROVE  /\ ac.invalid \in Seq(Back) /\ Len(ac.invalid) \in Nat
           /\ \A k \in 1 .. Len(ac.invalid) : /\ ac.invalid[k].topic = NoTopic /\ Invalid(ac.invalid[k].n)
                                              /\ ac.invalid[k].n \in 1 .. Len(issued) /\ ac.invalid[k].n \in Nat
           /\ \A i, j \in 1 .. Len(ac.invalid) : i < j => ac.invalid[i].n < ac.invalid[j].n
           /\ \A i \in 1 .. Len(Wire) : Invalid(Wire[i].n) => InInvalid(Wire[i].n)
           /\ \A k \in 1 .. Len(ac.invalid) : \A i \in 1 .. Len(Wire) :
                 ac.invalid[k].n < Wire[i].n => \E j \in 1 .. Len(Wire) : Wire[j].n = ac.invalid[k].n
           /\ srv.up =>
                 /\ \A i \in 1 .. Len(Waiting) : Invalid(Waiting[i].n) => InInvalid(Waiting[i].n)
                 /\ \A k \in 1 .. Len(ac.invalid) :
                       \/ \E j \in 1 .. Len(Wire) : Wire[j].n = ac.invalid[k].n
                       \/ \E j \in 1 .. Len(Waiting) : Waiting[j].n = ac.invalid[k].n
  <1>1. ac.invalid \in Seq(Back) /\ Len(ac.invalid) \in Nat /\ Len(issued) \in Nat
    BY ContextFields, LenProperties DEF Types
  <1>2. \A n : Invalid(n) => n \in 1 .. Len(issued) /\ n \in Nat
    BY <1>1 DEF Invalid, Is
  <1> QED BY <1>1, <1>2 DEF Numbers, Invalids, Expected

LEMMA NumbersGiven ==
    ASSUME Types, Live, Numbered, Numbers,
           NEW messages, NEW d, Gives(messages, d), Form(messages, d), srv'.up \in BOOLEAN
    PROVE  Numbers'
  <1> DEFINE L == Len(Wire)
             W == Len(Waiting)
             V == Len(ac.invalid)
  <1>1. /\ L \in Nat /\ Len(Wire') \in Nat /\ L <= Len(Wire')
        /\ W \in Nat /\ d \in Nat /\ d <= W /\ Len(Waiting') = W - d
        /\ \A i \in 1 .. L : i \in 1 .. Len(Wire') /\ Wire'[i] = Wire[i]
        /\ \A i \in 1 .. Len(Waiting') : d + i \in 1 .. W /\ Waiting'[i] = Waiting[d + i]
        /\ issued' = issued /\ ac' = ac /\ srv.up
        /\ d > 0 => 1 \in 1 .. W
    <2>1. /\ L \in Nat /\ Len(messages) \in Nat /\ Len(Wire') = L + Len(messages)
          /\ Len(Waiting) \in Nat /\ d \in Nat /\ d <= Len(Waiting) /\ Len(Waiting') = Len(Waiting) - d
          /\ \A i \in 1 .. L : i \in 1 .. Len(Wire') /\ Wire'[i] = Wire[i]
          /\ \A i \in 1 .. Len(Waiting') : d + i \in 1 .. Len(Waiting) /\ Waiting'[i] = Waiting[d + i]
          /\ issued' = issued /\ ac' = ac /\ srv.up
          /\ d > 0 => 1 \in 1 .. Len(Waiting)
      BY GivesPlaces
    <2>3. Len(Wire') \in Nat /\ L <= Len(Wire')
      BY <2>1
    <2> HIDE DEF L
    <2> QED BY <2>1, <2>3
  <1>2. /\ \A i \in 1 .. Len(Wire') : i \notin 1 .. L =>
              \/ Wire'[i] = Refusal
              \/ Wire'[i].n = 0
              \/ d > 0 /\ Wire'[i].n = Waiting[1].n
        /\ d > 0 => L + 1 \in 1 .. Len(Wire') /\ Wire'[L + 1].n = Waiting[1].n
        /\ srv'.up => d \in {0, 1}
    BY FormPlaces
  <1>3. /\ \A k \in 1 .. V : Invalid(ac.invalid[k].n) /\ ac.invalid[k].n \in Nat
        /\ \A i \in 1 .. L : Invalid(Wire[i].n) => InInvalid(Wire[i].n)
        /\ \A k \in 1 .. V : \A i \in 1 .. L :
              ac.invalid[k].n < Wire[i].n => \E j \in 1 .. L : Wire[j].n = ac.invalid[k].n
        /\ \A i \in 1 .. W : Invalid(Waiting[i].n) => InInvalid(Waiting[i].n)
        /\ \A k \in 1 .. V : \/ \E j \in 1 .. L : Wire[j].n = ac.invalid[k].n
                             \/ \E j \in 1 .. W : Waiting[j].n = ac.invalid[k].n
    BY <1>1, NumbersOf
  <1>4. /\ ~Invalid(0) /\ Refusal.n = 0
        /\ \A i \in 1 .. W : Waiting[i].n \in Nat /\ Waiting[1].n <= Waiting[i].n
    <2>1. /\ 0 \notin 1 .. Len(issued) /\ Len(issued) \in Nat
          /\ \A i \in 1 .. W : Waiting[i].n = Len(issued) - W + i /\ Waiting[i].n \in 1 .. Len(issued)
      BY InTheQueue
    <2>2. \A i \in 1 .. W : 1 \in 1 .. W /\ 1 <= i
      BY <1>1
    <2> HIDE DEF W
    <2>3. ASSUME NEW i \in 1 .. W PROVE Waiting[i].n \in Nat /\ Waiting[1].n <= Waiting[i].n
      <3>1. Waiting[i].n = Len(issued) - W + i /\ Waiting[i].n \in 1 .. Len(issued) /\ 1 \in 1 .. W
        BY <2>1, <2>2
      <3>2. Waiting[1].n = Len(issued) - W + 1
        BY <2>1, <3>1
      <3> QED BY <1>1, <2>1, <3>1, <3>2
    <2> QED BY <2>1, <2>3 DEF Invalid, Is, Refusal, Message
  <1> HIDE DEF L, W, V
  <1>5. \A n : InInvalid(n)' <=> InInvalid(n)
    BY <1>1 DEF InInvalid
  <1>6. Invalids'
    BY <1>1 DEF Numbers, Invalids, Invalid, Is
  <1>7. ASSUME NEW i \in 1 .. Len(Wire'), NEW n, n = Wire'[i].n, Invalid(n) PROVE InInvalid(n)
    BY <1>1, <1>2, <1>3, <1>4, <1>7
  <1>8. ASSUME NEW k \in 1 .. V, NEW i \in 1 .. Len(Wire'), ac.invalid[k].n < Wire'[i].n
        PROVE  \E j \in 1 .. Len(Wire') : Wire'[j].n = ac.invalid[k].n
    <2>1. CASE i \in 1 .. L
      <3>1. PICK j \in 1 .. L : Wire[j].n = ac.invalid[k].n
        BY <1>1, <1>3, <1>8, <2>1
      <3> QED BY <1>1, <3>1
    <2>2. CASE i \notin 1 .. L
      <3>1. d > 0 /\ Wire'[i].n = Waiting[1].n
        BY <1>2, <1>3, <1>4, <1>8, <2>2
      <3>2. ~\E j \in 1 .. W : Waiting[j].n = ac.invalid[k].n
        BY <1>1, <1>3, <1>4, <1>8, <3>1
      <3>3. PICK j \in 1 .. L : Wire[j].n = ac.invalid[k].n
        BY <1>3, <3>2
      <3> QED BY <1>1, <3>3
    <2> QED BY <2>1, <2>2
  <1>9. ASSUME NEW i \in 1 .. Len(Waiting'), NEW n, n = Waiting'[i].n, Invalid(n) PROVE InInvalid(n)
    BY <1>1, <1>3, <1>9
  <1>10. ASSUME srv'.up, NEW k \in 1 .. V
         PROVE  \/ \E j \in 1 .. Len(Wire') : Wire'[j].n = ac.invalid[k].n
                \/ \E j \in 1 .. Len(Waiting') : Waiting'[j].n = ac.invalid[k].n
    <2>1. CASE \E j \in 1 .. L : Wire[j].n = ac.invalid[k].n
      <3>1. PICK j \in 1 .. L : Wire[j].n = ac.invalid[k].n
        BY <2>1
      <3> QED BY <1>1, <3>1
    <2>2. CASE \E j \in 1 .. W : Waiting[j].n = ac.invalid[k].n
      <3>1. PICK j \in 1 .. W : Waiting[j].n = ac.invalid[k].n
        BY <2>2
      <3>2. CASE d = 1 /\ j = 1
        BY <1>2, <3>1, <3>2
      <3>3. CASE ~(d = 1 /\ j = 1)
        <4>1. j - d \in 1 .. Len(Waiting') /\ d + (j - d) = j
          BY <1>1, <1>2, <1>10, <3>3
        <4>2. Waiting'[j - d] = Waiting[j]
          BY <1>1, <4>1
        <4> QED BY <3>1, <4>1, <4>2
      <3> QED BY <3>2, <3>3
    <2> QED BY <1>3, <2>1, <2>2
  <1>11. Expected'
    <2>1. \A i \in 1 .. Len(Wire') : (Invalid(Wire[i].n))' => (InInvalid(Wire[i].n))'
      BY <1>1, <1>7 DEF InInvalid, Invalid, Is
    <2>2. \A i \in 1 .. Len(Waiting') : (Invalid(Waiting[i].n))' => (InInvalid(Waiting[i].n))'
      BY <1>1, <1>9 DEF InInvalid, Invalid, Is
    <2> QED BY <1>1, <1>8, <1>10, <2>1, <2>2 DEF Expected, V
  <1> QED BY <1>6, <1>11 DEF Numbers

LEMMA NumbersSends ==
    ASSUME Types, Numbered, Numbers, NEW kind \in Kind, NEW topics \in Seq(Topics), Sends(kind, topics),
           IF kind = "ordinary" /\ ac.subscribed
           THEN ac'.invalid = Append(ac.invalid, Callback(Len(issued) + 1, NoTopic))
           ELSE ac'.invalid = ac.invalid
    PROVE  Numbers'
  <1> DEFINE L == Len(Wire)
             W == Len(Waiting)
             V == Len(ac.invalid)
             N == Len(issued)
             new == kind = "ordinary" /\ ac.subscribed
  <1>1. /\ N \in Nat /\ L \in Nat /\ W \in Nat /\ Len(Waiting') = W + 1
        /\ \A i \in 1 .. W : Waiting'[i] = Waiting[i]
        /\ Waiting'[W + 1].n = N + 1
        /\ Wire' = Wire /\ srv' = srv
    <2>1. /\ N \in Nat /\ L \in Nat /\ W \in Nat /\ Len(Waiting') = W + 1
          /\ \A i \in 1 .. W : Waiting'[i] = Waiting[i]
          /\ Waiting'[W + 1] = [kind |-> kind, n |-> N + 1, topics |-> topics]
          /\ Wire' = Wire /\ srv' = srv
      BY IssuedGrows
    <2> HIDE DEF L, W, N
    <2> QED BY <2>1
  <1>2. /\ \A n : n # N + 1 => (Invalid(n)' <=> Invalid(n))
        /\ \A n : n = N + 1 => (Invalid(n)' <=> new)
    BY NewCommand
  <1>3. \A i \in 1 .. L : Wire[i].n \in Nat /\ Wire[i].n <= N
    BY OnTheWire
  <1>4. \A i \in 1 .. W : Waiting[i].n # N + 1
    BY <1>1, InTheQueue
  <1>5. /\ V \in Nat /\ ac.invalid \in Seq(Back)
        /\ \A k \in 1 .. V : /\ ac.invalid[k].topic = NoTopic /\ Invalid(ac.invalid[k].n)
                             /\ ac.invalid[k].n \in Nat /\ ac.invalid[k].n <= N
        /\ \A i, j \in 1 .. V : i < j => ac.invalid[i].n < ac.invalid[j].n
        /\ \A i \in 1 .. L : Invalid(Wire[i].n) => InInvalid(Wire[i].n)
        /\ \A k \in 1 .. V : \A i \in 1 .. L :
              ac.invalid[k].n < Wire[i].n => \E j \in 1 .. L : Wire[j].n = ac.invalid[k].n
        /\ srv.up =>
              /\ \A i \in 1 .. W : Invalid(Waiting[i].n) => InInvalid(Waiting[i].n)
              /\ \A k \in 1 .. V : \/ \E j \in 1 .. L : Wire[j].n = ac.invalid[k].n
                                   \/ \E j \in 1 .. W : Waiting[j].n = ac.invalid[k].n
    BY <1>1, NumbersOf
  <1>6. \E U \in Nat : /\ Len(ac'.invalid) = U /\ U = V + (IF new THEN 1 ELSE 0)
                       /\ \A k \in 1 .. V : ac'.invalid[k] = ac.invalid[k]
                       /\ new => ac'.invalid[V + 1].n = N + 1 /\ ac'.invalid[V + 1].topic = NoTopic
    <2> DEFINE c == Callback(N + 1, NoTopic)
    <2>1. c \in Back /\ c.n = N + 1 /\ c.topic = NoTopic
      BY <1>1 DEF Callback, Back
    <2>2. new => ac'.invalid = Append(ac.invalid, c)
      OBVIOUS
    <2>3. ~new => ac'.invalid = ac.invalid
      OBVIOUS
    <2> HIDE DEF c, new, V, N
    <2>4. CASE new
      <3>1. /\ Len(ac'.invalid) = V + 1 /\ \A k \in 1 .. V : ac'.invalid[k] = ac.invalid[k]
            /\ ac'.invalid[V + 1] = c
        BY <1>5, <2>1, <2>2, <2>4, AppendProperties DEF V
      <3> QED BY <1>5, <2>1, <2>4, <3>1
    <2>5. CASE ~new
      <3>1. V + 0 = V /\ Len(ac'.invalid) = V
        BY <1>5, <2>3, <2>5 DEF V
      <3> QED BY <1>5, <2>3, <2>5, <3>1
    <2> QED BY <2>4, <2>5
  <1> HIDE DEF L, W, V, N, new
  <1>7. PICK U \in Nat : /\ Len(ac'.invalid) = U /\ U = V + (IF new THEN 1 ELSE 0)
                         /\ \A k \in 1 .. V : ac'.invalid[k] = ac.invalid[k]
                         /\ new => ac'.invalid[V + 1].n = N + 1 /\ ac'.invalid[V + 1].topic = NoTopic
    BY <1>6
  <1>8. /\ \A k \in 1 .. U : k \in 1 .. V \/ (new /\ k = V + 1)
        /\ \A k \in 1 .. V : k \in 1 .. U /\ k < V + 1
        /\ new => V + 1 \in 1 .. U
    BY <1>5, <1>7
  <1>9. \A k \in 1 .. U : \/ k \in 1 .. V /\ ac'.invalid[k] = ac.invalid[k]
                          \/ new /\ k = V + 1 /\ ac'.invalid[k].n = N + 1 /\ ac'.invalid[k].topic = NoTopic
    BY <1>7, <1>8
  <1>10. Invalids'
    <2>1. ASSUME NEW k \in 1 .. U, NEW n, n = ac'.invalid[k].n PROVE ac'.invalid[k].topic = NoTopic /\ Invalid(n)'
      <3>1. CASE k \in 1 .. V
        <4>1. ac'.invalid[k] = ac.invalid[k]
          BY <1>7, <3>1
        <4>2. ac.invalid[k].topic = NoTopic /\ Invalid(n) /\ n \in Nat /\ n <= N
          BY <1>5, <2>1, <3>1, <4>1
        <4>3. n # N + 1
          BY <1>1, <4>2
        <4> QED BY <1>2, <4>1, <4>2, <4>3
      <3>2. CASE new /\ k = V + 1
        BY <1>2, <1>7, <2>1, <3>2
      <3> QED BY <1>8, <3>1, <3>2
    <2>2. ASSUME NEW i \in 1 .. U, NEW j \in 1 .. U, i < j PROVE ac'.invalid[i].n < ac'.invalid[j].n
      <3>1. i \in 1 .. V
        BY <1>5, <1>7, <2>2
      <3>2. CASE j \in 1 .. V
        BY <1>5, <1>7, <2>2, <3>1, <3>2
      <3>3. CASE new /\ j = V + 1
        <4>1. ac'.invalid[i] = ac.invalid[i] /\ ac'.invalid[j].n = N + 1
          BY <1>7, <3>1, <3>3
        <4>2. ac.invalid[i].n \in Nat /\ ac.invalid[i].n <= N
          BY <1>5, <3>1
        <4> QED BY <1>1, <4>1, <4>2
      <3> QED BY <1>8, <3>2, <3>3
    <2> QED BY <1>7, <2>1, <2>2 DEF Invalids
  <1>11. ASSUME NEW n, InInvalid(n) PROVE InInvalid(n)'
    <2>1. PICK k \in 1 .. V : ac.invalid[k].n = n
      BY <1>11 DEF InInvalid, V
    <2> QED BY <1>7, <1>8, <2>1 DEF InInvalid
  <1>12. ASSUME NEW i \in 1 .. L, NEW n, n = Wire[i].n, Invalid(n)' PROVE InInvalid(n)'
    <2>1. n # N + 1
      BY <1>1, <1>3, <1>12
    <2> QED BY <1>2, <1>5, <1>11, <1>12, <2>1
  <1>13. ASSUME NEW k \in 1 .. U, NEW i \in 1 .. L, ac'.invalid[k].n < Wire[i].n
         PROVE  \E j \in 1 .. L : Wire[j].n = ac'.invalid[k].n
    <2>1. k \in 1 .. V /\ ac'.invalid[k] = ac.invalid[k]
      BY <1>1, <1>3, <1>9, <1>13
    <2> QED BY <1>5, <1>13, <2>1
  <1>14. ASSUME srv.up, NEW i \in 1 .. W + 1, NEW n, n = Waiting'[i].n, Invalid(n)' PROVE InInvalid(n)'
    <2>1. CASE i \in 1 .. W
      BY <1>1, <1>2, <1>4, <1>5, <1>11, <1>14, <2>1
    <2>2. CASE i = W + 1
      <3>1. n = N + 1 /\ new
        BY <1>1, <1>2, <1>14, <2>2
      <3> QED BY <1>7, <1>8, <3>1 DEF InInvalid
    <2> QED BY <1>1, <2>1, <2>2
  <1>15. ASSUME srv.up, NEW k \in 1 .. U
         PROVE  \/ \E j \in 1 .. L : Wire[j].n = ac'.invalid[k].n
                \/ \E j \in 1 .. W + 1 : Waiting'[j].n = ac'.invalid[k].n
    <2>1. CASE k \in 1 .. V /\ ac'.invalid[k] = ac.invalid[k]
      <3>1. CASE \E j \in 1 .. L : Wire[j].n = ac.invalid[k].n
        BY <2>1, <3>1
      <3>2. CASE \E j \in 1 .. W : Waiting[j].n = ac.invalid[k].n
        <4>1. PICK j \in 1 .. W : Waiting[j].n = ac.invalid[k].n
          BY <3>2
        <4>2. j \in 1 .. W + 1
          BY <1>1
        <4> QED BY <1>1, <2>1, <4>1, <4>2
      <3> QED BY <1>5, <1>15, <2>1, <3>1, <3>2
    <2>2. CASE new /\ k = V + 1
      <3>1. W + 1 \in 1 .. W + 1 /\ Waiting'[W + 1].n = ac'.invalid[k].n
        BY <1>1, <1>7, <2>2
      <3> QED BY <3>1
    <2> QED BY <1>9, <2>1, <2>2
  <1>16. Expected'
    <2>1. Len(Wire') = L
      BY <1>1 DEF L
    <2>2. \A i \in 1 .. L : Invalid(Wire[i].n)' => InInvalid(Wire[i].n)'
      <3>1. \A i \in 1 .. L : \A n : n = Wire[i].n => (Invalid(n)' => InInvalid(n)')
        BY <1>12
      <3>2. \A i \in 1 .. L : \A n : n = Wire'[i].n => (Invalid(n)' => InInvalid(n)')
        BY <1>1, <3>1
      <3> QED BY ONLY <3>2 DEF InInvalid, Invalid, Is
    <2>3. srv.up => \A i \in 1 .. W + 1 : Invalid(Waiting[i].n)' => InInvalid(Waiting[i].n)'
      <3>1. srv.up => \A i \in 1 .. W + 1 : \A n : n = Waiting'[i].n => (Invalid(n)' => InInvalid(n)')
        BY <1>14
      <3> QED BY ONLY <3>1 DEF InInvalid, Invalid, Is
    <2> QED BY <1>1, <1>7, <1>13, <1>15, <2>1, <2>2, <2>3 DEF Expected
  <1> QED BY <1>10, <1>16 DEF Numbers

\* The numbers, when a reply is taken that no callback of the list waits for.
LEMMA NumbersTakes ==
    ASSUME Types, Numbered, Numbers, Takes, UNCHANGED ac.invalid, ~Invalid(Wire[1].n)
    PROVE  Numbers'
  <1> DEFINE L == Len(Wire)
             V == Len(ac.invalid)
  <1>1. /\ L \in Nat \ {0} /\ Len(Wire') = L - 1
        /\ \A i \in 1 .. L - 1 : i + 1 \in 1 .. L /\ Wire'[i] = Wire[i + 1]
        /\ \A j \in 1 .. L : j # 1 => j - 1 \in 1 .. L - 1 /\ Wire'[j - 1] = Wire[j]
        /\ Waiting' = Waiting /\ srv' = srv /\ issued' = issued /\ ac'.invalid = ac.invalid
    BY WireShrinks DEF Takes
  <1>2. /\ \A k \in 1 .. V : Invalid(ac.invalid[k].n)
        /\ \A i \in 1 .. L : Invalid(Wire[i].n) => InInvalid(Wire[i].n)
        /\ \A k \in 1 .. V : \A i \in 1 .. L :
              ac.invalid[k].n < Wire[i].n => \E j \in 1 .. L : Wire[j].n = ac.invalid[k].n
        /\ srv.up => \A k \in 1 .. V : \/ \E j \in 1 .. L : Wire[j].n = ac.invalid[k].n
                                       \/ \E j \in 1 .. Len(Waiting) : Waiting[j].n = ac.invalid[k].n
    BY NumbersOf
  <1> HIDE DEF L, V
  <1>3. ASSUME NEW k \in 1 .. V, \E j \in 1 .. L : Wire[j].n = ac.invalid[k].n
        PROVE  \E j \in 1 .. L - 1 : Wire'[j].n = ac.invalid[k].n
    <2>1. PICK j \in 1 .. L : Wire[j].n = ac.invalid[k].n
      BY <1>3
    <2>2. j # 1
      BY <1>2, <2>1
    <2> QED BY <1>1, <2>1, <2>2
  <1>4. Invalids'
    BY <1>1 DEF Numbers, Invalids, Invalid, Is
  <1>5. Expected'
    <2>1. \A i \in 1 .. L - 1 : Invalid(Wire'[i].n) => InInvalid(Wire'[i].n)
      BY <1>1, <1>2
    <2>2. \A k \in 1 .. V : \A i \in 1 .. L - 1 :
             ac.invalid[k].n < Wire'[i].n => \E j \in 1 .. L - 1 : Wire'[j].n = ac.invalid[k].n
      BY <1>1, <1>2, <1>3
    <2>3. srv.up => \A k \in 1 .. V : \/ \E j \in 1 .. L - 1 : Wire'[j].n = ac.invalid[k].n
                                      \/ \E j \in 1 .. Len(Waiting) : Waiting[j].n = ac.invalid[k].n
      BY <1>2, <1>3
    <2>4. srv.up => \A i \in 1 .. Len(Waiting) : Invalid(Waiting[i].n) => InInvalid(Waiting[i].n)
      BY DEF Numbers, Expected
    <2> QED BY <1>1, <2>1, <2>2, <2>3, <2>4 DEF Expected, InInvalid, Invalid, Is, V
  <1> QED BY <1>4, <1>5 DEF Numbers

\* An answer to a command of the subscribed mode answers the first of the list.
LEMMA FirstInvalid ==
    ASSUME Types, Numbered, Numbers, 1 \in 1 .. Len(Wire), Invalid(Wire[1].n)
    PROVE  ac.invalid # <<>> /\ 1 \in 1 .. Len(ac.invalid) /\ ac.invalid[1].n = Wire[1].n
  <1>1. PICK k \in 1 .. Len(ac.invalid) : ac.invalid[k].n = Wire[1].n
    BY NumbersOf DEF InInvalid
  <1>2. Len(ac.invalid) \in Nat /\ 1 \in 1 .. Len(ac.invalid)
    BY <1>1, NumbersOf
  <1>3. Wire[1].n \in Nat /\ ac.invalid[1].n \in 1 .. Len(issued) /\ Len(issued) \in Nat
    BY <1>2, OnTheWire, NumbersOf, InTheQueue
  <1>4. ASSUME k # 1 PROVE FALSE
    <2>1. ac.invalid[1].n < Wire[1].n
      BY <1>1, <1>2, <1>4, NumbersOf
    <2>2. PICK j \in 1 .. Len(Wire) : Wire[j].n = ac.invalid[1].n
      BY <1>2, <2>1, NumbersOf
    <2>3. j # 1 /\ Wire[j].n # 0 /\ 1 < j
      BY <1>3, <2>1, <2>2
    <2>4. Wire[1].n <= Wire[j].n
      BY <2>3 DEF Numbered, Inorder
    <2> QED BY <1>3, <2>1, <2>2, <2>4
  <1>5. ac.invalid # <<>>
    BY <1>2, EmptySeq
  <1> QED BY <1>1, <1>2, <1>4, <1>5

LEMMA NumbersInvalid ==
    ASSUME Types, Numbered, Numbers, Takes, Invalid(Wire[1].n), Wire[1].kind = "reply",
           ac'.invalid = SubSeq(ac.invalid, 2, Len(ac.invalid))
    PROVE  Numbers'
  <1> DEFINE L == Len(Wire)
             V == Len(ac.invalid)
             n == Wire[1].n
  <1>1. /\ L \in Nat \ {0} /\ Len(Wire') = L - 1 /\ 1 \in 1 .. L
        /\ \A i \in 1 .. L - 1 : i + 1 \in 1 .. L /\ i + 1 # 1 /\ Wire'[i] = Wire[i + 1]
        /\ \A j \in 1 .. L : j # 1 => j - 1 \in 1 .. L - 1 /\ Wire'[j - 1] = Wire[j]
        /\ Waiting' = Waiting /\ srv' = srv /\ issued' = issued
    BY WireShrinks DEF Takes
  <1>2. /\ V \in Nat \ {0} /\ ac.invalid[1].n = n
    BY <1>1, FirstInvalid, NumbersOf
  <1>3. /\ Len(ac'.invalid) = V - 1
        /\ \A k \in 1 .. V - 1 : k + 1 \in 1 .. V /\ 1 < k + 1 /\ ac'.invalid[k] = ac.invalid[k + 1]
    <2>1. ac.invalid \in Seq(Back) /\ V \in Nat \ {0}
      BY <1>2, NumbersOf
    <2>2. \A k \in 2 .. V : ac.invalid[k] \in Back
      BY <2>1, ElementOfSeq
    <2> DEFINE s == SubSeq(ac.invalid, 2, V)
    <2>3. /\ Len(s) = IF 2 <= V THEN V - 2 + 1 ELSE 0
          /\ \A k \in 1 .. V - 2 + 1 : s[k] = ac.invalid[2 + k - 1]
      BY <2>1, <2>2, SubSeqProperties
    <2>4. ac'.invalid = s
      OBVIOUS
    <2> HIDE DEF s, V
    <2>5. Len(s) = V - 1 /\ V - 2 + 1 = V - 1
      BY <2>1, <2>3
    <2>6. ASSUME NEW k \in 1 .. V - 1 PROVE k + 1 \in 1 .. V /\ 1 < k + 1 /\ s[k] = ac.invalid[k + 1]
      <3>1. 2 + k - 1 = k + 1 /\ k \in 1 .. V - 2 + 1
        BY <2>1
      <3> QED BY <2>1, <2>3, <3>1
    <2> QED BY <2>4, <2>5, <2>6
  <1>4. /\ \A k \in 1 .. V : /\ ac.invalid[k].topic = NoTopic /\ Invalid(ac.invalid[k].n)
                             /\ ac.invalid[k].n \in Nat /\ ac.invalid[k].n # 0
        /\ \A i, j \in 1 .. V : i < j => ac.invalid[i].n < ac.invalid[j].n
        /\ \A i \in 1 .. L : Invalid(Wire[i].n) => \E k \in 1 .. V : ac.invalid[k].n = Wire[i].n
        /\ \A k \in 1 .. V : \A i \in 1 .. L :
              ac.invalid[k].n < Wire[i].n => \E j \in 1 .. L : Wire[j].n = ac.invalid[k].n
        /\ srv.up =>
              /\ \A i \in 1 .. Len(Waiting) : Invalid(Waiting[i].n) => \E k \in 1 .. V : ac.invalid[k].n = Waiting[i].n
              /\ \A k \in 1 .. V :
                    \/ \E j \in 1 .. L : Wire[j].n = ac.invalid[k].n
                    \/ \E j \in 1 .. Len(Waiting) : Waiting[j].n = ac.invalid[k].n
    <2>1. \A k \in 1 .. V : ac.invalid[k].n # 0
      <3>1. \A k \in 1 .. V : ac.invalid[k].n \in 1 .. Len(issued)
        BY NumbersOf
      <3> QED BY <3>1
    <2> QED BY <2>1, NumbersOf DEF InInvalid
  <1>5. \A i \in 1 .. L : i # 1 /\ Wire[i].n # 0 => Wire[i].n # n
    <2>1. \A i \in 1 .. L : i # 1 => 1 < i
      BY <1>1
    <2> QED BY <1>1, <2>1 DEF Numbered, Inorder
  <1>6. \A i \in 1 .. Len(Waiting) : Waiting[i].n # n
    <2>1. n \in Nat /\ n <= Len(issued) - Len(Waiting)
      BY <1>1, OnTheWire
    <2>2. /\ Len(issued) \in Nat /\ Len(Waiting) \in Nat
          /\ \A i \in 1 .. Len(Waiting) : Waiting[i].n = Len(issued) - Len(Waiting) + i
      BY InTheQueue
    <2> HIDE DEF n
    <2> QED BY <2>1, <2>2
  <1> HIDE DEF L, V, n
  <1>7. \A k \in 1 .. V - 1 : ac'.invalid[k].n # n
    <2> SUFFICES ASSUME NEW k \in 1 .. V - 1 PROVE ac'.invalid[k].n # n
      OBVIOUS
    <2>1. k + 1 \in 1 .. V /\ 1 < k + 1 /\ ac'.invalid[k] = ac.invalid[k + 1] /\ 1 \in 1 .. V
      BY <1>2, <1>3
    <2>2. ac.invalid[1].n < ac.invalid[k + 1].n /\ ac.invalid[1].n \in Nat /\ ac.invalid[k + 1].n \in Nat
      BY <1>4, <2>1
    <2>3. n < ac'.invalid[k].n /\ n \in Nat /\ ac'.invalid[k].n \in Nat
      BY <1>2, <2>1, <2>2
    <2> QED BY ONLY <2>3
  <1>8. ASSUME NEW x, x # n, \E k \in 1 .. V : ac.invalid[k].n = x PROVE \E k \in 1 .. V - 1 : ac'.invalid[k].n = x
    <2>1. PICK k \in 1 .. V : ac.invalid[k].n = x
      BY <1>8
    <2>2. k # 1
      BY <1>2, <1>8, <2>1
    <2>3. k - 1 \in 1 .. V - 1 /\ (k - 1) + 1 = k
      BY <1>2, <2>2
    <2>4. ac'.invalid[k - 1] = ac.invalid[k]
      BY <1>3, <2>3
    <2> QED BY <2>1, <2>3, <2>4
  <1>9. ASSUME NEW x, x # n, \E j \in 1 .. L : Wire[j].n = x PROVE \E j \in 1 .. L - 1 : Wire'[j].n = x
    <2>1. PICK j \in 1 .. L : Wire[j].n = x
      BY <1>9
    <2>2. j # 1
      BY <1>9, <2>1 DEF n
    <2> QED BY <1>1, <2>1, <2>2
  <1>10. Invalids'
    <2>1. \A k \in 1 .. V - 1 : ac'.invalid[k].topic = NoTopic /\ Invalid(ac'.invalid[k].n)
      BY <1>3, <1>4
    <2>2. ASSUME NEW i \in 1 .. V - 1, NEW j \in 1 .. V - 1, i < j PROVE ac'.invalid[i].n < ac'.invalid[j].n
      <3>1. i + 1 \in 1 .. V /\ j + 1 \in 1 .. V /\ i + 1 < j + 1
        BY <1>2, <2>2
      <3> QED BY <1>3, <1>4, <3>1
    <2> QED BY <1>1, <1>3, <2>1, <2>2 DEF Invalids, Invalid, Is
  <1>11. ~Invalid(0)
    <2>1. 0 \notin 1 .. Len(issued)
      BY LenProperties DEF Types
    <2> QED BY <2>1 DEF Invalid, Is
  <1>12. ASSUME NEW i \in 1 .. L - 1, Invalid(Wire'[i].n) PROVE \E k \in 1 .. V - 1 : ac'.invalid[k].n = Wire'[i].n
    <2>1. i + 1 \in 1 .. L /\ i + 1 # 1 /\ Wire'[i] = Wire[i + 1] /\ Wire[i + 1].n # 0
      BY <1>1, <1>11, <1>12
    <2>2. Wire[i + 1].n # n /\ \E k \in 1 .. V : ac.invalid[k].n = Wire[i + 1].n
      BY <1>4, <1>5, <1>12, <2>1
    <2> QED BY <1>8, <2>1, <2>2
  <1>13. ASSUME NEW k \in 1 .. V - 1, NEW i \in 1 .. L - 1, ac'.invalid[k].n < Wire'[i].n
         PROVE  \E j \in 1 .. L - 1 : Wire'[j].n = ac'.invalid[k].n
    <2>1. i + 1 \in 1 .. L /\ Wire'[i] = Wire[i + 1] /\ k + 1 \in 1 .. V /\ ac'.invalid[k] = ac.invalid[k + 1]
      BY <1>1, <1>3
    <2>2. ac.invalid[k + 1].n < Wire[i + 1].n
      BY <1>13, <2>1
    <2>3. \E j \in 1 .. L : Wire[j].n = ac.invalid[k + 1].n
      BY <1>4, <2>1, <2>2
    <2>4. ac.invalid[k + 1].n # n
      BY <1>7, <2>1
    <2>5. \E j \in 1 .. L - 1 : Wire'[j].n = ac.invalid[k + 1].n
      BY <1>9, <2>3, <2>4
    <2> QED BY <2>1, <2>5
  <1>14. ASSUME srv.up, NEW i \in 1 .. Len(Waiting), Invalid(Waiting[i].n)
         PROVE  \E k \in 1 .. V - 1 : ac'.invalid[k].n = Waiting[i].n
    BY <1>4, <1>6, <1>8, <1>14
  <1>15. ASSUME srv.up, NEW k \in 1 .. V - 1
         PROVE  \/ \E j \in 1 .. L - 1 : Wire'[j].n = ac'.invalid[k].n
                \/ \E j \in 1 .. Len(Waiting) : Waiting[j].n = ac'.invalid[k].n
    <2>1. k + 1 \in 1 .. V /\ ac'.invalid[k] = ac.invalid[k + 1]
      BY <1>3
    <2>2. \/ \E j \in 1 .. L : Wire[j].n = ac.invalid[k + 1].n
          \/ \E j \in 1 .. Len(Waiting) : Waiting[j].n = ac.invalid[k + 1].n
      BY <1>4, <1>15, <2>1
    <2>3. ac.invalid[k + 1].n # n
      BY <1>7, <2>1
    <2>4. \/ \E j \in 1 .. L - 1 : Wire'[j].n = ac.invalid[k + 1].n
          \/ \E j \in 1 .. Len(Waiting) : Waiting[j].n = ac.invalid[k + 1].n
      BY <1>9, <2>2, <2>3
    <2> QED BY <2>1, <2>4
  <1>16. Expected'
    <2>1. \A i \in 1 .. L - 1 : Invalid(Wire'[i].n) => \E k \in 1 .. V - 1 : ac'.invalid[k].n = Wire'[i].n
      BY <1>12
    <2>2. srv.up => \A i \in 1 .. Len(Waiting) : Invalid(Waiting[i].n) => \E k \in 1 .. V - 1 : ac'.invalid[k].n = Waiting[i].n
      BY <1>14
    <2>30. Len(Wire') = L - 1 /\ Len(ac'.invalid) = V - 1 /\ issued' = issued /\ srv' = srv /\ Waiting' = Waiting
      BY <1>1, <1>3
    <2>31. \A i \in 1 .. Len(Wire') : Invalid(Wire[i].n)' => InInvalid(Wire[i].n)'
      BY ONLY <2>1, <2>30 DEF InInvalid, Invalid, Is
    <2>32. srv'.up => \A i \in 1 .. Len(Waiting') : Invalid(Waiting[i].n)' => InInvalid(Waiting[i].n)'
      BY ONLY <2>2, <2>30 DEF InInvalid, Invalid, Is
    <2>3. /\ \A i \in 1 .. Len(Wire') : Invalid(Wire[i].n)' => InInvalid(Wire[i].n)'
          /\ srv'.up => \A i \in 1 .. Len(Waiting') : Invalid(Waiting[i].n)' => InInvalid(Waiting[i].n)'
      BY <2>31, <2>32
    <2>4. \A k \in 1 .. V - 1 : \A i \in 1 .. L - 1 :
             ac'.invalid[k].n < Wire'[i].n => \E j \in 1 .. L - 1 : Wire'[j].n = ac'.invalid[k].n
      BY <1>13
    <2>5. srv.up => \A k \in 1 .. V - 1 :
             \/ \E j \in 1 .. L - 1 : Wire'[j].n = ac'.invalid[k].n
             \/ \E j \in 1 .. Len(Waiting) : Waiting[j].n = ac'.invalid[k].n
      BY <1>15
    <2> QED BY <1>1, <1>3, <2>3, <2>4, <2>5 DEF Expected
  <1> QED BY <1>10, <1>16 DEF Numbers

-----------------------------------------------------------------------------
\* What concerns the topics, as a whole.

LEMMA FollowingGiven ==
    ASSUME Types, Live, Numbered, Following,
           NEW messages, NEW d, Gives(messages, d), Form(messages, d), srv'.up \in BOOLEAN
    PROVE  Following'
  <1> DEFINE L == Len(Wire)
             W == Len(Waiting)
             N == Len(issued)
  <1>1. /\ N \in Nat /\ W \in Nat /\ W <= N
        /\ \A i \in 1 .. W : Waiting[i].n = N - W + i /\ Is(Waiting[i].n, Waiting[i].kind)
        /\ \A n \in 1 .. N : n > N - W => \E i \in 1 .. W : Waiting[i].n = n
        /\ \A i \in 1 .. L : Wire[i].n \in Nat /\ Wire[i].n <= N - W
    BY InTheQueue, OnTheWire
  <1>2. /\ \A i \in 1 .. L : i \in 1 .. Len(Wire') /\ Wire'[i] = Wire[i]
        /\ \A i \in 1 .. Len(Wire') : i \in 1 .. L \/ Wire'[i].n = 0 \/ (d > 0 /\ Wire'[i].n = Waiting[1].n)
        /\ \A i \in 1 .. Len(Waiting') : Waiting'[i] = Waiting[d + i]
        /\ Len(Waiting') = W - d /\ d \in Nat /\ d <= W /\ (d > 0 => 1 \in 1 .. W)
        /\ issued' = issued /\ srv.up
    BY GivesPlaces
  <1>3. srv'.up => d \in {0, 1}
    BY FormPlaces
  <1> SUFFICES ASSUME NEW t \in Topics, NEW n \in 1 .. N, NEW i \in 1 .. Len(Wire'),
                      Subs(n, t), Wire'[i].n # 0, Wire'[i].n < n,
                      srv'.up \/ \E j \in 1 .. Len(Wire') : n < Wire'[j].n
               PROVE  \/ \E j \in 1 .. Len(Waiting') : Waiting'[j].n = n
                      \/ \E j \in 1 .. Len(Wire') : Wire'[j].kind = "error" /\ Wire'[j].n = n
                      \/ \E j \in 1 .. Len(Wire') : Wire'[j].n = n /\ Confirms(Wire'[j], t)
    <2>1. \A n, t : Subs(n, t)' <=> Subs(n, t)
      BY <1>2 DEF Subs, Is, Names
    <2> QED BY <1>2, <2>1 DEF Following, InFlight, Awaited, Confirms
  <1>4. d > 0 => Waiting[1].n = N - W + 1 /\ Is(Waiting[1].n, Waiting[1].kind)
    BY <1>1, <1>2
  <1> HIDE DEF L, W, N
  <1>5. CASE n > N - W + d
    <2>1. PICK j \in 1 .. W : Waiting[j].n = n
      BY <1>1, <1>2, <1>5
    <2>2. n = N - W + j
      BY <1>1, <2>1
    <2>3. j - d \in 1 .. Len(Waiting') /\ d + (j - d) = j
      BY <1>1, <1>2, <1>5, <2>2
    <2> QED BY <1>2, <2>1, <2>3
  <1>6. CASE n <= N - W
    <2>1. i \in 1 .. L
      BY <1>1, <1>2, <1>4, <1>6
    <2>2. Wire'[i] = Wire[i]
      BY <1>2, <2>1
    <2>3. InFlight(n, t)
      BY <1>2, <2>1, <2>2 DEF Following, L, N
    <2>4. ~\E j \in 1 .. W : Waiting[j].n = n
      BY <1>1, <1>6
    <2>5. PICK j \in 1 .. L : Wire[j].n = n /\ (Wire[j].kind = "error" \/ Confirms(Wire[j], t))
      BY <2>3, <2>4 DEF InFlight, Awaited, L, W
    <2>6. j \in 1 .. Len(Wire') /\ Wire'[j] = Wire[j]
      BY <1>2, <2>5
    <2> QED BY <2>5, <2>6
  <1>7. CASE N - W < n /\ n <= N - W + d
    <2>1. d > 0
      BY <1>1, <1>2, <1>7
    <2>2. \A j \in 1 .. Len(Wire') : ~(n < Wire'[j].n)
      <3> SUFFICES ASSUME NEW j \in 1 .. Len(Wire') PROVE ~(n < Wire'[j].n)
        OBVIOUS
      <3>1. CASE j \in 1 .. L
        <4>1. Wire'[j] = Wire[j] /\ Wire[j].n \in Nat /\ Wire[j].n <= N - W
          BY <1>1, <1>2, <3>1
        <4> QED BY <1>1, <1>7, <4>1
      <3>2. CASE j \notin 1 .. L
        <4>1. Wire'[j].n \in {0, N - W + 1}
          BY <1>2, <1>4, <3>2
        <4> QED BY <1>1, <1>7, <4>1
      <3> QED BY <3>1, <3>2
    <2>3. srv'.up /\ d = 1
      BY <1>3, <2>1, <2>2
    <2>4. n = Waiting[1].n
      BY <1>1, <1>4, <1>7, <2>3
    <2>5. Waiting[1].kind = "subscribe" /\ Waiting[1] = Order_(n)
      <3>1. Waiting[1] = Order_(N - W + 1)
        BY <1>2, <2>1 DEF Numbered, Queued, N, W
      <3> QED BY <1>4, <2>1, <2>4, <3>1 DEF Subs, Is
    <2>6. /\ Len(messages) \in Nat /\ L \in Nat /\ Len(Wire') = L + Len(messages)
          /\ \A j \in 1 .. Len(messages) : Wire'[L + j] = messages[j]
      BY WireGrows DEF L
    <2>7. CASE Settles(messages, d)
      <3>1. Len(messages) = 1 /\ messages[1].n = n /\ messages[1].kind = "error"
        BY <2>4, <2>5, <2>7 DEF Settles
      <3>2. L + 1 \in 1 .. Len(Wire') /\ Wire'[L + 1] = messages[1]
        BY <2>6, <3>1
      <3> QED BY <3>1, <3>2
    <2>8. CASE GivesSubscribe(messages)
      <3>1. PICK k \in 1 .. Len(issued[n].topics) : issued[n].topics[k] = t
        BY DEF Subs, Names
      <3>2. Waiting[1].topics = issued[n].topics
        BY <2>5 DEF Order_
      <3>3. k \in 1 .. Len(messages) /\ messages[k].kind = "subscribe" /\ messages[k].n = n /\ messages[k].topic = t
        BY <2>4, <2>8, <3>1, <3>2 DEF GivesSubscribe
      <3>4. L + k \in 1 .. Len(Wire') /\ Wire'[L + k] = messages[k]
        BY <2>6, <3>3
      <3> QED BY <3>3, <3>4 DEF Confirms
    <2> QED BY <2>3, <2>5, <2>7, <2>8 DEF Form, Posts, Leaves, Drops
  <1>8. n \in Nat
    BY DEF N
  <1> QED BY <1>1, <1>2, <1>5, <1>6, <1>7, <1>8

LEMMA MessagesGiven ==
    ASSUME Types, Live, Numbered, Heard, Renewed, Messages,
           NEW messages, NEW d, Gives(messages, d), Form(messages, d), srv'.up \in BOOLEAN
    PROVE  Messages'
  <1> DEFINE L == Len(Wire)
  <1>1. /\ \A i \in 1 .. L : i \in 1 .. Len(Wire') /\ Wire'[i] = Wire[i]
        /\ \A i \in 1 .. Len(Wire') : i \notin 1 .. L => i > L
        /\ ac' = ac /\ L \in Nat
    BY GivesPlaces
  <1>2. \A i \in 1 .. Len(Wire') : i \notin 1 .. L =>
           \/ Wire'[i].kind = "message" /\ d = 0 /\ Wire'[i].topic \in srv.topics
           \/ Wire'[i].kind # "message" /\ (d > 0 \/ Wire'[i].kind # "unsubscribe")
    BY FormPlaces DEF Refusal, Message
  <1> SUFFICES ASSUME NEW j \in 1 .. Len(Wire'), Wire'[j].kind = "message"
               PROVE  /\ Wire'[j].topic \in Subscribed
                      /\ \A i \in 1 .. Len(Wire') :
                            i < j /\ Wire'[i].kind = "unsubscribe" /\ Wire'[i].topic = Wire'[j].topic =>
                               \E k \in 1 .. Len(Wire') : i < k /\ k < j /\ Confirms(Wire'[k], Wire'[j].topic)
    BY <1>1 DEF Messages, Subscribed, Confirms
  <1> HIDE DEF L
  <1>3. CASE j \in 1 .. L
    <2>1. Wire'[j] = Wire[j]
      BY <1>1, <1>3
    <2>2. Wire[j].topic \in Subscribed
      BY <1>3, <2>1 DEF Messages, L
    <2>3. ASSUME NEW i \in 1 .. Len(Wire'), i < j, Wire'[i].kind = "unsubscribe", Wire'[i].topic = Wire'[j].topic
          PROVE  \E k \in 1 .. Len(Wire') : i < k /\ k < j /\ Confirms(Wire'[k], Wire'[j].topic)
      <3>1. i \in 1 .. L /\ Wire'[i] = Wire[i]
        BY <1>1, <1>3, <2>3
      <3>2. PICK k \in 1 .. L : i < k /\ k < j /\ Confirms(Wire[k], Wire[j].topic)
        BY <1>3, <2>1, <2>3, <3>1 DEF Messages, L
      <3>3. k \in 1 .. Len(Wire') /\ Wire'[k] = Wire[k]
        BY <1>1, <3>2
      <3> QED BY <2>1, <3>2, <3>3
    <2> QED BY <2>1, <2>2, <2>3
  <1>4. CASE j \notin 1 .. L
    <2>1. d = 0 /\ Wire'[j].topic \in srv.topics
      BY <1>2, <1>4
    <2>2. Wire'[j].topic \in Subscribed
      BY <2>1 DEF Heard
    <2>3. ASSUME NEW i \in 1 .. Len(Wire'), i < j, Wire'[i].kind = "unsubscribe", Wire'[i].topic = Wire'[j].topic
          PROVE  \E k \in 1 .. Len(Wire') : i < k /\ k < j /\ Confirms(Wire'[k], Wire'[j].topic)
      <3>1. i \in 1 .. L
        BY <1>2, <2>1, <2>3
      <3>2. Wire'[i] = Wire[i]
        BY <1>1, <3>1
      <3>3. PICK k \in 1 .. L : i < k /\ Confirms(Wire[k], Wire'[j].topic)
        BY <2>1, <2>3, <3>1, <3>2 DEF Renewed, L
      <3>4. k \in 1 .. Len(Wire') /\ Wire'[k] = Wire[k] /\ k < j
        BY <1>1, <1>4, <3>3
      <3> QED BY <3>3, <3>4
    <2> QED BY <2>2, <2>3
  <1> QED BY <1>3, <1>4

LEMMA TopicalGiven ==
    ASSUME Types, Live, Numbered, Heard, Renewed, Topical,
           NEW messages, NEW d, Gives(messages, d), Form(messages, d), srv'.up \in BOOLEAN
    PROVE  Topical'
  <1>1. /\ \A i \in 1 .. Len(Wire) : Wire'[i] = Wire[i]
        /\ \A i \in 1 .. Len(Waiting') : d + i \in 1 .. Len(Waiting) /\ Waiting'[i] = Waiting[d + i]
        /\ d > 0 => 1 \in 1 .. Len(Waiting)
        /\ issued' = issued /\ ac' = ac /\ srv.up
    BY GivesPlaces
  <1>2. \A i \in 1 .. Len(Wire') : i \notin 1 .. Len(Wire) =>
           \/ Wire'[i].n = 0 /\ Wire'[i].kind # "unsubscribe"
           \/ d > 0 /\ Wire'[i].n = Waiting[1].n /\ Is(Waiting[1].n, Waiting[1].kind)
    BY FormPlaces DEF Refusal, Message
  <1>3. \A n : /\ \A t : (Subs(n, t)' <=> Subs(n, t)) /\ (Unsubs(n, t)' <=> Unsubs(n, t))
               /\ \A k : Is(n, k)' <=> Is(n, k)
    BY <1>1 DEF Subs, Unsubs, Is, Names
  <1>4. Entries'
    BY <1>1 DEF Topical, Entries, Subscribed, Subs, Is, Names
  <1>5. Leaving'
    <2>1. ~\E t : Unsubs(0, t)
      BY DEF Unsubs, Is
    <2>2. ASSUME NEW t \in Topics, NEW i \in 1 .. Len(Wire'), Unsubs(Wire'[i].n, t) PROVE t \in Subscribed
      <3>1. CASE i \in 1 .. Len(Wire)
        BY <1>1, <2>2, <3>1 DEF Topical, Leaving
      <3>2. CASE i \notin 1 .. Len(Wire)
        <4>1. d > 0 /\ Wire'[i].n = Waiting[1].n
          BY <1>2, <2>1, <2>2, <3>2
        <4> QED BY <1>1, <2>2, <4>1 DEF Topical, Leaving
      <3> QED BY <3>1, <3>2
    <2>3. ASSUME NEW t \in Topics, NEW i \in 1 .. Len(Waiting'), Unsubs(Waiting'[i].n, t) PROVE t \in Subscribed
      BY <1>1, <2>3 DEF Topical, Leaving
    <2> QED BY <1>1, <2>2, <2>3 DEF Leaving, Subscribed, Unsubs, Is
  <1>6. Alternate'
    BY <1>1 DEF Topical, Alternate, Subs, Unsubs, Is, Names
  <1>7. Following' /\ Messages'
    BY FollowingGiven, MessagesGiven DEF Topical
  <1>8. Wants'
    BY <1>1 DEF Topical, Wants, Wanted, Subscribed
  <1>9. LastWord'
    <2>1. ASSUME NEW i \in 1 .. Len(Wire'), Wire'[i].kind = "unsubscribe", NEW n \in 1 .. Len(issued), Wire'[i].n < n
          PROVE  ~Is(n, "ordinary")
      <3>1. CASE i \in 1 .. Len(Wire)
        BY <1>1, <2>1, <3>1 DEF Topical, LastWord
      <3>2. CASE i \notin 1 .. Len(Wire)
        <4>1. d > 0 /\ Wire'[i].n = Waiting[1].n /\ Is(Waiting[1].n, Waiting[1].kind)
          BY <1>2, <2>1, <3>2
        <4>2. Unsubs(Wire'[i].n, Wire'[i].topic)
          <5>1. Numbered'
            BY NumberedGives
          <5>2. Answered(Wire'[i])
            BY <1>1, <5>1 DEF Numbered, Accounted, Answered, Is, Subs, Unsubs, Names
          <5> QED BY <2>1, <5>2 DEF Answered, Refusal, Message
        <4>3. Waiting[1].kind = "unsubscribe"
          BY <4>1, <4>2 DEF Unsubs, Is
        <4> QED BY <1>1, <2>1, <4>1, <4>3 DEF Topical, LastWord
      <3> QED BY <3>1, <3>2
    <2>2. ASSUME NEW i \in 1 .. Len(Waiting'), Waiting'[i].kind = "unsubscribe",
                 NEW n \in 1 .. Len(issued), Waiting'[i].n < n
          PROVE  ~Is(n, "ordinary")
      BY <1>1, <2>2 DEF Topical, LastWord
    <2> QED BY <1>1, <2>1, <2>2 DEF LastWord, Is
  <1> QED BY <1>4, <1>5, <1>6, <1>7, <1>8, <1>9 DEF Topical

LEMMA TopicalSends ==
    ASSUME Types, Numbered, Topical, Types',
           NEW kind \in Kind, NEW topics \in Seq(Topics), Sends(kind, topics),
           kind = "subscribe" => topics # <<>> /\ ac'.topics = Added(topics),
           kind # "subscribe" => ac'.topics = ac.topics,
           kind = "unsubscribe" => \E t \in Topics : topics = <<t>> /\ Wanted(t),
           kind = "ordinary" =>
              /\ \A i \in 1 .. Len(Wire) : Wire[i].kind # "unsubscribe"
              /\ \A i \in 1 .. Len(Waiting) : Waiting[i].kind # "unsubscribe"
    PROVE  Topical'
  <1> DEFINE N == Len(issued)
             W == Len(Waiting)
  <1>1. /\ N \in Nat /\ Len(issued') = N + 1 /\ W \in Nat /\ Len(Waiting') = W + 1
        /\ \A n \in 1 .. N : issued'[n] = issued[n]
        /\ issued'[N + 1].kind = kind /\ issued'[N + 1].topics = topics
        /\ \A i \in 1 .. W : Waiting'[i] = Waiting[i]
        /\ Waiting'[W + 1].n = N + 1 /\ Waiting'[W + 1].kind = kind
        /\ Wire' = Wire /\ srv' = srv
    <2>1. /\ N \in Nat /\ Len(issued') = N + 1 /\ W \in Nat /\ Len(Waiting') = W + 1
          /\ \A n \in 1 .. N : issued'[n] = issued[n]
          /\ issued'[N + 1] = [kind |-> kind, topics |-> topics, list |-> IF ac.subscribed THEN "invalid" ELSE "replies"]
          /\ \A i \in 1 .. W : Waiting'[i] = Waiting[i]
          /\ Waiting'[W + 1] = [kind |-> kind, n |-> N + 1, topics |-> topics]
          /\ Wire' = Wire /\ srv' = srv
      BY IssuedGrows
    <2> HIDE DEF N, W
    <2>2. issued'[N + 1].kind = kind /\ issued'[N + 1].topics = topics
      BY <2>1
    <2>3. Waiting'[W + 1].n = N + 1 /\ Waiting'[W + 1].kind = kind
      BY <2>1
    <2> QED BY <2>1, <2>2, <2>3
  <1>2. /\ \A i \in 1 .. Len(Wire) : Wire[i].n \in Nat /\ Wire[i].n <= N
        /\ \A i \in 1 .. W : Waiting[i].n \in 1 .. N
        /\ issued \in Seq(Issued)
    BY OnTheWire, InTheQueue DEF Types
  <1>3. /\ \A n : n # N + 1 =>
              /\ \A k : Is(n, k)' <=> Is(n, k)
              /\ \A t : (Subs(n, t)' <=> Subs(n, t)) /\ (Unsubs(n, t)' <=> Unsubs(n, t))
        /\ \A n : n = N + 1 =>
              /\ \A k : Is(n, k)' <=> k = kind
              /\ \A t : Subs(n, t)' <=> kind = "subscribe" /\ \E k \in 1 .. Len(topics) : topics[k] = t
              /\ \A t : Unsubs(n, t)' <=> kind = "unsubscribe" /\ topics[1] = t
    BY NewCommand
  <1>4. Subscribed' = Subscribed \cup (IF kind = "subscribe" THEN {topics[k] : k \in 1 .. Len(topics)} ELSE {})
    BY AddedTable DEF Subscribed
  <1>5. \A n \in 1 .. N : n # N + 1
    BY <1>1
  <1>6. ASSUME NEW t, NEW n \in 1 .. N, Unsubs(n, t) PROVE issued[n].topics = <<t>>
    <2>1. Len(issued[n].topics) = 1 /\ issued[n].topics[1] = t
      BY <1>6 DEF Numbered, Issues, Unsubs, Is
    <2>2. issued[n].topics \in Seq(Topics)
      BY EntryOf
    <2> QED BY <2>1, <2>2
  <1>7. ASSUME NEW t, kind = "unsubscribe", topics[1] = t
        PROVE  \E i \in 1 .. N : Subs(i, t) /\ \A n \in 1 .. N : Unsubs(n, t) => n < i
    <2>1. PICK u \in Topics : topics = <<u>> /\ Wanted(u)
      BY <1>7
    <2>2. u = t
      BY <1>7, <2>1
    <2>3. PICK i \in DOMAIN issued : /\ issued[i].kind = "subscribe" /\ t \in Range(issued[i].topics)
                                     /\ \A j \in i .. N : issued[j].kind = "unsubscribe" => issued[j].topics # <<t>>
      BY <2>1, <2>2 DEF Wanted
    <2>4. i \in 1 .. N /\ issued[i].topics \in Seq(Topics)
      BY <1>2, EntryOf
    <2>5. Subs(i, t)
      <3>1. \E k \in 1 .. Len(issued[i].topics) : issued[i].topics[k] = t
        BY <2>3, <2>4 DEF Range
      <3> QED BY <2>3, <2>4, <3>1 DEF Subs, Is, Names
    <2>6. ASSUME NEW n \in 1 .. N, Unsubs(n, t) PROVE n < i
      <3>1. issued[n].kind = "unsubscribe" /\ issued[n].topics = <<t>>
        BY <1>6, <2>6 DEF Unsubs, Is
      <3>2. n \notin i .. N
        BY <2>3, <3>1
      <3> QED BY <1>1, <2>4, <3>2
    <2> QED BY <2>4, <2>5, <2>6
  <1> HIDE DEF N, W
  <1>8. Entries'
    <2> SUFFICES ASSUME NEW t \in Subscribed', NEW n, n = ac'.topics[t].n
                 PROVE  /\ n \in 1 .. Len(issued') /\ issued'[n].kind = "subscribe"
                        /\ \E k \in 1 .. Len(issued'[n].topics) : issued'[n].topics[k] = t
      BY DEF Entries, Subscribed, Subs, Is, Names
    <2>1. ASSUME t \in Subscribed, n = ac.topics[t].n
          PROVE  /\ n \in 1 .. Len(issued') /\ issued'[n].kind = "subscribe"
                 /\ \E k \in 1 .. Len(issued'[n].topics) : issued'[n].topics[k] = t
      <3>1. n \in 1 .. N /\ issued[n].kind = "subscribe" /\ \E k \in 1 .. Len(issued[n].topics) : issued[n].topics[k] = t
        BY <2>1 DEF Topical, Entries, Subs, Is, Names, N
      <3>2. n \in 1 .. Len(issued') /\ issued'[n] = issued[n]
        BY <1>1, <3>1
      <3> QED BY <3>1, <3>2
    <2>2. CASE kind # "subscribe"
      BY <1>4, <2>1, <2>2
    <2>3. CASE kind = "subscribe"
      <3>1. n = IF \E k \in 1 .. Len(topics) : topics[k] = t THEN N + 1 ELSE ac.topics[t].n
        <4>1. t \in DOMAIN Added(topics) /\ n = Added(topics)[t].n
          BY <2>3 DEF Subscribed
        <4> QED BY <4>1, AddedTable DEF N
      <3>2. CASE \E k \in 1 .. Len(topics) : topics[k] = t
        <4>1. n = N + 1
          BY <3>1, <3>2
        <4>2. n \in 1 .. Len(issued')
          BY <1>1, <4>1
        <4> QED BY <1>1, <2>3, <3>2, <4>1, <4>2
      <3>3. CASE ~\E k \in 1 .. Len(topics) : topics[k] = t
        BY <1>4, <2>1, <3>1, <3>3
      <3> QED BY <3>2, <3>3
    <2> QED BY <2>2, <2>3
  <1>9. Leaving'
    <2>1. ASSUME NEW t \in Topics, NEW i \in 1 .. Len(Wire), NEW n, n = Wire[i].n, Unsubs(n, t)' PROVE t \in Subscribed'
      <3>1. n # N + 1
        BY <1>1, <1>2, <2>1
      <3>2. Unsubs(n, t)
        BY <1>3, <2>1, <3>1
      <3> QED BY <1>4, <2>1, <3>2 DEF Topical, Leaving
    <2>2. ASSUME srv.up, NEW t \in Topics, NEW i \in 1 .. W + 1, NEW n, n = Waiting'[i].n, Unsubs(n, t)' PROVE t \in Subscribed'
      <3>1. CASE i \in 1 .. W
        <4>1. n = Waiting[i].n /\ n # N + 1
          BY <1>1, <1>2, <1>5, <2>2, <3>1
        <4>2. Unsubs(n, t)
          BY <1>3, <2>2, <4>1
        <4> QED BY <1>4, <2>2, <3>1, <4>1, <4>2 DEF Topical, Leaving, W
      <3>2. CASE i = W + 1
        <4>1. n = N + 1
          BY <1>1, <2>2, <3>2
        <4>2. kind = "unsubscribe" /\ topics[1] = t
          BY <1>3, <2>2, <4>1
        <4>3. PICK u \in Topics : topics = <<u>> /\ Wanted(u)
          BY <4>2
        <4>4. u = t
          BY <4>2, <4>3
        <4> QED BY <1>4, <2>2, <4>3, <4>4 DEF Topical, Wants
      <3> QED BY <1>1, <3>1, <3>2
    <2> QED BY <1>1, <2>1, <2>2 DEF Leaving, Subscribed, Unsubs, Is
  <1>10. Alternate'
    <2> SUFFICES ASSUME NEW t \in Topics, NEW m \in 1 .. N + 1, NEW n \in 1 .. N + 1, m < n, Unsubs(m, t)', Unsubs(n, t)'
                 PROVE  \E k \in 1 .. N + 1 : m < k /\ k < n /\ Subs(k, t)'
      BY <1>1 DEF Alternate
    <2>1. m \in 1 .. N /\ Unsubs(m, t)
      <3>1. m \in 1 .. N /\ m # N + 1
        BY <1>1
      <3> QED BY <1>3, <3>1
    <2>2. CASE n \in 1 .. N
      <3>1. Unsubs(n, t)
        BY <1>3, <1>5, <2>2
      <3>2. PICK k \in 1 .. N : m < k /\ k < n /\ Subs(k, t)
        BY <2>1, <2>2, <3>1 DEF Topical, Alternate, N
      <3>3. k \in 1 .. N + 1 /\ k # N + 1
        BY <1>1, <3>2
      <3>4. Subs(k, t)'
        BY <1>3, <3>2, <3>3
      <3> QED BY <3>2, <3>3, <3>4
    <2>3. CASE n = N + 1
      <3>1. kind = "unsubscribe" /\ topics[1] = t
        BY <1>3, <2>3
      <3>2. PICK k \in 1 .. N : Subs(k, t) /\ \A j \in 1 .. N : Unsubs(j, t) => j < k
        BY <1>7, <3>1
      <3>3. m < k
        BY <2>1, <3>2
      <3>4. k \in 1 .. N + 1 /\ k # N + 1 /\ k < n
        BY <1>1, <2>3, <3>2
      <3>5. Subs(k, t)'
        BY <1>3, <3>2, <3>4
      <3> QED BY <3>3, <3>4, <3>5
    <2> QED BY <1>1, <2>2, <2>3
  <1>11. Following'
    <2>1. ASSUME NEW t \in Topics, NEW n \in 1 .. N + 1, NEW i \in 1 .. Len(Wire), Subs(n, t)', Wire[i].n # 0,
                 Wire[i].n < n, srv.up \/ \E j \in 1 .. Len(Wire) : n < Wire[j].n
          PROVE  \/ \E j \in 1 .. W + 1 : Waiting'[j].n = n
                 \/ \E j \in 1 .. Len(Wire) : Wire[j].kind = "error" /\ Wire[j].n = n
                 \/ \E j \in 1 .. Len(Wire) : Wire[j].n = n /\ Confirms(Wire[j], t)
      <3>1. CASE n = N + 1
        <4>1. W + 1 \in 1 .. W + 1
          BY <1>1
        <4> QED BY <1>1, <3>1, <4>1
      <3>2. CASE n \in 1 .. N
        <4>1. Subs(n, t)
          BY <1>3, <1>5, <2>1, <3>2
        <4>2. InFlight(n, t)
          BY <2>1, <3>2, <4>1 DEF Topical, Following, N
        <4>3. CASE \E j \in 1 .. W : Waiting[j].n = n
          <5>1. PICK j \in 1 .. W : Waiting[j].n = n
            BY <4>3
          <5>2. j \in 1 .. W + 1 /\ Waiting'[j].n = n
            BY <1>1, <5>1
          <5> QED BY <5>2
        <4> QED BY <4>2, <4>3 DEF InFlight, Awaited, W
      <3> QED BY <1>1, <3>1, <3>2
    <2> QED BY <1>1, <2>1 DEF Following, InFlight, Awaited, Confirms
  <1>12. Wants'
    <2> SUFFICES ASSUME srv.up, NEW t \in Topics, Wanted(t)' PROVE t \in Subscribed'
      BY <1>1 DEF Wants, Wanted, Subscribed
    <2>1. issued' \in Seq(Issued)
      BY DEF Types
    <2>2. PICK i \in DOMAIN issued' :
             /\ issued'[i].kind = "subscribe" /\ t \in Range(issued'[i].topics)
             /\ \A j \in i .. N + 1 : issued'[j].kind = "unsubscribe" => issued'[j].topics # <<t>>
      <3>1. Wanted(t)' <=> \E i \in DOMAIN issued' :
               /\ issued'[i].kind = "subscribe" /\ t \in Range(issued'[i].topics)
               /\ \A j \in i .. Len(issued') : issued'[j].kind = "unsubscribe" => issued'[j].topics # <<t>>
        BY DEF Wanted, Range
      <3> QED BY <1>1, <3>1
    <2>5. i \in 1 .. N + 1
      BY <1>1, <2>1, <2>2
    <2>3. CASE i \in 1 .. N
      <3>1. issued[i].kind = "subscribe" /\ t \in Range(issued[i].topics)
        BY <1>1, <2>2, <2>3
      <3>2. \A j \in i .. N : issued[j].kind = "unsubscribe" => issued[j].topics # <<t>>
        <4>1. \A j \in i .. N : j \in i .. N + 1 /\ j \in 1 .. N
          BY <1>1, <2>3
        <4> QED BY <1>1, <2>2, <4>1
      <3>3. i \in DOMAIN issued
        BY <1>2, <2>3 DEF N
      <3>4. Wanted(t)
        BY <3>1, <3>2, <3>3 DEF Wanted, N
      <3> QED BY <1>4, <3>4 DEF Topical, Wants
    <2>4. CASE i = N + 1
      <3>1. kind = "subscribe" /\ t \in Range(topics)
        BY <1>1, <2>2, <2>4
      <3>2. \E k \in 1 .. Len(topics) : topics[k] = t
        BY <3>1 DEF Range
      <3> QED BY <1>4, <3>1, <3>2
    <2> QED BY <1>1, <2>3, <2>4, <2>5
  <1>13. Messages'
    BY <1>1, <1>4 DEF Topical, Messages, Confirms, Subscribed
  <1>14. LastWord'
    <2>1. ASSUME NEW i \in 1 .. Len(Wire), Wire[i].kind = "unsubscribe", NEW n \in 1 .. N + 1, Wire[i].n < n
          PROVE  ~Is(n, "ordinary")'
      <3>1. CASE n \in 1 .. N
        <4>1. ~Is(n, "ordinary")
          BY <2>1, <3>1 DEF Topical, LastWord, N
        <4> QED BY <1>3, <1>5, <3>1, <4>1
      <3>2. CASE n = N + 1
        BY <1>3, <2>1, <3>2
      <3> QED BY <1>1, <3>1, <3>2
    <2>2. ASSUME NEW i \in 1 .. W + 1, Waiting'[i].kind = "unsubscribe", NEW n \in 1 .. N + 1, Waiting'[i].n < n
          PROVE  ~Is(n, "ordinary")'
      <3>1. CASE i \in 1 .. W
        <4>1. Waiting'[i] = Waiting[i]
          BY <1>1, <3>1
        <4>2. CASE n \in 1 .. N
          <5>1. ~Is(n, "ordinary")
            BY <2>2, <3>1, <4>1, <4>2 DEF Topical, LastWord, N, W
          <5> QED BY <1>3, <1>5, <4>2, <5>1
        <4>3. CASE n = N + 1
          BY <1>3, <2>2, <3>1, <4>1, <4>3 DEF W
        <4> QED BY <1>1, <4>2, <4>3
      <3>2. CASE i = W + 1
        BY <1>1, <2>2, <3>2
      <3> QED BY <1>1, <3>1, <3>2
    <2> QED BY <1>1, <2>1, <2>2 DEF LastWord
  <1> QED BY <1>8, <1>9, <1>10, <1>11, <1>12, <1>13, <1>14 DEF Topical

\* When an UNSUBSCRIBE has been confirmed and no confirmation of a SUBSCRIBE
\* of its topic is to come, none of the commands behind it names the topic.
LEMMA Over ==
    ASSUME Types, Numbered, Counted, Topical, NEW t \in Topics, Wire # <<>>,
           Wire[1].kind = "unsubscribe", Wire[1].topic = t, Pendings(t) = 0
    PROVE  /\ 1 \in 1 .. Len(Wire) /\ Unsubs(Wire[1].n, t) /\ Wire[1].n \in 1 .. Len(issued)
           /\ \A i \in 1 .. Len(Wire) : ~Confirms(Wire[i], t)
           /\ \A n \in 1 .. Len(issued) : Wire[1].n < n /\ Subs(n, t) =>
                 ~srv.up /\ ~\E j \in 1 .. Len(Wire) : n < Wire[j].n
           /\ \A n \in 1 .. Len(issued) : Wire[1].n < n /\ Unsubs(n, t) =>
                 ~srv.up /\ ~\E j \in 1 .. Len(Wire) : n = Wire[j].n
  <1>1. /\ 1 \in 1 .. Len(Wire) /\ Len(Wire) \in Nat /\ Len(issued) \in Nat /\ Wire[1].n \in Nat
    <2>1. 1 \in 1 .. Len(Wire) /\ Len(Wire) \in Nat
      BY ContextFields, LenProperties, EmptySeq
    <2> QED BY <2>1, OnTheWire, LenProperties DEF Types
  <1>2. Unsubs(Wire[1].n, t) /\ Wire[1].n \in 1 .. Len(issued)
    <2>1. Answered(Wire[1])
      BY <1>1, OnTheWire
    <2>2. Unsubs(Wire[1].n, t)
      BY <2>1 DEF Answered, Refusal, Message
    <2> QED BY <2>2 DEF Unsubs, Is
  <1>3. \A i \in 1 .. Len(Wire) : ~Confirms(Wire[i], t)
    <2>1. \A i \in 1 .. Len(Wire) : Confirms(Wire[i], t) => Pendings(t) > 0
      BY Confirmable
    <2> QED BY <2>1
  <1>4. ASSUME NEW n \in 1 .. Len(issued), Wire[1].n < n, Subs(n, t), srv.up \/ \E j \in 1 .. Len(Wire) : n < Wire[j].n
        PROVE  FALSE
    <2>1. Wire[1].n # 0
      BY <1>1, <1>2
    <2>2. InFlight(n, t)
      BY <1>1, <1>4, <2>1 DEF Topical, Following
    <2>3. Pendings(t) > 0
      BY <1>4, <2>2, InFlightCounts
    <2> QED BY <2>3
  <1>5. ASSUME NEW n \in 1 .. Len(issued), Wire[1].n < n, Unsubs(n, t), srv.up \/ \E j \in 1 .. Len(Wire) : n = Wire[j].n
        PROVE  FALSE
    <2>1. PICK k \in 1 .. Len(issued) : Wire[1].n < k /\ k < n /\ Subs(k, t)
      BY <1>2, <1>5 DEF Topical, Alternate
    <2>2. srv.up \/ \E j \in 1 .. Len(Wire) : k < Wire[j].n
      BY <1>5, <2>1
    <2> QED BY <1>4, <2>1, <2>2
  <1> QED BY <1>1, <1>2, <1>3, <1>4, <1>5

\* A reply that is taken drops at most the topic whose UNSUBSCRIBE it
\* confirms.
LEMMA TopicalTakes ==
    ASSUME Types, Numbered, Counted, Topical, Takes,
           NEW gone \in SUBSET Topics, Subscribed' = Subscribed \ gone,
           \A t \in Subscribed' : ac'.topics[t].n = ac.topics[t].n,
           \A t \in gone : Wire[1].kind = "unsubscribe" /\ Wire[1].topic = t /\ Pendings(t) = 0
    PROVE  Topical'
  <1>1. /\ Len(Wire) \in Nat \ {0} /\ Len(Wire') = Len(Wire) - 1 /\ Wire # <<>> /\ 1 \in 1 .. Len(Wire)
        /\ \A i \in 1 .. Len(Wire') : i + 1 \in 1 .. Len(Wire) /\ 1 < i + 1 /\ Wire'[i] = Wire[i + 1]
        /\ \A j \in 1 .. Len(Wire) : j # 1 => j - 1 \in 1 .. Len(Wire') /\ Wire'[j - 1] = Wire[j]
        /\ Waiting' = Waiting /\ srv' = srv /\ issued' = issued
    <2>1. \A i \in 1 .. Len(Wire') : 1 < i + 1
      OBVIOUS
    <2> QED BY <2>1, WireShrinks DEF Takes
  <1>2. \A n : /\ \A t : (Subs(n, t)' <=> Subs(n, t)) /\ (Unsubs(n, t)' <=> Unsubs(n, t))
               /\ \A k : Is(n, k)' <=> Is(n, k)
    BY <1>1 DEF Subs, Unsubs, Is, Names
  <1>3. /\ \A i \in 1 .. Len(Wire) : Wire[i].n \in Nat /\ Wire[i].n <= Len(issued) - Len(Waiting)
        /\ Len(issued) \in Nat /\ Len(Waiting) \in Nat
        /\ \A i \in 1 .. Len(Waiting) : Waiting[i].n = Len(issued) - Len(Waiting) + i /\ Waiting[i].n \in 1 .. Len(issued)
    BY OnTheWire, InTheQueue
  <1>4. ASSUME NEW i \in 1 .. Len(Wire), 1 < i, Wire[i].n # 0
        PROVE  Wire[1].n <= Wire[i].n /\ (Wire[1].kind # "subscribe" => Wire[1].n < Wire[i].n)
    <2>1. Wire[1].n <= Wire[i].n /\ (Wire[1].n = Wire[i].n => Wire[1].kind = "subscribe")
      BY <1>1, <1>4 DEF Numbered, Inorder
    <2>2. Wire[1].n \in Nat /\ Wire[i].n \in Nat
      BY <1>1, <1>3
    <2> QED BY <2>1, <2>2
  <1>5. Entries'
    <2>1. \A t \in Subscribed' : Subs(ac.topics[t].n, t)
      BY DEF Topical, Entries
    <2> QED BY <1>1, <2>1 DEF Entries, Subscribed, Subs, Is, Names
  <1>6. Leaving'
    <2>1. ASSUME NEW t \in Topics, NEW i \in 1 .. Len(Wire'), Unsubs(Wire'[i].n, t) PROVE t \in Subscribed'
      <3> DEFINE n == Wire[i + 1].n
      <3>1. i + 1 \in 1 .. Len(Wire) /\ Unsubs(n, t) /\ 1 < i + 1
        BY <1>1, <2>1
      <3>2. t \in Subscribed /\ n \in 1 .. Len(issued) /\ n # 0
        BY <1>3, <3>1 DEF Topical, Leaving, Unsubs, Is
      <3>3. t \notin gone
        <4> SUFFICES ASSUME t \in gone PROVE FALSE
          OBVIOUS
        <4>1. Wire[1].kind = "unsubscribe" /\ Wire[1].topic = t /\ Pendings(t) = 0
          OBVIOUS
        <4>2. Wire[1].n < n
          BY <1>4, <3>1, <3>2, <4>1
        <4> QED BY <1>1, <3>1, <3>2, <4>1, <4>2, Over
      <3> QED BY <3>2, <3>3
    <2>2. ASSUME srv.up, NEW t \in Topics, NEW i \in 1 .. Len(Waiting), Unsubs(Waiting[i].n, t) PROVE t \in Subscribed'
      <3> DEFINE n == Waiting[i].n
      <3>1. t \in Subscribed /\ n \in 1 .. Len(issued) /\ Wire[1].n < n
        BY <1>1, <1>3, <2>2 DEF Topical, Leaving
      <3>2. t \notin gone
        BY <1>1, <2>2, <3>1, Over
      <3> QED BY <3>1, <3>2
    <2> QED BY <1>1, <2>1, <2>2 DEF Leaving, Subscribed, Unsubs, Is
  <1>7. Alternate'
    BY <1>1 DEF Topical, Alternate, Subs, Unsubs, Is, Names
  <1>8. Following'
    <2>1. ASSUME NEW t \in Topics, NEW n \in 1 .. Len(issued), NEW i \in 1 .. Len(Wire'), Subs(n, t),
                 Wire'[i].n # 0, Wire'[i].n < n, srv.up \/ \E j \in 1 .. Len(Wire') : n < Wire'[j].n
          PROVE  \/ \E j \in 1 .. Len(Waiting) : Waiting[j].n = n
                 \/ \E j \in 1 .. Len(Wire') : Wire'[j].kind = "error" /\ Wire'[j].n = n
                 \/ \E j \in 1 .. Len(Wire') : Wire'[j].n = n /\ Confirms(Wire'[j], t)
      <3>1. i + 1 \in 1 .. Len(Wire) /\ Wire[i + 1].n # 0 /\ Wire[i + 1].n < n /\ 1 < i + 1
        BY <1>1, <2>1
      <3>2. srv.up \/ \E j \in 1 .. Len(Wire) : n < Wire[j].n
        BY <1>1, <2>1
      <3>3. InFlight(n, t)
        BY <2>1, <3>1, <3>2 DEF Topical, Following
      <3>4. Wire[1].n <= Wire[i + 1].n
        BY <1>4, <3>1
      <3>5. Wire[1].n # n
        BY <1>1, <1>3, <3>1, <3>4
      <3>6. ASSUME NEW j \in 1 .. Len(Wire), Wire[j].n = n, Wire[j].kind = "error" \/ Confirms(Wire[j], t)
            PROVE  \E k \in 1 .. Len(Wire') : Wire'[k].n = n /\ (Wire'[k].kind = "error" \/ Confirms(Wire'[k], t))
        <4>1. j # 1
          BY <3>5, <3>6
        <4>2. j - 1 \in 1 .. Len(Wire') /\ Wire'[j - 1] = Wire[j]
          BY <1>1, <4>1
        <4> QED BY <3>6, <4>2
      <3> QED BY <3>3, <3>6 DEF InFlight, Awaited
    <2>2. \A n, t : Subs(n, t)' <=> Subs(n, t)
      BY <1>2
    <2> QED BY <1>1, <2>1, <2>2 DEF Following, InFlight, Awaited, Confirms
  <1>9. Wants'
    <2> SUFFICES ASSUME srv.up, NEW t \in Topics, Wanted(t) PROVE t \in Subscribed'
      BY <1>1 DEF Wants, Wanted
    <2>1. t \in Subscribed
      BY DEF Topical, Wants
    <2>2. ASSUME t \in gone PROVE FALSE
      <3> DEFINE p == Wire[1].n
      <3>1. Wire[1].kind = "unsubscribe" /\ Wire[1].topic = t /\ Pendings(t) = 0
        BY <2>2
      <3>2. /\ Unsubs(p, t) /\ p \in 1 .. Len(issued)
            /\ \A n \in 1 .. Len(issued) : p < n /\ Subs(n, t) => ~srv.up
        BY <1>1, <3>1, Over
      <3> HIDE DEF p
      <3>3. PICK i \in DOMAIN issued : /\ issued[i].kind = "subscribe" /\ t \in Range(issued[i].topics)
                                       /\ \A j \in i .. Len(issued) : issued[j].kind = "unsubscribe" => issued[j].topics # <<t>>
        BY DEF Wanted
      <3>4. issued \in Seq(Issued) /\ i \in 1 .. Len(issued)
        BY DEF Types
      <3>5. issued[i].topics \in Seq(Topics) /\ issued[p].topics \in Seq(Topics)
        BY <3>2, <3>4, EntryOf
      <3>6. Subs(i, t)
        <4>1. \E k \in 1 .. Len(issued[i].topics) : issued[i].topics[k] = t
          BY <3>3, <3>5 DEF Range
        <4> QED BY <3>3, <3>4, <4>1 DEF Subs, Is, Names
      <3>7. issued[p].kind = "unsubscribe" /\ issued[p].topics = <<t>>
        <4>1. issued[p].kind = "unsubscribe" /\ issued[p].topics[1] = t /\ Len(issued[p].topics) = 1
          BY <3>2 DEF Unsubs, Is, Numbered, Issues
        <4> QED BY <3>5, <4>1
      <3>8. p < i
        <4>1. p \notin i .. Len(issued)
          BY <3>3, <3>7
        <4> QED BY <1>3, <3>2, <3>4, <4>1
      <3> QED BY <3>2, <3>4, <3>6, <3>8
    <2> QED BY <2>1, <2>2
  <1>10. Messages'
    <2> SUFFICES ASSUME NEW j \in 1 .. Len(Wire'), Wire'[j].kind = "message"
                 PROVE  /\ Wire'[j].topic \in Subscribed'
                        /\ \A i \in 1 .. Len(Wire') :
                              i < j /\ Wire'[i].kind = "unsubscribe" /\ Wire'[i].topic = Wire'[j].topic =>
                                 \E k \in 1 .. Len(Wire') : i < k /\ k < j /\ Confirms(Wire'[k], Wire'[j].topic)
      BY DEF Messages, Subscribed, Confirms
    <2>1. j + 1 \in 1 .. Len(Wire) /\ 1 < j + 1 /\ Wire'[j] = Wire[j + 1]
      BY <1>1
    <2>2. Wire[j + 1].topic \in Subscribed /\ Wire[j + 1].topic \in Topics
      BY <2>1, ContextFields DEF Topical, Messages
    <2>3. Wire[j + 1].topic \notin gone
      <3> SUFFICES ASSUME NEW t \in gone, Wire[j + 1].topic = t PROVE FALSE
        OBVIOUS
      <3>1. Wire[1].kind = "unsubscribe" /\ Wire[1].topic = t /\ Pendings(t) = 0
        OBVIOUS
      <3>2. \E k \in 1 .. Len(Wire) : Confirms(Wire[k], t)
        BY <1>1, <2>1, <3>1 DEF Topical, Messages
      <3> QED BY <1>1, <3>1, <3>2, Over
    <2>4. ASSUME NEW i \in 1 .. Len(Wire'), i < j, Wire'[i].kind = "unsubscribe", Wire'[i].topic = Wire'[j].topic
          PROVE  \E k \in 1 .. Len(Wire') : i < k /\ k < j /\ Confirms(Wire'[k], Wire'[j].topic)
      <3>1. i + 1 \in 1 .. Len(Wire) /\ Wire'[i] = Wire[i + 1] /\ i + 1 < j + 1
        <4>1. i + 1 < j + 1
          BY <2>4
        <4> QED BY <1>1, <4>1
      <3>2. PICK k \in 1 .. Len(Wire) : i + 1 < k /\ k < j + 1 /\ Confirms(Wire[k], Wire[j + 1].topic)
        BY <2>1, <2>4, <3>1 DEF Topical, Messages
      <3>3. k # 1 /\ i < k - 1 /\ k - 1 < j
        BY <3>2
      <3>4. k - 1 \in 1 .. Len(Wire') /\ Wire'[k - 1] = Wire[k]
        BY <1>1, <3>3
      <3> QED BY <2>1, <3>2, <3>3, <3>4
    <2> QED BY <2>1, <2>2, <2>3, <2>4
  <1>11. LastWord'
    BY <1>1 DEF Topical, LastWord, Is
  <1> QED BY <1>5, <1>6, <1>7, <1>8, <1>9, <1>10, <1>11 DEF Topical

-----------------------------------------------------------------------------
\* The callback of an ordinary command runs.
LEMMA OnceRuns ==
    ASSUME Types, Once, NEW c, Is(c.n, "ordinary"), c.topic = NoTopic, Pends(c.n),
           NEW m \in Reply, m.kind # "null", RunCallback(c, m), UNCHANGED <<issued, told>>,
           \A n : Pends(n)' <=> Pends(n) /\ n # c.n,
           \A i, j \in 1 .. Len(ac'.replies) : i # j => ac'.replies[i].n # ac'.replies[j].n
    PROVE  Once' /\ cb' = c /\ got' = m
  <1>1. c.n \in 1 .. Len(issued) /\ c.n # 0 /\ c # NoCallback
    <2>1. c.n # 0
      BY Kinds
    <2> QED BY <2>1 DEF Is, NoCallback, Callback
  <1>2. ran' = [ran EXCEPT ![c.n] = Append(ran[c.n], m)] /\ cb' = c /\ got' = m
    BY <1>1 DEF RunCallback
  <1>3. ran \in Seq(Seq(Reply)) /\ Len(ran) = Len(issued) /\ DOMAIN ran = 1 .. Len(issued)
    <2>1. ran \in Seq(Seq(Reply)) /\ Len(ran) = Len(issued)
      BY DEF Types
    <2>2. DOMAIN ran = 1 .. Len(ran)
      BY ONLY <2>1, LenProperties
    <2> QED BY <2>1, <2>2
  <1>4. \A n \in 1 .. Len(issued) : n # c.n => ran'[n] = ran[n]
    BY <1>2, <1>3
  <1>5. ran[c.n] = <<>>
    BY <1>1 DEF Once
  <1>6. ran'[c.n] = Append(<<>>, m)
    BY <1>1, <1>2, <1>3, <1>5
  <1>7. Len(ran'[c.n]) = 1 /\ ran'[c.n][1].kind # "null"
    BY <1>6
  <1>8. ASSUME NEW n \in 1 .. Len(issued), Is(n, "ordinary")
        PROVE  IF Pends(n)' THEN ran'[n] = <<>> ELSE Len(ran'[n]) = 1 /\ ran'[n][1].kind # "null"
    <2>0. IF Pends(n) THEN ran[n] = <<>> ELSE Len(ran[n]) = 1 /\ ran[n][1].kind # "null"
      BY <1>8 DEF Once
    <2>1. CASE n = c.n
      BY <1>7, <2>1
    <2>2. CASE n # c.n
      BY <1>4, <2>0, <2>2
    <2> QED BY <2>1, <2>2
  <1>9. told' = "nothing" /\ Len(issued') = Len(issued) /\ \A n : Is(n, "ordinary")' <=> Is(n, "ordinary")
    BY DEF Once, Is
  <1>10. Once'
    <2>1. \A n : (Pends(n))' <=> \/ \E k \in 1 .. Len(ac'.invalid) : ac'.invalid[k].n = n
                                 \/ \E k \in 1 .. Len(ac'.replies) : ac'.replies[k].n = n
      BY DEF Pends, InInvalid
    <2> QED BY <1>8, <1>9 DEF Once
  <1> QED BY <1>2, <1>10

\* A regular command is answered.
LEMMA MatchRegular ==
    ASSUME Types, Types', Numbered, Counted, Lined, Numbers, Topical, Once, ProcessRegular
    PROVE  Lined' /\ Numbers' /\ Topical' /\ Once' /\ Speaks'
  <1> DEFINE c == ac.replies[1]
             m == Wire[1]
  <1>1. /\ Takes /\ ac.replies # <<>> /\ ac'.replies = Tail(ac.replies) /\ RunCallback(c, m)
        /\ UNCHANGED <<ac.invalid, ac.topics, ac.subscribed>> /\ issued' = issued /\ told' = told
    BY RegularSteps DEF Takes
  <1>2. /\ 1 \in 1 .. Len(Wire) /\ m \in Reply
    BY <1>1, WireShrinks
  <1>3. /\ ac.replies \in Seq(Back) /\ Len(ac.replies) \in Nat \ {0} /\ Len(ac'.replies) = Len(ac.replies) - 1
        /\ \A i \in 1 .. Len(ac'.replies) : ac'.replies[i] = ac.replies[i + 1]
        /\ 1 \in 1 .. Len(ac.replies)
    BY <1>1, ContextFields, HeadTailProperties, EmptySeq, LenProperties
  <1>4. c.topic = NoTopic /\ Regular(c.n) /\ (m = Refusal \/ m.n = c.n)
    <2>1. 1 <= Len(ac.replies)
      BY <1>3
    <2> QED BY <1>2, <1>3, <2>1 DEF Lined, Replies, Aligned
  <1>5. m.kind # "null" /\ m.topic = NoTopic /\ m.n \in {c.n, 0} /\ ~Invalid(m.n)
    <2>1. Refusal.topic = NoTopic /\ Refusal.n = 0 /\ ~Invalid(0)
      BY Kinds DEF Refusal, Message
    <2>2. m.n = c.n => Is(m.n, "ordinary") /\ ~Invalid(m.n)
      BY <1>4, Kinds
    <2> QED BY <1>2, <1>4, <2>1, <2>2, OnTheWire
  <1> HIDE DEF c, m
  <1>6. Lined'
    BY <1>1, LinedTail
  <1>7. Numbers'
    BY <1>1, <1>5, NumbersTakes DEF m
  <1>8. Topical'
    <2>1. Subscribed' = Subscribed \ {} /\ \A t \in Subscribed' : ac'.topics[t].n = ac.topics[t].n
      BY <1>1 DEF Subscribed
    <2>2. {} \in SUBSET Topics /\ \A t \in {} : FALSE
      OBVIOUS
    <2>3. Takes
      BY <1>1
    <2> QED BY <2>1, <2>2, <2>3, TopicalTakes
  <1>9. \A i, j \in 1 .. Len(ac.replies) : i # j => ac.replies[i].n # ac.replies[j].n
    BY DEF Once
  <1>10. ~InInvalid(c.n)
    <2>1. \A n : InInvalid(n) => Invalid(n)
      BY DEF InInvalid, Numbers, Invalids
    <2> QED BY <1>4, <2>1, Kinds
  <1>11. ASSUME NEW n PROVE Pends(n)' <=> Pends(n) /\ n # c.n
    <2>1. InInvalid(n)' <=> InInvalid(n)
      BY <1>1 DEF InInvalid
    <2>2. (\E k \in 1 .. Len(ac'.replies) : ac'.replies[k].n = n)
             <=> (\E k \in 1 .. Len(ac.replies) : ac.replies[k].n = n) /\ n # c.n
      <3>1. ASSUME NEW k \in 1 .. Len(ac'.replies), ac'.replies[k].n = n
            PROVE  k + 1 \in 1 .. Len(ac.replies) /\ ac.replies[k + 1].n = n /\ n # c.n
        <4>1. k + 1 \in 1 .. Len(ac.replies) /\ k + 1 # 1
          BY <1>3
        <4> QED BY <1>3, <1>9, <3>1, <4>1 DEF c
      <3>2. ASSUME NEW k \in 1 .. Len(ac.replies), ac.replies[k].n = n, n # c.n
            PROVE  k - 1 \in 1 .. Len(ac'.replies) /\ ac'.replies[k - 1].n = n
        <4>1. k # 1
          BY <3>2 DEF c
        <4>2. k - 1 \in 1 .. Len(ac'.replies) /\ (k - 1) + 1 = k
          BY <1>3, <4>1
        <4> QED BY <1>3, <3>2, <4>2
      <3> QED BY <3>1, <3>2
    <2> QED BY <1>10, <2>1, <2>2 DEF Pends
  <1>12. ASSUME NEW i \in 1 .. Len(ac'.replies), NEW j \in 1 .. Len(ac'.replies), i # j
         PROVE  ac'.replies[i].n # ac'.replies[j].n
    <2>1. i + 1 \in 1 .. Len(ac.replies) /\ j + 1 \in 1 .. Len(ac.replies) /\ i + 1 # j + 1
      BY <1>3, <1>12
    <2> QED BY <1>3, <1>9, <2>1
  <1>13. Is(c.n, "ordinary") /\ Pends(c.n)
    BY <1>3, <1>4 DEF Regular, Pends, c
  <1>14. Once' /\ cb' = c /\ got' = m
    BY <1>1, <1>2, <1>4, <1>5, <1>11, <1>12, <1>13, OnceRuns DEF m
  <1> QED BY <1>5, <1>6, <1>7, <1>8, <1>14 DEF Speaks

\* A command that was sent in subscribed mode is answered.
LEMMA MatchInvalid ==
    ASSUME Types, Types', Numbered, Counted, Lined, Numbers, Topical, Once, ProcessInvalid
    PROVE  Lined' /\ Numbers' /\ Topical' /\ Once' /\ Speaks'
  <1> DEFINE c == ac.invalid[1]
             m == Wire[1]
  <1>1. /\ Takes /\ ac.replies = <<>> /\ ac.subscribed /\ m.kind = "reply"
        /\ RunCallback(IF ac.invalid = <<>> THEN cb ELSE ac.invalid[1], m)
        /\ ac'.invalid = SubSeq(ac.invalid, 2, Len(ac.invalid))
        /\ UNCHANGED <<ac.replies, ac.topics, ac.subscribed>> /\ issued' = issued /\ told' = told
    BY InvalidSteps DEF Takes
  <1>2. /\ 1 \in 1 .. Len(Wire) /\ m \in Reply
    BY <1>1, WireShrinks
  <1>3. Invalid(m.n) /\ m.topic = NoTopic
    <2>1. Is(m.n, "ordinary") /\ m # Refusal /\ m.topic = NoTopic
      BY <1>1, <1>2, OnTheWire DEF Refusal, Message
    <2>2. Len(ac.replies) = 0 /\ ~(1 <= 0)
      BY <1>1, EmptySeq
    <2>3. ~Regular(m.n)
      BY <1>2, <2>1, <2>2 DEF Lined, Aligned
    <2> QED BY <2>1, <2>3, Kinds
  <1>4. ac.invalid # <<>> /\ 1 \in 1 .. Len(ac.invalid) /\ c.n = m.n
    BY <1>2, <1>3, FirstInvalid
  <1>5. /\ ac.invalid \in Seq(Back) /\ Len(ac.invalid) \in Nat \ {0} /\ Len(ac'.invalid) = Len(ac.invalid) - 1
        /\ \A i \in 1 .. Len(ac'.invalid) : ac'.invalid[i] = ac.invalid[i + 1]
    <2>1. ac.invalid \in Seq(Back) /\ Len(ac.invalid) \in Nat
      BY ContextFields, LenProperties
    <2>2. \A i \in 2 .. Len(ac.invalid) : ac.invalid[i] \in Back
      BY <2>1, ElementOfSeq
    <2>3. Len(ac.invalid) \in Nat \ {0}
      BY <1>4, <2>1
    <2>4. /\ Len(ac'.invalid) = Len(ac.invalid) - 1
          /\ \A i \in 1 .. Len(ac.invalid) - 1 : ac'.invalid[i] = ac.invalid[i + 1]
      <3> DEFINE s == SubSeq(ac.invalid, 2, Len(ac.invalid))
      <3>1. /\ Len(s) = IF 2 <= Len(ac.invalid) THEN Len(ac.invalid) - 2 + 1 ELSE 0
            /\ \A i \in 1 .. Len(ac.invalid) - 2 + 1 : s[i] = ac.invalid[2 + i - 1]
        BY ONLY <2>1, <2>2, SubSeqProperties
      <3>2. \A i \in 1 .. Len(ac.invalid) - 1 : 2 + i - 1 = i + 1
        OBVIOUS
      <3> HIDE DEF s
      <3>3. Len(s) = Len(ac.invalid) - 1
        BY <2>3, <3>1
      <3>4. Len(ac.invalid) - 2 + 1 = Len(ac.invalid) - 1
        BY <2>3
      <3> QED BY <1>1, <3>1, <3>2, <3>3, <3>4 DEF s
    <2> QED BY <2>1, <2>3, <2>4
  <1>6. c.topic = NoTopic /\ RunCallback(c, m) /\ m.kind # "null"
    BY <1>1, <1>4 DEF Numbers, Invalids
  <1> HIDE DEF c, m
  <1>7. Lined'
    <2>1. Plain'
      BY <1>1 DEF Plain
    <2> QED BY <1>1, <2>1, LinedEmpty
  <1>8. Numbers'
    BY <1>1, <1>3, NumbersInvalid DEF m
  <1>9. Topical'
    <2>1. Subscribed' = Subscribed \ {} /\ \A t \in Subscribed' : ac'.topics[t].n = ac.topics[t].n
      BY <1>1 DEF Subscribed
    <2>2. {} \in SUBSET Topics /\ \A t \in {} : FALSE
      OBVIOUS
    <2>3. Takes
      BY <1>1
    <2> QED BY <2>1, <2>2, <2>3, TopicalTakes
  <1>10. \A i, j \in 1 .. Len(ac.invalid) : i < j => ac.invalid[i].n < ac.invalid[j].n /\ ac.invalid[i].n \in Nat
    BY NumbersOf
  <1>11. \A k \in 1 .. Len(ac.replies) : FALSE
    BY <1>1, EmptySeq
  <1>12. ASSUME NEW n PROVE Pends(n)' <=> Pends(n) /\ n # c.n
    <2>1. InInvalid(n)' <=> InInvalid(n) /\ n # c.n
      <3>1. ASSUME NEW k \in 1 .. Len(ac'.invalid), ac'.invalid[k].n = n
            PROVE  k + 1 \in 1 .. Len(ac.invalid) /\ ac.invalid[k + 1].n = n /\ n # c.n
        <4>1. k + 1 \in 1 .. Len(ac.invalid) /\ 1 < k + 1
          BY <1>5
        <4>2. ac.invalid[1].n < ac.invalid[k + 1].n /\ ac.invalid[1].n \in Nat
          BY <1>4, <1>10, <4>1
        <4>3. ac.invalid[1].n # ac.invalid[k + 1].n
          BY <4>2
        <4> QED BY <1>5, <3>1, <4>1, <4>3 DEF c
      <3>2. ASSUME NEW k \in 1 .. Len(ac.invalid), ac.invalid[k].n = n, n # c.n
            PROVE  k - 1 \in 1 .. Len(ac'.invalid) /\ ac'.invalid[k - 1].n = n
        <4>1. k # 1
          BY <3>2 DEF c
        <4>2. k - 1 \in 1 .. Len(ac'.invalid) /\ (k - 1) + 1 = k
          BY <1>5, <4>1
        <4> QED BY <1>5, <3>2, <4>2
      <3> QED BY <3>1, <3>2 DEF InInvalid
    <2> QED BY <1>1, <1>11, <2>1 DEF Pends
  <1>13. Is(c.n, "ordinary") /\ Pends(c.n)
    <2>1. Is(c.n, "ordinary")
      BY <1>3, <1>4 DEF Invalid
    <2> QED BY <1>4, <2>1 DEF Pends, InInvalid, c
  <1>14. \A i, j \in 1 .. Len(ac'.replies) : i # j => ac'.replies[i].n # ac'.replies[j].n
    BY <1>1, <1>11
  <1>15. Once' /\ cb' = c /\ got' = m
    BY <1>1, <1>2, <1>6, <1>12, <1>13, <1>14, OnceRuns DEF m
  <1> QED BY <1>3, <1>4, <1>7, <1>8, <1>9, <1>15 DEF Speaks

\* News of a topic: the topic has a callback, whichever the news is.
LEMMA MatchTopic ==
    ASSUME Types, Numbered, Counted, Lined, Numbers, Topical, Once, ProcessTopic
    PROVE  Types' /\ Live' /\ Lined' /\ Numbers' /\ Topical' /\ Once' /\ Speaks'
  <1> DEFINE m == Wire[1]
             t == m.topic
             gone == IF m.kind = "unsubscribe" /\ Pendings(t) = 0 THEN {t} ELSE {}
  <1>1. 1 \in 1 .. Len(Wire) /\ m \in Reply /\ t \in Topics /\ t # NoTopic
    <2>1. inbox # <<>> /\ Head(inbox).topic # NoTopic /\ inbox \in Seq(Reply) /\ srv.out \in Seq(Reply) /\ Wire \in Seq(Reply)
      BY ContextFields DEF ProcessTopic
    <2>2. Wire # <<>> /\ Head(inbox) = m
      BY <2>1, FrontOfConcat DEF Wire
    <2>3. 1 \in 1 .. Len(Wire) /\ m \in Reply
      BY <2>1, <2>2, EmptySeq, LenProperties, ElementOfSeq
    <2> QED BY <2>1, <2>2, <2>3 DEF Reply
  <1>2. m.kind = "subscribe" => Pendings(t) > 0
    BY <1>1, Confirmable DEF Confirms
  <1>3. t \in Subscribed
    <2>1. Answered(m)
      BY <1>1, OnTheWire
    <2>2. CASE m.kind = "subscribe"
      BY <1>1, <2>2, Confirmable DEF Confirms
    <2>3. CASE m.kind = "unsubscribe" /\ Unsubs(m.n, t)
      BY <1>1, <2>3 DEF Topical, Leaving
    <2>4. CASE m.kind = "message"
      BY <1>1, <2>4 DEF Topical, Messages
    <2> QED BY <1>1, <2>1, <2>2, <2>3, <2>4 DEF Answered, Refusal, Message
  <1>4. /\ Types' /\ Takes /\ Live' /\ ac.replies = <<>> /\ ac.subscribed
        /\ ac'.replies = ac.replies /\ ac'.invalid = ac.invalid /\ issued' = issued /\ told' = told
        /\ ac'.topics = Confirmed(ac.topics, m)
        /\ ac'.subscribed = ~(m.kind = "unsubscribe" /\ m.count = 0 /\ Subscribed' = {})
        /\ RunCallback(Callback(ac.topics[t].n, t), m)
    BY <1>2, <1>3, TopicSteps DEF Takes
  <1>5. PICK D \in SUBSET Topics : ac.topics \in [D -> [n : Nat, pending : Nat]]
    BY DEF Types, Context, Tables
  <1>6. D = Subscribed /\ Pendings(t) = ac.topics[t].pending
    BY <1>3, <1>5 DEF Subscribed, Pendings
  <1> HIDE DEF m, t
  <1>7. /\ Subscribed' = Subscribed \ gone
        /\ \A x \in Subscribed' : ac'.topics[x].n = ac.topics[x].n
    <2>1. CASE m.kind = "subscribe"
      <3>1. m.kind # "unsubscribe"
        BY <2>1
      <3>2. ac'.topics = [ac.topics EXCEPT ![t] = [ac.topics[t] EXCEPT !.pending = ac.topics[t].pending - 1]]
        BY <1>4, <2>1 DEF Confirmed, t
      <3>3. ac.topics[t] \in [n : Nat, pending : Nat]
        BY <1>3, <1>5, <1>6
      <3>4. /\ DOMAIN ac'.topics = D /\ \A x \in D : x # t => ac'.topics[x] = ac.topics[x]
            /\ ac'.topics[t] = [ac.topics[t] EXCEPT !.pending = ac.topics[t].pending - 1]
        BY <1>3, <1>5, <1>6, <3>2
      <3>5. ac'.topics[t].n = ac.topics[t].n
        BY <3>3, <3>4
      <3> QED BY <1>6, <3>1, <3>4, <3>5 DEF Subscribed
    <2>2. CASE m.kind = "unsubscribe" /\ Pendings(t) = 0
      <3>1. ac'.topics = [x \in D \ {t} |-> ac.topics[x]]
        BY <1>4, <1>5, <1>6, <2>2 DEF Confirmed, t
      <3> QED BY <1>6, <2>2, <3>1 DEF Subscribed
    <2>3. CASE m.kind # "subscribe" /\ ~(m.kind = "unsubscribe" /\ Pendings(t) = 0)
      <3>1. ac'.topics = ac.topics
        BY <1>4, <1>6, <2>3 DEF Confirmed, t
      <3> QED BY <2>3, <3>1 DEF Subscribed
    <2> QED BY <2>1, <2>2, <2>3
  <1>8. Topical'
    <2>1. \A u \in gone : m.kind = "unsubscribe" /\ m.topic = u /\ Pendings(u) = 0
      BY DEF t
    <2>2. gone \in SUBSET Topics
      BY <1>1
    <2> HIDE DEF gone
    <2> QED BY <1>4, <1>7, <2>1, <2>2, TopicalTakes DEF m
  <1>9. Numbers'
    <2>1. ~Is(m.n, "ordinary")
      BY <1>1, OnTheWire DEF m, t
    <2>2. ~Invalid(m.n)
      BY <2>1 DEF Invalid
    <2> QED BY <1>4, <2>2, NumbersTakes DEF m
  <1>10. Lined'
    <2>1. CASE ac'.subscribed
      <3>1. Plain'
        BY <2>1 DEF Plain
      <3> QED BY <1>4, <3>1, LinedEmpty
    <2>2. CASE ~ac'.subscribed
      <3>1. m.kind = "unsubscribe" /\ Subscribed' = {}
        BY <1>4, <2>2
      <3>2. Pendings(t) = 0 /\ Subscribed = {t}
        BY <1>3, <1>7, <3>1
      <3>3. Wire # <<>>
        BY <1>4 DEF Takes
      <3>4. Ends(t)
        BY <3>1, <3>2, <3>3 DEF Ends, m, t
      <3>5. Plain'
        BY <1>1, <1>4, <3>4, PlainEnds DEF Topical
      <3> QED BY <1>4, <3>5, LinedEmpty
    <2> QED BY <2>1, <2>2
  <1>11. /\ ran' = ran /\ cb' = Callback(ac.topics[t].n, t) /\ got' = m
         /\ cb'.n = ac.topics[t].n /\ cb'.topic = t
    <2>1. Callback(ac.topics[t].n, t) # NoCallback /\ Callback(ac.topics[t].n, t).topic # NoTopic
      BY <1>1 DEF Callback, NoCallback
    <2>2. RunCallback(Callback(ac.topics[t].n, t), m)
      BY <1>4
    <2>3. ran' = ran /\ cb' = Callback(ac.topics[t].n, t) /\ got' = m
      BY <2>1, <2>2 DEF RunCallback
    <2> QED BY <2>3 DEF Callback
  <1>12. Once'
    BY <1>4, <1>11 DEF Once, Pends, InInvalid, Is
  <1>13. Speaks'
    <2>1. Subs(ac.topics[t].n, t)
      BY <1>3 DEF Topical, Entries
    <2>2. got'.topic = t /\ t # NoTopic
      BY <1>1, <1>11 DEF t
    <2> QED BY <1>4, <1>11, <2>1, <2>2 DEF Speaks, Subs, Is, Names
  <1> QED BY <1>4, <1>8, <1>9, <1>10, <1>12, <1>13

-----------------------------------------------------------------------------
\* The context is freed: what was pending runs with a NULL reply, and what a
\* clean disconnect leaves behind is of the invalid list.
Settled == pc = "freed" /\ ExactlyOnce /\ CleanMeansAnswered

LEMMA FreeSettles ==
    ASSUME Types, Numbers, Once, NEW a \in Context, a.replies = ac.replies, a.invalid = ac.invalid,
           a.freeing \/ a.err \/ a.replies = <<>>, AsyncFree(a), UNCHANGED issued
    PROVE  Settled'
  <1>1. /\ ac.replies \in Seq(Back) /\ ac.invalid \in Seq(Back) /\ issued \in Seq(Issued)
        /\ Len(ac.replies) \in Nat /\ Len(ac.invalid) \in Nat
    BY ContextFields, LenProperties DEF Types
  <1>2. /\ ran \in Seq(Seq(Reply)) /\ DOMAIN ran = 1 .. Len(issued) /\ DOMAIN issued = 1 .. Len(issued)
    <2>1. ran \in Seq(Seq(Reply)) /\ Len(ran) = Len(issued)
      BY DEF Types
    <2>2. DOMAIN ran = 1 .. Len(ran)
      BY ONLY <2>1, LenProperties
    <2>3. DOMAIN issued = 1 .. Len(issued)
      BY ONLY <1>1, LenProperties
    <2> QED BY <2>1, <2>2, <2>3
  <1>3. ASSUME NEW n PROVE (\E j \in DOMAIN Pending(a) : Pending(a)[j].n = n) <=> Pends(n)
    <2> DEFINE p == ac.replies \o ac.invalid
               R == Len(ac.replies)
               I == Len(ac.invalid)
    <2>1. Pending(a) = p
      BY DEF Pending
    <2>2. /\ p \in Seq(Back) /\ Len(p) = R + I
          /\ \A i \in 1 .. R + I : p[i] = IF i <= R THEN ac.replies[i] ELSE ac.invalid[i - R]
      BY <1>1, ConcatProperties
    <2>3. DOMAIN p = 1 .. R + I
      BY <2>2, LenProperties
    <2>0. R \in Nat /\ I \in Nat
      BY <1>1
    <2> HIDE DEF p, R, I
    <2>4. ASSUME NEW j \in 1 .. R + I, p[j].n = n PROVE Pends(n)
      <3>1. CASE j <= R
        <4>1. j \in 1 .. R /\ p[j] = ac.replies[j]
          BY <2>0, <2>2, <3>1
        <4> QED BY <2>4, <4>1 DEF Pends, R
      <3>2. CASE ~(j <= R)
        <4>1. j - R \in 1 .. I /\ p[j] = ac.invalid[j - R]
          BY <2>0, <2>2, <3>2
        <4> QED BY <2>4, <4>1 DEF Pends, InInvalid, I
      <3> QED BY <3>1, <3>2
    <2>5. ASSUME NEW k \in 1 .. R, ac.replies[k].n = n PROVE \E j \in 1 .. R + I : p[j].n = n
      <3>1. k \in 1 .. R + I /\ k <= R
        BY <2>0
      <3> QED BY <2>2, <2>5, <3>1
    <2>6. ASSUME NEW k \in 1 .. I, ac.invalid[k].n = n PROVE \E j \in 1 .. R + I : p[j].n = n
      <3> DEFINE j == k + R
      <3>1. j \in 1 .. R + I /\ ~(j <= R) /\ j - R = k
        BY <2>0
      <3> HIDE DEF j
      <3>2. p[j] = ac.invalid[j - R]
        BY <2>2, <3>1
      <3> QED BY <2>6, <3>1, <3>2
    <2>7. Pends(n) => \E j \in 1 .. R + I : p[j].n = n
      BY <2>5, <2>6 DEF Pends, InInvalid, R, I
    <2> QED BY <2>1, <2>3, <2>4, <2>7
  <1>4. ASSUME NEW n \in 1 .. Len(issued), Is(n, "ordinary")
        PROVE  /\ Len(ran'[n]) = 1
               /\ Pends(n) \/ ran'[n] # <<NullReply>>
    <2>1. ran'[n] = IF Pends(n) THEN Append(ran[n], NullReply) ELSE ran[n]
      BY <1>2, <1>3 DEF AsyncFree
    <2>2. CASE Pends(n)
      <3>1. ran[n] = <<>>
        BY <1>4, <2>2 DEF Once
      <3>2. ran'[n] = Append(<<>>, NullReply)
        BY <2>1, <2>2, <3>1
      <3> QED BY <2>2, <3>2
    <2>3. CASE ~Pends(n)
      <3>1. Len(ran[n]) = 1 /\ ran[n][1].kind # "null" /\ ran'[n] = ran[n]
        BY <1>4, <2>1, <2>3 DEF Once
      <3>2. <<NullReply>>[1].kind = "null"
        BY DEF NullReply, Message
      <3>3. ran'[n] # <<NullReply>>
        BY <3>1, <3>2
      <3> QED BY <3>1, <3>3
    <2> QED BY <2>2, <2>3
  <1>5. pc' = "freed" /\ issued' = issued
    BY DEF AsyncFree
  <1>6. ExactlyOnce'
    <2>1. \A n \in Ordinary : n \in 1 .. Len(issued) /\ Is(n, "ordinary")
      BY <1>2 DEF Ordinary, Is
    <2>2. Ordinary' = Ordinary
      BY <1>5 DEF Ordinary
    <2>3. \A n \in Ordinary : Len(ran'[n]) = 1
      BY <1>4, <2>1
    <2>4. \A n \in Ordinary : Len(ran'[n]) <= 1
      <3>1. \A x : x = 1 => x <= 1
        OBVIOUS
      <3> QED BY ONLY <2>3, <3>1
    <2> QED BY <2>2, <2>3, <2>4 DEF ExactlyOnce
  <1>7. CleanMeansAnswered'
    <2>1. ac'.freeing = a.freeing
      BY DEF AsyncFree, Context
    <2>2. told' = "ok" => a.freeing \/ ~a.err
      <3>1. told # "ok"
        BY DEF Once
      <3> QED BY <3>1 DEF AsyncFree, Status
    <2>3. ASSUME told' = "ok", ~a.freeing, NEW n \in Ordinary, issued[n].list = "replies"
          PROVE  ran'[n] # <<NullReply>>
      <3>1. n \in 1 .. Len(issued) /\ Is(n, "ordinary")
        BY <1>2 DEF Ordinary, Is
      <3>2. ac.replies = <<>>
        BY <2>2, <2>3
      <3>3. ~Invalid(n)
        BY <2>3 DEF Invalid
      <3>4. ~InInvalid(n)
        BY <3>3 DEF InInvalid, Numbers, Invalids
      <3>5. ~Pends(n)
        <4>1. \A k \in 1 .. Len(ac.replies) : FALSE
          BY <3>2, EmptySeq
        <4> QED BY <3>4, <4>1 DEF Pends
      <3> QED BY <1>4, <3>1, <3>5
    <2> QED BY <1>5, <2>1, <2>3 DEF CleanMeansAnswered, Ordinary
  <1> QED BY <1>5, <1>6, <1>7 DEF Settled

LEMMA DisconnectSettles ==
    ASSUME Types, Numbers, Once, NEW a \in Context, a.replies = ac.replies, a.invalid = ac.invalid,
           a.err \/ a.replies = <<>>, AsyncDisconnect(a), UNCHANGED issued
    PROVE  Settled'
  <1>1. CASE a.err
    <2> DEFINE b == [a EXCEPT !.disconnecting = TRUE]
    <2>1. b \in Context /\ b.replies = ac.replies /\ b.invalid = ac.invalid /\ b.err
      BY <1>1 DEF Context
    <2>2. AsyncFree(b)
      BY <1>1 DEF AsyncDisconnect
    <2> HIDE DEF b
    <2> QED BY <2>1, <2>2, FreeSettles
  <1>2. CASE ~a.err
    <2>1. AsyncFree(a)
      BY <1>2 DEF AsyncDisconnect
    <2> QED BY <1>2, <2>1, FreeSettles
  <1> QED BY <1>1, <1>2

\* The steps that end the context's life.
LEMMA EndSettles ==
    ASSUME Types, Live, Numbered, Lined, Numbers, Once, ~Live',
           \/ Disconnect \/ Free \/ ConnectFails \/ HandleWrite \/ HandleRead
           \/ ProcessNone \/ ProcessUnexpected \/ CallbackReturns
    PROVE  Settled'
  <1>1. ac \in Context
    BY DEF Types
  <1>2. ASSUME NEW a \in Context, a.replies = ac.replies, a.invalid = ac.invalid, a.err, AsyncDisconnect(a), UNCHANGED issued
        PROVE  Settled'
    BY <1>2, DisconnectSettles
  <1>3. CASE Disconnect
    <2> DEFINE a == [ac EXCEPT !.disconnecting = TRUE]
    <2>1. a \in Context /\ a.replies = ac.replies /\ a.invalid = ac.invalid
      BY <1>1 DEF Context
    <2>2. AsyncDisconnect(a) /\ ac.replies = <<>> /\ UNCHANGED issued
      BY <1>3 DEF Disconnect, DisconnectsNow, Live
    <2> HIDE DEF a
    <2> QED BY <2>1, <2>2, DisconnectSettles
  <1>4. CASE Free
    <2> DEFINE a == [ac EXCEPT !.freeing = TRUE]
    <2>1. a \in Context /\ a.replies = ac.replies /\ a.invalid = ac.invalid /\ a.freeing
      BY <1>1 DEF Context
    <2>2. AsyncFree(a) /\ UNCHANGED issued
      BY <1>4 DEF Free, Live
    <2> HIDE DEF a
    <2> QED BY <2>1, <2>2, FreeSettles
  <1>5. [ac EXCEPT !.err = TRUE] \in Context
    BY <1>1 DEF Context
  <1>6. [ac EXCEPT !.err = TRUE].replies = ac.replies /\ [ac EXCEPT !.err = TRUE].invalid = ac.invalid /\ [ac EXCEPT !.err = TRUE].err
    BY <1>1 DEF Context
  <1>7. CASE ConnectFails
    <2>1. AsyncDisconnect([ac EXCEPT !.err = TRUE]) /\ UNCHANGED issued
      BY <1>7 DEF ConnectFails
    <2> QED BY <1>2, <1>5, <1>6, <2>1
  <1>8. CASE HandleWrite
    <2> DEFINE a == [ac EXCEPT !.connected = TRUE, !.err = TRUE]
    <2>1. a \in Context /\ a.replies = ac.replies /\ a.invalid = ac.invalid /\ a.err
      BY <1>1 DEF Context
    <2>2. AsyncDisconnect(a) /\ UNCHANGED issued
      BY <1>8 DEF HandleWrite, Live
    <2> HIDE DEF a
    <2> QED BY <1>2, <2>1, <2>2
  <1>9. CASE HandleRead
    <2>1. AsyncDisconnect([ac EXCEPT !.err = TRUE]) /\ UNCHANGED issued
      BY <1>9 DEF HandleRead, Live
    <2> QED BY <1>2, <1>5, <1>6, <2>1
  <1>10. CASE ProcessNone
    <2>1. AsyncDisconnect(ac) /\ ac.replies = <<>> /\ UNCHANGED issued
      BY <1>10 DEF ProcessNone, Cue, Live
    <2> QED BY <1>1, <2>1, DisconnectSettles
  <1>11. CASE CallbackReturns
    <2>1. AsyncFree(ac) /\ ac.freeing /\ UNCHANGED issued
      BY <1>11 DEF CallbackReturns, Live
    <2> QED BY <1>1, <2>1, FreeSettles
  <1>12. CASE ProcessUnexpected
    <2>1. CASE Head(inbox).kind = "error"
      <3>1. AsyncDisconnect([ac EXCEPT !.err = TRUE]) /\ UNCHANGED issued
        BY <1>12, <2>1 DEF ProcessUnexpected
      <3> QED BY <1>2, <1>5, <1>6, <3>1
    <2>2. CASE Head(inbox).kind # "error"
      <3>1. ac.replies = <<>> /\ ~ac.subscribed /\ inbox # <<>> /\ inbox \in Seq(Reply) /\ srv.out \in Seq(Reply)
            /\ Wire \in Seq(Reply)
        BY <1>12, <2>2, ContextFields DEF ProcessUnexpected
      <3>2. Wire # <<>> /\ Head(inbox) = Wire[1]
        BY <3>1, FrontOfConcat DEF Wire
      <3>3. 1 \in 1 .. Len(Wire)
        BY <3>1, <3>2, EmptySeq, LenProperties
      <3>4. Wire[1] # Refusal
        BY <2>2, <3>2 DEF Refusal, Message
      <3>5. Regular(Wire[1].n)
        BY <3>1, <3>3, <3>4 DEF Lined, Plain
      <3>6. Len(ac.replies) = 0 /\ ~(1 <= 0)
        BY <3>1, EmptySeq
      <3>7. ~Regular(Wire[1].n)
        BY <3>3, <3>4, <3>6 DEF Lined, Aligned
      <3> QED BY <3>5, <3>7
    <2> QED BY <2>1, <2>2
  <1> QED BY <1>3, <1>4, <1>7, <1>8, <1>9, <1>10, <1>11, <1>12

-----------------------------------------------------------------------------
\* Every step of a context that lives.

LEMMA MatchServer ==
    ASSUME Types, HeardLive, Matched, ServerStep
    PROVE  Matched'
  <1>1. Live
    BY DEF ServerStep, ServerAnswers, ServerRejects, ServerQuits, ServerPublishes, ServerCloses
  <1>2. Types' /\ \E messages \in Seq(Reply) : \E d \in Nat : Gives(messages, d) /\ Form(messages, d)
    BY <1>1, ServerForms DEF HeardLive
  <1>3. PICK messages \in Seq(Reply) : \E d \in Nat : Gives(messages, d) /\ Form(messages, d)
    BY <1>2
  <1>4. PICK d \in Nat : Gives(messages, d) /\ Form(messages, d)
    BY <1>3
  <1>5. srv'.up \in BOOLEAN
    BY <1>2 DEF Types, Server
  <1>6. Lined'
    BY <1>1, <1>4, <1>5, LinedGiven DEF HeardLive, Matched
  <1>7. Numbers'
    BY <1>1, <1>4, <1>5, NumbersGiven DEF HeardLive, Matched
  <1>8. Topical'
    BY <1>1, <1>4, <1>5, TopicalGiven DEF HeardLive, Matched
  <1>9. Once' /\ Speaks'
    <2>1. UNCHANGED <<ac, issued, ran, told, pc, cb, got>>
      BY <1>4 DEF Gives
    <2>2. Once'
      BY <2>1 DEF Matched, Once, Pends, InInvalid, Is
    <2>3. Speaks'
      BY <2>1 DEF Matched, Speaks, Subs, Is, Names
    <2> QED BY <2>2, <2>3
  <1> QED BY <1>6, <1>7, <1>8, <1>9 DEF Matched

LEMMA MatchQuiet == ASSUME Matched, Quiet_ PROVE Matched'
  <1>1. UNCHANGED <<Wire, Waiting, srv.up, srv.topics, issued, ran, told,
                    ac.replies, ac.invalid, ac.topics, ac.subscribed>>
    BY DEF Quiet_, View
  <1>2. Lined'
    BY <1>1 DEF Matched, Lined, Aligned, AlignedBehind, Replies, Plain, Regular, Is, Refusal
  <1>3. Numbers'
    BY <1>1 DEF Matched, Numbers, Invalids, Expected, InInvalid, Invalid, Is
  <1>4. Topical'
    <2>1. Entries' /\ Leaving' /\ Alternate'
      BY <1>1 DEF Matched, Topical, Entries, Leaving, Alternate, Subscribed, Subs, Unsubs, Is, Names
    <2>2. Following'
      BY <1>1 DEF Matched, Topical, Following, InFlight, Awaited, Confirms, Subs, Is, Names
    <2>3. Wants'
      <3>1. \A t : Wanted(t)' <=> Wanted(t)
        BY <1>1 DEF Wanted
      <3> QED BY <1>1, <3>1 DEF Matched, Topical, Wants, Subscribed
    <2>4. Messages'
      BY <1>1 DEF Matched, Topical, Messages, Subscribed, Confirms
    <2>5. LastWord'
      BY <1>1 DEF Matched, Topical, LastWord, Is
    <2> QED BY <2>1, <2>2, <2>3, <2>4, <2>5 DEF Topical
  <1>5. Once'
    BY <1>1 DEF Matched, Once, Pends, InInvalid, Is
  <1>6. Speaks'
    <2>1. pc' = "callback" => pc = "callback" /\ UNCHANGED <<cb, got>>
      BY DEF Quiet_
    <2> QED BY <1>1, <2>1 DEF Matched, Speaks, Subs, Is, Names
  <1> QED BY <1>2, <1>3, <1>4, <1>5, <1>6 DEF Matched

\* A command is accepted.
LEMMA OnceSends ==
    ASSUME Types, Numbered, Lined, Numbers, Once, Speaks, NEW kind \in Kind, NEW topics \in Seq(Topics), Sends(kind, topics),
           IF kind # "ordinary" THEN UNCHANGED <<ac.replies, ac.invalid>>
           ELSE IF ac.subscribed
           THEN ac'.invalid = Append(ac.invalid, Callback(Len(issued) + 1, NoTopic)) /\ UNCHANGED ac.replies
           ELSE ac'.replies = Append(ac.replies, Callback(Len(issued) + 1, NoTopic)) /\ UNCHANGED ac.invalid
    PROVE  Once' /\ Speaks'
  <1> DEFINE N == Len(issued)
             R == Len(ac.replies)
             I == Len(ac.invalid)
             c == Callback(N + 1, NoTopic)
  <1>1. /\ N \in Nat /\ Len(issued') = N + 1 /\ R \in Nat /\ I \in Nat
        /\ ac.replies \in Seq(Back) /\ ac.invalid \in Seq(Back) /\ c \in Back /\ c.n = N + 1
    <2>1. N \in Nat /\ Len(issued') = N + 1
      BY IssuedGrows
    <2> QED BY <2>1, ContextFields, LenProperties DEF Callback, Back
  <1>2. /\ ran \in Seq(Seq(Reply)) /\ Len(ran) = N /\ ran' = Append(ran, <<>>) /\ told' = told
    BY DEF Types, Sends
  <1>3. /\ \A n \in 1 .. N : ran'[n] = ran[n]
        /\ ran'[N + 1] = <<>>
    BY <1>1, <1>2
  <1>4. /\ \A n : n # N + 1 => \A k : Is(n, k)' <=> Is(n, k)
        /\ \A n : n = N + 1 => (\A k : Is(n, k)' <=> k = kind)
    BY NewCommand
  <1>5. \A i \in 1 .. R : ac.replies[i].n \in 1 .. N
    BY DEF Lined, Replies, Regular, Is
  <1>6. \A i \in 1 .. I : ac.invalid[i].n \in 1 .. N
    BY DEF Numbers, Invalids, Invalid, Is
  <1> HIDE DEF N, R, I, c
  <1>7. /\ kind = "ordinary" /\ ~ac.subscribed =>
              /\ Len(ac'.replies) = R + 1 /\ ac'.replies[R + 1] = c
              /\ \A i \in 1 .. R : ac'.replies[i] = ac.replies[i]
        /\ ~(kind = "ordinary" /\ ~ac.subscribed) => ac'.replies = ac.replies
    <2>1. CASE kind = "ordinary" /\ ~ac.subscribed
      <3>1. ac'.replies = Append(ac.replies, c)
        BY <2>1 DEF c, N
      <3>2. Len(ac.replies) = R
        BY DEF R
      <3> QED BY ONLY <1>1, <2>1, <3>1, <3>2, AppendProperties
    <2>2. CASE ~(kind = "ordinary" /\ ~ac.subscribed)
      BY <2>2
    <2> QED BY <2>1, <2>2
  <1>8. /\ kind = "ordinary" /\ ac.subscribed =>
              /\ Len(ac'.invalid) = I + 1 /\ ac'.invalid[I + 1] = c
              /\ \A i \in 1 .. I : ac'.invalid[i] = ac.invalid[i]
        /\ ~(kind = "ordinary" /\ ac.subscribed) => ac'.invalid = ac.invalid
    <2>1. CASE kind = "ordinary" /\ ac.subscribed
      <3>1. ac'.invalid = Append(ac.invalid, c)
        BY <2>1 DEF c, N
      <3>2. Len(ac.invalid) = I
        BY DEF I
      <3> QED BY ONLY <1>1, <2>1, <3>1, <3>2, AppendProperties
    <2>2. CASE ~(kind = "ordinary" /\ ac.subscribed)
      BY <2>2
    <2> QED BY <2>1, <2>2
  <1>9. ASSUME NEW n
        PROVE  /\ n \in 1 .. N => ((\E k \in 1 .. Len(ac'.replies) : ac'.replies[k].n = n)
                                      <=> \E k \in 1 .. R : ac.replies[k].n = n)
               /\ kind = "ordinary" /\ ~ac.subscribed /\ n = N + 1 => \E k \in 1 .. Len(ac'.replies) : ac'.replies[k].n = n
    <2>1. CASE kind = "ordinary" /\ ~ac.subscribed
      <3>1. \A k \in 1 .. R + 1 : k \in 1 .. R \/ k = R + 1
        BY <1>1
      <3>2. R + 1 \in 1 .. R + 1 /\ \A k \in 1 .. R : k \in 1 .. R + 1
        BY <1>1
      <3>3. n \in 1 .. N => n # c.n
        BY <1>1
      <3> QED BY <1>1, <1>7, <2>1, <3>1, <3>2, <3>3
    <2>2. CASE ~(kind = "ordinary" /\ ~ac.subscribed)
      BY <1>7, <2>2 DEF R
    <2> QED BY <2>1, <2>2
  <1>10. ASSUME NEW n
         PROVE  /\ n \in 1 .. N => ((\E k \in 1 .. Len(ac'.invalid) : ac'.invalid[k].n = n)
                                       <=> \E k \in 1 .. I : ac.invalid[k].n = n)
                /\ kind = "ordinary" /\ ac.subscribed /\ n = N + 1 => \E k \in 1 .. Len(ac'.invalid) : ac'.invalid[k].n = n
    <2>1. CASE kind = "ordinary" /\ ac.subscribed
      <3>1. \A k \in 1 .. I + 1 : k \in 1 .. I \/ k = I + 1
        BY <1>1
      <3>2. I + 1 \in 1 .. I + 1 /\ \A k \in 1 .. I : k \in 1 .. I + 1
        BY <1>1
      <3>3. n \in 1 .. N => n # c.n
        BY <1>1
      <3> QED BY <1>1, <1>8, <2>1, <3>1, <3>2, <3>3
    <2>2. CASE ~(kind = "ordinary" /\ ac.subscribed)
      BY <1>8, <2>2 DEF I
    <2> QED BY <2>1, <2>2
  <1>11. \A n : /\ n \in 1 .. N => (Pends(n)' <=> Pends(n))
                /\ kind = "ordinary" /\ n = N + 1 => Pends(n)'
    BY <1>9, <1>10 DEF Pends, InInvalid, R, I
  <1>12. ASSUME NEW i \in 1 .. Len(ac'.replies), NEW j \in 1 .. Len(ac'.replies), i # j
         PROVE  ac'.replies[i].n # ac'.replies[j].n
    <2>1. \A x, y \in 1 .. R : x # y => ac.replies[x].n # ac.replies[y].n
      BY DEF Once, R
    <2>2. CASE kind = "ordinary" /\ ~ac.subscribed
      <3>1. Len(ac'.replies) = R + 1
        BY <1>7, <2>2
      <3>2. /\ i \in 1 .. R => ac'.replies[i].n \in 1 .. N
            /\ j \in 1 .. R => ac'.replies[j].n \in 1 .. N
            /\ i \in 1 .. R /\ j \in 1 .. R => ac'.replies[i].n # ac'.replies[j].n
        BY <1>5, <1>7, <1>12, <2>1, <2>2
      <3>3. /\ i \in 1 .. R \/ i = R + 1
            /\ j \in 1 .. R \/ j = R + 1
        BY <1>1, <3>1
      <3>4. ac'.replies[R + 1].n = N + 1 /\ N + 1 \notin 1 .. N
        BY <1>1, <1>7, <2>2
      <3> QED BY <1>12, <3>2, <3>3, <3>4
    <2>3. CASE ~(kind = "ordinary" /\ ~ac.subscribed)
      BY <1>7, <1>12, <2>1, <2>3 DEF R
    <2> QED BY <2>2, <2>3
  <1>13. ASSUME NEW n \in 1 .. N + 1, Is(n, "ordinary")'
         PROVE  IF Pends(n)' THEN ran'[n] = <<>> ELSE Len(ran'[n]) = 1 /\ ran'[n][1].kind # "null"
    <2>1. CASE n \in 1 .. N
      <3>1. n # N + 1
        BY <1>1, <2>1
      <3>2. Is(n, "ordinary")
        BY <1>4, <1>13, <3>1
      <3> QED BY <1>3, <1>11, <2>1, <3>2 DEF Once, N
    <2>2. CASE n = N + 1
      <3>1. kind = "ordinary"
        BY <1>4, <1>13, <2>2
      <3> QED BY <1>3, <1>11, <2>2, <3>1
    <2> QED BY <1>1, <2>1, <2>2
  <1>14. Once'
    BY <1>1, <1>2, <1>12, <1>13 DEF Once
  <1>15. Speaks'
    <2>1. pc' = pc /\ cb' = cb /\ got' = got
      BY DEF Sends
    <2>2. pc = "callback" /\ got.topic # NoTopic => cb.topic = got.topic /\ Subs(cb.n, cb.topic)
      BY DEF Speaks
    <2>3. ASSUME NEW n, NEW t, n = cb.n, t = cb.topic, Subs(n, t) PROVE Subs(n, t)'
      <3>1. n \in 1 .. N
        BY <2>3 DEF Subs, Is, N
      <3> QED BY <2>3, <3>1, IssuedStays DEF N
    <2>4. Subs(cb.n, cb.topic) => Subs(cb.n, cb.topic)'
      <3> DEFINE n == cb.n
                 t == cb.topic
      <3>1. ASSUME NEW x, NEW u, x = cb.n, u = cb.topic, Subs(cb.n, cb.topic)
            PROVE  Subs(x, u)'
        BY <2>3, <3>1
      <3>2. ASSUME NEW x, NEW u, x = cb'.n, u = cb'.topic, Subs(x, u)' PROVE Subs(cb.n, cb.topic)'
        BY <3>2 DEF Subs, Is, Names
      <3> QED BY <2>1, <3>1, <3>2
    <2> QED BY <2>1, <2>2, <2>4 DEF Speaks
  <1> QED BY <1>14, <1>15

\* A polite program sends no ordinary command while an UNSUBSCRIBE, or its
\* confirmation, is on the way.
LEMMA InBoth ==
    ASSUME NEW S, NEW s \in Seq(S), NEW t \in Seq(S)
    PROVE  /\ s \o t \in Seq(S)
           /\ \A i \in 1 .. Len(s) : s[i] \in Range(s \o t)
           /\ \A i \in 1 .. Len(t) : t[i] \in Range(s \o t)
           /\ Range(s) \subseteq Range(s \o t) /\ Range(t) \subseteq Range(s \o t)
  <1> DEFINE u == s \o t
  <1>1. /\ u \in Seq(S) /\ Len(u) = Len(s) + Len(t) /\ Len(s) \in Nat /\ Len(t) \in Nat
        /\ \A i \in 1 .. Len(s) + Len(t) : u[i] = IF i <= Len(s) THEN s[i] ELSE t[i - Len(s)]
    BY ConcatProperties, LenProperties
  <1>2. DOMAIN u = 1 .. Len(s) + Len(t) /\ DOMAIN s = 1 .. Len(s) /\ DOMAIN t = 1 .. Len(t)
    BY <1>1, LenProperties
  <1> HIDE DEF u
  <1>3. ASSUME NEW i \in 1 .. Len(s) PROVE s[i] \in Range(u)
    <2>1. i \in 1 .. Len(s) + Len(t) /\ i <= Len(s)
      BY <1>1
    <2>2. u[i] = s[i]
      BY <1>1, <2>1
    <2> QED BY <1>2, <2>1, <2>2 DEF Range
  <1>4. ASSUME NEW i \in 1 .. Len(t) PROVE t[i] \in Range(u)
    <2> DEFINE j == i + Len(s)
    <2>1. j \in 1 .. Len(s) + Len(t) /\ ~(j <= Len(s)) /\ j - Len(s) = i
      BY <1>1
    <2> HIDE DEF j
    <2>2. u[j] = t[i]
      BY <1>1, <2>1
    <2> QED BY <1>2, <2>1, <2>2 DEF Range
  <1>5. Range(s) \subseteq Range(u) /\ Range(t) \subseteq Range(u)
    <2>1. \A x \in Range(s) : \E i \in 1 .. Len(s) : x = s[i]
      BY <1>2 DEF Range
    <2>2. \A x \in Range(t) : \E i \in 1 .. Len(t) : x = t[i]
      BY <1>2 DEF Range
    <2> QED BY <1>3, <1>4, <2>1, <2>2
  <1> QED BY <1>1, <1>3, <1>4, <1>5 DEF u

LEMMA NoneUnderWay ==
    ASSUME Types, ~UnsubscribePending
    PROVE  /\ \A i \in 1 .. Len(Wire) : Wire[i].kind # "unsubscribe"
           /\ \A i \in 1 .. Len(Waiting) : Waiting[i].kind # "unsubscribe"
  <1> DEFINE S == Order \cup Reply
             a == ac.obuf \o srv.in
             b == a \o srv.out
             all == b \o inbox
  <1>1. /\ ac.obuf \in Seq(S) /\ srv.in \in Seq(S) /\ srv.out \in Seq(S) /\ inbox \in Seq(S)
    BY ContextFields
  <1>2. /\ \A i \in 1 .. Len(ac.obuf) : ac.obuf[i] \in Range(a)
        /\ \A i \in 1 .. Len(srv.in) : srv.in[i] \in Range(a)
        /\ a \in Seq(S)
    BY <1>1, InBoth
  <1> HIDE DEF a
  <1>3. Range(a) \subseteq Range(b) /\ b \in Seq(S) /\ \A i \in 1 .. Len(srv.out) : srv.out[i] \in Range(b)
    BY <1>1, <1>2, InBoth
  <1> HIDE DEF b
  <1>4. Range(b) \subseteq Range(all) /\ \A i \in 1 .. Len(inbox) : inbox[i] \in Range(all)
    BY <1>1, <1>3, InBoth
  <1> HIDE DEF all, S
  <1>5. \A m \in Range(all) : m.kind # "unsubscribe"
    BY DEF UnsubscribePending, all, b, a
  <1>6. ASSUME NEW i \in 1 .. Len(Wire) PROVE Wire[i].kind # "unsubscribe"
    <2>1. /\ Len(Wire) = Len(inbox) + Len(srv.out) /\ Len(inbox) \in Nat /\ Len(srv.out) \in Nat
          /\ \A j \in 1 .. Len(inbox) + Len(srv.out) :
                Wire[j] = IF j <= Len(inbox) THEN inbox[j] ELSE srv.out[j - Len(inbox)]
      BY <1>1, ConcatProperties, LenProperties DEF Wire
    <2>2. CASE i <= Len(inbox)
      <3>1. i \in 1 .. Len(inbox)
        BY <2>1, <2>2
      <3> QED BY <1>4, <1>5, <2>1, <2>2, <3>1
    <2>3. CASE ~(i <= Len(inbox))
      <3>1. i - Len(inbox) \in 1 .. Len(srv.out)
        BY <2>1, <2>3
      <3> QED BY <1>3, <1>4, <1>5, <2>1, <2>3, <3>1
    <2> QED BY <2>2, <2>3
  <1>7. ASSUME NEW i \in 1 .. Len(Waiting) PROVE Waiting[i].kind # "unsubscribe"
    <2>1. /\ Len(Waiting) = Len(srv.in) + Len(ac.obuf) /\ Len(srv.in) \in Nat /\ Len(ac.obuf) \in Nat
          /\ \A j \in 1 .. Len(srv.in) + Len(ac.obuf) :
                Waiting[j] = IF j <= Len(srv.in) THEN srv.in[j] ELSE ac.obuf[j - Len(srv.in)]
      BY <1>1, ConcatProperties, LenProperties DEF Waiting
    <2>2. CASE i <= Len(srv.in)
      <3>1. i \in 1 .. Len(srv.in)
        BY <2>1, <2>2
      <3> QED BY <1>2, <1>3, <1>4, <1>5, <2>1, <2>2, <3>1
    <2>3. CASE ~(i <= Len(srv.in))
      <3> DEFINE A == Len(srv.in)
                 B == Len(ac.obuf)
      <3>1. A \in Nat /\ B \in Nat /\ i \in 1 .. A + B /\ ~(i <= A)
        BY <2>1, <2>3
      <3> HIDE DEF A, B
      <3>2. i - A \in 1 .. B
        BY ONLY <3>1
      <3>3. i - Len(srv.in) \in 1 .. Len(ac.obuf)
        BY ONLY <3>2 DEF A, B
      <3> QED BY <1>2, <1>3, <1>4, <1>5, <2>1, <2>3, <3>3
    <2> QED BY <2>2, <2>3
  <1> QED BY <1>6, <1>7

LEMMA MatchSends ==
    ASSUME Types, HeardLive, Matched, Polite,
           Command \/ (\E list \in Subscriptions : Subscribe(list)) \/ \E t \in Topics : Unsubscribe(t)
    PROVE  Types' /\ Live' /\ Matched'
  <1>1. CASE Command
    <2>1. /\ Types' /\ Live' /\ Sends("ordinary", <<>>)
          /\ ac'.topics = ac.topics /\ ac'.subscribed = ac.subscribed
          /\ IF ac.subscribed
             THEN ac'.invalid = Append(ac.invalid, Callback(Len(issued) + 1, NoTopic)) /\ UNCHANGED ac.replies
             ELSE ac'.replies = Append(ac.replies, Callback(Len(issued) + 1, NoTopic)) /\ UNCHANGED ac.invalid
      BY <1>1, CommandSteps
    <2>2. "ordinary" \in Kind /\ <<>> \in Seq(Topics) /\ "ordinary" # "subscribe" /\ "ordinary" # "unsubscribe"
      BY DEF Kind
    <2>3. ~UnsubscribePending
      BY <1>1 DEF Command
    <2>4. Lined'
      <3>1. CASE ac.subscribed
        BY <2>1, <2>2, <3>1, LinedSends DEF HeardLive, Matched
      <3>2. CASE ~ac.subscribed
        BY <2>1, <2>2, <3>2, LinedSends DEF HeardLive, Matched
      <3> QED BY <3>1, <3>2
    <2>5. Numbers'
      BY <2>1, <2>2, NumbersSends DEF HeardLive, Matched
    <2>6. Topical'
      BY <2>1, <2>2, <2>3, NoneUnderWay, TopicalSends DEF HeardLive, Matched
    <2>7. Once' /\ Speaks'
      BY <2>1, <2>2, OnceSends DEF HeardLive, Matched
    <2> QED BY <2>1, <2>4, <2>5, <2>6, <2>7 DEF Matched
  <1>2. ASSUME NEW list \in Subscriptions, Subscribe(list) PROVE Types' /\ Live' /\ Matched'
    <2>1. list \in Seq(Topics) /\ list # <<>> /\ "subscribe" \in Kind /\ "subscribe" # "unsubscribe" /\ "subscribe" # "ordinary"
      BY AsyncAssumption DEF Kind
    <2>2. /\ Types' /\ Live' /\ Sends("subscribe", list) /\ ac'.subscribed = TRUE /\ ac'.topics = Added(list)
          /\ ac'.replies = ac.replies /\ ac'.invalid = ac.invalid
      BY <1>2, <2>1, SubscribeSteps
    <2>3. Lined'
      BY <2>1, <2>2, LinedSends DEF HeardLive, Matched
    <2>4. Numbers'
      BY <2>1, <2>2, NumbersSends DEF HeardLive, Matched
    <2>5. Topical'
      BY <2>1, <2>2, TopicalSends DEF HeardLive, Matched
    <2>6. Once' /\ Speaks'
      BY <2>1, <2>2, OnceSends DEF HeardLive, Matched
    <2> QED BY <2>2, <2>3, <2>4, <2>5, <2>6 DEF Matched
  <1>3. ASSUME NEW t \in Topics, Unsubscribe(t) PROVE Types' /\ Live' /\ Matched'
    <2>1. "unsubscribe" \in Kind /\ "unsubscribe" # "subscribe" /\ "unsubscribe" # "ordinary" /\ <<t>> \in Seq(Topics)
      BY DEF Kind
    <2>2. /\ Types' /\ Live' /\ Sends("unsubscribe", <<t>>) /\ ac.subscribed /\ Wanted(t)
          /\ ac'.replies = ac.replies /\ ac'.invalid = ac.invalid
          /\ ac'.subscribed = ac.subscribed /\ ac'.topics = ac.topics
      BY <1>3, UnsubscribeSteps
    <2>3. Lined'
      BY <2>1, <2>2, LinedSends DEF HeardLive, Matched
    <2>4. Numbers'
      BY <2>1, <2>2, NumbersSends DEF HeardLive, Matched
    <2>5. Topical'
      <3>1. \E u \in Topics : <<t>> = <<u>> /\ Wanted(u)
        BY <2>2
      <3> QED BY <2>1, <2>2, <3>1, TopicalSends DEF HeardLive, Matched
    <2>6. Once' /\ Speaks'
      BY <2>1, <2>2, OnceSends DEF HeardLive, Matched
    <2> QED BY <2>2, <2>3, <2>4, <2>5, <2>6 DEF Matched
  <1> QED BY <1>1, <1>2, <1>3

-----------------------------------------------------------------------------
\* The invariant.
LEMMA LiveSettled == ASSUME Types', Live', Once' PROVE ExactlyOnce' /\ CleanMeansAnswered'
  <1>1. DOMAIN issued' = 1 .. Len(issued')
    BY LenProperties DEF Types
  <1>2. ASSUME NEW n \in Ordinary' PROVE Len(ran'[n]) <= 1
    <2>1. n \in 1 .. Len(issued') /\ issued'[n].kind = "ordinary"
      BY <1>1 DEF Ordinary
    <2>2. ran'[n] = <<>> \/ Len(ran'[n]) = 1
      BY <2>1 DEF Once, Is
    <2>3. Len(<<>>) = 0
      BY EmptySeq
    <2>4. \A x : x = 0 \/ x = 1 => x <= 1
      OBVIOUS
    <2> QED BY <2>2, <2>3, <2>4
  <1>3. pc' # "freed" /\ pc' # "pending" /\ pc' # "unsubscribed" /\ told' # "ok"
    BY DEF Live, Once
  <1> QED BY <1>2, <1>3 DEF ExactlyOnce, CleanMeansAnswered

LEMMA MatchInit == Init => MatchInv
  <1> SUFFICES ASSUME Init PROVE MatchInv
    OBVIOUS
  <1>1. Types /\ HeardInv
    BY InitTypes, HeardInvInit
  <1>2. Wire = <<>> /\ Waiting = <<>> /\ issued = <<>> /\ Subscribed = {} /\ ac.replies = <<>> /\ ac.invalid = <<>>
    <2>1. inbox = <<>> /\ srv.out = <<>> /\ srv.in = <<>> /\ ac.obuf = <<>>
      BY DEF Init
    <2>2. \A S : <<>> \in Seq(S)
      OBVIOUS
    <2>3. Wire = <<>> /\ Waiting = <<>>
      BY <2>1, <2>2, ConcatEmptySeq DEF Wire, Waiting
    <2> QED BY <2>3 DEF Init, Subscribed
  <1>3. Len(<<>>) = 0 /\ (\A i \in 1 .. 0 : FALSE) /\ DOMAIN <<>> = {}
    BY EmptySeq
  <1>4. srv.topics = {} /\ told = "nothing" /\ pc = "loop"
    BY DEF Init
  <1>5. Lined
    BY <1>2, <1>3, <1>4 DEF Lined, Aligned, AlignedBehind, Replies, Plain
  <1>6. Numbers
    BY <1>2, <1>3 DEF Numbers, Invalids, Expected
  <1>7. Topical
    <2>1. \A t : ~Wanted(t)
      BY <1>2, <1>3 DEF Wanted
    <2> QED BY <1>2, <1>3, <2>1 DEF Topical, Entries, Leaving, Alternate, Following, Wants, Messages, LastWord
  <1>8. Once /\ Speaks
    BY <1>2, <1>3, <1>4 DEF Once, Speaks
  <1>9. ExactlyOnce /\ CleanMeansAnswered
    BY <1>2, <1>3, <1>4 DEF ExactlyOnce, CleanMeansAnswered, Ordinary
  <1> QED BY <1>1, <1>4, <1>5, <1>6, <1>7, <1>8, <1>9 DEF MatchInv, Matched

LEMMA MatchStep == ASSUME Polite, MatchInv, [Next]_vars PROVE MatchInv'
  <1>1. /\ Types /\ HeardInv' /\ Types' /\ (Live => HeardLive /\ Matched)
    BY HeardInvStep DEF MatchInv, HeardInv, HeardLive, Matched
  <1>2. ASSUME Live', Matched' PROVE MatchInv'
    <2>1. ExactlyOnce' /\ CleanMeansAnswered'
      <3>1. Types' /\ Live' /\ Once'
        BY <1>1, <1>2 DEF Matched
      <3> QED BY <3>1, LiveSettled
    <2>2. pc' \in {"loop", "process", "callback", "freed"}
      BY <1>2 DEF Live
    <2>3. Matched'
      BY <1>2 DEF Matched
    <2> QED BY <1>1, <2>1, <2>2, <2>3 DEF MatchInv
  <1>3. ASSUME Settled' PROVE MatchInv'
    BY <1>1, <1>3 DEF Settled, MatchInv, Live
  <1>4. CASE UNCHANGED vars
    <2>1. HeardInv'
      BY <1>1
    <2>2. pc' = pc /\ ExactlyOnce' /\ CleanMeansAnswered'
      BY <1>4 DEF MatchInv, vars, ExactlyOnce, CleanMeansAnswered, Ordinary
    <2>3. CASE Live
      <3>1. Quiet_ /\ Live'
        BY <1>4, <2>3 DEF vars, Live, Quiet_, View, Wire, Waiting
      <3> QED BY <1>1, <1>2, <2>3, <3>1, MatchQuiet
    <2>4. CASE ~Live
      <3>1. ~Live'
        BY <2>2, <2>4 DEF Live
      <3> QED BY <2>1, <2>2, <3>1 DEF MatchInv
    <2> QED BY <2>3, <2>4
  <1>5. CASE \/ Disconnect \/ Free \/ ConnectFails \/ HandleWrite \/ HandleRead
             \/ ProcessNone \/ ProcessUnexpected \/ CallbackReturns
    <2>1. Live
      BY <1>5 DEF Disconnect, Free, ConnectFails, HandleWrite, HandleRead, ProcessNone, CallbackReturns, ProcessUnexpected, Live
    <2>2. ~Live' \/ Quiet_
      BY <1>1, <1>5, <2>1, DisconnectSteps, FreeSteps, ConnectFailsSteps, HandleWriteSteps, HandleReadSteps,
         ProcessNoneSteps, ReturnsSteps, UnexpectedSteps
    <2>3. CASE ~Live'
      BY <1>1, <1>3, <1>5, <2>1, <2>3, EndSettles DEF HeardLive, Matched
    <2>4. CASE Quiet_
      <3>1. Live'
        BY <2>4 DEF Quiet_
      <3> QED BY <1>1, <1>2, <2>1, <2>4, <3>1, MatchQuiet
    <2> QED BY <2>2, <2>3, <2>4
  <1>6. CASE Command \/ (\E list \in Subscriptions : Subscribe(list)) \/ \E t \in Topics : Unsubscribe(t)
    <2>1. Live
      BY <1>6 DEF Command, Subscribe, Unsubscribe, Accept, Live
    <2> QED BY <1>1, <1>2, <1>6, <2>1, MatchSends
  <1>7. CASE ProcessRegular
    <2>1. Live /\ Live'
      BY <1>1, <1>7, RegularSteps DEF ProcessRegular, Live
    <2>2. Matched'
      BY <1>1, <1>7, <2>1, MatchRegular DEF HeardLive, Matched
    <2> QED BY <1>2, <2>1, <2>2
  <1>8. CASE ProcessInvalid
    <2>1. Live /\ Live'
      BY <1>1, <1>8, InvalidSteps DEF ProcessInvalid, Live
    <2>2. Matched'
      BY <1>1, <1>8, <2>1, MatchInvalid DEF HeardLive, Matched
    <2> QED BY <1>2, <2>1, <2>2
  <1>9. CASE ProcessTopic
    <2>1. Live
      BY <1>9 DEF ProcessTopic, Live
    <2>2. Live' /\ Matched'
      BY <1>1, <1>9, <2>1, MatchTopic DEF HeardLive, Matched
    <2> QED BY <1>2, <2>2
  <1>10. CASE ServerStep
    <2>1. Live
      BY <1>10 DEF ServerStep, ServerAnswers, ServerRejects, ServerQuits, ServerPublishes, ServerCloses
    <2>2. Live' /\ Matched'
      BY <1>1, <1>10, <2>1, ServerForms, MatchServer DEF HeardLive
    <2> QED BY <1>2, <2>2
  <1>11. CASE Ended
    BY <1>4, <1>11 DEF Ended
  <1> QED BY <1>4, <1>5, <1>6, <1>7, <1>8, <1>9, <1>10, <1>11 DEF Next, Progress, ServerStep

LEMMA MatchInvAlways == ASSUME Polite PROVE Spec => []MatchInv
  <1>1. MatchInv /\ [Next]_vars => MatchInv'
    BY MatchStep
  <1> QED BY <1>1, MatchInit, PTL DEF Spec

\* A callback hears the reply to its own command, or news of the topic it was
\* registered for, if the program waits for the answer to an UNSUBSCRIBE
\* before it sends an ordinary command.
THEOREM OwnReplies == ASSUME Polite PROVE Spec => []OwnReply
  <1>1. MatchInv => OwnReply
    <2> SUFFICES ASSUME MatchInv, pc = "callback"
                 PROVE  IF got.topic = NoTopic THEN got.n \in {cb.n, 0}
                        ELSE cb.topic = got.topic /\ got.topic \in Range(issued[cb.n].topics)
      BY DEF OwnReply
    <2>1. Types /\ Speaks
      BY DEF MatchInv, HeardInv, Matched, Live
    <2>2. CASE got.topic = NoTopic
      BY <2>1, <2>2 DEF Speaks
    <2>3. CASE got.topic # NoTopic
      <3> DEFINE n == cb.n
      <3>1. cb.topic = got.topic /\ Subs(n, got.topic)
        BY <2>1, <2>3 DEF Speaks
      <3> HIDE DEF n
      <3>2. n \in 1 .. Len(issued) /\ \E k \in 1 .. Len(issued[n].topics) : issued[n].topics[k] = got.topic
        BY <3>1 DEF Subs, Is, Names
      <3>3. issued[n].topics \in Seq(Topics)
        BY <2>1, <3>2, EntryOf
      <3>4. DOMAIN issued[n].topics = 1 .. Len(issued[n].topics)
        BY <3>3, LenProperties
      <3>5. got.topic \in Range(issued[n].topics)
        BY <3>2, <3>4 DEF Range
      <3> QED BY <2>3, <3>1, <3>5 DEF n
    <2> QED BY <2>2, <2>3
  <1> QED BY <1>1, MatchInvAlways, PTL

\* The callback of an ordinary command runs once, with its reply or, when the
\* context is freed, with NULL.
THEOREM RunsExactlyOnce == ASSUME Polite PROVE Spec => []ExactlyOnce
  <1>1. MatchInv => ExactlyOnce
    BY DEF MatchInv
  <1> QED BY <1>1, MatchInvAlways, PTL

\* The assertions on a clean disconnect and on replies nobody waits for hold,
\* and a disconnect reported as clean has answered what was sent outside
\* subscribed mode.
THEOREM CleanDisconnects == ASSUME Polite PROVE Spec => []CleanMeansAnswered
  <1>1. MatchInv => CleanMeansAnswered
    BY DEF MatchInv
  <1> QED BY <1>1, MatchInvAlways, PTL
====
