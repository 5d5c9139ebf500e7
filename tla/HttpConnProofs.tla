--------------------------- MODULE HttpConnProofs ---------------------------
(***************************************************************************)
(* What the client of a connection reads, for responses and sockets of any *)
(* size and any conversation; what the ring holds, for a ring of any size; *)
(* and what the handlers hear, for any ring and any conversation until a   *)
(* second body.                                                            *)
(***************************************************************************)
EXTENDS HttpConn, SequenceTheorems, WellFoundedInduction, TLAPS

-----------------------------------------------------------------------------
\* The arithmetic of the indices of a ring of n slots.

\* The slot k places after x, for k at most n.
LEMMA SlotAfter ==
    ASSUME NEW n \in Nat \ {0}, NEW x \in 0 .. n - 1, NEW k \in 0 .. n
    PROVE  /\ (x + k) % n \in 0 .. n - 1
           /\ (x + k) % n = IF x + k < n THEN x + k ELSE x + k - n
  OBVIOUS

\* Two places of the stretch are two slots.
LEMMA SlotsDiffer ==
    ASSUME NEW n \in Nat \ {0}, NEW x \in 0 .. n - 1,
           NEW i \in 0 .. n - 1, NEW j \in 0 .. n - 1, i # j
    PROVE  (x + i) % n # (x + j) % n
  <1>1. /\ (x + i) % n = IF x + i < n THEN x + i ELSE x + i - n
        /\ (x + j) % n = IF x + j < n THEN x + j ELSE x + j - n
    BY SlotAfter, i \in 0 .. n, j \in 0 .. n
  <1> QED
    BY <1>1

\* Going a places and then b is going a + b.
LEMMA SlotAfterSlot ==
    ASSUME NEW n \in Nat \ {0}, NEW x \in 0 .. n - 1,
           NEW a \in 0 .. n, NEW b \in 0 .. n, a + b <= n
    PROVE  (((x + a) % n) + b) % n = (x + (a + b)) % n
  <1>1. /\ (x + a) % n \in 0 .. n - 1
        /\ (x + a) % n = IF x + a < n THEN x + a ELSE x + a - n
    BY SlotAfter
  <1>2. (x + (a + b)) % n = IF x + (a + b) < n THEN x + (a + b) ELSE x + (a + b) - n
    BY SlotAfter, a + b \in 0 .. n
  <1>3. (((x + a) % n) + b) % n = IF ((x + a) % n) + b < n THEN ((x + a) % n) + b
                                                    ELSE ((x + a) % n) + b - n
    BY <1>1, SlotAfter
  <1> QED
    BY <1>1, <1>2, <1>3

Unit == Nat \X Parts \X Nat

LEMMA Projections == ASSUME NEW u, NEW a, NEW b, NEW c, u = <<a, b, c>>
                     PROVE  u[1] = a /\ u[2] = b /\ u[3] = c
  OBVIOUS

\* The units from + 1 to from + n of part p of response r.
Stretch(r, p, from, n) == [k \in 1 .. n |-> <<r, p, from + k>>]

\* It belongs at the end of w.
Fits(w, r, p, from, n) ==
    /\ w \in Seq(Unit) /\ Chained(w)
    /\ r \in Nat /\ p \in Parts /\ from \in Nat /\ n \in Nat \ {0}
    /\ from + n <= FullSize[p] /\ FullSize[p] \in Nat
    /\ w = << >> => <<r, p, from + 1>> = <<1, "line", 1>>
    /\ w # << >> => Follows(w[Len(w)], <<r, p, from + 1>>)

Grown(w, r, p, from, n) ==
    LET longer == w \o Stretch(r, p, from, n)
    IN  /\ longer \in Seq(Unit) /\ Len(longer) = Len(w) + n
        /\ longer[Len(w) + n] = <<r, p, from + n>>
        /\ Chained(longer)

\* A stretch of one part, appended where it belongs, keeps the wire in order.
LEMMA WireGrows ==
    ASSUME NEW w, NEW r, NEW p, NEW from, NEW n, Fits(w, r, p, from, n)
    PROVE  Grown(w, r, p, from, n)
  <1> DEFINE u == Stretch(r, p, from, n)
  <1>0. /\ w \in Seq(Unit) /\ Chained(w)
        /\ r \in Nat /\ p \in Parts /\ from \in Nat /\ n \in Nat \ {0}
        /\ from + n <= FullSize[p] /\ FullSize[p] \in Nat
        /\ w = << >> => <<r, p, from + 1>> = <<1, "line", 1>>
        /\ w # << >> => Follows(w[Len(w)], <<r, p, from + 1>>)
    BY DEF Fits
  <1> USE <1>0
  <1>1. u \in Seq(Unit) /\ Len(u) = n /\ \A k \in 1 .. n : u[k] = <<r, p, from + k>>
    BY DEF Unit, Stretch
  <1> HIDE DEF u
  <1>2. /\ w \o u \in Seq(Unit) /\ Len(w \o u) = Len(w) + n
        /\ \A k \in 1 .. Len(w) : (w \o u)[k] = w[k]
        /\ \A k \in 1 .. n : (w \o u)[Len(w) + k] = u[k]
    <2>1. /\ w \o u \in Seq(Unit) /\ Len(w \o u) = Len(w) + n
          /\ \A k \in 1 .. Len(w) + n : (w \o u)[k] = IF k <= Len(w) THEN w[k] ELSE u[k - Len(w)]
      BY <1>1, ConcatProperties
    <2> QED BY <2>1
  <1>3. (w \o u)[Len(w) + n] = <<r, p, from + n>>
    BY <1>1, <1>2
  <1>4. w \o u # << >> => (w \o u)[1] = <<1, "line", 1>>
    <2>1. CASE w = << >>
      BY <2>1, <1>1, <1>2
    <2>2. CASE w # << >>
      BY <2>2, <1>2 DEF Chained
    <2> QED BY <2>1, <2>2
  <1>5. ASSUME NEW k \in 2 .. Len(w) + n
        PROVE  Follows((w \o u)[k - 1], (w \o u)[k])
    <2>1. CASE k <= Len(w)
      <3>1. k \in 2 .. Len(w) /\ k \in 1 .. Len(w) /\ k - 1 \in 1 .. Len(w)
        BY <2>1
      <3>2. (w \o u)[k - 1] = w[k - 1] /\ (w \o u)[k] = w[k]
        BY <3>1, <1>2
      <3>3. Follows(w[k - 1], w[k])
        BY <3>1 DEF Chained
      <3> QED BY <3>2, <3>3
    <2>2. CASE k = Len(w) + 1
      <3>1. w # << >> /\ (w \o u)[k - 1] = w[Len(w)] /\ (w \o u)[k] = u[1]
        BY <2>2, <1>2
      <3>2. u[1] = <<r, p, from + 1>>
        <4>1. 1 \in 1 .. n
          OBVIOUS
        <4> QED BY <4>1, <1>1
      <3> QED BY <3>1, <3>2
    <2>3. CASE k > Len(w) + 1
      <3>1. PICK j \in 2 .. n : k = Len(w) + j
        <4>1. k - Len(w) \in 2 .. n /\ k = Len(w) + (k - Len(w))
          BY <2>3
        <4> QED BY <4>1
      <3>2. (w \o u)[k] = u[j] /\ (w \o u)[k - 1] = u[j - 1]
        <4>1. k - 1 = Len(w) + (j - 1) /\ j - 1 \in 1 .. n
          BY <3>1
        <4> QED BY <4>1, <3>1, <1>2
      <3> DEFINE at == from + (j - 1)
      <3>3. at \in Nat /\ from + j = at + 1 /\ at < FullSize[p]
        OBVIOUS
      <3>4. u[j] = <<r, p, from + j>> /\ u[j - 1] = <<r, p, at>>
        BY <1>1, j - 1 \in 1 .. n, j \in 1 .. n
      <3> HIDE DEF at
      <3>5. Follows(<<r, p, at>>, <<r, p, at + 1>>)
        BY <3>3 DEF Follows
      <3>6. u[j - 1] = <<r, p, at>> /\ u[j] = <<r, p, at + 1>>
        BY <3>3, <3>4
      <3> QED BY <3>2, <3>5, <3>6
    <2>4. k <= Len(w) \/ k = Len(w) + 1 \/ k > Len(w) + 1
      OBVIOUS
    <2> QED BY <2>1, <2>2, <2>3, <2>4, Zenon
  <1> QED
    BY <1>2, <1>3, <1>4, <1>5 DEF Chained, u, Grown

-----------------------------------------------------------------------------
(* How far the current response is, and what of it is the last on the wire. *)

\* SEND_STATE and the three counters agree.
Progress ==
    /\ part = "line" => /\ done["line"] \in 0 .. LineSize - 1
                        /\ done["header"] = 0 /\ done["content"] = 0
    /\ part = "header" => /\ done["line"] = LineSize
                          /\ done["header"] \in 0 .. HeaderSize - 1 /\ done["content"] = 0
    /\ part = "content" => /\ done["line"] = LineSize /\ done["header"] = HeaderSize
                           /\ done["content"] \in 0 .. ContentSize

ResponseTypes ==
    /\ built \in BOOLEAN /\ part \in Parts
    /\ done \in [Parts -> Nat] /\ size \in [Parts -> Nat]
    /\ room \in Nat /\ responses \in Nat
    /\ wire \in Seq(Unit)

\* A response is there from its content to the reset.
Fresh == size = Nothing /\ ~built /\ part = "line" /\ done = Nothing
Sending ==
    /\ responses > 0
    /\ size["content"] \in {0, ContentSize}
    /\ size["content"] = 0 => done["content"] = 0
    /\ IF built THEN size["line"] = LineSize /\ size["header"] = HeaderSize
       ELSE size["line"] = 0 /\ size["header"] = 0 /\ part = "line" /\ done = Nothing
Phases ==
    /\ pc \in {"armed", "send", "sent"} => Sending
    /\ pc \notin {"armed", "send", "sent"} => Fresh
    /\ pc \in {"send", "sent"} => built
    /\ pc \in {"armed", "send"} => done["content"] < ContentSize
    /\ pc = "sent" => part = "content" /\ done["content"] > 0

\* The end of the wire is the content of the response before, or what is out
\* of this one.
EndsWithContent(r) ==
    IF wire = << >> THEN r = 0
    ELSE wire[Len(wire)][1] = r /\ wire[Len(wire)][2] = "content"
EndsAt(p) == wire # << >> /\ wire[Len(wire)] = <<responses, p, done[p]>>
WireEnd ==
    /\ pc \notin {"armed", "send", "sent"} => EndsWithContent(responses)
    /\ pc \in {"armed", "send", "sent"} =>
         IF done["content"] > 0 THEN EndsAt("content")
         ELSE IF done["header"] > 0 THEN EndsAt("header")
         ELSE IF done["line"] > 0 THEN EndsAt("line")
         ELSE EndsWithContent(responses - 1)

SendInv == ResponseTypes /\ Progress /\ Phases /\ WireEnd /\ Chained(wire)

LEMMA InitSendInv == Init => SendInv
  <1> SUFFICES ASSUME Init PROVE SendInv
    OBVIOUS
  <1> USE ResponseAssumption DEF Init, ResponseInit
  <1>1. ResponseTypes
    <2>1. wire \in Seq(Unit) /\ Nothing \in [Parts -> Nat]
      BY DEF Nothing
    <2> QED BY <2>1 DEF ResponseTypes, Parts
  <1>2. Progress
    BY DEF Progress, Nothing, Parts
  <1>3. Phases
    BY DEF Phases, Fresh
  <1>4. WireEnd
    BY DEF WireEnd, EndsWithContent
  <1>5. Chained(wire)
    BY DEF Chained
  <1> QED BY <1>1, <1>2, <1>3, <1>4, <1>5 DEF SendInv

Busy == {"armed", "send", "sent"}

\* What does not touch the response and is not between its content and its
\* reset, and what leaves the program counter alone.
LEMMA SendFrame ==
    ASSUME SendInv, UNCHANGED <<size, built, part, done, wire, responses>>, room' \in Nat,
           pc' = pc \/ (pc \notin Busy /\ pc' \notin Busy)
    PROVE  SendInv'
  <1> USE DEF Busy
  <1>1. ResponseTypes'
    BY DEF SendInv, ResponseTypes
  <1>2. Progress'
    BY DEF SendInv, Progress
  <1>3. Phases'
    BY DEF SendInv, Phases, Fresh, Sending
  <1>4. WireEnd'
    BY DEF SendInv, WireEnd, EndsWithContent, EndsAt
  <1>5. Chained(wire)'
    BY DEF SendInv
  <1> QED BY <1>1, <1>2, <1>3, <1>4, <1>5 DEF SendInv

\* One send() keeps the wire in order.
LEMMA SendCallKeeps ==
    ASSUME SendInv, SendPiece
    PROVE  SendInv'
  <1> USE ResponseAssumption
  <1>1. /\ pc = "send" /\ built /\ Sending /\ done["content"] < ContentSize
        /\ ResponseTypes /\ Progress /\ WireEnd /\ Chained(wire)
    BY DEF SendPiece, SendInv, Phases
  <1>2. /\ wire' = wire \o Units(part, done[part], done[part] + Taken)
        /\ done' = [done EXCEPT ![part] = @ + Taken]
        /\ room' = room - Taken /\ part' = NextPart
        /\ UNCHANGED <<size, built, responses>>
        /\ pc' \in {"armed", "send", "sent"}
    BY DEF SendPiece, SendCall
  <1>3. /\ FullSize[part] \in Nat /\ done[part] \in Nat /\ done[part] < FullSize[part]
        /\ size[part] = FullSize[part] \/ (size[part] = 0 /\ done[part] = 0)
    BY <1>1 DEF Sending, Progress, ResponseTypes, FullSize, Parts
  <1>4. CASE Taken = 0
    <2>1. UNCHANGED <<size, built, responses, done, part, wire>>
      <3>1. Units(part, done[part], done[part] + Taken) = << >>
        BY <1>4, <1>3 DEF Units
      <3>2. wire' = wire
        BY <3>1, <1>2, <1>1, ConcatEmptySeq DEF ResponseTypes
      <3>3. done' = done
        BY <1>2, <1>3, <1>4, <1>1 DEF ResponseTypes
      <3>4. part' = part
        BY <1>2, <1>4, <1>1 DEF NextPart, ResponseTypes, Parts
      <3> QED BY <3>2, <3>3, <3>4, <1>2
    <2>2. pc' = "armed"
      BY <1>4 DEF SendPiece, Returns
    <2>3. ResponseTypes'
      <3>1. room' = room
        BY <1>1, <1>2, <1>4 DEF ResponseTypes
      <3> QED BY <2>1, <3>1, <1>1 DEF ResponseTypes
    <2>4. Progress'
      BY <2>1, <1>1 DEF Progress
    <2>5. Phases'
      BY <2>1, <2>2, <1>1 DEF Phases, Sending
    <2>6. WireEnd'
      BY <2>1, <2>2, <1>1 DEF WireEnd, EndsAt, EndsWithContent
    <2> QED BY <2>1, <2>3, <2>4, <2>5, <2>6, <1>1 DEF SendInv
  <1>5. ASSUME Taken # 0
        PROVE  /\ Rest \in Nat \ {0} /\ done[part] + Rest = FullSize[part] /\ size[part] = FullSize[part]
               /\ Taken \in 1 .. Rest /\ room - Taken \in Nat /\ Taken \in Nat
    <2>1. room \in Nat /\ Taken = IF room < Rest THEN room ELSE Rest
      BY <1>1 DEF ResponseTypes, Taken
    <2>2. Rest = size[part] - done[part]
      BY DEF Rest
    <2>3. size[part] = FullSize[part]
      BY <1>3, <1>5, <2>1, <2>2
    <2> QED BY <1>3, <1>5, <2>1, <2>2, <2>3
  <1>6. CASE Taken # 0
    <2>0. /\ Rest \in Nat \ {0} /\ done[part] + Rest = FullSize[part] /\ size[part] = FullSize[part]
          /\ Taken \in 1 .. Rest /\ room - Taken \in Nat /\ Taken \in Nat
      BY <1>5, <1>6
    <2> DEFINE v == <<responses, part, done[part] + 1>>
    <2>1. wire = << >> => v = <<1, "line", 1>>
      BY <1>1 DEF WireEnd, EndsAt, EndsWithContent, Progress, ResponseTypes, Parts
    <2>2. wire # << >> => Follows(wire[Len(wire)], v)
      <3> SUFFICES ASSUME wire # << >> PROVE Follows(wire[Len(wire)], v)
        OBVIOUS
      <3>1. CASE done[part] > 0
        <4>1. wire[Len(wire)] = <<responses, part, done[part]>>
          <5>1. /\ done \in [Parts -> Nat] /\ part \in Parts /\ Progress /\ WireEnd /\ pc = "send"
            BY <1>1 DEF ResponseTypes
          <5>2. CASE part = "line"
            BY <5>1, <5>2, <3>1 DEF WireEnd, EndsAt, Progress
          <5>3. CASE part = "header"
            BY <5>1, <5>3, <3>1 DEF WireEnd, EndsAt, Progress
          <5>4. CASE part = "content"
            BY <5>1, <5>4, <3>1 DEF WireEnd, EndsAt
          <5> QED BY <5>1, <5>2, <5>3, <5>4 DEF Parts
        <4>2. Follows(<<responses, part, done[part]>>, v)
          BY <1>3 DEF Follows
        <4> QED BY <4>1, <4>2
      <3>2. CASE done[part] = 0 /\ part = "line"
        <4>1. EndsWithContent(responses - 1)
          BY <3>2, <1>1 DEF WireEnd, Progress
        <4>2. wire[Len(wire)][1] = responses - 1 /\ wire[Len(wire)][2] = "content"
          BY <4>1 DEF EndsWithContent
        <4>3. v = <<wire[Len(wire)][1] + 1, "line", 1>>
          BY <4>2, <3>2, <1>1 DEF ResponseTypes
        <4> QED BY <4>2, <4>3 DEF Follows
      <3>3. CASE done[part] = 0 /\ part = "header"
        <4>1. wire[Len(wire)] = <<responses, "line", LineSize>>
          BY <3>3, <1>1 DEF WireEnd, EndsAt, Progress
        <4>2. Follows(<<responses, "line", LineSize>>, v)
          BY <3>3 DEF Follows
        <4> QED BY <4>1, <4>2
      <3>4. CASE done[part] = 0 /\ part = "content"
        <4>1. wire[Len(wire)] = <<responses, "header", HeaderSize>>
          BY <3>4, <1>1 DEF WireEnd, EndsAt, Progress
        <4>2. Follows(<<responses, "header", HeaderSize>>, v)
          BY <3>4 DEF Follows
        <4> QED BY <4>1, <4>2
      <3> QED BY <3>1, <3>2, <3>3, <3>4, <1>3, <1>1 DEF ResponseTypes, Parts
    <2>3. /\ wire' \in Seq(Unit) /\ Len(wire') = Len(wire) + Taken
          /\ wire'[Len(wire) + Taken] = <<responses, part, done[part] + Taken>>
          /\ Chained(wire')
      <3>1. Units(part, done[part], done[part] + Taken) = Stretch(responses, part, done[part], Taken)
        <4>1. (done[part] + Taken) - done[part] = Taken
          BY <1>3, <2>0
        <4> QED BY <4>1 DEF Units, Stretch
      <3>2. /\ wire \in Seq(Unit) /\ Chained(wire) /\ responses \in Nat /\ part \in Parts
            /\ Taken \in Nat \ {0} /\ done[part] + Taken <= FullSize[part]
            /\ done[part] \in Nat /\ FullSize[part] \in Nat
        BY <1>1, <1>3, <2>0, <1>6 DEF ResponseTypes
      <3>3. wire' = wire \o Stretch(responses, part, done[part], Taken)
        BY <3>1, <1>2
      <3>4. LET w == wire \o Stretch(responses, part, done[part], Taken)
            IN  /\ w \in Seq(Unit) /\ Len(w) = Len(wire) + Taken
                /\ w[Len(wire) + Taken] = <<responses, part, done[part] + Taken>>
                /\ Chained(w)
        <4>1. /\ wire = << >> => <<responses, part, done[part] + 1>> = <<1, "line", 1>>
              /\ wire # << >> => Follows(wire[Len(wire)], <<responses, part, done[part] + 1>>)
          BY <2>1, <2>2
        <4>2. Fits(wire, responses, part, done[part], Taken)
          BY <3>2, <4>1 DEF Fits
        <4>3. Grown(wire, responses, part, done[part], Taken)
          BY <4>2, WireGrows
        <4> QED BY <4>3 DEF Grown
      <3> QED BY <3>3, <3>4
    <2>4. /\ part \in Parts /\ done \in [Parts -> Nat] /\ done' \in [Parts -> Nat]
          /\ done'[part] = done[part] + Taken /\ done'[part] \in 1 .. FullSize[part]
          /\ \A q \in Parts \ {part} : done'[q] = done[q]
          /\ done'[part] = FullSize[part] <=> Taken = Rest
      <3>1. part \in Parts /\ done \in [Parts -> Nat] /\ done' = [done EXCEPT ![part] = @ + Taken]
        BY <1>1, <1>2 DEF ResponseTypes
      <3>2. done'[part] = done[part] + Taken /\ \A q \in Parts \ {part} : done'[q] = done[q]
        BY <3>1
      <3>3. done' \in [Parts -> Nat]
        BY <3>1, <1>3, <2>0
      <3>4. done'[part] \in 1 .. FullSize[part] /\ (done'[part] = FullSize[part] <=> Taken = Rest)
        BY <3>2, <1>3, <2>0, <1>6
      <3> QED BY <3>1, <3>2, <3>3, <3>4
    <2>6. wire' # << >> /\ wire'[Len(wire')] = <<responses, part, done'[part]>>
      <3>1. Len(wire) \in Nat
        BY <1>1 DEF ResponseTypes
      <3>2. Len(wire') > 0
        BY <3>1, <2>3, <2>0, <1>6
      <3> QED BY <3>2, <2>3, <2>4
    <2>7. part' = CASE part = "line" /\ Taken = Rest -> "header"
                    [] part = "header" /\ Taken = Rest -> "content"
                    [] OTHER -> part
      BY <1>2, <2>0 DEF NextPart
    <2>8. /\ pc' = "sent" => part = "content"
          /\ pc' \in {"armed", "send"} => (part = "content" => Taken # Rest)
      BY <2>0, <1>6 DEF SendPiece, Returns
    <2>9. ResponseTypes'
      BY <1>1, <1>2, <2>0, <2>3, <2>4, <2>7 DEF ResponseTypes, Parts
    <2>10. Progress' /\ Phases' /\ WireEnd'
      <3> USE <1>1, <1>2, <1>3, <2>4, <2>6, <2>7, <2>8 DEF Progress, FullSize, Parts
      <3>1. CASE part = "line"
        <4>1. /\ done'["line"] = done["line"] + Taken
              /\ done'["header"] = 0 /\ done'["content"] = 0
              /\ part' = IF done'["line"] = LineSize THEN "header" ELSE "line"
          BY <3>1
        <4>2. Progress'
          BY <3>1, <4>1
        <4>3. Phases'
          BY <3>1, <4>1 DEF Phases, Sending
        <4>4. WireEnd'
          <5>1. wire'[Len(wire')] = <<responses', "line", done'["line"]>>
            BY <3>1
          <5>2. /\ done'["line"] > 0 /\ done'["header"] = 0 /\ done'["content"] = 0
                /\ pc' \in {"armed", "send", "sent"}
            BY <3>1, <4>1
          <5>3. EndsAt("line")'
            BY <5>1, <2>6 DEF EndsAt
          <5> HIDE <1>1, <1>2, <1>3, <2>4, <2>6, <2>7, <2>8
          <5> QED BY <5>2, <5>3 DEF WireEnd
        <4> QED BY <4>2, <4>3, <4>4
      <3>2. CASE part = "header"
        <4>1. /\ done'["header"] = done["header"] + Taken
              /\ done'["line"] = LineSize /\ done'["content"] = 0
              /\ part' = IF done'["header"] = HeaderSize THEN "content" ELSE "header"
          BY <3>2
        <4>2. Progress'
          BY <3>2, <4>1
        <4>3. Phases'
          BY <3>2, <4>1 DEF Phases, Sending
        <4>4. WireEnd'
          <5>1. wire'[Len(wire')] = <<responses', "header", done'["header"]>>
            BY <3>2
          <5>2. done'["header"] > 0 /\ done'["content"] = 0 /\ pc' \in {"armed", "send", "sent"}
            BY <3>2
          <5>3. EndsAt("header")'
            BY <5>1, <2>6 DEF EndsAt
          <5> HIDE <1>1, <1>2, <1>3, <2>4, <2>6, <2>7, <2>8
          <5> QED BY <5>2, <5>3 DEF WireEnd
        <4> QED BY <4>2, <4>3, <4>4
      <3>3. CASE part = "content"
        <4>1. /\ done'["content"] = done["content"] + Taken
              /\ done'["line"] = LineSize /\ done'["header"] = HeaderSize
              /\ part' = "content"
          BY <3>3
        <4>2. Progress'
          BY <3>3, <4>1
        <4>3. Phases'
          <5>1. size["content"] = ContentSize
            BY <3>3, <2>0
          <5> QED BY <3>3, <4>1, <5>1 DEF Phases, Sending
        <4>4. WireEnd'
          <5>1. wire'[Len(wire')] = <<responses', "content", done'["content"]>>
            BY <3>3
          <5>2. done'["content"] > 0 /\ pc' \in {"armed", "send", "sent"}
            BY <3>3
          <5> QED BY <5>1, <5>2, <2>6 DEF WireEnd, EndsAt
        <4> QED BY <4>2, <4>3, <4>4
      <3> QED BY <3>1, <3>2, <3>3
    <2> QED BY <2>3, <2>9, <2>10 DEF SendInv
  <1> QED BY <1>4, <1>6

LEMMA SendInvStep == SendInv /\ [Next]_vars => SendInv'
  <1> SUFFICES ASSUME SendInv, [Next]_vars PROVE SendInv'
    OBVIOUS
  <1> USE ResponseAssumption
  <1>0. room \in Nat
    BY DEF SendInv, ResponseTypes
  <1>1. CASE UNCHANGED vars
    BY <1>0, <1>1, SendFrame DEF vars, conn, response
  <1>2. ASSUME NEW n \in 1 .. Len(Stream), Send(n)
        PROVE  SendInv'
    BY <1>0, <1>2, SendFrame DEF Send, response
  <1>3. CASE Read
    BY <1>0, <1>3, SendFrame DEF Read, response, Busy
  <1>4. CASE Parse
    <2>1. UNCHANGED response /\ pc = "parse" /\ pc' \in {"parse", "bad", "respond", "wait"}
      BY <1>4 DEF Parse, ParseRequestLine, ParseHeader, ParseBlank, ReadContentPart,
                  ReadContentRest, NoRequest
    <2> QED BY <1>0, <2>1, SendFrame DEF response, Busy
  <1>5. CASE Business
    <2>1. pc = "respond" /\ Fresh /\ EndsWithContent(responses)
      BY <1>5 DEF Business, SendInv, Phases, WireEnd
    <2>2. /\ pc' = "armed" /\ \E c \in {0, ContentSize} : size' = [size EXCEPT !["content"] = c]
          /\ responses' = responses + 1
          /\ UNCHANGED <<built, part, done, room, wire>>
      <3>1. size = [size EXCEPT !["content"] = 0]
        BY <2>1 DEF Fresh, Nothing, Parts
      <3> QED BY <1>5, <3>1 DEF Business, SetContent, NoContent
    <2>3. ResponseTypes'
      BY <2>1, <2>2 DEF SendInv, ResponseTypes, Parts
    <2>4. Progress'
      BY <2>1, <2>2 DEF Progress, Fresh, Nothing, Parts
    <2>5. Phases'
      BY <2>1, <2>2 DEF Phases, Sending, Fresh, Nothing, Parts, SendInv, ResponseTypes
    <2>6. WireEnd'
      <3>1. done'["line"] = 0 /\ done'["header"] = 0 /\ done'["content"] = 0
        BY <2>1, <2>2 DEF Fresh, Nothing, Parts
      <3>2. responses' - 1 = responses
        BY <2>2 DEF SendInv, ResponseTypes
      <3> QED BY <2>1, <2>2, <3>1, <3>2 DEF WireEnd, EndsWithContent
    <2> QED BY <2>2, <2>3, <2>4, <2>5, <2>6 DEF SendInv
  <1>6. CASE StartWrite
    <2>1. /\ pc = "armed" /\ pc' = "send" /\ built' = TRUE
          /\ size' = IF built THEN size
                     ELSE [size EXCEPT !["line"] = @ + LineSize, !["header"] = @ + HeaderSize]
          /\ UNCHANGED <<part, done, room, wire, responses>>
      BY <1>6 DEF StartWrite, Build
    <2>2. ResponseTypes'
      <3>1. size \in [Parts -> Nat] /\ LineSize \in Nat /\ HeaderSize \in Nat
        BY DEF SendInv, ResponseTypes
      <3>2. size' \in [Parts -> Nat]
        BY <2>1, <3>1 DEF Parts
      <3> QED BY <2>1, <3>2 DEF SendInv, ResponseTypes
    <2>3. Progress'
      BY <2>1 DEF SendInv, Progress
    <2>4. Phases'
      BY <2>1 DEF SendInv, Phases, Sending, ResponseTypes, Parts
    <2>5. WireEnd'
      BY <2>1 DEF SendInv, WireEnd, EndsWithContent, EndsAt
    <2> QED BY <2>1, <2>2, <2>3, <2>4, <2>5 DEF SendInv
  <1>7. CASE SendPiece
    BY <1>7, SendCallKeeps
  <1>8. CASE WriteDone
    <2>1. /\ pc = "sent" /\ pc' \in {"wait", "closed"}
          /\ size' = Nothing /\ done' = Nothing /\ part' = "line" /\ built' = FALSE
          /\ Fresh' /\ UNCHANGED <<room, wire, responses>>
      BY <1>8 DEF WriteDone, ResponseReset, Fresh
    <2>2. wire # << >> /\ wire[Len(wire)][1] = responses /\ wire[Len(wire)][2] = "content"
      <3>1. wire # << >> /\ wire[Len(wire)] = <<responses, "content", done["content"]>>
        BY <2>1 DEF SendInv, Phases, WireEnd, EndsAt
      <3> QED BY <3>1, Projections
    <2>3. ResponseTypes'
      <3>1. Nothing \in [Parts -> Nat]
        BY DEF Nothing
      <3>2. "line" \in Parts
        BY DEF Parts
      <3> QED BY <2>1, <3>1, <3>2 DEF SendInv, ResponseTypes, Fresh
    <2>4. Progress'
      BY <2>1 DEF Progress, Fresh, Nothing, Parts
    <2>5. Phases'
      BY <2>1 DEF Phases
    <2>6. WireEnd'
      BY <2>1, <2>2 DEF WireEnd, EndsWithContent
    <2> QED BY <2>1, <2>3, <2>4, <2>5, <2>6 DEF SendInv
  <1>9. CASE ClientReads
    <2>1. room' \in Nat /\ UNCHANGED <<size, built, part, done, wire, responses, pc>>
      BY <1>9, <1>0 DEF ClientReads, Drain, conn
    <2> QED BY <2>1, SendFrame
  <1> QED
    BY <1>1, <1>2, <1>3, <1>4, <1>5, <1>6, <1>7, <1>8, <1>9 DEF Next

\* Whatever the sizes of the responses and of the socket, and however often
\* Send() begins again, the client reads the responses in order and whole but
\* for the end of a content.
THEOREM ClientReadsInOrder == Spec => []ResponsesInOrder
  <1>1. SendInv => ResponsesInOrder
    <2> SUFFICES ASSUME SendInv PROVE ResponsesInOrder
      OBVIOUS
    <2> QED
      BY DEF SendInv, ResponsesInOrder, ResponseTypes, Phases, WireEnd, EndsWithContent, EndsAt, Last
  <1> QED
    BY <1>1, InitSendInv, SendInvStep, PTL DEF Spec

-----------------------------------------------------------------------------
(* The ring.                                                               *)

\* While no segment is longer than the free space, the items between head and
\* tail are the last of the stream.
RingFaithful ==
    /\ head \in 0 .. Size - 1 /\ sum \in 0 .. Size
    /\ arrived \in Nat /\ sent \in Nat /\ arrived <= sent
    /\ tail = (head + sum) % Size
    /\ \A k \in 0 .. sum - 1 : ring[(head + k) % Size] = Stream[(arrived - sum) + 1 + k]
RingInv == /\ overrun \in BOOLEAN /\ pieced \in BOOLEAN
           /\ ~overrun /\ ~pieced => RingFaithful

\* Taking n items from the ring moves the head past them.
LEMMA ConsumeKeeps ==
    ASSUME RingFaithful, NEW n \in 0 .. sum, Consume(n),
           UNCHANGED <<requests, sent, arrived, ring, tail>>
    PROVE  RingFaithful'
  <1> USE HttpConnAssumption
  <1>1. /\ head \in 0 .. Size - 1 /\ sum \in 0 .. Size /\ Size \in Nat \ {0}
        /\ n \in 0 .. Size /\ sum - n \in 0 .. Size /\ n + (sum - n) = sum /\ n + (sum - n) <= Size
        /\ head' = (head + n) % Size /\ sum' = sum - n /\ sum' \in 0 .. Size
    BY DEF RingFaithful, Consume
  <1>2. head' \in 0 .. Size - 1
    BY <1>1, SlotAfter
  <1>3. tail' = (head' + sum') % Size
    <2>1. (((head + n) % Size) + (sum - n)) % Size = (head + (n + (sum - n))) % Size
      BY <1>1, SlotAfterSlot
    <2> QED BY <2>1, <1>1 DEF RingFaithful
  <1>4. Stream' = Stream
    BY DEF Stream
  <1>5. ASSUME NEW k \in 0 .. sum' - 1
        PROVE  ring'[(head' + k) % Size] = Stream[(arrived - sum') + 1 + k]
    <2>1. (((head + n) % Size) + k) % Size = (head + (n + k)) % Size
      BY <1>1, SlotAfterSlot
    <2>2. n + k \in 0 .. sum - 1 /\ (arrived - sum) + 1 + (n + k) = (arrived - sum') + 1 + k
      BY <1>1 DEF RingFaithful
    <2>3. ring[(head + (n + k)) % Size] = Stream[(arrived - sum) + 1 + (n + k)]
      BY <2>2 DEF RingFaithful
    <2> QED BY <2>1, <2>2, <2>3, <1>1
  <1> QED BY <1>1, <1>2, <1>3, <1>4, <1>5 DEF RingFaithful

LEMMA MaxOfOne == ASSUME NEW j \in Int PROVE Max({j}) = j
  BY DEF Max

\* What recv() writes into a ring with room for it lands behind what is there.
LEMMA ReadKeeps ==
    ASSUME RingFaithful, Read, ~overrun'
    PROVE  RingFaithful'
  <1> USE HttpConnAssumption
  <1> DEFINE n == sent - arrived
             on(i) == {j \in 0 .. n - 1 : (tail + j) % Size = i}
  <1>1. /\ head \in 0 .. Size - 1 /\ sum \in 0 .. Size /\ Size \in Nat \ {0}
        /\ arrived \in Nat /\ sent \in Nat /\ n \in Nat \ {0}
        /\ sent' = sent /\ head' = head
    <2>1. arrived < sent /\ sent' = sent
      BY DEF Read, client
    <2>2. head' = head
      BY DEF Read, buffer
    <2> QED BY <2>1, <2>2 DEF RingFaithful
  <1>2. Stream' = Stream
    BY DEF Read, client, Stream
  <1>3. CASE sum >= Size
    BY <1>2, <1>3 DEF Read, RingFaithful, buffer, client
  <1>4. CASE sum < Size
    <2>1. /\ ring' = [i \in 0 .. Size - 1 |->
                        IF on(i) = {} THEN ring[i] ELSE Stream[arrived + 1 + Max(on(i))]]
          /\ tail' = (tail + n) % Size /\ sum' = sum + n /\ arrived' = sent
          /\ n <= Size - sum
      <3>1. ~(sum >= Size)
        BY <1>4, <1>1
      <3>2. overrun' = (overrun \/ (sum < Size /\ sent - arrived > Size - sum))
        BY DEF Read
      <3>3. ~(n > Size - sum)
        BY <3>2, <1>4
      <3>4. /\ ring' = [i \in 0 .. Size - 1 |->
                          IF on(i) = {} THEN ring[i] ELSE Stream[arrived + 1 + Max(on(i))]]
            /\ tail' = (tail + n) % Size /\ sum' = sum + n /\ arrived' = sent
        BY <3>1, Zenon DEF Read
      <3>5. n <= Size - sum
        BY <3>3, <1>1
      <3> QED BY <3>4, <3>5
    <2>2. sum' \in 0 .. Size /\ arrived' \in Nat /\ arrived' <= sent'
          /\ arrived' - sum' = arrived - sum
      BY <2>1, <1>1
    <2>3. tail' = (head' + sum') % Size
      <3>1. (((head + sum) % Size) + n) % Size = (head + (sum + n)) % Size
        <4>1. n \in 0 .. Size /\ sum + n <= Size
          BY <2>1, <1>1
        <4> HIDE DEF n
        <4> QED BY <4>1, <1>1, SlotAfterSlot
      <3> QED BY <3>1, <2>1, <1>1 DEF RingFaithful
    <2>4. ASSUME NEW j \in 0 .. n - 1
          PROVE  (tail + j) % Size = (head + (sum + j)) % Size
      <3>1. (((head + sum) % Size) + j) % Size = (head + (sum + j)) % Size
        BY <1>1, <2>1, SlotAfterSlot, j \in 0 .. Size, sum + j <= Size
      <3> QED BY <3>1 DEF RingFaithful
    <2>5. ASSUME NEW k \in 0 .. sum' - 1
          PROVE  ring'[(head' + k) % Size] = Stream[(arrived' - sum') + 1 + k]
      <3> DEFINE c == (head + k) % Size
      <3>1. k \in 0 .. Size - 1 /\ c \in 0 .. Size - 1
        <4> DEFINE m == sum'
        <4>1. m \in 0 .. Size /\ Size \in Nat \ {0} /\ k \in 0 .. m - 1
          BY <1>1, <2>2
        <4> HIDE DEF m, c
        <4>2. k \in 0 .. Size - 1 /\ k \in 0 .. Size
          BY <4>1
        <4> QED BY <4>1, <4>2, <1>1, SlotAfter DEF c
      <3>2. \A j \in 0 .. n - 1 : j \in on(c) <=> sum + j = k
        <4>1. ASSUME NEW j \in 0 .. n - 1, sum + j # k
              PROVE  (head + (sum + j)) % Size # c
          BY <4>1, <3>1, <1>1, <2>1, SlotsDiffer, sum + j \in 0 .. Size - 1
        <4> QED BY <4>1, <2>4
      <3> HIDE DEF on, c
      <3>3. ring'[c] = IF on(c) = {} THEN ring[c] ELSE Stream[arrived + 1 + Max(on(c))]
        BY <2>1, <3>1
      <3>4. CASE k < sum
        <4>1. on(c) = {}
          BY <3>2, <3>4, <1>1 DEF on
        <4>2. ring[(head + k) % Size] = Stream[(arrived - sum) + 1 + k]
          BY <3>4, <3>1, <1>1, k \in 0 .. sum - 1 DEF RingFaithful
        <4> QED BY <4>1, <4>2, <3>3, <2>2, <1>1 DEF c
      <3>5. CASE k >= sum
        <4>1. k - sum \in 0 .. n - 1 /\ sum + (k - sum) = k
          BY <3>5, <2>1, <1>1
        <4>2. on(c) = {k - sum}
          <5>1. on(c) \subseteq 0 .. n - 1
            BY DEF on
          <5>2. \A j \in 0 .. n - 1 : sum + j = k <=> j = k - sum
            BY <1>1, <3>1
          <5> QED BY <5>1, <5>2, <4>1, <3>2
        <4>3. Max(on(c)) = k - sum
          BY <4>1, <4>2, MaxOfOne
        <4>4. arrived + 1 + (k - sum) = (arrived - sum) + 1 + k
          BY <1>1, <3>1
        <4> QED BY <4>2, <4>3, <4>4, <3>3, <2>2, <1>1 DEF c
      <3> QED BY <3>4, <3>5, <3>1, <1>1
    <2> QED BY <1>1, <1>2, <2>2, <2>3, <2>5 DEF RingFaithful
  <1> QED BY <1>1, <1>3, <1>4

\* Where the search for a CR ends is a place, or nowhere.
LEMMA LineLenType == ASSUME sum \in Nat PROVE LineLen \in Int
  <1> DEFINE I == {i \in 1 .. Len(Ring(sum)) : Ring(sum)[i] = CR}
  <1>1. LineLen = (IF I # {} THEN Min(I) ELSE 0) - 1
    BY DEF LineLen, SelectInSeq
  <1>2. Len(Ring(sum)) = sum
    BY DEF Ring
  <1>3. I \subseteq Nat
    BY <1>2
  <1> HIDE DEF I
  <1>4. ASSUME I # {} PROVE Min(I) \in Nat
    <2> DEFINE R == OpToRel(<, Nat)
    <2>1. IsWellFoundedOn(R, Nat) /\ R = {ss \in Nat \X Nat : ss[1] < ss[2]}
      BY NatLessThanWellFounded, Zenon DEF OpToRel
    <2> HIDE DEF R
    <2>2. PICK x \in I : \A y \in I : ~(<<y, x>> \in R)
      BY <1>3, <1>4, <2>1, WFMin
    <2>3. \A y \in I : x <= y
      <3> SUFFICES ASSUME NEW y \in I PROVE x <= y
        OBVIOUS
      <3>1. x \in Nat /\ y \in Nat /\ <<y, x>> \notin R
        BY <2>2, <1>3
      <3>2. y < x => <<y, x>> \in R
        BY <3>1, <2>1
      <3> QED BY <3>1, <3>2
    <2>4. Min(I) \in I
      BY <2>2, <2>3 DEF Min
    <2> QED BY <2>4, <1>3
  <1> QED BY <1>1, <1>4

LEMMA RingInvStep == RingInv /\ [Next]_vars => RingInv'
  <1> SUFFICES ASSUME RingInv, [Next]_vars PROVE RingInv'
    OBVIOUS
  <1> USE HttpConnAssumption
  <1>1. ASSUME UNCHANGED <<requests, sent, buffer, overrun, pieced>>
        PROVE  RingInv'
    <2>1. Stream' = Stream
      BY <1>1 DEF Stream
    <2> QED BY <1>1, <2>1 DEF RingInv, RingFaithful, buffer
  <1>2. CASE UNCHANGED vars
    BY <1>1, <1>2 DEF vars, conn, client
  <1>3. ASSUME NEW m \in 1 .. Len(Stream), Send(m)
        PROVE  RingInv'
    <2>1. Stream' = Stream
      BY <1>3 DEF Send, Stream
    <2>2. m \in Nat
      OBVIOUS
    <2> QED BY <1>3, <2>1, <2>2 DEF RingInv, RingFaithful, Send, buffer
  <1>4. CASE Read
    <2>1. overrun' \in BOOLEAN /\ pieced' = pieced /\ (~overrun' => ~overrun)
      BY <1>4 DEF Read, RingInv
    <2> QED BY <1>4, <2>1, ReadKeeps DEF RingInv
  <1>5. ASSUME NEW m, Consume(m), m \in 0 .. sum, pieced' = pieced, overrun' = overrun,
               UNCHANGED <<requests, sent, arrived, ring, tail>>
        PROVE  RingInv'
    BY <1>5, ConsumeKeeps DEF RingInv
  <1>6. CASE ParseRequestLine \/ ParseHeader \/ ParseBlank
    <2>1. Consume(LineLen + 2) /\ LineOK /\ pieced' = pieced /\ overrun' = overrun
          /\ UNCHANGED <<requests, sent, arrived, ring, tail>>
      BY <1>6 DEF ParseRequestLine, ParseHeader, ParseBlank, client
    <2>2. CASE ~overrun /\ ~pieced
      <3>1. LineLen \in Int
        BY <2>2, LineLenType DEF RingInv, RingFaithful
      <3>2. LineLen + 2 \in 0 .. sum
        BY <2>1, <2>2, <3>1 DEF LineOK, RingInv, RingFaithful
      <3> QED BY <2>1, <3>2, <1>5
    <2>3. CASE overrun \/ pieced
      BY <2>1, <2>3 DEF RingInv
    <2> QED BY <2>2, <2>3
  <1>7. CASE ReadContentPart
    BY <1>7 DEF ReadContentPart, RingInv
  <1>8. CASE ReadContentRest
    <2>1. /\ contentLen - curLen \in 0 .. sum /\ Consume(contentLen - curLen)
          /\ pieced' = pieced /\ overrun' = overrun
          /\ UNCHANGED <<requests, sent, arrived, ring, tail>>
      BY <1>8 DEF ReadContentRest, client
    <2> QED BY <2>1, <1>5
  <1>9. CASE NoRequest \/ Business \/ StartWrite \/ SendPiece \/ WriteDone \/ ClientReads
    BY <1>1, <1>9 DEF NoRequest, Business, StartWrite, SendPiece, WriteDone, ClientReads,
                      client, conn
  <1> QED
    BY <1>2, <1>3, <1>4, <1>6, <1>7, <1>8, <1>9 DEF Next, Parse

\* An empty ring holds nothing wrong.
LEMMA InitRingInv == Init => RingInv
  <1> SUFFICES ASSUME Init PROVE RingInv
    OBVIOUS
  <1>1. Size \in Nat \ {0} /\ head = 0 /\ sum = 0 /\ tail = 0 /\ sent = 0 /\ arrived = 0
    BY HttpConnAssumption DEF Init
  <1>2. (head + sum) % Size = tail
    BY <1>1
  <1>3. overrun = FALSE /\ pieced = FALSE
    BY DEF Init
  <1>4. 0 .. sum - 1 = {}
    BY <1>1
  <1>5. RingFaithful
    BY <1>1, <1>2, <1>4 DEF RingFaithful
  <1> QED BY <1>3, <1>5 DEF RingInv

\* What is unread in the ring is what the client sent last, in order, for a
\* ring of any size and any conversation, until a segment overruns the free
\* space or a body comes in pieces.
THEOREM TheRingHoldsTheStream == Spec => []RingHoldsStream
  <1>1. Init => RingInv
    BY InitRingInv
  <1>2. RingInv => RingHoldsStream
    <2> SUFFICES ASSUME RingInv, ~overrun, ~pieced
                 PROVE  Ring(sum) = [i \in 1 .. sum |-> Stream[arrived - sum + i]]
      BY DEF RingHoldsStream
    <2>1. ASSUME NEW i \in 1 .. sum
          PROVE  ring[(head + i - 1) % Size] = Stream[arrived - sum + i]
      <3>1. i - 1 \in 0 .. sum - 1 /\ head + (i - 1) = head + i - 1
            /\ (arrived - sum) + 1 + (i - 1) = arrived - sum + i
        BY HttpConnAssumption DEF RingInv, RingFaithful
      <3> QED BY <3>1 DEF RingInv, RingFaithful
    <2> QED BY <2>1 DEF Ring
  <1> QED
    BY <1>1, <1>2, RingInvStep, PTL DEF Spec

-----------------------------------------------------------------------------
(* The stream of a conversation.                                           *)

\* A set of numbers has a least one.
LEMMA Least == ASSUME NEW N, N \subseteq Nat, N # {}
               PROVE  \E x \in N : \A y \in N : x <= y
  <1> DEFINE R == OpToRel(<, Nat)
  <1>1. IsWellFoundedOn(R, Nat) /\ R = {ss \in Nat \X Nat : ss[1] < ss[2]}
    BY NatLessThanWellFounded, Zenon DEF OpToRel
  <1> HIDE DEF R
  <1>2. PICK x \in N : \A y \in N : ~(<<y, x>> \in R)
    BY <1>1, WFMin
  <1>3. ASSUME NEW y \in N PROVE x <= y
    <2>1. x \in Nat /\ y \in Nat /\ <<y, x>> \notin R
      BY <1>2
    <2>2. y < x => <<y, x>> \in R
      BY <2>1, <1>1
    <2> QED BY <2>1, <2>2
  <1> QED BY <1>3

\* What FlattenSeq computes, list by list.
Flattened(f, q, n) == f = [i \in 1 .. n |-> IF i = 1 THEN q[i] ELSE f[i - 1] \o q[i]]

\* There is such a computation.
LEMMA FlattenedExists == ASSUME NEW q, NEW n \in Nat PROVE \E f : Flattened(f, q, n)
  <1> DEFINE N == {m \in Nat : ~\E f : Flattened(f, q, m)}
  <1>1. SUFFICES ASSUME N # {} PROVE FALSE
    OBVIOUS
  <1>2. PICK m \in N : \A k \in N : m <= k
    BY <1>1, Least, N \subseteq Nat
  <1>3. m \in Nat /\ ~\E f : Flattened(f, q, m)
    OBVIOUS
  <1>4. m # 0
    <2> DEFINE e == [i \in {} |-> 0]
    <2>1. e = [i \in 1 .. 0 |-> IF i = 1 THEN q[i] ELSE e[i - 1] \o q[i]]
      OBVIOUS
    <2> HIDE DEF e
    <2>2. Flattened(e, q, 0)
      BY <2>1 DEF Flattened
    <2> QED BY <1>3, <2>2
  <1>5. m - 1 \in Nat /\ m - 1 \notin N
    BY <1>2, <1>3, <1>4
  <1>6. PICK g : Flattened(g, q, m - 1)
    BY <1>5
  <1> DEFINE h == [i \in 1 .. m |-> IF i = 1 THEN q[i] ELSE g[i - 1] \o q[i]]
  <1>7. ASSUME NEW i \in 1 .. m
        PROVE  h[i] = IF i = 1 THEN q[i] ELSE h[i - 1] \o q[i]
    <2>1. CASE i = 1
      BY <2>1
    <2>2. CASE i # 1
      <3>1. i - 1 \in 1 .. m - 1 /\ i - 1 \in 1 .. m
        BY <1>3, <2>2
      <3>2. g[i - 1] = IF i - 1 = 1 THEN q[i - 1] ELSE g[i - 1 - 1] \o q[i - 1]
        BY <1>6, <3>1 DEF Flattened
      <3>3. h[i - 1] = g[i - 1]
        BY <3>1, <3>2
      <3> QED BY <2>2, <3>3
    <2> QED BY <2>1, <2>2
  <1>8. h = [i \in 1 .. m |-> h[i]]
    OBVIOUS
  <1> HIDE DEF h
  <1>9. h = [i \in 1 .. m |-> IF i = 1 THEN q[i] ELSE h[i - 1] \o q[i]]
    BY <1>7, <1>8
  <1> QED BY <1>3, <1>9 DEF Flattened

\* Two computations agree as far as their lists do.
LEMMA FlattenedAgree ==
    ASSUME NEW p, NEW q, NEW f, NEW g, NEW n \in Nat, NEW m \in Nat, n <= m,
           Flattened(f, p, n), Flattened(g, q, m), \A i \in 1 .. n : p[i] = q[i]
    PROVE  \A i \in 1 .. n : f[i] = g[i]
  <1> DEFINE N == {i \in 1 .. n : f[i] # g[i]}
  <1>1. SUFFICES ASSUME N # {} PROVE FALSE
    OBVIOUS
  <1>2. PICK i \in N : \A k \in N : i <= k
    BY <1>1, Least, N \subseteq Nat
  <1>3. /\ i \in 1 .. n /\ i \in 1 .. m /\ f[i] # g[i] /\ i \in Nat
    OBVIOUS
  <1>4. /\ f[i] = IF i = 1 THEN p[i] ELSE f[i - 1] \o p[i]
        /\ g[i] = IF i = 1 THEN q[i] ELSE g[i - 1] \o q[i]
    BY <1>3 DEF Flattened
  <1>5. i # 1
    BY <1>3, <1>4
  <1>6. i - 1 \in 1 .. n /\ i - 1 \notin N
    BY <1>2, <1>3, <1>5
  <1> QED BY <1>3, <1>4, <1>5, <1>6

-----------------------------------------------------------------------------
\* The sequence x stands in w behind its first o items.
Stands(w, o, x) ==
    /\ o + Len(x) <= Len(w)
    /\ \A j \in 1 .. Len(x) : w[o + j] = x[j]

\* Both parts of a concatenation stand in it, one behind the other.
LEMMA Joined ==
    ASSUME NEW S, NEW s \in Seq(S), NEW t \in Seq(S)
    PROVE  /\ s \o t \in Seq(S) /\ Len(s \o t) = Len(s) + Len(t)
           /\ Len(s) \in Nat /\ Len(t) \in Nat
           /\ Stands(s \o t, 0, s) /\ Stands(s \o t, Len(s), t)
  <1> DEFINE u == s \o t
  <1>1. /\ u \in Seq(S) /\ Len(u) = Len(s) + Len(t) /\ Len(s) \in Nat /\ Len(t) \in Nat
        /\ \A i \in 1 .. Len(s) + Len(t) : u[i] = IF i <= Len(s) THEN s[i] ELSE t[i - Len(s)]
    BY ConcatProperties, LenProperties
  <1> HIDE DEF u
  <1>2. Stands(u, 0, s)
    BY <1>1 DEF Stands
  <1>3. ASSUME NEW j \in 1 .. Len(t) PROVE u[Len(s) + j] = t[j]
    <2> DEFINE i == Len(s) + j
    <2>1. i \in 1 .. Len(s) + Len(t) /\ ~(i <= Len(s)) /\ i - Len(s) = j
      BY <1>1
    <2> HIDE DEF i
    <2>2. u[i] = t[j]
      BY <1>1, <2>1
    <2> QED BY <2>2 DEF i
  <1>4. Stands(u, Len(s), t)
    BY <1>1, <1>3 DEF Stands
  <1> QED BY <1>1, <1>2, <1>4 DEF u

\* What stands in a part stands in the whole.
LEMMA StandsWithin ==
    ASSUME NEW w, NEW x, NEW y, NEW o \in Nat, NEW p \in Nat,
           Len(w) \in Nat, Len(x) \in Nat, Len(y) \in Nat, Stands(w, o, x), Stands(x, p, y)
    PROVE  Stands(w, o + p, y)
  <1>1. ASSUME NEW j \in 1 .. Len(y) PROVE w[o + p + j] = y[j]
    <2> DEFINE i == p + j
    <2>1. i \in 1 .. Len(x) /\ o + p + j = o + i
      BY DEF Stands
    <2>2. x[i] = y[j]
      BY DEF Stands
    <2> HIDE DEF i
    <2>3. w[o + i] = x[i]
      BY <2>1 DEF Stands
    <2> QED BY <2>1, <2>2, <2>3
  <1> QED BY <1>1 DEF Stands

\* What stands in a sequence stands there still when it grows.
LEMMA StandsLonger ==
    ASSUME NEW S, NEW s \in Seq(S), NEW t \in Seq(S), NEW p \in Nat, NEW y, Len(y) \in Nat, Stands(s, p, y)
    PROVE  Stands(s \o t, p, y)
  <1> DEFINE w == s \o t
  <1>1. Stands(w, 0, s) /\ Len(w) \in Nat /\ Len(s) \in Nat
    BY Joined
  <1> HIDE DEF w
  <1>2. Stands(w, 0 + p, y)
    BY <1>1, StandsWithin
  <1>3. 0 + p = p
    OBVIOUS
  <1> QED BY <1>2, <1>3 DEF w

-----------------------------------------------------------------------------
\* How a request is laid out, and where in the stream it begins.
Request == [body : Nat, keep : BOOLEAN, lone : BOOLEAN, known : BOOLEAN]
Item == {CR, LF, RequestLine, KeepAlive, LoneCR} \cup ({"length"} \X Nat) \cup ({"byte"} \X Nat \X Nat)

\* The lines of a request, as Encode writes them, and where they begin.
LengthLine(r) == IF r.body > 0 THEN <<ContentLength(r.body)>> \o CRLF ELSE << >>
KeepLine(r) == IF r.keep THEN <<KeepAlive>> \o CRLF ELSE << >>
LoneLine(r) == IF r.lone THEN <<LoneCR>> \o <<CR>> \o CRLF ELSE << >>
KeepAt(r) == IF r.body > 0 THEN 6 ELSE 3
LoneAt(r) == IF r.keep THEN KeepAt(r) + 3 ELSE KeepAt(r)
BlankAt(r) == IF r.lone THEN LoneAt(r) + 4 ELSE LoneAt(r)

\* A line and its CR LF are three items.
LEMMA OneLine ==
    ASSUME NEW x \in Item
    PROVE  /\ <<x>> \o CRLF \in Seq(Item) /\ Len(<<x>> \o CRLF) = 3
           /\ (<<x>> \o CRLF)[1] = x /\ (<<x>> \o CRLF)[2] = CR /\ (<<x>> \o CRLF)[3] = LF
           /\ CRLF \in Seq(Item) /\ Len(CRLF) = 2 /\ CRLF[1] = CR /\ CRLF[2] = LF
  <1>1. CR \in Item /\ LF \in Item
    BY DEF Item
  <1>2. CRLF \in Seq(Item) /\ Len(CRLF) = 2 /\ CRLF[1] = CR /\ CRLF[2] = LF
    BY <1>1 DEF CRLF
  <1> DEFINE s == <<x>>
             u == s \o CRLF
  <1>3. s \in Seq(Item) /\ Len(s) = 1 /\ s[1] = x
    OBVIOUS
  <1> HIDE DEF s
  <1>4. u \in Seq(Item) /\ Len(u) = Len(s) + Len(CRLF) /\ Stands(u, 0, s) /\ Stands(u, Len(s), CRLF)
    BY ONLY <1>2, <1>3, Joined
  <1> HIDE DEF u
  <1>5. u[0 + 1] = s[1] /\ u[1 + 1] = CRLF[1] /\ u[1 + 2] = CRLF[2] /\ Len(u) = 3
    BY <1>2, <1>3, <1>4 DEF Stands
  <1> QED BY <1>2, <1>3, <1>4, <1>5 DEF s, u

\* Where the lines and the body of a request stand in it.
LEMMA EncodeLayout ==
    ASSUME NEW i \in Nat, NEW r \in Request
    PROVE  /\ Encode(i, r) \in Seq(Item) /\ Len(Encode(i, r)) = BlankAt(r) + 2 + r.body
           /\ Stands(Encode(i, r), 0, <<RequestLine>> \o CRLF)
           /\ Stands(Encode(i, r), 3, LengthLine(r))
           /\ Stands(Encode(i, r), KeepAt(r), KeepLine(r))
           /\ Stands(Encode(i, r), LoneAt(r), LoneLine(r))
           /\ Stands(Encode(i, r), BlankAt(r), CRLF)
           /\ Stands(Encode(i, r), BlankAt(r) + 2, Body(i, r.body))
  <1> DEFINE A == LengthLine(r)
             B == KeepLine(r)
             C == LoneLine(r)
             D == Body(i, r.body)
             P0 == <<RequestLine>> \o CRLF
             P1 == P0 \o A
             P2 == P1 \o B
             P3 == P2 \o C
             P4 == P3 \o CRLF
             P5 == P4 \o D
             a == KeepAt(r)
             b == LoneAt(r)
             c == BlankAt(r)
  <1>1. /\ r.body \in Nat /\ a \in Nat /\ b \in Nat /\ c \in Nat
        /\ A \in Seq(Item) /\ Len(A) = a - 3 /\ B \in Seq(Item) /\ Len(B) = b - a
    <2>1. r.body \in Nat /\ ContentLength(r.body) \in Item /\ KeepAlive \in Item
      BY DEF Request, Item, ContentLength
    <2>2. << >> \in Seq(Item) /\ Len(<< >>) = 0
      BY EmptySeq
    <2>3. /\ <<ContentLength(r.body)>> \o CRLF \in Seq(Item) /\ Len(<<ContentLength(r.body)>> \o CRLF) = 3
          /\ <<KeepAlive>> \o CRLF \in Seq(Item) /\ Len(<<KeepAlive>> \o CRLF) = 3
      BY <2>1, OneLine
    <2>4. a \in Nat /\ b \in Nat /\ c \in Nat /\ a = (IF r.body > 0 THEN 6 ELSE 3) /\ b = (IF r.keep THEN a + 3 ELSE a)
      BY DEF KeepAt, LoneAt, BlankAt
    <2> HIDE DEF a, b, c
    <2>5. A \in Seq(Item) /\ Len(A) = a - 3
      BY <2>2, <2>3, <2>4 DEF LengthLine
    <2>6. B \in Seq(Item) /\ Len(B) = b - a
      <3>1. CASE r.keep
        BY <2>3, <2>4, <3>1 DEF KeepLine
      <3>2. CASE ~r.keep
        BY <2>2, <2>4, <3>2 DEF KeepLine
      <3> QED BY <3>1, <3>2
    <2> QED BY <2>1, <2>4, <2>5, <2>6
  <1>2. C \in Seq(Item) /\ Len(C) = c - b
    <2>1. LoneCR \in Item /\ CR \in Item
      BY DEF Item
    <2>2. <<LoneCR>> \o <<CR>> \in Seq(Item) /\ Len(<<LoneCR>> \o <<CR>>) = 2
      BY <2>1
    <2>3. CRLF \in Seq(Item) /\ Len(CRLF) = 2
      BY <2>1, OneLine
    <2> DEFINE L == <<LoneCR>> \o <<CR>>
    <2>4. L \in Seq(Item) /\ Len(L) = 2
      BY <2>2
    <2> HIDE DEF L
    <2>5. L \o CRLF \in Seq(Item) /\ Len(L \o CRLF) = 4
      <3>1. L \o CRLF \in Seq(Item) /\ Len(L \o CRLF) = Len(L) + Len(CRLF)
        BY ONLY <2>3, <2>4, Joined
      <3> QED BY <2>3, <2>4, <3>1
    <2>6. << >> \in Seq(Item) /\ Len(<< >>) = 0
      BY EmptySeq
    <2>7. C = IF r.lone THEN L \o CRLF ELSE << >>
      BY DEF LoneLine, L
    <2>8. b \in Nat /\ c = (IF r.lone THEN b + 4 ELSE b)
      BY <1>1 DEF BlankAt
    <2> HIDE DEF C, b, c
    <2> QED BY <2>5, <2>6, <2>7, <2>8
  <1>3. D \in Seq(Item) /\ Len(D) = r.body
    <2>1. \A j \in 1 .. r.body : <<"byte", i, j>> \in Item
      <3>1. \A j \in 1 .. r.body : <<"byte", i, j>> \in {"byte"} \X Nat \X Nat
        OBVIOUS
      <3> QED BY <3>1 DEF Item
    <2> QED BY <1>1, <2>1 DEF Body
  <1>4. P0 \in Seq(Item) /\ Len(P0) = 3 /\ CRLF \in Seq(Item) /\ Len(CRLF) = 2 /\ Stands(P0, 0, P0)
    <2>1. RequestLine \in Item
      BY DEF Item
    <2>2. P0 \in Seq(Item) /\ Len(P0) = 3 /\ CRLF \in Seq(Item) /\ Len(CRLF) = 2
      BY <2>1, OneLine
    <2> HIDE DEF P0
    <2> QED BY <2>2 DEF Stands
  <1>5. Encode(i, r) = P5
    BY DEF Encode, LengthLine, KeepLine, LoneLine
  <1> HIDE DEF A, B, C, D, P0, a, b, c
  <1>6. P1 \in Seq(Item) /\ Len(P1) = a /\ Stands(P1, 0, P0) /\ Stands(P1, 3, A)
    <2>1. /\ P1 \in Seq(Item) /\ Len(P1) = Len(P0) + Len(A) /\ Stands(P1, 0, P0) /\ Stands(P1, Len(P0), A)
      BY ONLY <1>1, <1>4, Joined
    <2> HIDE DEF P1
    <2> QED BY <1>1, <1>4, <2>1
  <1> HIDE DEF P1
  <1>7. P2 \in Seq(Item) /\ Len(P2) = b /\ Stands(P2, 0, P0) /\ Stands(P2, 3, A) /\ Stands(P2, a, B)
    <2>1. /\ P2 \in Seq(Item) /\ Len(P2) = Len(P1) + Len(B) /\ Stands(P2, Len(P1), B)
      BY ONLY <1>1, <1>2, <1>3, <1>4, <1>6, Joined
    <2>2. Stands(P2, 0, P0) /\ Stands(P2, 3, A)
      BY ONLY <1>1, <1>2, <1>3, <1>4, <1>6, 0 \in Nat, 3 \in Nat, StandsLonger
    <2> HIDE DEF P2
    <2> QED BY <1>1, <1>2, <1>3, <1>4, <1>6, <2>1, <2>2
  <1> HIDE DEF P2
  <1>8. P3 \in Seq(Item) /\ Len(P3) = c /\ Stands(P3, 0, P0) /\ Stands(P3, 3, A) /\ Stands(P3, a, B) /\ Stands(P3, b, C)
    <2>1. /\ P3 \in Seq(Item) /\ Len(P3) = Len(P2) + Len(C) /\ Stands(P3, Len(P2), C)
      BY ONLY <1>1, <1>2, <1>3, <1>4, <1>7, Joined
    <2>2. Stands(P3, 0, P0) /\ Stands(P3, 3, A) /\ Stands(P3, a, B)
      BY ONLY <1>1, <1>2, <1>3, <1>4, <1>7, 0 \in Nat, 3 \in Nat, StandsLonger
    <2> HIDE DEF P3
    <2> QED BY <1>1, <1>2, <1>3, <1>4, <1>7, <2>1, <2>2
  <1> HIDE DEF P3
  <1>9. /\ P4 \in Seq(Item) /\ Len(P4) = c + 2 /\ Stands(P4, 0, P0) /\ Stands(P4, 3, A) /\ Stands(P4, a, B)
        /\ Stands(P4, b, C) /\ Stands(P4, c, CRLF)
    <2>1. /\ P4 \in Seq(Item) /\ Len(P4) = Len(P3) + Len(CRLF) /\ Stands(P4, Len(P3), CRLF)
      BY ONLY <1>1, <1>2, <1>3, <1>4, <1>8, Joined
    <2>2. Stands(P4, 0, P0) /\ Stands(P4, 3, A) /\ Stands(P4, a, B) /\ Stands(P4, b, C)
      BY ONLY <1>1, <1>2, <1>3, <1>4, <1>8, 0 \in Nat, 3 \in Nat, StandsLonger
    <2> HIDE DEF P4
    <2> QED BY <1>1, <1>2, <1>3, <1>4, <1>8, <2>1, <2>2
  <1> HIDE DEF P4
  <1>10. /\ P5 \in Seq(Item) /\ Len(P5) = c + 2 + r.body /\ Stands(P5, 0, P0) /\ Stands(P5, 3, A) /\ Stands(P5, a, B)
         /\ Stands(P5, b, C) /\ Stands(P5, c, CRLF) /\ Stands(P5, c + 2, D)
    <2>1. /\ P5 \in Seq(Item) /\ Len(P5) = Len(P4) + Len(D) /\ Stands(P5, Len(P4), D)
      BY ONLY <1>1, <1>2, <1>3, <1>4, <1>9, Joined
    <2>2. Stands(P5, 0, P0) /\ Stands(P5, 3, A) /\ Stands(P5, a, B) /\ Stands(P5, b, C) /\ Stands(P5, c, CRLF)
      BY ONLY <1>1, <1>2, <1>3, <1>4, <1>9, 0 \in Nat, 3 \in Nat, StandsLonger
    <2> HIDE DEF P5
    <2> QED BY <1>1, <1>2, <1>3, <1>4, <1>9, <2>1, <2>2
  <1> HIDE DEF P5
  <1> QED BY <1>5, <1>10 DEF A, B, C, D, P0, a, b, c

\* The first k requests of the conversation.
Before(k) == FlattenSeq([i \in 1 .. k |-> Encode(i, requests[i])])

\* One request more.
LEMMA BeforeGrows ==
    ASSUME requests \in Seq(Request), NEW k \in 0 .. Len(requests) - 1
    PROVE  /\ Before(k + 1) = Before(k) \o Encode(k + 1, requests[k + 1])
           /\ k + 1 \in 1 .. Len(requests) /\ requests[k + 1] \in Request
           /\ Encode(k + 1, requests[k + 1]) \in Seq(Item)
  <1> DEFINE m == k + 1
             p == [i \in 1 .. k |-> Encode(i, requests[i])]
             q == [i \in 1 .. m |-> Encode(i, requests[i])]
  <1>1. k \in Nat /\ m = k + 1 /\ m \in 1 .. m /\ m \in Nat /\ m \in 1 .. Len(requests)
    BY LenProperties
  <1>2. requests[m] \in Request
    BY <1>1, ElementOfSeq
  <1>3. Encode(m, requests[m]) \in Seq(Item)
    BY <1>1, <1>2, EncodeLayout
  <1>4. /\ Len(p) = k /\ Len(q) = m /\ (k = 0 => p = << >>)
        /\ \A i \in 1 .. k : p[i] = q[i]
        /\ q[m] = Encode(m, requests[m])
    BY <1>1
  <1>5. Before(m) = FlattenSeq(q) /\ Before(k) = FlattenSeq(p)
    BY DEF Before
  <1>6. m # 0 /\ k <= m /\ m - 1 = k
    BY <1>1
  <1> DEFINE f == CHOOSE f : Flattened(f, q, m)
             g == CHOOSE g : Flattened(g, p, k)
  <1>7. Flattened(f, q, m) /\ Flattened(g, p, k)
    BY <1>1, FlattenedExists
  <1> HIDE DEF m, p, q
  <1>8. FlattenSeq(q) = f[m]
    BY <1>1, <1>4, <1>6, Zenon DEF FlattenSeq, Flattened
  <1>9. k # 0 => FlattenSeq(p) = g[k]
    BY <1>1, <1>4 DEF FlattenSeq, Flattened
  <1> HIDE DEF f, g
  <1>10. f[m] = IF m = 1 THEN q[m] ELSE f[m - 1] \o q[m]
    BY ONLY <1>1, <1>7 DEF Flattened
  <1>11. FlattenSeq(q) = FlattenSeq(p) \o q[m]
    <2>1. CASE k = 0
      <3>1. p = << >>
        BY <1>4, <2>1
      <3>2. FlattenSeq(p) = << >>
        BY <1>4, <2>1, <3>1 DEF FlattenSeq
      <3>3. << >> \o q[m] = q[m]
        BY <1>3, <1>4, ConcatEmptySeq
      <3> QED BY <1>1, <1>8, <1>10, <2>1, <3>2, <3>3
    <2>2. CASE k # 0
      <3>1. f[k] = g[k]
        <4>1. \A i \in 1 .. k : g[i] = f[i]
          BY ONLY <1>1, <1>4, <1>6, <1>7, FlattenedAgree
        <4>2. k \in 1 .. k
          BY <1>1, <2>2
        <4> QED BY ONLY <4>1, <4>2
      <3>2. m # 1
        BY <1>1, <2>2
      <3> QED BY ONLY <1>6, <1>8, <1>9, <1>10, <2>2, <3>1, <3>2
    <2> QED BY <2>1, <2>2
  <1> QED BY <1>1, <1>2, <1>3, <1>4, <1>5, <1>11 DEF m

\* The requests before the k-th are items, and End(k) counts them.
LEMMA BeforeTypes ==
    ASSUME requests \in Seq(Request)
    PROVE  \A k \in 0 .. Len(requests) : Before(k) \in Seq(Item) /\ End(k) = Len(Before(k)) /\ End(k) \in Nat
  <1> DEFINE N == {k \in 0 .. Len(requests) : Before(k) \notin Seq(Item)}
  <1>1. N = {}
    <2>1. SUFFICES ASSUME N # {} PROVE FALSE
      OBVIOUS
    <2>2. PICK k \in N : \A j \in N : k <= j
      BY <2>1, Least, LenProperties, N \subseteq Nat
    <2>3. k \in 0 .. Len(requests) /\ Before(k) \notin Seq(Item) /\ Len(requests) \in Nat
      BY LenProperties
    <2>4. k # 0
      <3> DEFINE e == [i \in 1 .. 0 |-> Encode(i, requests[i])]
      <3>1. e = << >> /\ Len(e) = 0 /\ << >> \in Seq(Item)
        OBVIOUS
      <3>2. Before(0) = FlattenSeq(e)
        BY DEF Before
      <3> HIDE DEF e
      <3>3. FlattenSeq(e) = e
        BY <3>1 DEF FlattenSeq
      <3>4. Before(0) \in Seq(Item)
        BY <3>1, <3>2, <3>3
      <3> QED BY <2>3, <3>4
    <2> DEFINE j == k - 1
    <2>5. j \in 0 .. Len(requests) - 1 /\ j \in 0 .. Len(requests) /\ j \notin N /\ j + 1 = k
      BY <2>2, <2>3, <2>4
    <2> HIDE DEF j
    <2>6. Before(j) \in Seq(Item)
      BY <2>5
    <2>7. Before(j + 1) = Before(j) \o Encode(j + 1, requests[j + 1]) /\ Encode(j + 1, requests[j + 1]) \in Seq(Item)
      BY <2>5, BeforeGrows
    <2> QED BY <2>3, <2>5, <2>6, <2>7, Joined
  <1>2. ASSUME NEW k \in 0 .. Len(requests)
        PROVE  Before(k) \in Seq(Item) /\ End(k) = Len(Before(k)) /\ End(k) \in Nat
    <2>1. Before(k) \in Seq(Item)
      BY <1>1
    <2>2. End(k) = Len(Before(k))
      BY DEF End, Before
    <2> QED BY <2>1, <2>2, LenProperties
  <1> QED BY <1>2

\* The stream goes on with the next request where the ones before it end.
LEMMA RequestStands ==
    ASSUME requests \in Seq(Request), NEW k \in 0 .. Len(requests) - 1
    PROVE  /\ Stands(Stream, End(k), Encode(k + 1, requests[k + 1]))
           /\ Stream \in Seq(Item) /\ requests[k + 1] \in Request /\ k + 1 \in Nat
           /\ End(k) \in Nat /\ End(k + 1) \in Nat
           /\ End(k + 1) = End(k) + BlankAt(requests[k + 1]) + 2 + requests[k + 1].body
  <1> DEFINE E == Encode(k + 1, requests[k + 1])
             L == Len(requests)
  <1>1. L \in Nat /\ k \in Nat /\ k + 1 \in 1 .. L /\ k \in 0 .. L /\ k + 1 \in 0 .. L
    BY LenProperties
  <1>2. Stream = Before(L)
    <2>1. DOMAIN requests = 1 .. L
      BY LenProperties
    <2> QED BY <2>1 DEF Stream, Before
  <1>3. Before(k + 1) = Before(k) \o E /\ E \in Seq(Item) /\ requests[k + 1] \in Request
    BY BeforeGrows
  <1>4. \A m \in 0 .. L : Before(m) \in Seq(Item) /\ End(m) = Len(Before(m)) /\ End(m) \in Nat
    BY BeforeTypes
  <1>5. Len(E) = BlankAt(requests[k + 1]) + 2 + requests[k + 1].body
    BY <1>1, <1>3, EncodeLayout
  <1> DEFINE b == BlankAt(requests[k + 1])
             n == requests[k + 1].body
  <1>9. b \in Nat /\ n \in Nat /\ Len(E) = b + 2 + n
    BY <1>3, <1>5 DEF BlankAt, LoneAt, KeepAt, Request
  <1> HIDE DEF E, b, n
  <1>6. Stands(Before(k + 1), End(k), E) /\ End(k + 1) = End(k) + Len(E) /\ Len(E) \in Nat
    <2> DEFINE B == Before(k)
    <2>1. B \in Seq(Item) /\ End(k) = Len(B) /\ End(k + 1) = Len(Before(k + 1)) /\ Before(k + 1) = B \o E
      BY <1>1, <1>3, <1>4
    <2> HIDE DEF B
    <2>2. Stands(B \o E, Len(B), E) /\ Len(B \o E) = Len(B) + Len(E) /\ Len(E) \in Nat
      BY ONLY <1>3, <2>1, Joined
    <2> QED BY <2>1, <2>2
  <1> DEFINE N == {m \in k + 1 .. L : ~Stands(Before(m), End(k), E)}
  <1>7. N = {}
    <2>1. SUFFICES ASSUME N # {} PROVE FALSE
      OBVIOUS
    <2>2. N \subseteq Nat
      BY <1>1
    <2>3. PICK m \in N : \A i \in N : m <= i
      BY <2>1, <2>2, Least
    <2> DEFINE j == m - 1
    <2>4. m \in k + 1 .. L /\ ~Stands(Before(m), End(k), E) /\ m # k + 1
      BY <1>6
    <2>5. j \in 0 .. L - 1 /\ j \in 0 .. L /\ j + 1 = m /\ j \in k + 1 .. L /\ j \notin N
      BY <1>1, <2>3, <2>4
    <2> HIDE DEF j
    <2>6. Stands(Before(j), End(k), E)
      BY <2>5
    <2>7. Before(j + 1) = Before(j) \o Encode(j + 1, requests[j + 1]) /\ Encode(j + 1, requests[j + 1]) \in Seq(Item)
      BY <2>5, BeforeGrows
    <2>8. Stands(Before(j) \o Encode(j + 1, requests[j + 1]), End(k), E)
      BY <1>1, <1>4, <1>6, <2>5, <2>6, <2>7, StandsLonger
    <2> QED BY <2>4, <2>5, <2>7, <2>8
  <1>8. Stands(Stream, End(k), E)
    BY <1>1, <1>2, <1>7
  <1>10. End(k + 1) = End(k) + b + 2 + n /\ End(k) \in Nat /\ End(k + 1) \in Nat
    <2>1. End(k) \in Nat /\ End(k + 1) \in Nat
      BY <1>1, <1>4
    <2> QED BY <1>6, <1>9, <2>1
  <1>11. Stream \in Seq(Item) /\ k + 1 \in Nat
    BY <1>1, <1>2, <1>4
  <1> QED BY <1>3, <1>8, <1>10, <1>11 DEF E, b, n

\* The line x and its CR LF are next in the stream behind the first o items.
LineIn(o, x) == Stream[o + 1] = x /\ Stream[o + 2] = CR /\ Stream[o + 3] = LF

\* A line that stands in the stream, item by item.
LEMMA StandsLine ==
    ASSUME NEW w, NEW o \in Nat, NEW x \in Item, Stands(w, o, <<x>> \o CRLF)
    PROVE  w[o + 1] = x /\ w[o + 2] = CR /\ w[o + 3] = LF
  <1> DEFINE u == <<x>> \o CRLF
  <1>1. Len(u) = 3 /\ u[1] = x /\ u[2] = CR /\ u[3] = LF
    BY OneLine
  <1> HIDE DEF u
  <1> QED BY <1>1 DEF Stands, u

\* Where the lines and the body of request k + 1 stand in the stream.
LEMMA LinesInStream ==
    ASSUME requests \in Seq(Request), NEW k \in 0 .. Len(requests) - 1, NEW r, r = requests[k + 1]
    PROVE  /\ LineIn(End(k), RequestLine)
           /\ r.body > 0 => LineIn(End(k) + 3, ContentLength(r.body))
           /\ r.keep => LineIn(End(k) + KeepAt(r), KeepAlive)
           /\ r.lone => /\ Stream[End(k) + LoneAt(r) + 1] = LoneCR
                        /\ Stream[End(k) + LoneAt(r) + 2] = CR
                        /\ Stream[End(k) + LoneAt(r) + 3] = CR
           /\ Stream[End(k) + BlankAt(r) + 1] = CR /\ Stream[End(k) + BlankAt(r) + 2] = LF
           /\ \A j \in 1 .. r.body : Stream[End(k) + BlankAt(r) + 2 + j] = <<"byte", k + 1, j>>
           /\ End(k + 1) = End(k) + BlankAt(r) + 2 + r.body
           /\ r \in Request /\ End(k) \in Nat /\ End(k + 1) \in Nat
           /\ KeepAt(r) \in Nat /\ LoneAt(r) \in Nat /\ BlankAt(r) \in Nat
  <1> DEFINE E == Encode(k + 1, r)
             o == End(k)
             i == k + 1
  <1>1. /\ Stands(Stream, o, E) /\ Stream \in Seq(Item) /\ r \in Request /\ i \in Nat
        /\ o \in Nat /\ End(k + 1) \in Nat /\ End(k + 1) = o + BlankAt(r) + 2 + r.body
    BY RequestStands
  <1>2. /\ E \in Seq(Item)
        /\ Stands(E, 0, <<RequestLine>> \o CRLF) /\ Stands(E, 3, LengthLine(r)) /\ Stands(E, KeepAt(r), KeepLine(r))
        /\ Stands(E, LoneAt(r), LoneLine(r)) /\ Stands(E, BlankAt(r), CRLF) /\ Stands(E, BlankAt(r) + 2, Body(i, r.body))
    BY <1>1, EncodeLayout
  <1>3. KeepAt(r) \in Nat /\ LoneAt(r) \in Nat /\ BlankAt(r) \in Nat /\ r.body \in Nat
    BY <1>1 DEF KeepAt, LoneAt, BlankAt, Request
  <1>4. Len(E) \in Nat /\ Len(Stream) \in Nat
    BY <1>1, <1>2, LenProperties
  <1> HIDE DEF E, o, i
  <1>5. ASSUME NEW p \in Nat, NEW y, Len(y) \in Nat, Stands(E, p, y) PROVE Stands(Stream, o + p, y) /\ o + p \in Nat
    BY <1>1, <1>4, <1>5, StandsWithin
  <1>6. RequestLine \in Item /\ KeepAlive \in Item /\ ContentLength(r.body) \in Item /\ LoneCR \in Item /\ CR \in Item
    BY <1>3 DEF Item, ContentLength
  <1>7. LineIn(o, RequestLine)
    <2>1. Stands(Stream, o + 0, <<RequestLine>> \o CRLF)
      BY <1>2, <1>5, <1>6, OneLine
    <2>2. o + 0 = o
      BY <1>1
    <2> QED BY <1>1, <1>6, <2>1, <2>2, StandsLine DEF LineIn
  <1>8. r.body > 0 => LineIn(o + 3, ContentLength(r.body))
    <2> SUFFICES ASSUME r.body > 0 PROVE LineIn(o + 3, ContentLength(r.body))
      OBVIOUS
    <2>1. LengthLine(r) = <<ContentLength(r.body)>> \o CRLF
      BY DEF LengthLine
    <2>2. Stands(Stream, o + 3, LengthLine(r)) /\ o + 3 \in Nat
      <3>1. Len(LengthLine(r)) = 3
        BY <1>6, <2>1, OneLine
      <3>2. 3 \in Nat /\ Len(LengthLine(r)) \in Nat
        BY <3>1
      <3> QED BY ONLY <1>2, <1>5, <3>2
    <2> QED BY <1>6, <2>1, <2>2, StandsLine DEF LineIn
  <1>9. r.keep => LineIn(o + KeepAt(r), KeepAlive)
    <2> SUFFICES ASSUME r.keep PROVE LineIn(o + KeepAt(r), KeepAlive)
      OBVIOUS
    <2>1. KeepLine(r) = <<KeepAlive>> \o CRLF
      BY DEF KeepLine
    <2>2. Stands(Stream, o + KeepAt(r), <<KeepAlive>> \o CRLF) /\ o + KeepAt(r) \in Nat
      BY <1>2, <1>3, <1>5, <1>6, <2>1, OneLine
    <2> QED BY <1>6, <2>2, StandsLine DEF LineIn
  <1>10. r.lone => /\ Stream[o + LoneAt(r) + 1] = LoneCR
                   /\ Stream[o + LoneAt(r) + 2] = CR
                   /\ Stream[o + LoneAt(r) + 3] = CR
    <2> SUFFICES ASSUME r.lone PROVE /\ Stream[o + LoneAt(r) + 1] = LoneCR
                                     /\ Stream[o + LoneAt(r) + 2] = CR
                                     /\ Stream[o + LoneAt(r) + 3] = CR
      OBVIOUS
    <2> DEFINE L == <<LoneCR>> \o <<CR>>
               M == L \o CRLF
    <2>1. L \in Seq(Item) /\ Len(L) = 2 /\ L[1] = LoneCR /\ L[2] = CR
      BY <1>6
    <2>2. LoneLine(r) = M
      BY DEF LoneLine
    <2> HIDE DEF L
    <2>3. CRLF \in Seq(Item) /\ Len(CRLF) = 2 /\ CRLF[1] = CR
      BY <1>6, OneLine
    <2>4. Len(M) = Len(L) + Len(CRLF) /\ Stands(M, 0, L) /\ Stands(M, Len(L), CRLF)
      BY ONLY <2>1, <2>3, Joined
    <2> HIDE DEF M
    <2>5. Len(M) = 4 /\ M[0 + 1] = L[1] /\ M[0 + 2] = L[2] /\ M[2 + 1] = CRLF[1]
      BY <2>1, <2>3, <2>4 DEF Stands
    <2>6. Stands(Stream, o + LoneAt(r), M) /\ o + LoneAt(r) \in Nat
      BY <1>2, <1>3, <1>5, <2>2, <2>5
    <2> HIDE DEF o
    <2> QED BY <2>1, <2>3, <2>5, <2>6 DEF Stands
  <1>11. Stream[o + BlankAt(r) + 1] = CR /\ Stream[o + BlankAt(r) + 2] = LF
    <2>1. Len(CRLF) = 2 /\ CRLF[1] = CR /\ CRLF[2] = LF
      BY <1>6, OneLine
    <2>2. Stands(Stream, o + BlankAt(r), CRLF)
      BY <1>2, <1>3, <1>5, <2>1
    <2> QED BY <2>1, <2>2 DEF Stands
  <1>12. ASSUME NEW j \in 1 .. r.body PROVE Stream[o + BlankAt(r) + 2 + j] = <<"byte", i, j>>
    <2>1. Len(Body(i, r.body)) = r.body /\ Body(i, r.body)[j] = <<"byte", i, j>>
      BY <1>3 DEF Body
    <2>2. BlankAt(r) + 2 \in Nat /\ o + (BlankAt(r) + 2) + j = o + BlankAt(r) + 2 + j
      BY <1>1, <1>3
    <2>3. Stands(Stream, o + (BlankAt(r) + 2), Body(i, r.body))
      BY <1>2, <1>3, <1>5, <2>1, <2>2
    <2>4. Stream[o + (BlankAt(r) + 2) + j] = Body(i, r.body)[j]
      BY <2>1, <2>3 DEF Stands
    <2> QED BY <2>1, <2>2, <2>4
  <1> QED BY <1>1, <1>3, <1>7, <1>8, <1>9, <1>10, <1>11, <1>12 DEF o, i

-----------------------------------------------------------------------------
(* The parser.                                                             *)

\* How much of the stream has been taken from the ring.
Gone == arrived - sum

\* The item i places into the ring is the i-th of the stream not yet taken.
LEMMA Unread ==
    ASSUME RingFaithful
    PROVE  /\ sum \in Nat /\ arrived \in Nat /\ Gone \in Int /\ Len(Ring(sum)) = sum
           /\ \A i \in 1 .. sum : /\ ring[(head + i - 1) % Size] = Stream[Gone + i]
                                  /\ Ring(sum)[i] = Stream[Gone + i]
  <1>1. sum \in Nat /\ arrived \in Nat /\ head \in Nat /\ Gone \in Int
    BY HttpConnAssumption DEF RingFaithful, Gone
  <1>2. ASSUME NEW i \in 1 .. sum
        PROVE  ring[(head + i - 1) % Size] = Stream[Gone + i]
    <2>1. i - 1 \in 0 .. sum - 1 /\ head + (i - 1) = head + i - 1 /\ (arrived - sum) + 1 + (i - 1) = Gone + i
      BY <1>1 DEF Gone
    <2>2. ring[(head + (i - 1)) % Size] = Stream[(arrived - sum) + 1 + (i - 1)]
      BY <2>1 DEF RingFaithful
    <2> QED BY <2>1, <2>2
  <1>3. Len(Ring(sum)) = sum /\ \A i \in 1 .. sum : Ring(sum)[i] = ring[(head + i - 1) % Size]
    BY <1>1 DEF Ring
  <1> QED BY <1>1, <1>2, <1>3

\* Where parse_line() finds a line, there is the first CR, and LF behind it.
LEMMA LineFound ==
    ASSUME sum \in Nat, LineOK
    PROVE  /\ LineLen \in Nat /\ LineLen + 2 <= sum
           /\ Ring(sum)[LineLen + 1] = CR /\ Ring(sum)[LineLen + 2] = LF
           /\ \A i \in 1 .. LineLen : Ring(sum)[i] # CR
  <1> DEFINE I == {i \in 1 .. Len(Ring(sum)) : Ring(sum)[i] = CR}
  <1>1. LineLen = (IF I # {} THEN Min(I) ELSE 0) - 1
    BY DEF LineLen, SelectInSeq
  <1>2. Len(Ring(sum)) = sum
    BY DEF Ring
  <1>3. I \subseteq Nat
    BY <1>2
  <1>4. \A i \in 1 .. sum : Ring(sum)[i] = CR <=> i \in I
    BY <1>2
  <1>5. LineLen >= 0 /\ LineLen + 1 < sum /\ Ring(sum)[LineLen + 2] = LF
    BY DEF LineOK
  <1>6. I # {}
    BY <1>1, <1>5
  <1>7. Min(I) \in I /\ \A y \in I : Min(I) <= y
    <2>1. \E x \in I : \A y \in I : x <= y
      BY <1>3, <1>6, Least
    <2> QED BY <2>1 DEF Min
  <1> DEFINE m == Min(I)
  <1>8. m \in 1 .. sum /\ Ring(sum)[m] = CR /\ LineLen = m - 1
    BY <1>1, <1>2, <1>6, <1>7
  <1>9. \A i \in 1 .. sum : i < m => i \notin I
    BY <1>7, <1>8
  <1> HIDE DEF m, I
  <1>10. m \in Nat /\ LineLen \in Nat /\ LineLen + 1 = m
    BY <1>8
  <1>11. ASSUME NEW i \in 1 .. LineLen PROVE Ring(sum)[i] # CR
    <2>1. i \in 1 .. sum /\ i < m
      BY <1>8, <1>10
    <2> QED BY <1>4, <1>9, <2>1
  <1> QED BY <1>5, <1>8, <1>10, <1>11

\* The line the parser finds is the one that stands next in the stream.
LEMMA FindsLine ==
    ASSUME RingFaithful, LineOK, NEW x \in Item \ {CR}, LineIn(Gone, x), text = << >>
    PROVE  LineLen = 1 /\ LineLen + 2 <= sum /\ Line = <<x>> /\ Line # CRLF
  <1>1. LineLen \in Nat /\ LineLen + 2 <= sum /\ sum \in Nat
    BY Unread, LineFound
  <1>2. Ring(sum)[1] = x /\ (2 <= sum => Ring(sum)[2] = CR)
    BY <1>1, Unread DEF LineIn
  <1>3. LineLen # 0
    BY <1>2, LineFound, Unread
  <1>4. LineLen = 1
    <2> SUFFICES ASSUME LineLen # 1 PROVE FALSE
      OBVIOUS
    <2>1. 2 \in 1 .. LineLen /\ 2 <= sum
      BY <1>1, <1>3
    <2> QED BY <1>2, <2>1, LineFound, Unread
  <1>5. Ring(1) = <<x>>
    <2>1. ring[(head + 1 - 1) % Size] = x
      BY <1>1, Unread DEF LineIn
    <2> QED BY <2>1 DEF Ring
  <1>6. Line = << >> \o <<x>>
    BY <1>4, <1>5 DEF Line
  <1>7. << >> \o <<x>> = <<x>>
    <2>1. <<x>> \in Seq(Item)
      OBVIOUS
    <2> QED BY <2>1, ConcatEmptySeq
  <1>8. <<x>> # CRLF
    BY DEF CRLF
  <1> QED BY <1>1, <1>4, <1>6, <1>7, <1>8

\* An empty line.
LEMMA FindsBlank ==
    ASSUME RingFaithful, LineOK, Stream[Gone + 1] = CR, text = << >>
    PROVE  LineLen = 0 /\ LineLen + 2 <= sum /\ Line = CRLF
  <1>1. LineLen \in Nat /\ LineLen + 2 <= sum /\ sum \in Nat
    BY Unread, LineFound
  <1>2. Ring(sum)[1] = CR
    BY <1>1, Unread
  <1>3. LineLen = 0
    <2> SUFFICES ASSUME LineLen # 0 PROVE FALSE
      OBVIOUS
    <2>1. 1 \in 1 .. LineLen
      BY <1>1
    <2> QED BY <1>2, <2>1, LineFound, Unread
  <1>4. Line = << >> \o CRLF
    BY <1>3 DEF Line
  <1>5. << >> \o CRLF = CRLF
    <2>1. CRLF \in Seq({CR, LF})
      BY DEF CRLF
    <2> QED BY <2>1, ConcatEmptySeq
  <1> QED BY <1>1, <1>3, <1>4, <1>5

\* A line with a CR of its own is no line.
LEMMA FindsNothing ==
    ASSUME RingFaithful, Stream[Gone + 1] = LoneCR, Stream[Gone + 2] = CR, Stream[Gone + 3] = CR
    PROVE  ~LineOK
  <1> SUFFICES ASSUME LineOK PROVE FALSE
    OBVIOUS
  <1>1. LineLen \in Nat /\ LineLen + 2 <= sum /\ sum \in Nat
    BY Unread, LineFound
  <1>2. Ring(sum)[1] = LoneCR /\ Ring(sum)[2] = CR /\ (3 <= sum => Ring(sum)[3] = CR)
    <2>1. 1 \in 1 .. sum /\ 2 \in 1 .. sum /\ (3 <= sum => 3 \in 1 .. sum)
      BY <1>1
    <2> QED BY <2>1, Unread
  <1>3. LineLen # 0
    <2>1. LoneCR # CR
      BY DEF LoneCR, CR
    <2> QED BY <1>2, <2>1, LineFound, Unread
  <1>4. LineLen # 1
    <2>1. CR # LF
      BY DEF CR, LF
    <2> QED BY <1>1, <1>2, <2>1, LineFound, Unread
  <1>5. 2 \in 1 .. LineLen
    BY <1>1, <1>3, <1>4
  <1> QED BY <1>2, <1>5, LineFound, Unread

-----------------------------------------------------------------------------
(* What is handled and what is being parsed.                               *)

\* What the parser has in hand when k requests have been handled.  curLen is
\* never reset: it does no harm as long as no second body comes.  The CR LF
\* of a request without a body stays in `text`, and nothing is parsed any more.
Uncounted(k) ==
    \/ k = 0 /\ curLen = 0
    \/ k = 1 /\ (1 < Len(requests) => requests[2].body = 0)
Left(k) == text = CRLF \/ (text = << >> /\ Uncounted(k))
AtLine(k) ==
    /\ check = "line" /\ contentLen = 0 /\ content = << >>
    /\ Gone = End(k) /\ Left(k)
Within(k) == k < Len(requests) /\ text = << >> /\ content = << >> /\ Uncounted(k)
AtHeader(k) ==
    /\ check = "header" /\ Within(k)
    /\ \/ requests[k + 1].body > 0 /\ contentLen = 0 /\ Gone = End(k) + 3
       \/ /\ contentLen = requests[k + 1].body
          /\ \/ requests[k + 1].keep /\ Gone = End(k) + KeepAt(requests[k + 1])
             \/ Gone = End(k) + LoneAt(requests[k + 1])
AtContent(k) ==
    /\ check = "content" /\ Within(k)
    /\ requests[k + 1].body > 0 /\ contentLen = requests[k + 1].body
    /\ Gone = End(k) + BlankAt(requests[k + 1]) + 2
AtEnd(k) ==
    /\ k < Len(requests)
    /\ Gone = End(k + 1) /\ content = Body(k + 1, requests[k + 1].body)
    /\ text = CRLF \/ (text = << >> /\ k = 0 /\ requests[1].body > 0)
Answering(k) == Gone = End(k) /\ Left(k)

Handled(k) ==
    /\ heard = [i \in 1 .. k |-> Body(i, requests[i].body)]
    /\ IF k < Len(requests) THEN sent <= End(k + 1) ELSE sent <= End(k)
Parsed(k) ==
    /\ pc \in {"wait", "parse"} => AtLine(k) \/ AtHeader(k) \/ AtContent(k)
    /\ pc = "respond" => AtEnd(k)
    /\ pc \in {"armed", "send", "sent"} => Answering(k)
ParserInv == /\ requests \in Conversations
             /\ ~overrun /\ ~pieced /\ ~SecondBody =>
                  \E k \in 0 .. Len(requests) : Handled(k) /\ Parsed(k)

\* A conversation is a sequence of requests.
LEMMA RequestsType == ASSUME requests \in Conversations PROVE requests \in Seq(Request) /\ Len(requests) \in Nat
  <1>1. requests \in Seq(Request)
    BY HttpConnAssumption DEF Request
  <1> QED BY <1>1, LenProperties

\* k requests handled, the next one current.
LEMMA HandledLen == ASSUME NEW k \in Nat, Handled(k) PROVE Len(heard) = k /\ Current = k + 1
  BY DEF Handled, Current

\* What does not move the parser.
LEMMA ParserStays ==
    ASSUME NEW k \in Nat, UNCHANGED <<requests, text, check, contentLen, curLen, content>>, Gone' = Gone
    PROVE  /\ AtLine(k)' = AtLine(k) /\ AtHeader(k)' = AtHeader(k) /\ AtContent(k)' = AtContent(k)
           /\ AtEnd(k)' = AtEnd(k) /\ Answering(k)' = Answering(k)
  <1>1. Uncounted(k)' = Uncounted(k) /\ End(k)' = End(k) /\ End(k + 1)' = End(k + 1)
    BY DEF Uncounted, End
  <1>2. Left(k)' = Left(k) /\ Within(k)' = Within(k)
    BY <1>1 DEF Left, Within
  <1> QED BY <1>1, <1>2 DEF AtLine, AtHeader, AtContent, AtEnd, Answering

\* The next request is still the same.
LEMMA HandledStays ==
    ASSUME NEW k \in Nat, Handled(k), UNCHANGED <<requests, heard, sent>>
    PROVE  Handled(k)'
  <1>1. End(k)' = End(k) /\ End(k + 1)' = End(k + 1)
    BY DEF End
  <1> QED BY <1>1 DEF Handled

\* Taking n items moves on in the stream.
LEMMA TakenMoves ==
    ASSUME RingFaithful, NEW n \in Int, Consume(n), arrived' = arrived
    PROVE  Gone' = Gone + n
  <1>1. sum \in Nat /\ arrived \in Nat /\ sum' = sum - n
    BY Unread DEF Consume
  <1>2. arrived - (sum - n) = (arrived - sum) + n
    BY <1>1
  <1>3. Gone' = arrived - (sum - n)
    BY <1>1 DEF Gone
  <1> QED BY <1>2, <1>3 DEF Gone

\* A client has sent nothing behind its last request.
LEMMA NothingUnread ==
    ASSUME RingFaithful, requests \in Conversations, NEW k \in Nat, k = Len(requests), Handled(k), Gone = End(k)
    PROVE  sum = 0
  <1>1. sum \in Nat /\ arrived \in Nat /\ sent \in Nat /\ arrived <= sent
    BY Unread DEF RingFaithful
  <1>2. sent <= End(k) /\ End(k) \in Nat
    <2>1. k \in 0 .. Len(requests)
      OBVIOUS
    <2> QED BY <2>1, RequestsType, BeforeTypes DEF Handled
  <1> QED BY <1>1, <1>2 DEF Gone

\* The request line leads to the headers, unless a CR LF was left before it.
LEMMA RequestLineParsed ==
    ASSUME RingFaithful, requests \in Conversations, NEW k \in 0 .. Len(requests), Handled(k), AtLine(k), ParseRequestLine
    PROVE  pc' = "bad" \/ AtHeader(k)'
  <1>1. requests \in Seq(Request) /\ Len(requests) \in Nat /\ k \in Nat
    BY RequestsType
  <1>2. LineOK /\ Consume(LineLen + 2)
    BY DEF ParseRequestLine
  <1>3. k \in 0 .. Len(requests) - 1
    <2> SUFFICES ASSUME k = Len(requests) PROVE FALSE
      BY <1>1
    <2>1. sum = 0
      BY <1>1, NothingUnread DEF AtLine
    <2>2. LineLen \in Nat /\ LineLen + 2 <= sum
      BY <1>2, <2>1, LineFound
    <2> QED BY <2>1, <2>2
  <1> DEFINE r == requests[k + 1]
  <1>4. /\ LineIn(End(k), RequestLine) /\ r \in Request /\ End(k) \in Nat
    BY <1>1, <1>3, LinesInStream
  <1>5. SUFFICES ASSUME pc' # "bad" PROVE AtHeader(k)'
    OBVIOUS
  <1>6. Line = <<RequestLine>> /\ check' = "header" /\ text' = << >>
    BY <1>5, Zenon DEF ParseRequestLine
  <1>7. text = << >>
    <2> SUFFICES ASSUME text = CRLF PROVE FALSE
      BY DEF AtLine, Left
    <2> DEFINE x == IF LineLen = 0 THEN CRLF ELSE Ring(LineLen)
    <2>1. Line = CRLF \o x
      BY DEF Line
    <2>2. LineLen \in Nat
      BY <1>2, LineFound, Unread
    <2>3. \E S : CRLF \in Seq(S) /\ x \in Seq(S) /\ Len(CRLF) = 2
      <3> DEFINE S == {CR, LF} \cup {ring[(head + i - 1) % Size] : i \in 1 .. LineLen}
      <3>1. CRLF \in Seq(S) /\ Len(CRLF) = 2
        BY DEF CRLF
      <3>2. \A i \in 1 .. LineLen : ring[(head + i - 1) % Size] \in S
        OBVIOUS
      <3> HIDE DEF S
      <3>3. Ring(LineLen) \in Seq(S)
        BY <2>2, <3>2 DEF Ring
      <3> QED BY <3>1, <3>3
    <2> HIDE DEF x
    <2>4. Len(CRLF \o x) >= 2
      <3>1. PICK S : CRLF \in Seq(S) /\ x \in Seq(S) /\ Len(CRLF) = 2
        BY <2>3
      <3>2. Len(CRLF \o x) = Len(CRLF) + Len(x) /\ Len(x) \in Nat
        BY <3>1, ConcatProperties, LenProperties
      <3> QED BY <3>1, <3>2
    <2> QED BY <1>6, <2>1, <2>4
  <1>8. LineLen = 1
    <2>1. RequestLine \in Item \ {CR}
      BY DEF Item, RequestLine, CR
    <2> QED BY <1>2, <1>4, <1>7, <2>1, FindsLine DEF AtLine
  <1>9. Gone' = End(k) + 3
    <2> DEFINE n == LineLen + 2
    <2>1. n \in Int /\ n = 3
      BY <1>8
    <2>2. Consume(n) /\ arrived' = arrived
      BY <1>2 DEF ParseRequestLine
    <2> HIDE DEF n
    <2>3. Gone' = Gone + n
      BY <2>1, <2>2, TakenMoves
    <2> QED BY <1>4, <2>1, <2>3 DEF AtLine
  <1>10. requests' = requests /\ contentLen' = 0 /\ content' = << >> /\ curLen' = curLen
    BY DEF ParseRequestLine, client, AtLine
  <1>11. End(k)' = End(k) /\ Uncounted(k)' /\ k < Len(requests)
    BY <1>1, <1>3, <1>7, <1>10 DEF End, Uncounted, AtLine, Left, CRLF
  <1>12. CASE r.body > 0
    BY <1>6, <1>9, <1>10, <1>11, <1>12 DEF AtHeader, Within
  <1>13. CASE ~(r.body > 0)
    <2>1. r.body = 0 /\ KeepAt(r) = 3
      BY <1>4, <1>13 DEF Request, KeepAt
    <2>2. r.keep \/ LoneAt(r) = 3
      BY <2>1 DEF LoneAt
    <2> QED BY <1>6, <1>9, <1>10, <1>11, <2>1, <2>2 DEF AtHeader, Within
  <1> QED BY <1>12, <1>13

\* The line the parser finds in a header.
LEMMA HeaderLine ==
    ASSUME RingFaithful, requests \in Conversations, NEW k \in 0 .. Len(requests), AtHeader(k), LineOK,
           NEW r, r = requests[k + 1]
    PROVE  /\ k \in 0 .. Len(requests) - 1 /\ requests \in Seq(Request)
           /\ \/ /\ r.body > 0 /\ contentLen = 0 /\ Gone = End(k) + 3
                 /\ LineLen = 1 /\ Line = <<ContentLength(r.body)>> /\ Line # CRLF
              \/ /\ r.keep /\ contentLen = r.body /\ Gone = End(k) + KeepAt(r)
                 /\ LineLen = 1 /\ Line = <<KeepAlive>> /\ Line # CRLF
              \/ /\ contentLen = r.body /\ Gone = End(k) + BlankAt(r)
                 /\ LineLen = 0 /\ Line = CRLF
  <1>1. requests \in Seq(Request) /\ Len(requests) \in Nat /\ text = << >> /\ k \in 0 .. Len(requests) - 1
    BY RequestsType DEF AtHeader, Within
  <1>2. /\ r.body > 0 => LineIn(End(k) + 3, ContentLength(r.body))
        /\ r.keep => LineIn(End(k) + KeepAt(r), KeepAlive)
        /\ r.lone => /\ Stream[End(k) + LoneAt(r) + 1] = LoneCR
                     /\ Stream[End(k) + LoneAt(r) + 2] = CR
                     /\ Stream[End(k) + LoneAt(r) + 3] = CR
        /\ Stream[End(k) + BlankAt(r) + 1] = CR
        /\ r \in Request
    BY <1>1, LinesInStream
  <1>3. CASE r.body > 0 /\ contentLen = 0 /\ Gone = End(k) + 3
    <2>1. ContentLength(r.body) \in Item \ {CR}
      BY <1>2 DEF Item, ContentLength, CR, Request
    <2>2. LineIn(Gone, ContentLength(r.body))
      BY <1>2, <1>3
    <2> QED BY <1>1, <1>3, <2>1, <2>2, FindsLine
  <1>4. CASE contentLen = r.body /\ r.keep /\ Gone = End(k) + KeepAt(r)
    <2>1. KeepAlive \in Item \ {CR}
      BY DEF Item, KeepAlive, CR
    <2>2. LineIn(Gone, KeepAlive)
      BY <1>2, <1>4
    <2> QED BY <1>1, <1>4, <2>1, <2>2, FindsLine
  <1>5. CASE contentLen = r.body /\ Gone = End(k) + LoneAt(r)
    <2>1. ~r.lone
      <3> SUFFICES ASSUME r.lone PROVE FALSE
        OBVIOUS
      <3>1. Stream[Gone + 1] = LoneCR /\ Stream[Gone + 2] = CR /\ Stream[Gone + 3] = CR
        BY <1>2, <1>5
      <3> QED BY <3>1, FindsNothing
    <2>2. BlankAt(r) = LoneAt(r)
      BY <2>1 DEF BlankAt
    <2>3. Stream[Gone + 1] = CR
      BY <1>2, <1>5, <2>2
    <2> QED BY <1>1, <1>5, <2>2, <2>3, FindsBlank
  <1> QED BY <1>1, <1>3, <1>4, <1>5 DEF AtHeader

\* A header line leaves the parser at the next one.
LEMMA HeaderParsed ==
    ASSUME RingFaithful, requests \in Conversations, NEW k \in 0 .. Len(requests), AtHeader(k), ParseHeader
    PROVE  AtHeader(k)'
  <1> DEFINE r == requests[k + 1]
  <1>1. LineOK /\ Line # CRLF /\ Consume(LineLen + 2) /\ arrived' = arrived
    BY DEF ParseHeader
  <1>2. /\ k \in 0 .. Len(requests) - 1 /\ requests \in Seq(Request)
        /\ \/ /\ r.body > 0 /\ contentLen = 0 /\ Gone = End(k) + 3
              /\ LineLen = 1 /\ Line = <<ContentLength(r.body)>>
           \/ /\ r.keep /\ contentLen = r.body /\ Gone = End(k) + KeepAt(r)
              /\ LineLen = 1 /\ Line = <<KeepAlive>>
    BY <1>1, HeaderLine
  <1>3. r \in Request /\ End(k) \in Nat /\ KeepAt(r) \in Nat
    BY <1>2, LinesInStream
  <1>4. Gone' = Gone + 3
    <2>1. LineLen = 1
      BY <1>2
    <2> DEFINE n == LineLen + 2
    <2>2. n = 3 /\ n \in Int
      BY <2>1
    <2>3. Consume(n)
      BY <1>1
    <2> HIDE DEF n
    <2>4. Gone' = Gone + n
      BY <1>1, <2>2, <2>3, TakenMoves
    <2> QED BY <2>2, <2>4
  <1>5. requests' = requests /\ check' = "header" /\ content' = << >> /\ curLen' = curLen /\ text' = << >>
        /\ contentLen' = (IF Line[1][1] = "length" THEN Line[1][2] ELSE contentLen)
    BY DEF ParseHeader, client, AtHeader, Within
  <1>6. End(k)' = End(k) /\ Within(k)' /\ r' = r
    BY <1>5 DEF End, Within, Uncounted, AtHeader
  <1>7. CASE r.body > 0 /\ contentLen = 0 /\ Gone = End(k) + 3 /\ Line = <<ContentLength(r.body)>>
    <2>1. contentLen' = r.body
      BY <1>5, <1>7 DEF ContentLength
    <2>2. KeepAt(r) = 6 /\ (r.keep \/ LoneAt(r) = 6)
      BY <1>7 DEF KeepAt, LoneAt
    <2>3. Gone' = End(k) + 6
      BY <1>3, <1>4, <1>7
    <2> QED BY <1>5, <1>6, <2>1, <2>2, <2>3 DEF AtHeader
  <1>8. CASE r.keep /\ contentLen = r.body /\ Gone = End(k) + KeepAt(r) /\ Line = <<KeepAlive>>
    <2>1. contentLen' = r.body
      BY <1>5, <1>8 DEF KeepAlive
    <2>2. LoneAt(r) = KeepAt(r) + 3
      BY <1>8 DEF LoneAt
    <2>3. Gone' = End(k) + LoneAt(r)
      BY <1>3, <1>4, <1>8, <2>2
    <2> QED BY <1>5, <1>6, <2>1, <2>3 DEF AtHeader
  <1> QED BY <1>2, <1>7, <1>8

\* The empty line leads to the body, or to the end of a request without one.
LEMMA BlankParsed ==
    ASSUME RingFaithful, requests \in Conversations, NEW k \in 0 .. Len(requests), AtHeader(k), ParseBlank
    PROVE  \/ pc' = "parse" /\ AtContent(k)'
           \/ pc' = "respond" /\ AtEnd(k)'
  <1> DEFINE r == requests[k + 1]
  <1>1. LineOK /\ Line = CRLF /\ Consume(LineLen + 2) /\ arrived' = arrived
    BY DEF ParseBlank
  <1>2. /\ k \in 0 .. Len(requests) - 1 /\ requests \in Seq(Request)
        /\ contentLen = r.body /\ Gone = End(k) + BlankAt(r) /\ LineLen = 0
    BY <1>1, HeaderLine
  <1>3. /\ r \in Request /\ End(k) \in Nat /\ BlankAt(r) \in Nat /\ r.body \in Nat
        /\ End(k + 1) = End(k) + BlankAt(r) + 2 + r.body
    <2>1. /\ r \in Request /\ End(k) \in Nat /\ BlankAt(r) \in Nat
          /\ End(k + 1) = End(k) + BlankAt(r) + 2 + r.body
      BY <1>2, LinesInStream
    <2>2. r.body \in Nat
      BY <2>1 DEF Request
    <2> QED BY <2>1, <2>2
  <1>4. Gone' = End(k) + BlankAt(r) + 2
    <2> DEFINE n == LineLen + 2
    <2>1. n = 2 /\ n \in Int
      BY <1>2
    <2>2. Consume(n)
      BY <1>1
    <2> HIDE DEF n
    <2>3. Gone' = Gone + n
      BY <1>1, <2>1, <2>2, TakenMoves
    <2> QED BY <1>2, <1>3, <2>1, <2>3
  <1>5. /\ requests' = requests /\ content' = << >> /\ curLen' = curLen /\ contentLen' = contentLen
        /\ IF contentLen # 0 THEN check' = "content" /\ text' = << >> /\ pc' = "parse"
           ELSE pc' = "respond" /\ text' = CRLF
    BY <1>1 DEF ParseBlank, client, AtHeader, Within
  <1>6. /\ End(k)' = End(k) /\ End(k + 1)' = End(k + 1) /\ r' = r
        /\ k < Len(requests') /\ Uncounted(k)'
    BY <1>5 DEF End, Within, Uncounted, AtHeader
  <1>7. CASE contentLen # 0
    <2>1. r.body > 0
      BY <1>2, <1>3, <1>7
    <2>2. BlankAt(r)' = BlankAt(r)
      BY <1>6
    <2> QED BY <1>2, <1>4, <1>5, <1>6, <1>7, <2>1, <2>2 DEF AtContent, Within
  <1>8. CASE contentLen = 0
    <2>1. Gone' = End(k + 1)
      BY <1>2, <1>3, <1>4, <1>8
    <2>2. Body(k + 1, r.body) = << >>
      BY <1>2, <1>8 DEF Body
    <2> QED BY <1>5, <1>6, <1>8, <2>1, <2>2 DEF AtEnd
  <1> QED BY <1>7, <1>8

\* A body that is all there is read as the client sent it.
LEMMA BodyRead ==
    ASSUME RingFaithful, requests \in Conversations, NEW k \in 0 .. Len(requests), AtContent(k), ReadContentRest
    PROVE  AtEnd(k)'
  <1> DEFINE r == requests[k + 1]
  <1>1. requests \in Seq(Request) /\ Len(requests) \in Nat /\ k \in 0 .. Len(requests) - 1
    BY RequestsType DEF AtContent, Within
  <1>2. /\ r \in Request /\ End(k) \in Nat /\ BlankAt(r) \in Nat /\ r.body \in Nat
        /\ End(k + 1) = End(k) + BlankAt(r) + 2 + r.body
        /\ \A j \in 1 .. r.body : Stream[End(k) + BlankAt(r) + 2 + j] = <<"byte", k + 1, j>>
    <2>1. /\ r \in Request /\ End(k) \in Nat /\ BlankAt(r) \in Nat
          /\ End(k + 1) = End(k) + BlankAt(r) + 2 + r.body
          /\ \A j \in 1 .. r.body : Stream[End(k) + BlankAt(r) + 2 + j] = <<"byte", k + 1, j>>
      BY <1>1, LinesInStream
    <2>2. r.body \in Nat
      BY <2>1 DEF Request
    <2> QED BY <2>1, <2>2
  <1>3. k = 0 /\ curLen = 0
    <2>1. k = 1 => 1 < Len(requests) /\ r.body = requests[2].body
      BY <1>1
    <2> QED BY <2>1 DEF AtContent, Within, Uncounted
  <1>4. contentLen - curLen = r.body /\ r.body > 0
    BY <1>2, <1>3 DEF AtContent
  <1>5. /\ r.body \in 0 .. sum /\ content' = content \o Ring(r.body) /\ Consume(r.body)
        /\ UNCHANGED <<requests, arrived, text>>
    BY <1>4 DEF ReadContentRest, client
  <1>6. Gone' = End(k + 1)
    <2> DEFINE n == r.body
    <2>1. n \in Int /\ Consume(n) /\ arrived' = arrived
      BY <1>2, <1>5
    <2> HIDE DEF n
    <2>2. Gone' = Gone + n
      BY <2>1, TakenMoves
    <2> QED BY <1>2, <2>2 DEF AtContent, n
  <1>7. Ring(r.body) = Body(k + 1, r.body)
    <2>1. ASSUME NEW j \in 1 .. r.body PROVE ring[(head + j - 1) % Size] = <<"byte", k + 1, j>>
      <3>1. j \in 1 .. sum
        BY <1>2, <1>5, Unread
      <3>2. ring[(head + j - 1) % Size] = Stream[Gone + j]
        BY <3>1, Unread
      <3>3. Gone = End(k) + BlankAt(r) + 2
        BY DEF AtContent
      <3> QED BY <1>2, <3>2, <3>3
    <2> QED BY <2>1 DEF Ring, Body
  <1>8. content' = Body(k + 1, r.body)
    <2>1. Body(k + 1, r.body) \in Seq({"byte"} \X Nat \X Nat)
      <3> DEFINE S == {"byte"} \X Nat \X Nat
      <3>1. \A j \in 1 .. r.body : <<"byte", k + 1, j>> \in S
        BY <1>1, <1>2
      <3>2. r.body \in Nat
        BY <1>2
      <3> HIDE DEF S
      <3>3. [j \in 1 .. r.body |-> <<"byte", k + 1, j>>] \in Seq(S)
        BY <3>1, <3>2
      <3> QED BY <3>3 DEF Body, S
    <2>2. content = << >>
      BY DEF AtContent, Within
    <2> QED BY <1>5, <1>7, <2>1, <2>2, ConcatEmptySeq
  <1>9. End(k + 1)' = End(k + 1) /\ r' = r /\ k < Len(requests') /\ text' = << >>
    BY <1>1, <1>5 DEF End, AtContent, Within
  <1> QED BY <1>3, <1>4, <1>6, <1>8, <1>9 DEF AtEnd

\* The handler has heard one body more, the one its request ends with.
LEMMA BusinessHears ==
    ASSUME ~SecondBody, RingFaithful, requests \in Conversations, NEW k \in 0 .. Len(requests), Handled(k), AtEnd(k), Business
    PROVE  k + 1 \in 0 .. Len(requests') /\ Handled(k + 1)' /\ Answering(k + 1)'
  <1>1. /\ requests \in Seq(Request) /\ Len(requests) \in Nat /\ k \in 0 .. Len(requests) - 1
        /\ k + 1 \in 0 .. Len(requests)
    BY RequestsType DEF AtEnd
  <1>2. /\ heard' = Append(heard, content)
        /\ UNCHANGED <<requests, sent, arrived, sum, text, check, contentLen, curLen, content>>
    BY DEF Business, client, buffer, parser
  <1>3. Gone' = End(k + 1)
    BY <1>2 DEF AtEnd, Gone
  <1>4. \A i \in Nat : End(i)' = End(i)
    BY <1>2 DEF End
  <1>5. heard' = [i \in 1 .. k + 1 |-> Body(i, requests[i].body)]
    <2> DEFINE g == [i \in 1 .. k + 1 |-> Body(i, requests[i].body)]
               S == {Body(i, requests[i].body) : i \in 1 .. k + 1}
    <2>1. heard = [i \in 1 .. k |-> Body(i, requests[i].body)] /\ content = Body(k + 1, requests[k + 1].body)
      BY DEF Handled, AtEnd
    <2>2. k \in Nat /\ heard \in Seq(S) /\ Len(heard) = k /\ content \in S
      <3>1. k \in Nat /\ k + 1 \in 1 .. k + 1 /\ 1 .. k \subseteq 1 .. k + 1
        BY <1>1
      <3>2. \A i \in 1 .. k : Body(i, requests[i].body) \in S
        BY <3>1
      <3>3. content \in S
        BY <2>1, <3>1
      <3> HIDE DEF S
      <3>4. heard \in Seq(S) /\ Len(heard) = k
        BY <2>1, <3>1, <3>2
      <3> QED BY <3>1, <3>3, <3>4
    <2>3. \A i \in 1 .. k : heard[i] = g[i]
      BY <1>1, <2>1
    <2>4. content = g[k + 1]
      BY <1>1, <2>1
    <2>5. g = [i \in 1 .. k + 1 |-> g[i]]
      OBVIOUS
    <2> HIDE DEF g, S
    <2>6. /\ Len(Append(heard, content)) = k + 1 /\ Append(heard, content) \in Seq(S)
          /\ \A i \in 1 .. k : Append(heard, content)[i] = heard[i]
          /\ Append(heard, content)[k + 1] = content
      BY <2>2, AppendProperties
    <2>7. \A i \in 1 .. k + 1 : Append(heard, content)[i] = g[i]
      BY <2>2, <2>3, <2>4, <2>6
    <2>8. Append(heard, content) = [i \in 1 .. k + 1 |-> Append(heard, content)[i]]
      BY <2>2, <2>6, LenProperties
    <2>9. Append(heard, content) = g
      BY <2>5, <2>7, <2>8
    <2> QED BY <1>2, <2>9 DEF g
  <1>6. Handled(k + 1)'
    <2>1. sent <= End(k + 1) /\ sent \in Nat
      BY <1>1 DEF Handled, RingFaithful
    <2>2. k + 1 < Len(requests) => sent <= End((k + 1) + 1)
      <3> SUFFICES ASSUME k + 1 < Len(requests) PROVE sent <= End((k + 1) + 1)
        OBVIOUS
      <3> DEFINE j == k + 1
                 r == requests[j + 1]
      <3>1. j \in 0 .. Len(requests) - 1
        BY <1>1
      <3> HIDE DEF j
      <3>2. /\ End(j + 1) = End(j) + BlankAt(r) + 2 + r.body /\ r \in Request
            /\ End(j) \in Nat /\ End(j + 1) \in Nat /\ BlankAt(r) \in Nat
        BY <1>1, <3>1, LinesInStream
      <3>3. r.body \in Nat
        BY <3>2 DEF Request
      <3> HIDE DEF r
      <3>4. End(j) <= End(j + 1)
        BY <3>2, <3>3
      <3>5. sent <= End(j)
        BY <2>1 DEF j
      <3>6. sent <= End(j + 1)
        BY <2>1, <3>2, <3>4, <3>5
      <3> QED BY <3>6 DEF j
    <2>3. End(k + 1)' = End(k + 1) /\ End((k + 1) + 1)' = End((k + 1) + 1)
      BY <1>1, <1>4
    <2> QED BY <1>2, <1>5, <2>1, <2>2, <2>3 DEF Handled
  <1>7. Left(k + 1)'
    <2>1. CASE text = CRLF
      BY <1>2, <2>1 DEF Left
    <2>2. CASE text = << >> /\ k = 0 /\ requests[1].body > 0
      <3>1. 1 < Len(requests) => requests[2].body = 0
        <4> SUFFICES ASSUME 1 < Len(requests), requests[2].body # 0 PROVE FALSE
          OBVIOUS
        <4>1. 2 \in 2 .. Len(requests) /\ requests[2] \in Request /\ requests[2 - 1].body > 0
          BY <1>1, <2>2
        <4>2. requests[2].body > 0
          BY <4>1 DEF Request
        <4> QED BY <4>1, <4>2 DEF SecondBody
      <3> QED BY <1>2, <2>2, <3>1 DEF Left, Uncounted
    <2> QED BY <2>1, <2>2 DEF AtEnd
  <1>8. End(k + 1)' = End(k + 1)
    BY <1>1, <1>4
  <1> QED BY <1>1, <1>2, <1>3, <1>6, <1>7, <1>8 DEF Answering

\* After the response the parser is at the next request line.
LEMMA ResetParses ==
    ASSUME NEW k \in Nat, Answering(k), WriteDone
    PROVE  AtLine(k)'
  <1>1. /\ UNCHANGED <<requests, sent, arrived, sum, text, curLen>>
        /\ check' = "line" /\ contentLen' = 0 /\ content' = << >>
    BY DEF WriteDone, Reset, client, buffer
  <1>2. Gone' = Gone /\ End(k)' = End(k) /\ Left(k)' = Left(k)
    BY <1>1 DEF Gone, End, Left, Uncounted
  <1> QED BY <1>1, <1>2 DEF Answering, AtLine

\* recv() takes nothing from the ring.
LEMMA ReadTakesNothing ==
    ASSUME RingFaithful, Read
    PROVE  Gone' = Gone
  <1>1. arrived \in Nat /\ sent \in Nat /\ sum \in Nat
    BY HttpConnAssumption DEF RingFaithful
  <1>2. \/ arrived' = arrived /\ sum' = sum
        \/ arrived' = sent /\ sum' = sum + (sent - arrived)
    BY DEF Read, buffer
  <1>3. sent - (sum + (sent - arrived)) = arrived - sum
    BY <1>1
  <1> QED BY <1>2, <1>3 DEF Gone

\* Nothing is handled or parsed at first.
LEMMA ParserInvInit == Init => ParserInv
  <1> SUFFICES ASSUME Init PROVE ParserInv
    OBVIOUS
  <1>1. /\ requests \in Conversations /\ sent = 0 /\ arrived = 0 /\ sum = 0 /\ heard = << >>
        /\ text = << >> /\ check = "line" /\ contentLen = 0 /\ curLen = 0 /\ content = << >> /\ pc = "wait"
    BY DEF Init
  <1>2. requests \in Seq(Request) /\ Len(requests) \in Nat
    BY <1>1, RequestsType
  <1>3. End(0) = 0
    <2> DEFINE e == [i \in 1 .. 0 |-> Encode(i, requests[i])]
    <2>1. e = << >> /\ Len(e) = 0
      OBVIOUS
    <2>2. End(0) = Len(FlattenSeq(e))
      BY DEF End
    <2> HIDE DEF e
    <2>3. FlattenSeq(e) = e
      BY <2>1 DEF FlattenSeq
    <2> QED BY <2>1, <2>2, <2>3
  <1>4. Parsed(0)
    <2>1. Gone = 0
      BY <1>1 DEF Gone
    <2> QED BY <1>1, <1>3, <2>1 DEF Parsed, AtLine, Left, Uncounted
  <1>5. Handled(0)
    <2>1. 0 < Len(requests) => End(0 + 1) \in Nat
      <3> SUFFICES ASSUME 0 < Len(requests) PROVE End(1) \in Nat
        OBVIOUS
      <3>1. 1 \in 0 .. Len(requests)
        BY <1>2
      <3> QED BY <1>2, <3>1, BeforeTypes
    <2>2. heard = [i \in 1 .. 0 |-> Body(i, requests[i].body)]
      BY <1>1
    <2> QED BY <1>1, <1>3, <2>1, <2>2 DEF Handled
  <1> QED BY <1>1, <1>2, <1>4, <1>5 DEF ParserInv

\* No step before the next request is handled disturbs what the parser has.
LEMMA ParserInvStep ==
    ASSUME RingInv, ParserInv, [Next]_vars
    PROVE  ParserInv'
  <1>1. requests' = requests /\ requests \in Conversations
    BY DEF ParserInv, Next, vars, conn, client, Send, Read, Parse, ParseRequestLine, ParseHeader, ParseBlank,
           ReadContentPart, ReadContentRest, NoRequest, Business, StartWrite, SendPiece, WriteDone, ClientReads
  <1>2. SUFFICES ASSUME ~overrun', ~pieced', ~SecondBody'
                 PROVE  \E k \in 0 .. Len(requests') : Handled(k)' /\ Parsed(k)'
    BY <1>1 DEF ParserInv
  <1>3. ~overrun /\ ~pieced /\ ~SecondBody
    <2>1. (overrun' = overrun \/ Read) /\ (pieced' = pieced \/ pieced' = TRUE)
      BY DEF Next, vars, conn, client, Send, Read, Parse, ParseRequestLine, ParseHeader, ParseBlank,
             ReadContentPart, ReadContentRest, NoRequest, Business, StartWrite, SendPiece, WriteDone, ClientReads
    <2>2. Read => (overrun => overrun')
      BY DEF Read, RingInv
    <2>3. SecondBody' = SecondBody
      BY <1>1 DEF SecondBody
    <2> QED BY <1>2, <2>1, <2>2, <2>3
  <1>4. RingFaithful
    BY <1>3 DEF RingInv
  <1>5. PICK k \in 0 .. Len(requests) : Handled(k) /\ Parsed(k)
    BY <1>3 DEF ParserInv
  <1>6. k \in Nat /\ k \in 0 .. Len(requests') /\ Len(requests) \in Nat
    BY <1>1, <1>5, RequestsType
  <1>7. ASSUME UNCHANGED <<heard, sent, text, check, contentLen, curLen, content>>, Gone' = Gone,
               \/ pc' = pc \/ pc' \in {"bad", "closed"}
               \/ pc \in {"wait", "parse"} /\ pc' \in {"wait", "parse"}
               \/ pc \in {"armed", "send"} /\ pc' \in {"armed", "send", "sent"}
        PROVE  \E n \in 0 .. Len(requests') : Handled(n)' /\ Parsed(n)'
    <2>1. Handled(k)'
      BY <1>1, <1>5, <1>6, <1>7, HandledStays
    <2>2. /\ AtLine(k)' = AtLine(k) /\ AtHeader(k)' = AtHeader(k) /\ AtContent(k)' = AtContent(k)
          /\ AtEnd(k)' = AtEnd(k) /\ Answering(k)' = Answering(k)
      BY <1>1, <1>6, <1>7, ParserStays
    <2>3. Parsed(k)'
      BY <1>5, <1>7, <2>2 DEF Parsed
    <2> QED BY <1>6, <2>1, <2>3
  <1>8. CASE UNCHANGED vars
    BY <1>7, <1>8 DEF vars, conn, client, buffer, parser, Gone
  <1>9. ASSUME NEW m \in 1 .. Len(Stream), Send(m)
        PROVE  \E n \in 0 .. Len(requests') : Handled(n)' /\ Parsed(n)'
    <2>1. /\ UNCHANGED <<heard, text, check, contentLen, curLen, content, pc>> /\ Gone' = Gone
          /\ Current <= Len(requests) /\ sent' = sent + m /\ sent + m <= End(Current)
      BY <1>9 DEF Send, buffer, parser, Gone
    <2>2. k < Len(requests) /\ sent' <= End(k + 1)
      BY <1>5, <1>6, <2>1, HandledLen
    <2>3. End(k + 1)' = End(k + 1)
      BY <1>1 DEF End
    <2>4. Handled(k)'
      BY <1>1, <1>5, <2>1, <2>2, <2>3 DEF Handled
    <2>5. /\ AtLine(k)' = AtLine(k) /\ AtHeader(k)' = AtHeader(k) /\ AtContent(k)' = AtContent(k)
          /\ AtEnd(k)' = AtEnd(k) /\ Answering(k)' = Answering(k)
      BY <1>1, <1>6, <2>1, ParserStays
    <2>6. Parsed(k)'
      BY <1>5, <2>1, <2>5 DEF Parsed
    <2> QED BY <1>6, <2>4, <2>6
  <1>10. CASE Read
    <2>1. Gone' = Gone
      BY <1>4, <1>10, ReadTakesNothing
    <2> QED BY <1>7, <1>10, <2>1 DEF Read, client, parser
  <1>11. ASSUME ParseRequestLine \/ ParseHeader \/ ParseBlank \/ ReadContentRest
         PROVE  Handled(k)' /\ pc = "parse" /\ (AtLine(k) \/ AtHeader(k) \/ AtContent(k))
    <2>1. UNCHANGED <<heard, sent>> /\ pc = "parse"
      BY <1>11 DEF ParseRequestLine, ParseHeader, ParseBlank, ReadContentRest, client
    <2> QED BY <1>1, <1>5, <1>6, <2>1, HandledStays DEF Parsed
  <1>12. CASE ParseRequestLine
    <2>1. AtLine(k)
      BY <1>11, <1>12 DEF ParseRequestLine, AtHeader, AtContent
    <2>2. pc' = "bad" \/ AtHeader(k)'
      BY <1>1, <1>4, <1>5, <1>12, <2>1, RequestLineParsed
    <2>3. pc' \in {"parse", "bad"}
      BY <1>12 DEF ParseRequestLine
    <2> QED BY <1>6, <1>11, <1>12, <2>2, <2>3 DEF Parsed
  <1>13. CASE ParseHeader
    <2>1. AtHeader(k) /\ pc' = "parse"
      BY <1>11, <1>13 DEF ParseHeader, AtLine, AtContent
    <2>2. AtHeader(k)'
      BY <1>1, <1>4, <1>5, <1>13, <2>1, HeaderParsed
    <2> QED BY <1>6, <1>11, <1>13, <2>1, <2>2 DEF Parsed
  <1>14. CASE ParseBlank
    <2>1. AtHeader(k)
      BY <1>11, <1>14 DEF ParseBlank, AtLine, AtContent
    <2>2. \/ pc' = "parse" /\ AtContent(k)'
          \/ pc' = "respond" /\ AtEnd(k)'
      BY <1>1, <1>4, <1>5, <1>14, <2>1, BlankParsed
    <2> QED BY <1>6, <1>11, <1>14, <2>2 DEF Parsed
  <1>15. CASE ReadContentPart
    BY <1>2, <1>15 DEF ReadContentPart
  <1>16. CASE ReadContentRest
    <2>1. AtContent(k) /\ pc' = "respond"
      BY <1>11, <1>16 DEF ReadContentRest, AtLine, AtHeader
    <2>2. AtEnd(k)'
      BY <1>1, <1>4, <1>5, <1>16, <2>1, BodyRead
    <2> QED BY <1>6, <1>11, <1>16, <2>1, <2>2 DEF Parsed
  <1>17. CASE NoRequest \/ ClientReads
    BY <1>7, <1>17 DEF NoRequest, ClientReads, conn, client, buffer, parser, Gone
  <1>18. CASE Business
    <2>1. AtEnd(k) /\ pc' = "armed"
      BY <1>5, <1>18 DEF Business, Parsed
    <2>2. k + 1 \in 0 .. Len(requests') /\ Handled(k + 1)' /\ Answering(k + 1)'
      BY <1>1, <1>3, <1>4, <1>5, <1>18, <2>1, BusinessHears
    <2>3. Parsed(k + 1)'
      BY <2>1, <2>2 DEF Parsed
    <2> QED BY <2>2, <2>3
  <1>19. CASE StartWrite \/ SendPiece
    <2>1. pc \in {"armed", "send"} /\ pc' \in {"armed", "send", "sent"}
      BY <1>19 DEF StartWrite, SendPiece
    <2> QED BY <1>7, <1>19, <2>1 DEF StartWrite, SendPiece, client, buffer, parser, Gone
  <1>20. CASE WriteDone
    <2>1. Answering(k) /\ pc' \in {"wait", "closed"} /\ UNCHANGED <<heard, sent>>
      BY <1>5, <1>20 DEF WriteDone, Parsed, client
    <2>2. AtLine(k)'
      BY <1>6, <1>20, <2>1, ResetParses
    <2>3. Handled(k)'
      BY <1>1, <1>5, <1>6, <2>1, HandledStays
    <2> QED BY <1>6, <2>1, <2>2, <2>3 DEF Parsed
  <1> QED
    BY <1>8, <1>9, <1>10, <1>12, <1>13, <1>14, <1>15, <1>16, <1>17, <1>18, <1>19, <1>20 DEF Next, Parse

\* The handlers get the bodies of the client's requests, in order and whole,
\* for a ring of any size and any conversation without a second body, until a
\* segment overruns the ring or a body comes in pieces (process_read(),
\* ReadContent() and init() of httpconn.cc).
THEOREM HandlersHearTheBodies == Spec => []HeardWhatWasSaid
  <1>1. Init => RingInv
    BY InitRingInv
  <1>2. RingInv /\ ParserInv /\ [Next]_vars => RingInv' /\ ParserInv'
    BY RingInvStep, ParserInvStep
  <1>3. ParserInv => HeardWhatWasSaid
    <2> SUFFICES ASSUME ParserInv, ~overrun, ~pieced, ~SecondBody PROVE BodiesArrive
      BY DEF HeardWhatWasSaid
    <2>1. PICK k \in 0 .. Len(requests) : Handled(k)
      BY DEF ParserInv
    <2>2. k \in Nat
      BY RequestsType DEF ParserInv
    <2>3. Len(heard) = k
      BY <2>1, <2>2, HandledLen
    <2> QED BY <2>1, <2>3 DEF Handled, BodiesArrive
  <1> QED BY <1>1, <1>2, <1>3, ParserInvInit, PTL DEF Spec
=============================================================================
