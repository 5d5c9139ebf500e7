----------------------------- MODULE HttpResponse -----------------------------
(***************************************************************************)
(* The response of one HTTP connection (class Response, httpconn.cc): its  *)
(* line, header and content, built once and sent piece by piece into a     *)
(* socket that may be full at any moment.  A piece is a unit of data; the  *)
(* codes and texts are left out.  Content from a file (SetResource), which *)
(* no handler sends, is left out too.                                      *)
(*                                                                         *)
(* `wire` and `responses` are history variables: what went into the        *)
(* socket, and how many responses there were.                              *)
(***************************************************************************)
EXTENDS Integers, Sequences, SequencesExt

CONSTANTS LineSize, HeaderSize, ContentSize,   \* of every response
          Room                                 \* the socket's send buffer

ASSUME ResponseAssumption == {LineSize, HeaderSize, ContentSize, Room} \subseteq Nat \ {0}

VARIABLES
    size,       \* sizes of m_line, m_header and m_content
    built,      \* is_build
    part,       \* m_send_state
    done,       \* m_send_line_size, m_send_header_size, m_send_content_size
    room,       \* what the socket still takes
    wire, responses

response == <<size, built, part, done, room, wire, responses>>

Parts == {"line", "header", "content"}
Nothing == [p \in Parts |-> 0]
FullSize == [line |-> LineSize, header |-> HeaderSize, content |-> ContentSize]

ResponseInit ==
    /\ size = Nothing /\ built = FALSE
    /\ part = "line" /\ done = Nothing
    /\ room = Room
    /\ wire = << >> /\ responses = 0

\* SetContent
SetContent ==
    /\ size' = [size EXCEPT !["content"] = ContentSize]
    /\ responses' = responses + 1
    /\ UNCHANGED <<built, part, done, room, wire>>

\* A handler that sets none: m_content and m_content_size stay empty.
NoContent ==
    /\ responses' = responses + 1
    /\ UNCHANGED <<size, built, part, done, room, wire>>

\* Send() appends to the line and the header the first time it is called.
Build ==
    /\ size' = IF built THEN size
               ELSE [size EXCEPT !["line"] = @ + LineSize, !["header"] = @ + HeaderSize]
    /\ built' = TRUE
    /\ UNCHANGED <<part, done, room, wire, responses>>

\* One send() of the current part: as much of it as the socket takes.
Rest == size[part] - done[part]
Taken == IF room < Rest THEN room ELSE Rest
Units(p, from, to) == [k \in 1 .. to - from |-> <<responses, p, from + k>>]
SendCall ==
    /\ wire' = wire \o Units(part, done[part], done[part] + Taken)
    /\ done' = [done EXCEPT ![part] = @ + Taken]
    /\ room' = room - Taken

\* What sendLine(), sendHeader() and sendContent() return: -1 when nothing
\* was taken (of an empty content, nothing ever is), 0 when the part is out, and in between no value at all: the
\* caller finds one that is negative or one that is not.
Returns == CASE Taken = 0 -> {"failed"}
             [] Taken > 0 /\ Taken = Rest -> {"ok"}
             [] OTHER -> {"failed", "ok"}

\* faulty: a part that the socket cut is taken for sent
NextPartEager == CASE part = "line" -> "header"
                   [] part = "header" -> "content"
                   [] OTHER -> part
NextPart == CASE part = "line" /\ Taken > 0 /\ Taken = Rest -> "header"
              [] part = "header" /\ Taken > 0 /\ Taken = Rest -> "content"
              [] OTHER -> part

\* Response::init()
ResponseReset ==
    /\ size' = Nothing /\ built' = FALSE
    /\ part' = "line" /\ done' = Nothing
    /\ UNCHANGED <<room, wire, responses>>

\* The client reads.
Drain ==
    /\ \E r \in room + 1 .. Room : room' = r
    /\ UNCHANGED <<size, built, part, done, wire, responses>>

-----------------------------------------------------------------------------
\* What the i-th response is, and what is on the wire of it.
Whole(i) == [k \in 1 .. LineSize |-> <<i, "line", k>>]
              \o [k \in 1 .. HeaderSize |-> <<i, "header", k>>]
              \o [k \in 1 .. ContentSize |-> <<i, "content", k>>]
OnWire(i) == SelectSeq(wire, LAMBDA u : u[1] = i)
IsWhole(i) == OnWire(i) = Whole(i)
=============================================================================
