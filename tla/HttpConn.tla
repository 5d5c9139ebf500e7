------------------------------ MODULE HttpConn ------------------------------
(***************************************************************************)
(* One HTTP connection (httpconn/httpconn.cc): the ring buffer that Read() *)
(* fills and the state machine of process_read() empties.                  *)
(*                                                                         *)
(* A line without its CR LF is one item, as is a byte of a body; the       *)
(* client's bytes still arrive in segments cut anywhere between items.     *)
(* The client sends its requests one by one, each after the whole response *)
(* to the one before; a line of one may hold a CR of its own, a body may   *)
(* be longer than the ring, and a path may have no handler. Reactor shows  *)
(* that a connection has one owner at a time, so process_read() runs       *)
(* alone, one action per turn of its loop, and so does Send()              *)
(* (HttpResponse), one action per send(), while more bytes may reach the   *)
(* socket.                                                                 *)
(*                                                                         *)
(* `heard`, `overrun` and `pieced` are history variables: the body of      *)
(* every request handled, whether unread bytes were overwritten, and       *)
(* whether a body came in pieces.                                          *)
(***************************************************************************)
EXTENDS HttpResponse

CONSTANTS Size,            \* READ_BUFFER_SIZE
          Conversations,   \* sequences of requests a client may make
          Splits           \* those in which a segment may end inside a body

ASSUME HttpConnAssumption ==
    /\ Size \in Nat \ {0}
    /\ \A c \in Conversations : c \in Seq([body : Nat, keep : BOOLEAN, lone : BOOLEAN, known : BOOLEAN])
    /\ Splits \subseteq Conversations

VARIABLES
    requests,    \* the client's conversation
    sent,        \* items of it sent so far
    arrived,     \* items of it read from the socket so far
    ring, head, tail, sum,      \* read_buffer, m_read_head, m_read_tail, m_sum_size
    text,        \* the line being parsed
    check,       \* m_check_state
    contentLen,  \* m_content_len
    curLen,      \* m_cur_content_len
    content,     \* m_content
    long,        \* m_long_linker
    pc,          \* "wait" for input, "parse", "respond", "bad" request,
                 \* "armed" for output, "send", "sent", "closed"
    heard, overrun, pieced

client == <<requests, sent>>
buffer == <<arrived, ring, head, tail, sum>>
parser == <<text, check, contentLen, curLen, content, long>>
conn   == <<client, buffer, parser, pc, heard, overrun, pieced>>
vars   == <<conn, response>>

-----------------------------------------------------------------------------
\* What the client sends.

CR == <<"cr">>
LF == <<"lf">>
CRLF == <<CR, LF>>
RequestLine == <<"request">>
ContentLength(n) == <<"length", n>>
KeepAlive == <<"keep">>
LoneCR == <<"lone">>
Body(i, n) == [j \in 1 .. n |-> <<"byte", i, j>>]

Encode(i, r) ==
    <<RequestLine>> \o CRLF
      \o (IF r.body > 0 THEN <<ContentLength(r.body)>> \o CRLF ELSE << >>)
      \o (IF r.keep THEN <<KeepAlive>> \o CRLF ELSE << >>)
      \o (IF r.lone THEN <<LoneCR>> \o <<CR>> \o CRLF ELSE << >>)
      \o CRLF \o Body(i, r.body)

Stream == FlattenSeq([i \in DOMAIN requests |-> Encode(i, requests[i])])

\* The length of the first k requests.
End(k) == Len(FlattenSeq([i \in 1 .. k |-> Encode(i, requests[i])]))

Current == Len(heard) + 1
InsideBody(n) ==
    /\ n > End(Current) - requests[Current].body
    /\ n < End(Current)

-----------------------------------------------------------------------------
\* n items of the ring from head.
Ring(n) == [i \in 1 .. n |-> ring[(head + i - 1) % Size]]

Init ==
    /\ requests \in Conversations
    /\ sent = 0 /\ arrived = 0
    /\ ring = [i \in 0 .. Size - 1 |-> <<"none">>]
    /\ head = 0 /\ tail = 0 /\ sum = 0
    /\ text = << >> /\ check = "line"
    /\ contentLen = 0 /\ curLen = 0 /\ content = << >>
    /\ long = FALSE
    /\ pc = "wait" /\ heard = << >> /\ overrun = FALSE /\ pieced = FALSE
    /\ ResponseInit

-----------------------------------------------------------------------------
\* The client sends n more items of the request whose turn it is.
Send(n) ==
    /\ Current <= Len(requests) /\ pc # "closed"
    /\ Len(heard) > 0 => IsWhole(Len(heard))
    /\ sent + n <= End(Current)
    /\ InsideBody(sent + n) => requests \in Splits
    /\ sent' = sent + n
    /\ UNCHANGED <<requests, buffer, parser, pc, heard, overrun, pieced, response>>

\* faulty: what wraps is written one cell too far
ReadWrapsLate ==
    /\ pc = "wait" /\ arrived < sent
    /\ LET n == sent - arrived
           at(j) == IF tail + j < Size THEN tail + j ELSE (tail + j + 1) % Size
       IN  /\ ring' = [i \in 0 .. Size - 1 |->
                         IF \E j \in 0 .. n - 1 : at(j) = i
                           THEN Stream[arrived + 1 + CHOOSE j \in 0 .. n - 1 : at(j) = i]
                           ELSE ring[i]]
           /\ tail' = (tail + n) % Size
           /\ sum' = sum + n
           /\ arrived' = sent
    /\ pc' = "parse"
    /\ overrun' = (overrun \/ sent - arrived > Size - sum)
    /\ UNCHANGED <<client, head, parser, heard, pieced, response>>

\* Read(), then the push that an empty buffer prevents.  A full buffer reads
\* nothing; otherwise recv() goes on until the socket is empty, from the
\* tail round the ring, whether there is room or not: of two items for the
\* same cell the later one stays.
Read ==
    /\ pc = "wait" /\ arrived < sent
    /\ IF sum >= Size
         THEN UNCHANGED buffer
         ELSE LET n == sent - arrived
                  \* offsets that fall on cell i
                  on(i) == {j \in 0 .. n - 1 : (tail + j) % Size = i}
              IN  /\ ring' = [i \in 0 .. Size - 1 |->
                                IF on(i) = {} THEN ring[i]
                                ELSE Stream[arrived + 1 + Max(on(i))]]
                  /\ tail' = (tail + n) % Size
                  /\ sum' = sum + n
                  /\ arrived' = sent
                  /\ UNCHANGED head
    /\ pc' = "parse"
    /\ overrun' = (overrun \/ (sum < Size /\ sent - arrived > Size - sum))
    /\ UNCHANGED <<client, parser, heard, pieced, response>>

-----------------------------------------------------------------------------
\* parse_line(): the text before the first CR is a line if LF follows it.
LineLen == SelectInSeq(Ring(sum), LAMBDA x : x = CR) - 1
LineOK == LineLen >= 0 /\ LineLen + 1 < sum /\ Ring(sum)[LineLen + 2] = LF

Consume(n) ==
    /\ head' = (head + n) % Size
    /\ sum' = sum - n

\* read_line() appends the line to `text`, an empty one as CR LF.
Line == text \o (IF LineLen = 0 THEN CRLF ELSE Ring(LineLen))

\* CHECK_STATE_REQUESTLINE.  Anything before the method, the CR LF that an
\* earlier request left in `text` for one, makes a bad request.
ParseRequestLine ==
    /\ pc = "parse" /\ check = "line" /\ LineOK
    /\ Consume(LineLen + 2)
    /\ IF Line = <<RequestLine>>
         THEN check' = "header" /\ text' = << >> /\ UNCHANGED pc
         ELSE pc' = "bad" /\ text' = Line /\ UNCHANGED check
    /\ UNCHANGED <<client, arrived, ring, tail, contentLen, curLen, content, long, heard, overrun, pieced, response>>

\* CHECK_STATE_HEADER, a header line
ParseHeader ==
    /\ pc = "parse" /\ check = "header" /\ LineOK /\ Line # CRLF
    /\ Consume(LineLen + 2)
    /\ contentLen' = IF Line[1][1] = "length" THEN Line[1][2] ELSE contentLen
    /\ long' = (long \/ Line = <<KeepAlive>>)
    /\ text' = << >>
    /\ UNCHANGED <<client, arrived, ring, tail, check, curLen, content, pc, heard, overrun, pieced, response>>

\* CHECK_STATE_HEADER, the empty line.  GET_REQUEST leaves it in `text`.
ParseBlank ==
    /\ pc = "parse" /\ check = "header" /\ LineOK /\ Line = CRLF
    /\ Consume(LineLen + 2)
    /\ IF contentLen # 0
         THEN check' = "content" /\ text' = << >> /\ UNCHANGED pc
         ELSE pc' = "respond" /\ text' = Line /\ UNCHANGED check
    /\ UNCHANGED <<client, arrived, ring, tail, contentLen, curLen, content, long, heard, overrun, pieced, response>>

\* faulty: a piece is not counted
ReadContentPartUncounted ==
    /\ pc = "parse" /\ check = "content" /\ sum > 0
    /\ LET len == contentLen - curLen IN len < 0 \/ len > sum
    /\ content' = content \o Ring(sum)
    /\ sum' = 0
    /\ pieced' = TRUE
    /\ pc' = "wait"
    /\ UNCHANGED <<client, arrived, ring, head, tail, text, check, contentLen, curLen,
                   long, heard, overrun, response>>

\* ReadContent() when less than the rest of the body is there.  The rest is
\* compared as an unsigned number, so a negative one counts as large.  The
\* head stays where it is: sum is cleared before it is added.
ReadContentPart ==
    /\ pc = "parse" /\ check = "content" /\ sum > 0
    /\ LET len == contentLen - curLen IN len < 0 \/ len > sum
    /\ content' = content \o Ring(sum)
    /\ curLen' = curLen + sum
    /\ sum' = 0
    /\ pieced' = TRUE
    /\ pc' = "wait"
    /\ UNCHANGED <<client, arrived, ring, head, tail, text, check, contentLen, long, heard, overrun, response>>

\* ReadContent() when all of it is there
ReadContentRest ==
    /\ pc = "parse" /\ check = "content" /\ sum > 0
    /\ LET len == contentLen - curLen
       IN  /\ len \in 0 .. sum
           /\ content' = content \o Ring(len)
           /\ curLen' = curLen + len
           /\ Consume(len)
    /\ pc' = "respond"
    /\ UNCHANGED <<client, arrived, ring, tail, text, check, contentLen, long, heard, overrun, pieced, response>>

\* NO_REQUEST: no whole line, or a body of which nothing is there.
NoRequest ==
    /\ pc = "parse"
    /\ IF check = "content" THEN sum = 0 ELSE ~LineOK
    /\ pc' = "wait"
    /\ UNCHANGED <<client, buffer, parser, heard, overrun, pieced, response>>

\* faulty: the body is kept
ResetKeepsContent ==
    /\ check' = "line" /\ contentLen' = 0
    /\ UNCHANGED <<content, curLen, text, long>>

\* httpconn::init(), which leaves m_cur_content_len, m_long_linker and text
Reset ==
    /\ check' = "line" /\ contentLen' = 0 /\ content' = << >>
    /\ UNCHANGED <<curLen, text, long>>

-----------------------------------------------------------------------------
\* handle_business(): the handler of the path takes the body and sets the
\* content of the response; a path without a handler leaves it empty.  (The
\* response to a bad request has none either, see Reactor.)
Business ==
    /\ pc = "respond"
    /\ heard' = Append(heard, content)
    /\ IF requests[Current].known THEN SetContent ELSE NoContent
    /\ pc' = "armed"
    /\ UNCHANGED <<client, buffer, parser, overrun, pieced>>

\* epoll reports the socket writable: write_cb calls Response::Send().
StartWrite ==
    /\ pc = "armed" /\ room > 0
    /\ Build
    /\ pc' = "send"
    /\ UNCHANGED <<client, buffer, parser, heard, overrun, pieced>>

\* One turn of the loop of Send().  A part that is cut off returns anything:
\* another turn follows, or the socket is armed again; for the content, Send()
\* may report that it is out.
SendPiece ==
    /\ pc = "send"
    /\ SendCall
    /\ part' = NextPart
    /\ \E ret \in Returns :
         pc' = CASE ret = "failed" -> "armed"
                 [] ret = "ok" /\ part = "content" -> "sent"
                 [] OTHER -> "send"
    /\ UNCHANGED <<size, built, responses, client, buffer, parser, heard, overrun, pieced>>

\* write_cb once Send() has reported success
WriteDone ==
    /\ pc = "sent"
    /\ Reset
    /\ ResponseReset
    /\ pc' = IF long THEN "wait" ELSE "closed"
    /\ UNCHANGED <<client, buffer, heard, overrun, pieced>>

ClientReads == Drain /\ UNCHANGED conn

Parse == \/ ParseRequestLine \/ ParseHeader \/ ParseBlank
         \/ ReadContentPart \/ ReadContentRest \/ NoRequest

Next == \/ \E n \in 1 .. Len(Stream) : Send(n)
        \/ Read \/ Parse
        \/ Business \/ StartWrite \/ SendPiece \/ WriteDone
        \/ ClientReads

Spec == Init /\ [][Next]_vars

\* The client goes on sending and reading, the reactor and the worker working.
Fairness ==
    /\ WF_vars(\E n \in 1 .. Len(Stream) : Send(n))
    /\ WF_vars(Read) /\ WF_vars(Parse)
    /\ WF_vars(Business) /\ WF_vars(StartWrite) /\ WF_vars(SendPiece) /\ WF_vars(WriteDone)
    /\ WF_vars(ClientReads)

FairSpec == Spec /\ Fairness
-----------------------------------------------------------------------------
(* Properties *)

\* read_buffer is a FIFO: what is unread in it is what the client sent last,
\* in order, wherever it wraps, until one of two things happens: a body comes
\* in pieces, and ReadContentPart leaves the head behind; or a segment is
\* longer than the free space, and Read() writes over what is unread.
RingHoldsStream ==
    ~overrun /\ ~pieced =>
      Ring(sum) = [i \in 1 .. sum |-> Stream[arrived - sum + i]]

\* The handlers get the bodies of the client's requests, in order and whole.
BodiesArrive ==
    heard = [i \in 1 .. Len(heard) |-> Body(i, requests[i].body)]

\* The connection carries a second body: init() leaves m_cur_content_len at
\* the length of the first.
SecondBody == \E k \in 2 .. Len(requests) : requests[k - 1].body > 0 /\ requests[k].body > 0

\* They do until a body comes in pieces (ReadContentPart clears the sum
\* before the head moves by it) or overruns the ring, unless the connection
\* carries a second body.
HeardWhatWasSaid == ~overrun /\ ~pieced /\ ~SecondBody => BodiesArrive

\* The i-th response is no longer being sent, and the client has not all of it.
CutShort(i) ==
    /\ i < responses \/ pc \notin {"armed", "send"}
    /\ ~IsWhole(i)

\* The unit v may come behind u on the wire: it is the next of the same
\* response, or the first of the next one if u is of a content.
Follows(u, v) ==
    \/ u[3] < FullSize[u[2]] /\ v = <<u[1], u[2], u[3] + 1>>
    \/ u[2] = "line" /\ u[3] = LineSize /\ v = <<u[1], "header", 1>>
    \/ u[2] = "header" /\ u[3] = HeaderSize /\ v = <<u[1], "content", 1>>
    \/ u[2] = "content" /\ v = <<u[1] + 1, "line", 1>>

Chained(w) ==
    /\ w # << >> => w[1] = <<1, "line", 1>>
    /\ \A k \in 2 .. Len(w) : Follows(w[k - 1], w[k])

\* The client reads the responses one after the other, each with its parts in
\* order, nothing twice and nothing missing, however often the socket is full
\* and Send() begins again.  Only the end of a content can be missing: a
\* sendContent() that the socket cut may look like success.
ResponsesInOrder ==
    /\ Chained(wire)
    /\ responses > 0 /\ pc \notin {"armed", "send"} =>
         wire # << >> /\ Last(wire)[1] = responses /\ Last(wire)[2] = "content"

\* What an answered request leaves to the next one: one without a body its
\* CR LF in `text`, and a body in pieces, which a second body shorter than the
\* first is taken for, a head that lags behind.
LeftBehind ==
    /\ Len(heard) \in 1 .. Len(requests) - 1
    /\ IsWhole(Len(heard))
    /\ requests[Len(heard)].body = 0 \/ pieced

\* The handler's path was unknown: sendContent() finds no content to send and
\* fails every time.
Contentless == Len(heard) > 0 /\ ~requests[Len(heard)].known

\* Every request gets its whole response in the end, however it is cut into
\* segments, unless it overruns the ring, has a CR in a line (parse_line()
\* finds no line in the buffer ever after), comes behind one that left
\* something behind, has an unknown path, or its response was cut short.
AllAnswered ==
    <>(\/ Len(heard) = Len(requests) /\ IsWhole(Len(heard))
       \/ overrun
       \/ Current <= Len(requests) /\ requests[Current].lone
       \/ LeftBehind \/ Contentless
       \/ \E i \in 1 .. responses : CutShort(i))
=============================================================================
