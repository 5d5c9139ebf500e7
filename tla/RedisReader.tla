---------------------------- MODULE RedisReader ----------------------------
(***************************************************************************)
(* The reply side of the Redis client the server is built with: the reply  *)
(* objects of RedisPool/hiredis.c and the incremental parser of            *)
(* RedisPool/read.c.  A byte is its code; a buffer is a sequence of bytes  *)
(* that may end anywhere, inside a number, a CRLF or a body.               *)
(*                                                                         *)
(* The module has no variables: a reader is a record, Feed and GetReply    *)
(* map a reader to the reader after the call.  What read.c does to an      *)
(* element depends on the bytes that are unread, never on the place in the *)
(* buffer where they lie; the handlers are functions of those bytes.       *)
(***************************************************************************)
EXTENDS Integers, Sequences, SequencesExt, FiniteSetsExt

CONSTANTS LLongMax,   \* LLONG_MAX, scaled
          IntMax,     \* INT_MAX, scaled
          StackTop,   \* the deepest ridx: 8 in read.c, whose stack has nine tasks
          DiscardAt   \* 1024: consumed bytes are dropped from the buffer then

ASSUME WidthAssumption == LLongMax \in Nat /\ IntMax \in 0..LLongMax
ASSUME StackAssumption == StackTop \in Nat \ {0} /\ DiscardAt \in Nat \ {0}

CR == 13
LF == 10
SP == 32
PLUS == 43
MINUS == 45
COLON == 58
DOLLAR == 36
STAR == 42
ZERO == 48
IsDigit(b) == b \in ZERO..(ZERO + 9)
CRLF == <<CR, LF>>

----------------------------------------------------------------------------
(* Reply objects.  NoReply is the NULL pointer.                            *)

ReplyObject(type) == [type |-> type, str |-> <<>>, integer |-> 0, element |-> <<>>]
NoReply == ReplyObject("null")
StringObject(type, bytes) == [ReplyObject(type) EXCEPT !.str = bytes]
ArrayObject(n) == [ReplyObject("array") EXCEPT !.element = [i \in 1..n |-> NoReply]]
IntegerObject(v) == [ReplyObject("integer") EXCEPT !.integer = v]
NilObject == ReplyObject("nil")

(* parent->element[task->idx] = r, or r->reply = obj for the root.         *)
Attach(root, path, obj) ==
  LET array[d \in 0..Len(path)] ==     \* the array d levels down the path
        IF d = 0 THEN root ELSE array[d - 1].element[path[d]]
      built[d \in 0..Len(path)] ==
        IF d = Len(path) THEN obj ELSE [array[d] EXCEPT !.element[path[d + 1]] = built[d + 1]]
  IN built[0]

----------------------------------------------------------------------------
(* The reader.  stack[k] is rstack[k-1]; ridx = -1 is the empty stack.     *)

Task(idx) == [type |-> "unread", elements |-> -1, idx |-> idx]
NewReader == [buf |-> <<>>, pos |-> 0, stack |-> <<>>, reply |-> NoReply, err |-> "none"]

SetError(r, e) == [NewReader EXCEPT !.err = e]

Top(stack) == stack[Len(stack)]
Path(stack) == [k \in 1..Len(stack) - 1 |-> stack[k + 1].idx + 1]
Unread(r) == SubSeq(r.buf, r.pos + 1, Len(r.buf))

(* seekNewline: where the first CRLF starts, 0 when there is none.  A CR   *)
(* at the very end is not one yet.                                         *)
SeekNewline(u) ==
  LET ends == {i \in 1..Len(u) - 1 : u[i] = CR /\ u[i + 1] = LF}
  IN IF ends = {} THEN 0 ELSE Min(ends)

(* readLine                                                                *)
Line(u) == SubSeq(u, 1, SeekNewline(u) - 1)

(* string2ll: exactly the decimal numerals of a long long, no spaces, no   *)
(* leading zero.                                                           *)
String2ll(s) ==
  LET neg == s # <<>> /\ Head(s) = MINUS
      digits == IF neg THEN Tail(s) ELSE s
      v == FoldLeft(LAMBDA acc, b : 10 * acc + (b - ZERO), 0, digits)
  IN [ok |-> /\ digits # <<>>
             /\ \A i \in DOMAIN digits : IsDigit(digits[i])
             /\ digits[1] = ZERO => s = <<ZERO>>
             /\ v \in 0..(LLongMax + (IF neg THEN 1 ELSE 0)),
      value |-> IF neg THEN -v ELSE v]

(* moveToNextTask: pop every task that was the last element of its parent; *)
(* the task left on top is reset for the next element.                     *)
MoveToNextTask(stack) ==
  LET open == {k \in 2..Len(stack) : stack[k].idx # stack[k - 1].elements - 1}
      k == Max(open)
  IN IF open = {} THEN <<>>
     ELSE [SubSeq(stack, 1, k) EXCEPT ![k] = Task(@.idx + 1)]

----------------------------------------------------------------------------
(* What becomes of the element on top of the stack: it needs more bytes    *)
(* (REDIS_ERR without setting r->err), it is no reply, it is an object made*)
(* of `used` bytes, or it opens an array.                                  *)

Waits == [is |-> "incomplete", used |-> 0, obj |-> NoReply]
Fails == [is |-> "wrong", used |-> 0, obj |-> NoReply]
Makes(obj, used) == [is |-> "object", used |-> used, obj |-> obj]
Opens(n, used) == [is |-> "array", used |-> used, obj |-> ArrayObject(n)]

(* processLineItem: integer, status and error replies.                     *)
ProcessLineItem(u, type) ==
  LET end == SeekNewline(u)
      number == String2ll(Line(u))
  IN CASE end = 0 -> Waits
       [] end # 0 /\ type # "integer" -> Makes(StringObject(type, Line(u)), end + 1)
       [] end # 0 /\ type = "integer" /\ number.ok -> Makes(IntegerObject(number.value), end + 1)
       [] end # 0 /\ type = "integer" /\ ~number.ok -> Fails

(* processBulkItem: nothing is consumed until the whole body and the CRLF  *)
(* behind it are in the buffer.                                            *)
BulkIsThere(u, len) == SeekNewline(u) + 1 + len + 2 <= Len(u)
ProcessBulkItem(u) ==
  LET end == SeekNewline(u)
      len == String2ll(Line(u))
      body == SubSeq(u, end + 2, end + 1 + len.value)
  IN CASE end = 0 -> Waits
       [] end # 0 /\ (~len.ok \/ len.value < -1) -> Fails
       [] end # 0 /\ len.ok /\ len.value = -1 -> Makes(NilObject, end + 1)
       [] end # 0 /\ len.ok /\ len.value >= 0 /\ ~BulkIsThere(u, len.value) -> Waits
       [] end # 0 /\ len.ok /\ len.value >= 0 /\ BulkIsThere(u, len.value) ->
            Makes(StringObject("string", body), end + 1 + len.value + 2)

(* processMultiBulkItem: the stack holds StackTop nested levels.           *)
ProcessMultiBulkItem(u, depth) ==
  LET end == SeekNewline(u)
      n == String2ll(Line(u))
  IN CASE depth = StackTop + 1 -> Fails
       [] depth # StackTop + 1 /\ end = 0 -> Waits
       [] depth # StackTop + 1 /\ end # 0 /\ (~n.ok \/ n.value < -1 \/ n.value > IntMax) -> Fails
       [] depth # StackTop + 1 /\ end # 0 /\ n.ok /\ n.value = -1 -> Makes(NilObject, end + 1)
       [] depth # StackTop + 1 /\ end # 0 /\ n.ok /\ n.value = 0 -> Makes(ArrayObject(0), end + 1)
       [] depth # StackTop + 1 /\ end # 0 /\ n.ok /\ n.value \in 1..IntMax -> Opens(n.value, end + 1)

TypeOfByte(b) == CASE b = MINUS -> "error" [] b = PLUS -> "status" [] b = COLON -> "integer"
                   [] b = DOLLAR -> "string" [] b = STAR -> "array" [] OTHER -> "unknown"
ProcessTyped(u, type, depth) ==
  CASE type \in {"error", "status", "integer"} -> ProcessLineItem(u, type)
    [] type = "string" -> ProcessBulkItem(u)
    [] type = "array" -> ProcessMultiBulkItem(u, depth)
    [] OTHER -> Fails

----------------------------------------------------------------------------
(* The step of the loop, and whether it goes on.  An object is put in its  *)
(* place; an array pushes a task for its first element.                    *)
Stays(r) == [more |-> FALSE, r |-> r]
Goes(r) == [more |-> TRUE, r |-> r]
Take(r, item) ==
  LET placed == [r EXCEPT !.pos = @ + item.used, !.reply = Attach(@, Path(r.stack), item.obj)]
      opened == [r.stack EXCEPT ![Len(r.stack)].elements = Len(item.obj.element)]
  IN CASE item.is = "incomplete" -> Stays(r)
       [] item.is = "wrong" -> Stays(SetError(r, "protocol"))
       [] item.is = "object" -> Goes([placed EXCEPT !.stack = MoveToNextTask(@)])
       [] item.is = "array" -> Goes([placed EXCEPT !.stack = Append(opened, Task(0))])

(* processItem: the type byte is read once and kept in the task, so that a *)
(* later call resumes behind it.                                           *)
Typed(r) ==
  IF Top(r.stack).type # "unread" THEN r
  ELSE [r EXCEPT !.pos = @ + 1, !.stack[Len(r.stack)].type = TypeOfByte(Head(Unread(r)))]
ProcessItem(r) ==
  LET typed == Typed(r)
  IN IF Top(r.stack).type = "unread" /\ Unread(r) = <<>> THEN Stays(r)
     ELSE Take(typed, ProcessTyped(Unread(typed), Top(typed.stack).type, Len(typed.stack)))

(* redisReaderFeed                                                         *)
Feed(r, bytes) == IF r.err # "none" THEN r ELSE [r EXCEPT !.buf = @ \o bytes]

(* redisReaderGetReply: the reader after the call and the reply it emits.  *)
(* The loop consumes a byte in every turn that goes on.                    *)
Turn(s) == IF s.more /\ s.r.stack # <<>> THEN ProcessItem(s.r) ELSE s
ProcessItems(r) ==
  LET after[n \in 0..Len(Unread(r)) + 1] == IF n = 0 THEN Goes(r) ELSE Turn(after[n - 1])
  IN after[Len(Unread(r)) + 1].r

\* faulty: the position is not moved with the bytes
DiscardBytes(r) == IF r.pos >= DiscardAt THEN [r EXCEPT !.buf = Unread(r)] ELSE r
Discard(r) == IF r.pos >= DiscardAt THEN [r EXCEPT !.buf = Unread(r), !.pos = 0] ELSE r

Emit(r) == IF r.err = "none" /\ r.stack = <<>> THEN [r |-> [r EXCEPT !.reply = NoReply], reply |-> r.reply]
           ELSE [r |-> r, reply |-> NoReply]
\* faulty: every call starts a new reply
StartedAnew(r) == [r EXCEPT !.stack = <<Task(-1)>>]
Started(r) == IF r.stack = <<>> THEN [r EXCEPT !.stack = <<Task(-1)>>] ELSE r
GetReply(r) == IF r.err # "none" \/ r.buf = <<>> THEN [r |-> r, reply |-> NoReply]
               ELSE Emit(Discard(ProcessItems(Started(r))))
=============================================================================
