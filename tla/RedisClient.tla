---------------------------- MODULE RedisClient ----------------------------
(***************************************************************************)
(* One pooled Redis connection at work: CacheConn (RedisPool/CachePool.cpp)*)
(* over the blocking half of the vendored client (hiredis.c, net.c, read.c)*)
(* and a Redis server at the other end of a TCP connection.                *)
(*                                                                         *)
(* A CacheConn is held by one thread at a time (ConnPool proves it), so    *)
(* the actors are that thread, the server and the clock.  Bytes travel in  *)
(* pieces of any size; the server may close at any moment; a connection    *)
(* attempt may fail at any of its calls.                                   *)
(*                                                                         *)
(* Left out: EINTR and memory exhaustion, the contexts the program never   *)
(* opens (non-blocking, Unix sockets, a bound source address).             *)
(***************************************************************************)
EXTENDS RedisMethods

CONSTANTS Password,     \* m_password; <<>> when there is none
          Answers,      \* [kind -> the answers the server gives to such a command]
          Addresses,    \* how many addresses the host name has
          WritePieces,  \* bound: the sizes of a partial write
          MaxCalls,     \* bound: calls of CacheConn methods
          MaxClock      \* bound: seconds that pass

ASSUME BoundAssumption == MaxCalls \in Nat /\ MaxClock \in Nat /\ Addresses \in Nat \ {0}

VARIABLES ctx,        \* *m_pContext; `alive` is FALSE for the NULL pointer
          lastConnect,\* m_last_connect_time
          clock,      \* time(NULL)
          where,      \* where the call is: "idle", "issue", "write", "read", "deliver", ...
          stage,      \* the command in progress: "auth", "select" or "command"
          call,       \* the CacheConn method that runs
          reply,      \* what redisCommand returned; NoReply is NULL
          returned,   \* what the method returned
          srv,        \* the server's side of the connection
          answered,   \* history: the last command it answered, and the answer
          calls

clientVars == <<ctx, lastConnect, clock, where, stage, call, reply, returned, srv, answered, calls>>

----------------------------------------------------------------------------
(* The context, and net.c's way to a connected one.                        *)

NoContext == [alive |-> FALSE, fd |-> "closed", blocking |-> FALSE, err |-> "none",
              obuf |-> <<>>, reader |-> NewReader]
RedisContextInit == [NoContext EXCEPT !.alive = TRUE]
RedisSetError(c, e) == [c EXCEPT !.err = e]
CloseFd(c) == [c EXCEPT !.fd = "closed"]
Broken(c) == CloseFd(RedisSetError(c, "io"))

(* One attempt fails at the call `at` names, or nowhere: "none".           *)
FailurePoints == {"none", "socket", "nonblock", "unreachable", "refused", "poll", "late", "sockerr", "block", "nodelay"}
Unless(c, next) == IF c.err = "none" THEN next ELSE c

SetBlocking(c, b, fails) == IF fails THEN Broken(c) ELSE [c EXCEPT !.blocking = b]
SetTcpNoDelay(c, at) == IF at = "nodelay" THEN Broken(c) ELSE c
CheckSocketError(c, at) == IF at = "sockerr" THEN RedisSetError(c, "io") ELSE c
(* Reached with errno EINPROGRESS or with the error of a connect() that    *)
(* failed at once.                                                         *)
WaitReady(c, at) == IF at \in {"refused", "poll", "late"} THEN Broken(c) ELSE CheckSocketError(c, at)

(* The microseconds of a timeout must not exceed a second.                 *)
TimeoutMsec(sec, usec) == [ok |-> usec <= 1000000, msec |-> sec * 1000 + (usec + 999) \div 1000]

\* faulty: the socket stays non-blocking
TryAddressNonBlocking(c, at) ==
  LET opened == SetBlocking([c EXCEPT !.fd = "open"], FALSE, at = "nonblock")
      ready == Unless(opened, WaitReady(opened, at))
  IN Unless(ready, SetTcpNoDelay(ready, at))
TryAddress(c, at) ==
  LET opened == SetBlocking([c EXCEPT !.fd = "open"], FALSE, at = "nonblock")
      ready == Unless(opened, WaitReady(opened, at))
      blocking == Unless(ready, SetBlocking(ready, TRUE, at = "block"))
  IN Unless(blocking, SetTcpNoDelay(blocking, at))

(* An address without a socket or without a route is skipped, any other    *)
(* failure ends the loop.                                                  *)
ConnectTcp(c, resolves, fails) ==
  LET tried == {i \in DOMAIN fails : fails[i] \notin {"socket", "unreachable"}}
  IN IF ~TimeoutMsec(0, 1000000).ok THEN RedisSetError(c, "io")
     ELSE IF ~resolves \/ tried = {} THEN RedisSetError(c, "other")
     ELSE TryAddress(c, fails[Min(tried)])
ConnectWithTimeout(resolves, fails) == ConnectTcp(RedisContextInit, resolves, fails)

----------------------------------------------------------------------------
NoServer == [up |-> FALSE, quit |-> FALSE, reset |-> FALSE, in |-> <<>>, out |-> <<>>]
HungUp == [srv EXCEPT !.up = FALSE, !.in = <<>>, !.out = <<>>]
Nothing == [reply |-> NoReply, value |-> Reads(0, <<>>), why |-> "none"]
NoAnswer == [argv |-> <<>>, means |-> NoReply]
NoCall == Method(<<>>, <<>>, <<>>, "none", "free", "text")

ClientInit == /\ ctx = NoContext
              /\ lastConnect = 0 /\ clock = 1
              /\ where = "idle" /\ stage = "command" /\ call = NoCall
              /\ reply = NoReply /\ returned = Nothing
              /\ srv = NoServer /\ answered = NoAnswer
              /\ calls = 0

(* A method is called.  CacheConn::Init() comes first: a context is taken  *)
(* for a good one, a new one is tried once per second.                     *)
Enter(m) == where = "idle" /\ calls < MaxCalls /\ calls' = calls + 1 /\ call' = m /\ answered' = NoAnswer
GiveUp == where' = "idle" /\ returned' = [Nothing EXCEPT !.why = "init"]

CallWithContext(m) ==
  /\ Enter(m) /\ ctx.alive
  /\ where' = "issue" /\ stage' = "command" /\ returned' = Nothing
  /\ UNCHANGED <<ctx, lastConnect, clock, reply, srv>>

CallTooSoon(m) ==
  /\ Enter(m) /\ ~ctx.alive /\ clock < lastConnect + 1
  /\ GiveUp
  /\ UNCHANGED <<ctx, lastConnect, clock, stage, reply, srv>>

CallConnects(m) ==
  /\ Enter(m) /\ ~ctx.alive /\ clock >= lastConnect + 1
  /\ lastConnect' = clock
  /\ \E resolves \in BOOLEAN, fails \in [1..Addresses -> FailurePoints] :
       LET c == ConnectWithTimeout(resolves, fails)
       IN \/ /\ c.err # "none"
             /\ ctx' = NoContext /\ GiveUp /\ UNCHANGED <<stage, srv>>
          \/ /\ c.err = "none"
             /\ ctx' = c /\ srv' = [NoServer EXCEPT !.up = TRUE]
             /\ where' = "issue" /\ returned' = Nothing
             /\ stage' = IF Password = <<>> THEN "select" ELSE "auth"
  /\ UNCHANGED <<clock, reply>>

(* The command of the stage: the format walked, or the arguments as they   *)
(* are for redisCommandArgv.                                               *)
Words(words) == FoldLeft(LAMBDA acc, w : IF acc = <<>> THEN w ELSE acc \o <<SP>> \o w, <<>>, words)
Formatted(words, values) == FormatArguments(Words(words), values)
CommandAt(at, m) ==
  CASE at = "auth" -> Formatted(<<AUTH, S>>, <<Password>>)
    [] at = "select" -> Formatted(<<SELECT, D>>, <<0>>)
    [] at = "command" /\ m.words # <<>> -> Formatted(m.words, m.values)
    [] at = "command" /\ m.words = <<>> -> [ok |-> TRUE, argv |-> m.argv]
Command == CommandAt(stage, call)

(* redisGetReplyFromReader, and what redisGetReply does with the outcome:  *)
(* an error or a reply ends it, otherwise it goes on as `next` says.       *)
FromReader(c, next) ==
  LET got == GetReply(c.reader)
  IN [ctx |-> [c EXCEPT !.reader = got.r, !.err = IF got.r.err = "none" THEN @ ELSE got.r.err],
      reply |-> got.reply,
      where |-> IF got.r.err # "none" \/ got.reply # NoReply THEN "deliver" ELSE next]
Goto(step) == ctx' = step.ctx /\ reply' = step.reply /\ where' = step.where

(* redisvAppendCommand and the first look into the reader.                 *)
Issue ==
  /\ where = "issue"
  /\ IF Command.ok
     THEN Goto(FromReader([ctx EXCEPT !.obuf = @ \o Encode(Command.argv)], "write"))
     ELSE ctx' = RedisSetError(ctx, "other") /\ reply' = NoReply /\ where' = "deliver"
  /\ UNCHANGED <<lastConnect, clock, stage, call, returned, srv, answered, calls>>

(* redisBufferWrite.  A server that has closed accepts one more write and  *)
(* answers it with a reset; SIGPIPE is left at its default, so the next    *)
(* write ends the process.                                                 *)
BufferWrite ==
  /\ where = "write" /\ ctx.err = "none"
  /\ \E k \in (WritePieces \cap 1..Len(ctx.obuf)) \cup {Len(ctx.obuf)} :
       /\ ctx' = [ctx EXCEPT !.obuf = SubSeq(@, k + 1, Len(@))]
       /\ where' = IF k = Len(ctx.obuf) THEN "read" ELSE "write"
       /\ IF srv.up THEN srv' = [srv EXCEPT !.in = @ \o SubSeq(ctx.obuf, 1, k)]
          ELSE ~srv.reset /\ srv' = [srv EXCEPT !.reset = TRUE]
  /\ UNCHANGED <<lastConnect, clock, stage, call, reply, returned, answered, calls>>
BufferWriteFails ==
  /\ where = "write" /\ (ctx.err # "none" \/ srv.reset)
  /\ ctx' = IF ctx.err = "none" THEN RedisSetError(ctx, "io") ELSE ctx
  /\ where' = "deliver" /\ reply' = NoReply
  /\ UNCHANGED <<lastConnect, clock, stage, call, returned, srv, answered, calls>>
BufferWriteKilled ==
  /\ where = "write" /\ ctx.err = "none" /\ srv.reset
  /\ where' = "killed"
  /\ UNCHANGED <<ctx, lastConnect, clock, stage, call, reply, returned, srv, answered, calls>>

(* redisBufferRead: some of the bytes, the end of the stream, or, on a     *)
(* socket left non-blocking, an error.                                     *)
BufferRead ==
  /\ where = "read" /\ srv.out # <<>>
  /\ \E k \in 1..Len(srv.out) :
       /\ Goto(FromReader([ctx EXCEPT !.reader = Feed(@, SubSeq(srv.out, 1, k))], "read"))
       /\ srv' = [srv EXCEPT !.out = SubSeq(@, k + 1, Len(@))]
  /\ UNCHANGED <<lastConnect, clock, stage, call, returned, answered, calls>>
BufferReadFails ==
  /\ where = "read" /\ srv.out = <<>> /\ (~srv.up \/ ~ctx.blocking)
  /\ ctx' = RedisSetError(ctx, IF srv.up THEN "io" ELSE "eof")
  /\ where' = "deliver" /\ reply' = NoReply
  /\ UNCHANGED <<lastConnect, clock, stage, call, returned, srv, answered, calls>>

(* Init() on the replies to AUTH and SELECT: a failure returns with the    *)
(* context still there.  No reply at all to SELECT falls off the end of    *)
(* Init(), which is 0 in the project's Debug build: the method goes on     *)
(* over the failed context.                                                *)
AfterAuth ==
  /\ where = "deliver" /\ stage = "auth"
  /\ IF reply = NoReply \/ reply.type = "error" THEN GiveUp /\ UNCHANGED stage
     ELSE where' = "issue" /\ stage' = "select" /\ UNCHANGED returned
  /\ UNCHANGED <<ctx, lastConnect, clock, call, reply, srv, answered, calls>>
AfterSelect ==
  /\ where = "deliver" /\ stage = "select"
  /\ IF reply = NoReply \/ (reply.type = "status" /\ SubSeq(reply.str, 1, 2) = OKText)
     THEN where' = "issue" /\ stage' = "command" /\ UNCHANGED returned
     ELSE GiveUp /\ UNCHANGED stage
  /\ UNCHANGED <<ctx, lastConnect, clock, call, reply, srv, answered, calls>>

(* The method on its own reply.  A NULL reply frees the context in most    *)
(* methods, is kept in one, and is dereferenced in the Zset methods.       *)
Returns ==
  /\ where = "deliver" /\ stage = "command" /\ reply # NoReply
  /\ where' = "idle" /\ returned' = [reply |-> reply, value |-> Value(call.ret, reply), why |-> "none"]
  /\ UNCHANGED <<ctx, lastConnect, clock, stage, call, reply, srv, answered, calls>>
ReturnsFailure ==
  /\ where = "deliver" /\ stage = "command" /\ reply = NoReply
  /\ returned' = [Nothing EXCEPT !.why = ctx.err]
  /\ where' = IF call.null = "crash" THEN "crashed" ELSE "idle"
  /\ IF call.null = "free" THEN ctx' = NoContext /\ srv' = HungUp ELSE UNCHANGED <<ctx, srv>>
  /\ UNCHANGED <<lastConnect, clock, stage, call, reply, answered, calls>>

----------------------------------------------------------------------------
(* The Redis server and the clock.                                         *)

Kinds(argv) == IF argv[1] \in {AUTH, SELECT} THEN {"status", "error"}
               ELSE {m.kind : m \in {other \in Methods : other.argv[1] = argv[1]}} \cup {"error"}

(* The server speaks the protocol: a command is whole for it only at its   *)
(* last byte, and then it is the command that was asked for.               *)
ASSUME CommandsAssumption ==
  \A at \in {"auth", "select", "command"}, m \in Methods :
    LET command == CommandAt(at, m)
        bytes == Encode(command.argv)
    IN /\ command.ok
       /\ at = "command" => command.argv = m.argv
       /\ bytes \in Seq(Nat) \ {<<>>}
       /\ \A n \in 0..Len(bytes) - 1 : ServerReads(SubSeq(bytes, 1, n)).used = 0
       /\ ServerReads(bytes) = [used |-> Len(bytes), argv |-> command.argv]

(* What an answer means is what a new reader makes of its bytes when they  *)
(* come in one piece: one reply and nothing behind it, or a protocol error.*)
ASSUME AnswersAssumption ==
  \A kind \in {"status", "error"} \cup {m.kind : m \in Methods} : \A a \in Answers[kind] :
    LET got == GetReply(Feed(NewReader, a.bytes))
    IN /\ a.bytes \in Seq(Nat) \ {<<>>}
       /\ a.means = NoReply => got.r.err = "protocol"
       /\ a.means # NoReply => got.r.err = "none" /\ got.reply = a.means /\ Unread(got.r) = <<>>

ServerAnswers ==
  /\ srv.up /\ srv.in # <<>>
  /\ LET read == ServerReads(srv.in)
     IN /\ read.used > 0
        /\ \E kind \in Kinds(read.argv) : \E a \in Answers[kind] :
             /\ srv' = [srv EXCEPT !.in = SubSeq(@, read.used + 1, Len(@)), !.out = @ \o a.bytes]
             /\ answered' = [argv |-> read.argv, means |-> a.means]
  /\ UNCHANGED <<ctx, lastConnect, clock, where, stage, call, reply, returned, calls>>
ServerCloses ==
  /\ srv.up /\ where \notin {"crashed", "killed"}
  /\ \E arrives \in {srv.out, <<>>} : srv' = [NoServer EXCEPT !.quit = TRUE, !.out = arrives]
  /\ UNCHANGED <<ctx, lastConnect, clock, where, stage, call, reply, returned, answered, calls>>
Tick ==
  /\ clock < MaxClock /\ clock' = clock + 1 /\ where = "idle"
  /\ UNCHANGED <<ctx, lastConnect, where, stage, call, reply, returned, srv, answered, calls>>

Thread == Issue \/ BufferWrite \/ BufferWriteFails \/ BufferWriteKilled \/ BufferRead \/ BufferReadFails
          \/ AfterAuth \/ AfterSelect \/ Returns \/ ReturnsFailure
Caller == \E m \in Methods : CallWithContext(m) \/ CallTooSoon(m) \/ CallConnects(m)
ClientNext == Thread \/ Caller \/ ServerAnswers \/ ServerCloses \/ Tick

ClientSpec == ClientInit /\ [][ClientNext]_clientVars

----------------------------------------------------------------------------

(* However the bytes were cut, and whatever went wrong on the context      *)
(* before: a reply a method reads is the reply the server gave to the very *)
(* command of this call, with its arguments whole and in order.            *)
ReplyIsMine ==
  returned.reply # NoReply =>
    /\ answered = [argv |-> call.argv, means |-> returned.reply]
    /\ returned.value = Value(call.ret, answered.means)

(* A method fails for a reason: a protocol error only after an answer that *)
(* is no reply, any other error only when the server has closed.           *)
FailsForAReason ==
  where \in {"idle", "crashed"} =>
    /\ returned.why = "protocol" => answered.means = NoReply
    /\ returned.why \in {"io", "eof"} => srv.quit

(* The read has no timeout, so the thread must never wait in vain: while   *)
(* it waits on an open connection with nothing to read, a whole command    *)
(* lies at the server, and nothing that has arrived is a reply it did not  *)
(* see.                                                                    *)
NeverWaitsInVain ==
  where = "read" /\ srv.up /\ srv.out = <<>> => ServerReads(srv.in).used = Len(srv.in) /\ srv.in # <<>>

=============================================================================
