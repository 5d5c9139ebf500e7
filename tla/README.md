# TinyServer in TLA+

A verification project for `src/TinyServer`: an HTTP server that keeps users'
files ("cloud disk").  An epoll loop accepts connections and reads requests, a
pool of threads parses and answers them, the answers come from MySQL and Redis
through two kinds of connection pools, and a log is written behind the
server's back.  The build compiles the Redis client (hiredis) and the JSON
library (jsoncpp) from the tree, so they are parts of the program too.  The
modules here model that code as it is, TLC checks them on small instances, and
TLAPS proves the main invariants for every size.

## 1. Inventory

| part | state | operations | talks to |
|---|---|---|---|
| thread pool, `threadpool/threadpool.hpp` | ring of task pointers (`head`, `tail`, `cur_count`), `close`, `started`, a mutex, a condition variable | `push`, `routine`, the destructor | reactor thread pushes, workers run `event::task_cb` |
| reactor, `reactor/reactor.cc` | one `struct event` per descriptor (`status`, `active`, `conn`), epoll's interest list, the batch of the last `epoll_wait` | `run`, `dealclinetdata`, `dealwithread`, `dealwithwrite`, `event_stop/add/set/del`, `task_cb`, `write_cb` | thread pool, HTTP connection, kernel |
| HTTP connection, `httpconn/httpconn.cc` | ring buffer (`m_read_head`, `m_read_tail`, `m_sum_size`), parser state (`text`, `m_check_state`, `m_content_len`, `m_cur_content_len`, `m_content`); of the response its three parts, `m_send_state` and how much of each part is out | `Read`, `process_read`, `ReadContent`, `init`; `SetContent`, `BuildResponseLine`, `BuildResponseHeader`, `Send` | reactor, API |
| MySQL pool, `MysqlPool/DBPool.cpp` | free list, used list, count, abort flag, a mutex, a condition variable | `Init`, `GetDBConn`, `RelDBConn`, destructor | API handlers |
| Redis pool, `RedisPool/CachePool.cpp` | the same | the same | API handlers |
| Redis client, `CacheConn` of `CachePool.cpp` over `hiredis.c`, `net.c`, `read.c` | a context (socket, output buffer, error), the reader (buffer, position, a stack of nested replies), the time of the last try | `Init`, `get` ... `ZsetGetScore`; `redisConnectWithTimeout`, `redisvAppendCommand`, `redisGetReply`, `redisReaderFeed`, `redisReaderGetReply` | one thread at a time, the Redis server |
| event-driven Redis client, `RedisPool/async.c` | flags, list of callbacks, tables of subscriptions, `pending_subs`, the buffers | `redisAsyncCommand`, `redisAsyncHandleRead/Write`, `redisProcessCallbacks`, `redisAsyncDisconnect`, `redisAsyncFree` | an event loop, its own callbacks |
| JSON documents, `api/jsoncpp/` | a tree of values; the reader's stack of open containers, position and errors | accessors, `append`, `resize`, `operator<`; `FastWriter`, `StyledWriter`; `Reader::parse` | API handlers |
| cloud file API, `api/*.cpp` | tables `file_info`, `user_file_list`, `share_file_list`, `user_file_count`; Redis set and hash of shared files | upload, instant upload, share, cancel, save, delete, pv, lists | both pools, FastDFS |
| login and registration, `api/ApiLogin.cpp`, `ApiRegister.cpp`, `comm.cc` | table `user_info`, Redis tokens | register, login, `VerifyToken` | both pools |
| asynchronous log, `log/` | block queue, line count, open file | `write_log`, `flush`, `async_write_log`, `push`, `pop` | every thread |
| timer list, `lst_timer/` | sorted doubly linked list | `add_timer`, `adjust_timer`, `del_timer`, `tick` | nobody: the reactor's calls are disabled |
| listening socket, `tcpserver/` | a descriptor | `GetTcpServer` | start-up only |
| containers of hiredis, `sds.c`, `dict.c`; helpers and start-up, `tool/`, `main.cc`; `thrd_pool.c` | | | see section 7 |

What is hard in it, and what must be true of each part:

* **Thread pool.** `push()` signals before it raises the count; several
  workers and producers move the ring's indices in different critical
  sections; the destructor joins threads that may sleep.  No accepted task may
  be lost, repeated or overwritten, no wake-up lost, no worker left asleep.
* **Reactor.** The loop and the workers share `struct event` without a lock;
  descriptors are closed and given out again while a batch is worked through.
  An event must have one owner at a time and never be handled after its
  connection was deleted; epoll must be told ADD or MOD as its list requires;
  no connection may be left behind in nobody's hands.
* **HTTP connection.** A ring, a parser that stops anywhere and goes on later,
  and a reset that must forget everything of the last request.  A request must
  reach its handler as it was sent, however it was cut.  The answer goes into a
  socket that takes any part of it at a time, and a `send()` that was cut says
  nothing definite about it: the client must read the responses one after the
  other, none twice, nothing in the middle missing.
* **Connection pools.** Timeouts race with notifications, newcomers overtake
  woken waiters, opening fails.  A connection belongs to one caller; the
  maximum holds; nobody sleeps beside a free connection.
* **Cloud file API.** Every handler is a series of SQL and Redis statements
  without a transaction: any of them may fail, and two handlers interleave.
  Reference counts must match the rows, a shared file must be shared once, the
  Redis copy must agree with the tables.
* **Redis client.** A reply is cut anywhere, a nested one is resumed in the
  middle, a write is partial, the server closes at any time, and a connection
  that failed is tried again by the next call.  A method must get the reply to
  its own command or fail, and never wait for bytes it already has.
* **Event-driven Redis client.** Replies are matched to callbacks by order for
  commands and by name for subscriptions, and a callback may disconnect or free
  the context that is running it.  Every callback must hear its own reply, once;
  a disconnect must end.
* **JSON.** A parser with error recovery, two writers, numbers of several
  widths.  What is written must be read back as the same data, a document cut
  short refused, an accessor that says yes must be right.
* **Log.** The test for a full queue and the push are two critical sections, a
  full queue makes the caller write the file itself, and files are changed
  while lines wait.

## 2. Plan

In order of importance; 1 to 12 are done.

1. `ThreadPool` and its abstract specification `TaskPool` (bounded FIFO);
   `ThreadPoolProofs`.
2. `ConnPool`, one module for both pools; `ConnPoolProofs`, which goes on to
   the Redis connection of 9.
3. `Reactor`, which takes the pool as the bounded FIFO that 1 proves it to be,
   and the parser as any result; `ReactorProofs`.
4. `HttpConn`, the ring buffer and the parser.
5. `CloudFiles`: the handlers' statements, interleaved and failing.
6. `Log`: block queue, writers and the writing thread; `LogProofs`.
7. `Session`: register, login, token; `SessionProofs`.
8. `HttpResponse`, the sending side of `HttpConn`; `HttpConnProofs` for both.
9. `RedisClient`, from `RedisReader`, `RedisCommand` and `RedisMethods`.
10. `RedisAsync`.
11. `JsonDocument`, from `JsonValue`, `JsonWriter` and `JsonReader`.
12. `CloudFilesProofs`: `SharesAgree`, `UserCountExact` and `NotLost` (owners
    and files are counted by cardinality so that they can be proved).
13. `TimerList`: the linked list against a sorted sequence.

Instances stay at two or three of each actor: enough for two of a kind to
interfere and a third to arrive in between.  Theorems worth proving: the
invariants of every concurrent part, and refinement where there is an abstract
specification.  The modules that are proved about use no recursive operator.

## 3. Modules

### ThreadPool, TaskPool
One action per step that other threads can tell apart: the parts of `push()`
(`PushCall`, `PushLock`, `PushRefuse`, `PushSignal`, `PushCount`), of
`routine()` (`WorkerLock`, `WorkerWait`, `WorkerSpurious`, `WorkerTake`,
`WorkerRan`, `WorkerExit`) and of the destructor (`DtorLock`, `DtorClose`,
`DtorJoin`, `DtorFree`).  `lock` is the mutex, the workers at `"wait"` are the
condition variable's sleepers; a signal moves one of them, and they may also
wake for nothing.  The order inside `push()`, signal first and count later, is
kept.  Tasks are numbers; `accepted` and `done` are history.  The model starts
after the constructor, with the counts at zero (the constructor reads
`thrd_count` before it sets it; with a zeroed allocation it does what it is
meant to), and the destructor is called once.

`TaskPool` is what a caller is promised: a FIFO of bounded length, each task
started once, in order, none after the close.

### ConnPool
A critical section is one action, because the code holds the mutex from its
first to its last access: a call of `GetDBConn`/`GetCacheConn` is one of
`GetAborted`, `GetFree`, `GetNew`, `GetFailed`, `GetWait`; a waiter goes on by
`Wake`, `TimesOut` or `Spurious`.  `OneSection` tells the two destructors
apart, `Timed` the callers with a timeout, `Managed` those that release through
the manager, which drops NULL.  `InitCalls` is how often `Init()` ran: `main()`
calls it twice for one Redis pool, and each call may open fewer connections than
it should; what they list beyond the count is `surplus`.  `~CachePool` clears its
list and its count without the mutex (`DtorClear`).

### Reactor
The reactor thread's handlers (`Poll`, `Accept`, `DealWithRead`, `PushTask`,
`WriteDone`, `WriteAgain`, `WriteKilled`), the workers' `task_cb` (`Take`, `Parse`, `Mark`,
`Arm`), and the clients and the kernel around them.  `dealwithread` is cut
before the push and `event_add` before `epoll_ctl`, where other threads look.
An event is named by its descriptor.  Data is counted in chunks; what the
parser consumes is left open.  The pool is a bounded FIFO; that is what
`PoolImplementsTaskPool` allows.  The table of events is as long as needed, so
`reactor_alloc` never moves an event.  Epoll is level-triggered, and a closed
peer is readable.  A client that has closed may reset the connection (`Reset`);
then `send()` raises SIGPIPE, which nobody handles, and the process ends
(`killed`).

### HttpConn, HttpResponse
A line without its end is one item, a byte of a body is one item, CR and LF are
items: segments are cut between items.  `Read` fills the ring, writing over
what is unread when more arrives than fits (`overrun` remembers it);
`ParseRequestLine`, `ParseHeader`, `ParseBlank`, `ReadContentPart` (`pieced`
remembers it), `ReadContentRest` and `NoRequest` are the turns of the loop of
`process_read()`.  `Business` is `handle_business()`, which sets the content of
the response, or none for a path it does not know (`NoContent`); `StartWrite`, `SendPiece` and `WriteDone` are `write_cb()` with
`Send()` and the two `init()`; `ClientReads` makes room in the socket.  A client
sends the next request after it has read all of the answer to the last.
A request may have a CR inside a header, after which `parse_line()` finds no
line any more.

`HttpResponse` is class `Response`: the size of its three parts, how much of
each is out, and `wire`, what went into the socket, unit by unit.  A part that
the socket cut makes `sendLine()`, `sendHeader()` and `sendContent()` end
without a `return`: the caller finds any value (`Returns`), which stops the
loop or goes round it, and, for the content, may end the response too early.
`m_source_flag` is zero because the response is made by `new Response()`.
`parse_request_line` also ends without a `return` on success; in the unoptimised
build that CMakeLists.txt asks for, the register holds an address there, never
the 2 that means a bad request, so the model goes on to the headers.

### CloudFiles
A statement of a handler is a step: `Upload`, `QuickUpload`, `Save`, `Share`,
`Delete` (`Unlist`, then `Unown`), `Cancel`, `Download`, `CountFiles` and
`CountShared` each hold the statements of one handler, `work[u].pc` is the next
one.  `db` has the four tables and `redis` the two keys.  `Sql` and `CaredSql`
are the two ways to run a statement: `ExecuteUpdate` takes an UPDATE that
changes nothing for an error, the others do not.  `StatementFails` lists what
each handler does when a statement fails, `Crash` is the NULL a failed SELECT
returns to `GetResultOneCount`, or a lost connection to a `Zset` method.  There is no transaction in the code and none
in the model.  A file stands for an md5 and its one name; a user waits for an
answer before the next request, and asks only for what the user's lists show
(`Offers`).  `overlapped`, `marred` and `doubled` are history: they say of which
files and users a property speaks.

### Log
`write_log()` is cut where it gives a mutex up: `Call` (the time), `Count` (with
`NewDay`, `NewPart` or `SameFile`), `SeeRoom` (the test `full()`), then `Push`,
`PushRefused` or `Put`; `Flush` is the `flush()` that the `LOG_` macros add.
The log's thread is `Pop`, `PopWait`, `PopSpurious`, `FlusherPut`.  The queue's
ring is modelled with its indices, which start at -1.  Lines are numbers, the
section that formats one has no effect outside the call.  `localtime()` hands
out a structure that all threads share, so a call may get the day of a call
that is still on its way.  `owed`, `route`, `onDisk`, `overtaken` and the field
`late` of the open file are history.

### Session
A statement or command is a step: `Look` and `Insert` are `registerUser()`,
`Check` and `SetToken` a login, `VerifyToken` the check that the file requests
begin with.  `user_info` is the table, with the schema's two unique keys in
`Taken`; `redis` has one token per name.  Every command goes through
`CacheConn::Init()`: `Answered`, `Unanswered` (run, reply lost) and `NotRun` are
the three things that can come of it, and `TooSoon` is the second's pause
between two tries of a lost connection.  An INSERT, too, may be run and its
answer lost.  A handler takes any connection of the pool: `ConnPool` shows that
it is nobody else's.  A token is its number among those that `rand()` gives since
the process was started (`drawn`): nobody seeds it, so a process that is started
again gives the same ones.  `Empty` is the empty string, which `get()` returns
for a name without a token and for whatever goes wrong, and which a client may
send.  `told`, `given`, `drew`, `over` and a request's `due` and `hurt` are
history: what a client may count on, and whether a failure met the request
itself.  Passwords are never changed and rows never deleted, because no handler
does.

### RedisReader, RedisCommand, RedisMethods, RedisClient
`RedisReader` is read.c as operators on a record: `Feed`, and `GetReply` with its
loop over `ProcessItem` for lines, bulks and nested replies, byte by byte, with
the integer widths as constants.  What a handler does to an element is an
outcome of its own (`Waits`, `Fails`, `Makes`, `Opens`), a function of the bytes
that are unread; `Take` does it to the reader.  The loops are functions on the
number of turns, so that the module can be proved about.  `RedisCommand` is `redisvFormatCommand` and
`redisFormatSdsCommandArgv`.  `RedisMethods` lists the methods of `CacheConn`:
the format each one passes, the reply it wants and what it makes of another.
`RedisClient` has the state: the context, the server, the clock.  A call goes
through `CacheConn::Init()` (at most one try per second, one socket per address,
`AUTH`, `SELECT`), the formatting, the loop of partial writes, the loop of reads
and `FreeReply`.  Every call of net.c may fail, the server may close at any
byte, and it may answer something that is no reply at all.

### RedisAsync
One `redisAsyncContext`: the commands the program issues from its loop or from a
callback (`Issue`, `Disconnect`, `Free`), the read event
(`redisAsyncHandleRead`, then `redisProcessCallbacks` reply by reply), the write
event, and the freeing, which runs every callback that is left with NULL.  The
server answers in order, rejects commands, publishes, refuses the client, quits
or goes away.  `Polite` says that the program sends no ordinary command behind
an UNSUBSCRIBE whose answer is still to come: section 6 says why it must not.

### JsonValue, JsonWriter, JsonReader, JsonDocument
The first three are `Json::Value`, the two writers and the tokens with their
decoders, as operators.  `JsonDocument` is a life of one value: a program
builds it by the calls the API code makes, writes it with either writer or
another program spells the same data, and `Reader::parse` reads it as it is, cut
anywhere, or short of any one byte: one step per value, name or separator, with
`nodes_` as the stack of open containers, and the recovery from an error token by
token.  Texts are bytes; the widths of integers, the bits of a double's mantissa
(`MantissaBits`), the digits of `%.16g` (`Precision`) and the right margin are
constants.  A double is an integer in units of 1/16000, the nearest to what it
stands for with so many bits (`Rounded`, ties to even); `RealNumeral` prints so
many digits of it, with an exponent where `%.16g` has one; `DecodeDouble` is the
double nearest to the text.  Decimals count up to the third, numbers above
`MaxReal` are infinite.

## 4. Runs

| run | shows |
|---|---|
| `ThreadPool` | 3 workers, 2 producers, ring of 2, 3 pushes: ring coherence, every task in one place, no lost wake-up, accepted tasks run, the destructor returns, `TaskPool` is implemented |
| `ConnPool` | 4 borrowers (timed, untimed, direct, managed), maximum 2, a pool initialised twice, 4 connections ever: exclusivity, maximum but for what the second `Init()` listed, no lost notification, abort wakes all, free connections are taken |
| `Reactor` | 2 descriptors, 3 clients, 2 workers, queue of 1, buffer of 2 chunks: one owner, nothing stale, connections are lost only for two known reasons, responses are sent to clients that stay, data is read unless a write to one that has gone ended the process |
| `HttpConn` | 15 conversations of one or two requests, cut anywhere: a POST and then a GET that wraps round the ring, a kept GET and another request, two bodies on a connection, bodies in pieces, a CR inside a line, a request longer than the ring, an unknown path; a socket that takes part of a response: FIFO, bodies as sent, responses in order, everything answered but for the reasons that `AllAnswered` names |
| `HttpConnBodies` (violated) | a second POST on a connection loses part of its body |
| `CloudFiles` | 3 users, 1 file, 6 requests all at once, one failed statement or crash: counts cover owners, one sharer who owns the file, exact counters |
| `CloudFilesDropped` (violated) | a save between the last owner's count and the removal of the file leaves an owner of a dropped file |
| `Log` | 2 writers, 4 lines, queue of 2, files of 2 lines, one midnight: the queue's lines are written once and in order, losses only to a rival's push, a caller's own line on the disk when the call returns, accepted lines get written |
| `Session` | 2 workers, 2 names, nick names, passwords and connections, 5 requests, 2 logins, one second, 1 failure or crash with a restart: who was registered can log in, a check accepts what is good at the moment and nothing else, but for the empty token |
| `RedisClient` | 3 calls of any method, 2 addresses, 2 seconds, every failure of a connection: a method gets its own reply, a failure has a reason, the thread never waits for bytes it has |
| `RedisAsync` | 3 commands, 2 topics, 1 message: every callback hears its own reply exactly once, a clean end means that everything was answered, subscribed topics are heard, a disconnect ends |
| `JsonDocument` | values built in 4 calls, 2 writers, foreign spellings, every cut and every missing byte of both: what was written is read back, a number that `%.16g` or a double cannot hold to its first digits, refusals have one error, a cut document is refused, accessors and order agree |

**Bounds.** A ring of two slots and three tasks wraps and fills.  Three workers
are needed for a signal to reach the wrong sleeper while a third is on its way.
Two connections and four borrowers let one time out while another is notified
and a third overtakes.  Two descriptors and three clients let a descriptor be
given again while the other is in the batch.  The ring of 14 items in `HttpConn`
is just above the longest first request, so that a second request always wraps,
and below the request with 15 bytes of body, which overruns it; a socket of 3
units does not hold the line and the header of a response (2 each) together, and
what is left of it when the next part or the next response comes cuts the line
and the content (3).  `MaxPush`, `MaxChunks` and `MaxClients` bound behaviours and nothing
else.  Six requests in `CloudFiles` are a whole life of a file: quick upload
refused, upload, share, save, and the deletes of both owners, with a third user
in between; runs with two files, and with seven and eight requests of three and
two users, found nothing more.  Four lines in `Log` fill the queue, wrap its
ring and outgrow a file; five lines, and three writers, found nothing more.
Five requests in `Session` are a registration, two logins and two checks, of one
name or with a rival.  Three calls in `RedisClient` are one that loses the
connection, one that is refused a new one in the same second, and one that gets
it; `LLongMax` 127, `IntMax` 20, a reader's stack of four and a buffer that is
cut at 4 bytes bring every limit of the reader within the answers of
`MCRedisClient`; a write is cut after 9 bytes, inside the command.  Three
commands in `RedisAsync` are a subscription, its end and an ordinary command, or
a subscription to two topics and one of them ended.  Four calls build an object
or an array with two members or one nested container with one; 64-bit numbers
have 10 bits and 32-bit ones 3, a double 6 and `%.16g` two digits, so that, as
with 64, 53 and sixteen, neither a double nor its text holds every long number,
and 2^10 (for 2^64) is written `1e+03` and read back as 992; the scalars lie on
the borders; only values of up to three calls are sent damaged.

**Fairness.** `ThreadPool`: a thread goes on when it can, and one that keeps
asking for the mutex gets it (strong fairness, which the kernel's mutex gives
in practice; without it no pool makes progress).  Nobody is obliged to push or
to destroy.  `ConnPool`: a woken thread gets the mutex some time; nobody has to
release.  `Reactor`: the loop and the workers run, and a socket that is tried
again and again takes the data in the end, as long as its client stays (strong
fairness of `WriteDone` while the peer is open; a client that stays and never
reads is not the server's failure, and nothing is assumed of a write to one that
has closed).  `ResponseIsSent` and `DataIsRead` say what is left then.  `HttpConn`: the client
goes on sending and reading, the reactor and the worker go on; a socket that was
full is reported again because epoll is level-triggered.  `Log`: the log's thread
runs when it can; nobody has to log.  `RedisAsync`: the event loop runs (weak
fairness of `Progress`), the server answers what it was sent or the connection
ends (`ServerAnswers`); the program need not call anything.  `CloudFiles`,
`Session`, `RedisClient` and `JsonDocument` have safety properties only and
assume none.

**Deadlock** checking is on in `RedisAsync`, where the end is a step of its own,
and off in the other runs: pools that were destroyed, clients that are done and
bounds that are used up all stop the system.  The worst case a deadlock check
would find, workers asleep beside a task, a borrower asleep beside a connection,
a reader waiting for bytes it has, is stated as an invariant.

## 5. Proofs

For every number of threads, slots, connections, descriptors and bytes that
satisfies the named assumptions (`PoolAssumption`, `ConnPoolAssumption`,
`ReactorAssumption`, `LogAssumption`, `SessionAssumption`, `HttpConnAssumption`,
`ResponseAssumption`, `CloudFilesAssumption`, `AsyncAssumption`, `BoundAssumption`,
`WidthAssumption`, `StackAssumption`: finite sets, natural numbers, disjoint names,
lists of topics that are not empty), and, for the Redis client, of what its server
understands and says (`CommandsAssumption`, `AnswersAssumption`, see below).  Some
theorems state what no run checks because the run's other properties rest on it:
the types, the epoll operation (`StatusAgrees`), the lengths of files
(`FileLengths`), the close of the pool (`NobodySleepsThroughClose`).

* **ThreadPoolProofs.** `LockInv` (types, the mutex agrees with the program
  counters, the ring's three numbers agree) is inductive; the count stays in
  range only because the producer is alone between its test and its update.
  On it rests `TaskInOnePlace`, with lemmas on the arithmetic of indices, then `NoLostWakeup`: for each queued task a worker is awake, counted by
  cardinality; the signal before the count is safe because the signaller still
  holds the mutex.  `PoolImplementsTaskPool` maps every step to a step of
  `TaskPool` or a stutter.
* **ConnPoolProofs.** `PlaceInv` (types and exclusivity) is inductive.
  `Counted` gives the maximum with the surplus, however often `Init()` ran.
  `WakeInv`: the woken users cover the list, which needs that nobody sleeps on
  an aborted pool, since the destructor empties the list.

  The second part is about the connection that the Redis pool hands out, for any
  answers, any cut of the bytes in either direction, any failure of a call of
  net.c and any number of calls.  First the reader.  An element that it
  settles on, it settles on in the same way when more bytes lie behind
  (`ItemSettles`, one lemma for each handler of read.c: the end of a line is the
  first CR LF, so it does not move).  A reader that is ahead of another by some
  bytes (`Ahead`: the same stack, the same partial reply, these bytes more
  unread) stays so by every turn that the other can make (`StepAhead`), and the
  loop on both ends alike once the other is fed them (`ItemsAhead`, by a least
  counterexample in the number of unread bytes; runs of the loop are functions,
  `Runs`).  `Holds(r, p)` says that the reader r is as good as a new one that was
  given the bytes p at once, for all that may come; a call of
  `redisReaderGetReply` keeps it, or ends with the reply or the error that the
  new one would end with (`GetReplyGives`, where dropping consumed bytes is shown
  to lose nothing).  So the cuts do not matter: `CutsDoNotMatter`, for any number
  of pieces.

  Then the connection.  `ClientInv` says where the bytes are: while the command
  is written, what has been written is at the server and the rest is in `obuf`
  (`Writing`); while the thread reads, the whole command is at the server
  (`Asked`), or it holds the first n bytes of the answer and the rest is on its
  way (`Answering`), or the server has closed (`Closed`); between two commands of
  a good context nothing is anywhere (`Quiet`), so that no reply of an earlier
  call can be taken for this one's; a context that was kept with an error has a
  reader that is in error too, or a server that has closed, and gets no further
  than its first write.  `RepliesAreMine`, `FailuresHaveReasons` and
  `WaitingEnds` follow.

  Two assumptions say what the constants stand for, and TLC evaluates both on
  the run `RedisClient`.  `AnswersAssumption`: what an answer means is what a new
  reader makes of its bytes when they come in one piece, which is one reply with
  nothing behind it, or a protocol error.  It says nothing of pieces: that is
  what is proved.  `CommandsAssumption`: every method's format gives the
  arguments the method means, and the server, which reads a command only at its
  last byte, reads those.  That texts with spaces, percent signs and CR LF are
  formatted and read back right, and that `Decimal` and `string2ll` undo each
  other, is thus model-checked on the texts of `MCRedisClient` and not proved: it
  is an induction over a text.
* **ReactorProofs.** `OwnInv` lists, owner by owner, that an event is in one
  place, and carries three facts with it: the batch is not stale, an owned
  event has a connection, an armed one has status 1.  Without the last,
  `event_del` could close a descriptor and keep its connection.
  `EnoughSlotsRefuseNothing` follows by counting: events queued, held or armed
  are different descriptors.  `LostForAReason` needs `LostInv`: what epoll has
  reported as readable stays so until the reactor reads it, so the connection
  that `dealwithread` finds empty is one whose client has gone.
* **HttpConnProofs.** `SendInv` for `ResponsesInOrder`: the three counters agree
  with `m_send_state` (`Progress`), the response is empty outside its sending
  (`Phases`), and the last unit on the wire is the last one counted
  (`WireEnd`); so the next stretch always belongs behind it (`WireGrows`), and
  the order of the whole wire need only be known between neighbours
  (`Chained`).  `RingInv` for `RingHoldsStream`: the tail is the head and the
  count, and place k of the ring has the item of the stream that far from its
  end; a segment that fits lands on cells that hold nothing (`SlotsDiffer`).

  `ParserInv` for `HeardWhatWasSaid`.  `Handled(k)`: the first k bodies have been
  heard, and the client is in its next request at most.  `Parsed(k)`: what has
  been taken from the stream (`Gone`) ends at one of the places that
  `process_read()` knows, at the line, a header, the body or the end of request
  k + 1, and the content length is the one of the header behind it.  That what
  `parse_line()` finds there is the line of the request rests on the layout of
  the stream (`EncodeLayout`, `LinesInStream`), and this on what `FlattenSeq`
  computes, got without induction from a least counterexample (`Least`,
  `FlattenedExists`, `FlattenedAgree`).  A second body on a connection
  (`SecondBody`) is the case the property leaves out, because `init()` leaves
  `m_cur_content_len` (`HttpConnBodies`, section 6).  Other bodies do not matter: behind a request without one the CR LF left in
  `text` makes the next request bad, so at most two are ever handled.
* **LogProofs.** `LogInv` (types, and `RingInv`: each place of the ring against
  each place of `owed`) is inductive; `QueuedInOrder` is the same said of
  sequences.  `RivalInv`: who is before `push()` sees room or was overtaken.
  `DiskInv`: a caller's line waits in the buffer at most until its own
  `flush()`.  `LengthInv` balances the lines counted against those in the file
  and on their way, with a lemma on remainders (`ModNext`).
* **SessionProofs.** `Shape` says what a request carries at each step.
  `UserInv`: everything told to a client has a row, and the row is the first of
  its name; rows are only appended, and only past `Taken` (`RowsStay`).
  `Tokens`: Redis holds, under each name, the token of the logins of that name
  that are not over, and none if there are none.  That two logins may have drawn
  the same token, on both sides of a restart, is why the invariant speaks of
  logins and not of tokens.
* **CloudFilesProofs.** `IInv` has a part for each user and one for each file.
  `CountInv`: the counter and what a request still owes it (`Owed`, one between
  the row and the count of an upload) do not exceed the files of the user, and
  equal them while nothing failed; the number about to be written was read from
  the same counter, which only its user writes.  `ShareInv`: a share has its row,
  and the row says so, unless the user is undoing the share (`Undoing`); a
  deletion that dropped the share leaves none.  `FileInv`, for files whose
  requests come one at a time: the reference count covers the owners, by one more
  while a request is ahead of its row (`Slack`), and what a request read of the
  file is still true (`Due`).  There is a lemma for each handler's statements;
  `OthersKeep` says that a step of one user on one file leaves the parts of all
  other users and files alone.
* **RedisAsyncProofs.** Two invariants, both of the whole way from the program
  to the server and back: `Waiting` (the commands in `obuf` and at the server)
  and `Wire` (the answers in the reader and on their way).

  `HeardInv`, for `TopicsAreHeard`, asks nothing of the program.  Commands and
  answers are numbered in the order they were issued and every command has at
  most one place on that way (`Numbered`); `pending_subs` of a topic is at least
  the confirmations on the wire and those of the commands awaited, a command
  that names a topic twice counted twice (`Counted`, by cardinality); what the
  server publishes has an entry (`Heard`), and behind the confirmation of an
  UNSUBSCRIBE, the server's subscription is news that is still on the wire
  (`Renewed`); a context with entries knows that it is subscribed (`Knows`).
  The entry is dropped only at a count of zero, and then nothing that would have
  renewed it is on its way.  Without the commands the server will refuse, which
  nobody can tell from the others, `Counted` would not survive a refusal.

  `MatchInv` adds, for a program that is `Polite`, who each answer is for:
  `OwnReplies`, `RunsExactlyOnce`, `CleanDisconnects`.  redisProcessCallbacks
  has three places to look, and the invariant has a part for each.  *Replies
  list* (`Lined`): the k-th thing on the wire belongs to the k-th entry, as far
  as the list goes, and beyond it nothing is for a regular callback; that goes
  on behind the wire, among the commands that wait, and once the server has a
  subscription to publish to, all the answers the list waits for are on the
  wire.  *Invalid list* (`Numbers`): the callbacks of commands that were sent
  in subscribed mode are in the order of their numbers, every answer to such a
  command finds its entry, and none with a smaller number was passed over, so
  that the first entry is the right one.  *Topics* (`Topical`): an entry was
  made by a SUBSCRIBE that names the topic (`Entries`), an UNSUBSCRIBE and its
  confirmation meet an entry (`Leaving`), between two of them lies a SUBSCRIBE
  (`Alternate`) that is on its way, or confirmed, as long as the first of the two
  has not arrived (`Following`), a topic the program wants has an entry
  (`Wants`), a message comes after the confirmation it owes its existence to
  (`Messages`), and no ordinary command was issued behind an UNSUBSCRIBE that is
  under way (`LastWord`): this is where `Polite` is used, and all the rest falls
  without it, since the last confirmation sends the context back to the replies
  list.  `Once`: a callback that is registered has not run, one that is not has
  run once.  The step lemmas are stated for what a step does to the way (`Sends`,
  `Takes`, `Gives`, `Serves`), not for each action of the model.

Only model-checked: liveness (the prover has no rule for fairness and ENABLED
here); JSON (`RoundTrip`, `RefusalsExplained`, `ValuesAgree`), whose values are
nested to any depth and compared, written and read by recursive operators, which
the prover does not handle; and what the two assumptions of the Redis client say
of single commands and answers.

## 6. Where the code departs from what it says

Shown by runs that TLC finds violated (each quotes its comment or test in
`PROJECT.json`): lost bytes of second bodies; a file dropped under a new owner.

Read off the models, without a run of their own.

*Server.* The pool's destructor closes the queue with accepted tasks in the ring
and leaves them there, although threadpool.hpp:196 says they are processed; the
answer to a bad request is empty (the comment httpconn.cc:424-425 and the code
behind it), sending nothing counts as failure, and it is tried for ever;
a path that `handle_business()` does not know gets
the same empty answer; `send()` to a client that has gone raises SIGPIPE, which
ends the server (no `MSG_NOSIGNAL`, no handler); ApiMd5.cpp:193 takes the success of `ExecutePassQuery` for failure, so a quick
upload that succeeds takes its count back and reports failure; a
`sendContent()` that the socket cut may look like success, although
httpconn.cc:163 says the sending is complete then; a request with a CR inside a
line, or one longer than the buffer, makes its connection deaf; a NULL that is given back
after a timeout is listed and handed out as a connection; `main()` initialises one Redis
pool twice and the other never, so that one lists more connections than it
counts, up to twice the minimum, and then exceeds its maximum by as many
(`surplus`), and the other opens two connections at most;
`ReadContent()` clears `m_sum_size` before it adds it to the head, so a body in
pieces arrives wrong (`HeardWhatWasSaid` excludes them); cancelling a share
leaves the file in Redis, where it stops the next share, and may lower the shared
total below zero (ApiDealfile.cpp:354); deleting one's copy of
somebody else's shared file lowers the shared total and removes the file from
Redis; two uploads of one md5 make two rows that every later statement takes
for one; `pv` never exceeds 1; `thread_pool_free()` can never
free anything, as its test is never false; the connection pools' destructors do
not wait for the callers they wake; a closed connection found empty is neither
pushed nor closed (the second disjunct of `ForgottenForAReason`); after a GET on
a kept connection the parser still has a CR LF in `text` and calls the next
request bad; `Read()` writes over unread data when more arrives than fits; a
queued line goes into the file of the day it is taken from the queue, and two
calls about midnight can open the old day's file again, although log.h:58 says
that files are by day; lines the log's thread writes stay in the file's buffer
until somebody logs again; a file opened later than the first has no name but
its date, because `init()` sets `log_name` only for a path with a slash;
`block_queue::front()` returns the line taken last, not the first in the queue;
a line longer than the buffer is ended beyond the buffer; a refused push
strands a connection that has left epoll (the first disjunct of
`ForgottenForAReason`; the comment reactor.cc:349 calls it a pause);
`setToken()` ignores what `setex()` returns, so a login is answered with a token
that Redis may not have, although ApiLogin.cpp:133-135 promises -1; nobody seeds
`rand()`, so that the tokens of a server that was restarted are those of the one
before; `VerifyToken()` takes an empty token for a name that has none in Redis, or
when Redis fails; a registration
whose statement cannot be prepared is answered without a code.

*Redis.* The `Zset` methods read a reply that may be NULL; `setex`, `set` and
`hmset` return the text of an error as if it were the value; `flushdb` wants a
string where the server sends a status, so it is always false; `ZsetIncr` wants
"OK" where it sends a number, so it is always -1; `mget` pastes the keys into the
format, so a space splits a key and a percent sign is a conversion; nobody turns
SIGPIPE off, and a read has no timeout; when the first address refuses, the next
is not tried by the same call; a context whose AUTH or SELECT failed is kept,
and the comment CachePool.cpp:62 takes it for a good one; with the log line of
CachePool.cpp:130 commented out, `if (reply)` guards the `return 2` behind it, so
that `Init()` ends without a `return` when SELECT gets no reply (a zero in the
unoptimised build), and the command goes to the failed context.  In async.c, an error
reply that meets an empty list of callbacks closes the context, where the comment
at 748-750 passes it to a callback; an ordinary command sent behind an
UNSUBSCRIBE is matched to the wrong callback or fails the assertion at 536-537;
`pending_subs` outlives the topic it belongs to when one SUBSCRIBE names several,
which then stays in the table for ever; a reply for an unknown topic uses the
callback of the reply before.

*JSON.* Shrinking an array with holes fails its assertion
(`Value v; v.resize(6); v.resize(3);`, json_value.cpp:911); `asInt64` and
`asUInt64` accept the doubles 2^63 and 2^64, which `isInt64` and `isUInt64`
exclude; `%.16g` is a digit short of a double: 2^64 is written
`1.844674407370955e+19` and read back as 2^64-2048; a number too large for a
double is read as infinite and written `inf`, which no reader takes; `-` is read as 0 and `1-2` as 1; a comment before a colon or in an empty
array is an error; `{"a":1/**/5"b":2}` is accepted, and so is a comma behind an
empty name; `\u0000` ends a text for whoever reads it as a C string; `==` tells
int, unsigned and real apart, and arrays by the indices that exist.

## 7. Not modelled

In the log: `init()`, the queue's `clear()` and timed `pop()`, which nobody
calls, and files that cannot be opened.  In the cloud file API: the lists, which
only read, the content in FastDFS, two requests of one user at once, and a client
that repeats a request whose answer it never got.  In hiredis: Unix sockets, non-blocking connects, `redisReconnect`,
MONITOR, callbacks that are NULL; `sds.c` and `dict.c`, its byte strings and hash
table, are sequences and functions here.  In jsoncpp: comments kept with values,
offsets and the texts of errors, `StyledStreamWriter`, `Path`, iterators.  In
`httpconn.cc`: the parsing of the URI (with `Tool::CuttingString`), static pages, CGI
and files sent with `sendfile`, which the server no longer calls.  FastDFS, an
external command; passwords and tokens as texts (two draws of one process are
never the same, and the calls of `rand()` for a token are one draw, though those
of two threads may mix); a list of free connections that a caller changes at the
very moment `~CachePool` clears it without the mutex; a Redis command of the file
API that is run although its reply is lost; doubles finer than 1/128; URL
decoding; the sorted list of timers, whose calls the reactor has disabled;
`tcpserver`, `tool/` and `main.cc`, start-up; `thrd_pool.c`, an older variant
outside the build; allocation failures and errors of pthread calls.
