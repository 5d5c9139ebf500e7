------------------------------ MODULE Reactor -------------------------------
(***************************************************************************)
(* The epoll loop (reactor/reactor.cc): one reactor thread that accepts,   *)
(* reads and writes, and the pool's workers that parse and answer.  An     *)
(* event (struct event) is named by its descriptor; reactor_idx makes the  *)
(* table of events as long as needed, so an event outlives its connection. *)
(*                                                                         *)
(* Level-triggered epoll, its interest list and the sockets are the        *)
(* kernel's side.  Data is counted in chunks.  What process_read() makes   *)
(* of the buffer is left open here: any result, any part of the buffer     *)
(* consumed (module HttpConn says which).  The thread pool is the bounded  *)
(* FIFO that ThreadPool implements.  `refused` is a history variable.      *)
(***************************************************************************)
EXTENDS Integers, Sequences, FiniteSets

CONSTANTS Fd,          \* descriptors the process may get from accept()
          Workers,     \* threads of the pool
          QueueSize,   \* slots of the pool's queue
          Full,        \* chunks that fill a read buffer
          MayClose,    \* clients may close their end
          MaxChunks,   \* bound of the model: chunks all clients send
          MaxClients,  \* bound of the model: clients that connect
          NoFd         \* no descriptor

ASSUME ReactorAssumption ==
    /\ NoFd \notin Fd
    /\ IsFiniteSet(Fd)
    /\ QueueSize \in Nat /\ Full \in Nat \ {0}
    /\ MayClose \in BOOLEAN
    /\ MaxChunks \in Nat /\ MaxClients \in Nat

VARIABLES
    interest,   \* epoll's interest list: "none", "in" or "out" per descriptor
    peer,       \* the socket behind a descriptor: "absent", "open", "closed"
                \* by the client, or "reset" by it
    sock,       \* chunks in the socket's receive buffer
    backlog,    \* connections that wait for accept()
    status,     \* event::status
    active,     \* event::active
    long,       \* event::m_longlinker
    conn,       \* event::conn: "null" or "live"
    buf,        \* chunks in conn's read buffer (m_sum_size)
    resp,       \* the response in conn: "none", "content", or "empty"
    rfd,        \* the descriptor the reactor has read and will push, or NoFd
    batch,      \* events of the last epoll_wait not yet handled
    listening,  \* that batch also has the listening socket
    tasks,      \* the pool's queue
    wpc, wfd,   \* each worker's place and event
    wdir,       \* what each worker will wait for on the event
    clients, chunks,   \* connections made and chunks sent so far
    killed,     \* a SIGPIPE has ended the process
    refused     \* events whose push was refused

kernel == <<interest, peer, sock, backlog>>
event  == <<status, active, long, conn, buf, resp>>
loop   == <<rfd, batch, listening>>
work   == <<wpc, wfd, wdir>>
world  == <<clients, chunks, killed>>
vars   == <<kernel, event, loop, tasks, work, world, refused>>

Live == {f \in Fd : conn[f] = "live"}
Busy(w) == wpc[w] # "idle"

TypeOK ==
    /\ interest \in [Fd -> {"none", "in", "out"}]
    /\ peer \in [Fd -> {"absent", "open", "closed", "reset"}]
    /\ sock \in [Fd -> Nat] /\ buf \in [Fd -> Nat]
    /\ backlog \in Nat
    /\ status \in [Fd -> {0, 1}] /\ active \in [Fd -> BOOLEAN]
    /\ long \in [Fd -> BOOLEAN]
    /\ conn \in [Fd -> {"null", "live"}]
    /\ resp \in [Fd -> {"none", "content", "empty"}]
    /\ rfd \in Fd \cup {NoFd}
    /\ batch \subseteq Fd \X {"in", "out"}
    /\ listening \in BOOLEAN
    /\ tasks \in Seq(Fd) /\ Len(tasks) <= QueueSize
    /\ wpc \in [Workers -> {"idle", "parse", "mark", "arm"}]
    /\ wfd \in [Workers -> Fd \cup {NoFd}]
    /\ wdir \in [Workers -> {"in", "out"}]
    /\ clients \in 0 .. MaxClients /\ chunks \in 0 .. MaxChunks
    /\ killed \in BOOLEAN
    /\ refused \subseteq Fd

Init ==
    /\ interest = [f \in Fd |-> "none"]
    /\ peer = [f \in Fd |-> "absent"]
    /\ sock = [f \in Fd |-> 0] /\ buf = [f \in Fd |-> 0]
    /\ backlog = 0
    /\ status = [f \in Fd |-> 0] /\ active = [f \in Fd |-> FALSE]
    /\ long = [f \in Fd |-> FALSE]
    /\ conn = [f \in Fd |-> "null"]
    /\ resp = [f \in Fd |-> "none"]
    /\ rfd = NoFd /\ batch = {} /\ listening = FALSE
    /\ tasks = << >>
    /\ wpc = [w \in Workers |-> "idle"]
    /\ wfd = [w \in Workers |-> NoFd]
    /\ wdir = [w \in Workers |-> "in"]
    /\ clients = 0 /\ chunks = 0
    /\ killed = FALSE
    /\ refused = {}

-----------------------------------------------------------------------------
\* Clients.

Connect ==
    /\ clients < MaxClients
    /\ clients' = clients + 1
    /\ backlog' = backlog + 1
    /\ UNCHANGED <<interest, peer, sock, event, loop, tasks, work, chunks, killed, refused>>

Send(f) ==
    /\ peer[f] = "open"
    /\ chunks < MaxChunks
    /\ chunks' = chunks + 1
    /\ sock' = [sock EXCEPT ![f] = @ + 1]
    /\ UNCHANGED <<interest, peer, backlog, event, loop, tasks, work, clients, killed, refused>>

Close(f) ==
    /\ MayClose /\ peer[f] = "open"
    /\ peer' = [peer EXCEPT ![f] = "closed"]
    /\ UNCHANGED <<interest, sock, backlog, event, loop, tasks, work, world, refused>>

\* A client that has closed answers what is still sent to it, or what it left
\* unread, with a reset.  It changes nothing but what a write finds, so it is
\* left until one is waited for.
Reset(f) ==
    /\ peer[f] = "closed" /\ interest[f] = "out"
    /\ peer' = [peer EXCEPT ![f] = "reset"]
    /\ UNCHANGED <<interest, sock, backlog, event, loop, tasks, work, world, refused>>

-----------------------------------------------------------------------------
\* event_add and event_del

\* faulty: always EPOLL_CTL_MOD
EventAddMod(f, dir) ==
    /\ interest' = [interest EXCEPT ![f] = IF @ = "none" THEN "none" ELSE dir]
    /\ status' = [status EXCEPT ![f] = 1]
    /\ active' = [active EXCEPT ![f] = TRUE]

\* status chooses between EPOLL_CTL_MOD, which fails for a descriptor that
\* is not in the interest list, and EPOLL_CTL_ADD, which fails for one that is.
EventAdd(f, dir) ==
    /\ interest' = [interest EXCEPT ![f] =
                      IF (status[f] = 1) = (@ # "none") THEN dir ELSE @]
    /\ status' = [status EXCEPT ![f] = 1]
    /\ active' = [active EXCEPT ![f] = TRUE]

\* close() comes first and takes the descriptor out of the interest list;
\* the connection is deleted only if the status is 1.
EventDel(f) ==
    /\ peer' = [peer EXCEPT ![f] = "absent"]
    /\ sock' = [sock EXCEPT ![f] = 0]
    /\ interest' = [interest EXCEPT ![f] = "none"]
    /\ IF status[f] = 1
         THEN /\ status' = [status EXCEPT ![f] = 0]
              /\ active' = [active EXCEPT ![f] = FALSE]
              /\ conn' = [conn EXCEPT ![f] = "null"]
         ELSE UNCHANGED <<status, active, conn>>

-----------------------------------------------------------------------------
\* The reactor thread: run()

Gone(f) == peer[f] \in {"closed", "reset"}
Readable(f) == sock[f] > 0 \/ Gone(f)
Ready ==
    {<<f, "in">> : f \in {g \in Fd : interest[g] = "in" /\ Readable(g)}}
      \cup {<<f, "out">> : f \in {g \in Fd : interest[g] = "out"}}

\* epoll_wait, when the last batch is done.
Poll ==
    /\ rfd = NoFd /\ batch = {} /\ ~listening
    /\ Ready # {} \/ backlog > 0
    /\ batch' = Ready
    /\ listening' = (backlog > 0)
    /\ UNCHANGED <<kernel, event, rfd, tasks, work, world, refused>>

\* dealclinetdata: accept() gives a free descriptor, whose event is set and
\* added; with no free descriptor it fails.
Accept ==
    /\ rfd = NoFd /\ listening
    /\ listening' = FALSE
    /\ \/ /\ \A f \in Fd : peer[f] # "absent"
          /\ UNCHANGED <<kernel, event>>
       \/ \E f \in Fd :
             /\ peer[f] = "absent"
             /\ peer' = [peer EXCEPT ![f] = "open"]
             /\ sock' = [sock EXCEPT ![f] = 0]
             /\ backlog' = backlog - 1
             /\ conn' = [conn EXCEPT ![f] = "live"]
             /\ buf' = [buf EXCEPT ![f] = 0]
             /\ resp' = [resp EXCEPT ![f] = "none"]
             /\ EventAdd(f, "in")
             /\ UNCHANGED long
    /\ UNCHANGED <<rfd, batch, tasks, work, world, refused>>

\* faulty: the event stays armed while it is handled
DealWithReadArmed(f) ==
    /\ rfd = NoFd /\ <<f, "in">> \in batch
    /\ batch' = batch \ {<<f, "in">>}
    /\ buf' = [buf EXCEPT ![f] = @ + sock[f]]
    /\ sock' = [sock EXCEPT ![f] = 0]
    /\ rfd' = IF buf'[f] > 0 THEN f ELSE NoFd
    /\ UNCHANGED <<interest, peer, backlog, status, active, long, conn, resp,
                   listening, tasks, work, world, refused>>

\* dealwithread up to the push: event_stop takes the descriptor out of the
\* interest list and leaves the status alone; Read() empties the socket
\* unless the buffer was full before; an empty buffer is not pushed.
DealWithRead(f) ==
    /\ rfd = NoFd /\ <<f, "in">> \in batch
    /\ batch' = batch \ {<<f, "in">>}
    /\ interest' = [interest EXCEPT ![f] = "none"]
    /\ IF buf[f] < Full
         THEN /\ buf' = [buf EXCEPT ![f] = @ + sock[f]]
              /\ sock' = [sock EXCEPT ![f] = 0]
         ELSE UNCHANGED <<buf, sock>>
    /\ rfd' = IF buf'[f] > 0 THEN f ELSE NoFd
    /\ UNCHANGED <<peer, backlog, status, active, long, conn, resp, listening,
                   tasks, work, world, refused>>

\* threadpool::push, whose result dealwithread does not look at.
PushTask ==
    /\ rfd # NoFd
    /\ IF Len(tasks) < QueueSize
         THEN tasks' = Append(tasks, rfd) /\ UNCHANGED refused
         ELSE refused' = refused \cup {rfd} /\ UNCHANGED tasks
    /\ rfd' = NoFd
    /\ UNCHANGED <<kernel, event, batch, listening, work, world>>

\* faulty: a kept connection goes on waiting to write
WriteDoneStaysOut(f) ==
    /\ rfd = NoFd /\ <<f, "out">> \in batch /\ peer[f] # "reset"
    /\ batch' = batch \ {<<f, "out">>}
    /\ resp[f] = "content"
    /\ resp' = [resp EXCEPT ![f] = "none"]
    /\ \/ /\ long[f]
          /\ EventAdd(f, "out")
          /\ UNCHANGED <<peer, sock, conn>>
       \/ ~long[f] /\ EventDel(f)
    /\ UNCHANGED <<backlog, long, buf, rfd, listening, tasks, work, world, refused>>

\* dealwithwrite, when Send() says that everything is out.  That takes a
\* response with content, since sending no bytes counts as a failure, and a
\* socket that was not reset.
WriteDone(f) ==
    /\ rfd = NoFd /\ <<f, "out">> \in batch /\ peer[f] # "reset"
    /\ batch' = batch \ {<<f, "out">>}
    /\ resp[f] = "content"
    /\ resp' = [resp EXCEPT ![f] = "none"]
    /\ \/ /\ long[f]
          /\ EventAdd(f, "in")
          /\ UNCHANGED <<peer, sock, conn>>
       \/ ~long[f] /\ EventDel(f)
    /\ UNCHANGED <<backlog, long, buf, rfd, listening, tasks, work, world, refused>>

\* dealwithwrite, when the socket takes no more or Send() failed.
WriteAgain(f) ==
    /\ rfd = NoFd /\ <<f, "out">> \in batch
    /\ batch' = batch \ {<<f, "out">>}
    /\ EventAdd(f, "out")
    /\ UNCHANGED <<peer, sock, backlog, long, conn, buf, resp, rfd, listening,
                   tasks, work, world, refused>>

\* send() on a socket that was reset raises SIGPIPE: no call passes
\* MSG_NOSIGNAL and nobody handles the signal, so the process ends.
WriteKilled(f) ==
    /\ rfd = NoFd /\ <<f, "out">> \in batch /\ peer[f] = "reset"
    /\ killed' = TRUE
    /\ UNCHANGED <<kernel, event, loop, tasks, work, clients, chunks, refused>>

-----------------------------------------------------------------------------
\* A worker: event::task_cb()

Take(w) ==
    /\ wpc[w] = "idle" /\ tasks # << >>
    /\ wfd' = [wfd EXCEPT ![w] = Head(tasks)]
    /\ tasks' = Tail(tasks)
    /\ wpc' = [wpc EXCEPT ![w] = "parse"]
    /\ UNCHANGED <<kernel, event, loop, wdir, world, refused>>

\* process_read, and for a whole request handle_business.  NO_REQUEST waits
\* for more input; BAD_REQUEST sets a code and no content; GET_REQUEST fills
\* the content, or leaves it empty when no handler knows the path.  task_cb
\* tests `active` first; NothingStale shows that it is always set.
Parse(w) ==
    /\ wpc[w] = "parse" /\ active[wfd[w]]
    /\ \E left \in 0 .. buf[wfd[w]] : buf' = [buf EXCEPT ![wfd[w]] = left]
    /\ \/ /\ wdir' = [wdir EXCEPT ![w] = "in"]
          /\ UNCHANGED <<resp, long>>
       \/ /\ wdir' = [wdir EXCEPT ![w] = "out"]
          /\ resp' = [resp EXCEPT ![wfd[w]] = "empty"]
          /\ UNCHANGED long
       \/ /\ wdir' = [wdir EXCEPT ![w] = "out"]
          /\ \E r \in {"content", "empty"} : resp' = [resp EXCEPT ![wfd[w]] = r]
          /\ \E keep \in BOOLEAN : long' = [long EXCEPT ![wfd[w]] = keep]
    /\ status' = [status EXCEPT ![wfd[w]] = 0]
    /\ wpc' = [wpc EXCEPT ![w] = "mark"]
    /\ UNCHANGED <<kernel, active, conn, loop, tasks, wfd, world, refused>>

\* faulty: epoll hears of the event before its fields are written
MarkArmed(w) ==
    /\ wpc[w] = "mark"
    /\ EventAdd(wfd[w], wdir[w])
    /\ wpc' = [wpc EXCEPT ![w] = "arm"]
    /\ UNCHANGED <<peer, sock, backlog, long, conn, buf, resp, loop, tasks, wfd,
                   wdir, world, refused>>

\* event_add with status 0: the fields are written first ...
Mark(w) ==
    /\ wpc[w] = "mark"
    /\ status' = [status EXCEPT ![wfd[w]] = 1]
    /\ active' = [active EXCEPT ![wfd[w]] = TRUE]
    /\ wpc' = [wpc EXCEPT ![w] = "arm"]
    /\ UNCHANGED <<kernel, long, conn, buf, resp, loop, tasks, wfd, wdir,
                   world, refused>>

\* faulty: waits for input whatever the result was
ArmIn(w) ==
    /\ wpc[w] = "arm"
    /\ interest' = [interest EXCEPT ![wfd[w]] = IF @ = "none" THEN "in" ELSE @]
    /\ wpc' = [wpc EXCEPT ![w] = "idle"]
    /\ wfd' = [wfd EXCEPT ![w] = NoFd]
    /\ UNCHANGED <<peer, sock, backlog, event, loop, tasks, wdir, world, refused>>

\* ... and EPOLL_CTL_ADD is the worker's last access to the event.
Arm(w) ==
    /\ wpc[w] = "arm"
    /\ interest' = [interest EXCEPT ![wfd[w]] = IF @ = "none" THEN wdir[w] ELSE @]
    /\ wpc' = [wpc EXCEPT ![w] = "idle"]
    /\ wfd' = [wfd EXCEPT ![w] = NoFd]
    /\ UNCHANGED <<peer, sock, backlog, event, loop, tasks, wdir, world, refused>>

-----------------------------------------------------------------------------
\* Clients of a process that has ended are of no interest.
Client == ~killed /\ (Connect \/ \E f \in Fd : Send(f) \/ Close(f) \/ Reset(f))

Handle ==
    \/ PushTask
    \/ Accept
    \/ \E f \in Fd : DealWithRead(f) \/ WriteDone(f) \/ WriteAgain(f) \/ WriteKilled(f)

Loop == ~killed /\ (Poll \/ Handle)

Worker(w) == ~killed /\ (Take(w) \/ Parse(w) \/ Mark(w) \/ Arm(w))

Next == Client \/ Loop \/ \E w \in Workers : Worker(w)

Spec == Init /\ [][Next]_vars

\* The loop and the workers never stop while there is work, and a client
\* that stays takes what is sent to it again and again in the end.  Nothing
\* is assumed of a write to a client that has closed.
Delivered(f) == ~killed /\ peer[f] = "open" /\ WriteDone(f)
Fairness ==
    /\ WF_vars(Loop)
    /\ \A w \in Workers : WF_vars(Worker(w))
    /\ \A f \in Fd : SF_vars(Delivered(f))

FairSpec == Spec /\ Fairness
-----------------------------------------------------------------------------
(* Properties *)

\* Who may touch the event of f now: epoll may report it (or has), the
\* reactor holds it for the pool, it is queued, or a worker has it.
Owners(f) ==
    (IF interest[f] # "none" THEN {<<"epoll", 1>>} ELSE {})
      \cup (IF rfd = f THEN {<<"reactor", 1>>} ELSE {})
      \cup {<<"task", i>> : i \in {j \in DOMAIN tasks : tasks[j] = f}}
      \cup {<<"worker", w>> : w \in {v \in Workers : wfd[v] = f}}

\* An event has one owner at a time, although no lock guards it: neither two
\* workers nor a worker and the reactor are ever inside the same connection.
OneOwner == \A f \in Fd : \A a, b \in Owners(f) : a = b

\* Nobody handles an event whose connection was deleted, and an event taken
\* from an older epoll_wait is still the one epoll reported.
NothingStale ==
    /\ \A f \in Fd : Owners(f) # {} => conn[f] = "live" /\ active[f]
    /\ \A e \in batch : interest[e[1]] = e[2]

\* event::status agrees with the interest list where it is used, so that
\* EPOLL_CTL_ADD and EPOLL_CTL_MOD never fail; and a descriptor that accept()
\* gives again has no status left from its last connection.
StatusAgrees ==
    \A f \in Fd :
       /\ interest[f] # "none" => status[f] = 1 /\ active[f]
       /\ peer[f] = "absent" => status[f] = 0 /\ interest[f] = "none"

\* The only ways to lose a connection: a push that was refused, or a read
\* that found nothing because the client is gone.
Forgotten(f) == conn[f] = "live" /\ Owners(f) = {}
ForgottenForAReason ==
    \A f \in Fd : Forgotten(f) =>
       \/ f \in refused
       \/ Gone(f) /\ buf[f] = 0

\* A queue with a slot per descriptor never refuses a push.
NoRefusalWithASlotEach == QueueSize >= Cardinality(Fd) => refused = {}

\* A response with content is sent while its client stays.
ResponseIsSent ==
    \A f \in Fd : resp[f] = "content" ~> resp[f] = "none" \/ Gone(f) \/ killed

\* What a client sent is read, also after it has closed, unless the process
\* was killed, the connection is forgotten, its buffer is full, or it is busy
\* sending an empty response, or one whose client is gone.
DataIsRead ==
    \A f \in Fd : sock[f] > 0 ~> \/ sock[f] = 0 \/ killed \/ Forgotten(f)
                                 \/ buf[f] >= Full \/ resp[f] = "empty"
                                 \/ resp[f] = "content" /\ Gone(f)

=============================================================================
