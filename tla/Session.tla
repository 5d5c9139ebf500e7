------------------------------ MODULE Session ------------------------------
(***************************************************************************)
(* Registration, login and the check of a login's token                    *)
(* (api/ApiRegister.cpp, api/ApiLogin.cpp, VerifyToken of api/comm.cc):    *)
(* rows of user_info in MySQL, one token per user name in Redis, and the   *)
(* connections to Redis, each of which notices on its own that it is lost  *)
(* and tries again at most once a second (RedisPool/CachePool.cpp).        *)
(*                                                                         *)
(* A statement or a command is one step; the workers' handlers interleave  *)
(* between them.  Both may fail, also after the server has done them, and  *)
(* the process dies if it gets no MySQL connection.  Clients present a     *)
(* token that some login answered with, or the empty string.               *)
(* RandomString() draws from rand(), which nobody seeds: after a restart   *)
(* the same tokens come again, in the same order.                          *)
(***************************************************************************)
EXTENDS Integers, Sequences

CONSTANTS Worker,       \* threads that handle requests
          Name, Nick, Pwd,
          Conn,         \* connections of the Redis pool
          None,         \* no token, no value
          MaxRequests,  \* bound: requests ever begun
          MaxLogins,    \* bound: tokens ever drawn
          MaxTime,      \* bound: seconds
          MaxFailures   \* bound: failures of MySQL, Redis or the network

ASSUME SessionAssumption ==
    /\ None \notin Int /\ None \notin Name \cup Nick \cup Pwd
    /\ MaxRequests \in Nat /\ MaxLogins \in Nat
    /\ MaxTime \in Nat /\ MaxFailures \in Nat

VARIABLES
    user_info,   \* MySQL: the rows, oldest first
    redis,       \* Redis: each name's token
    context,     \* m_pContext: "up", "broken" (not NULL, but lost) or "none"
    tried,       \* m_last_connect_time
    clock,       \* time(NULL)
    drawn,       \* tokens drawn since the process was started: where rand() is
    work,        \* each worker's request, with its answer once it has one
    told,        \* history: <<name, password>> of registrations answered 002
    given,       \* history: the name for which the i-th login drew a token and
                 \* answered with it
    drew,        \* history: that token
    over,        \* history: logins whose token was replaced, expired, or never stored
    made, requests, fails

store   == <<user_info, redis>>
conns   == <<context, tried>>
history == <<told, given, drew, over, made>>
vars    == <<store, conns, clock, drawn, work, history, requests, fails>>

Login == 1 .. MaxLogins
Token == 1 .. MaxLogins     \* the t-th that RandomString() makes after a start
Empty == 0                  \* the empty string

Entry == [name : Name, nick : Nick, pwd : Pwd]
Answers == {"002", "003", "004", "no code", "token", "accepted", "refused"}

\* A worker's request, then its answer
Request == [pc : Answers \cup {"idle", "look", "insert", "check", "setex", "get"},
            name : Name \cup {None}, nick : Nick \cup {None},
            pwd : Pwd \cup {None}, token : Token \cup {Empty, None},
            due : BOOLEAN, hurt : BOOLEAN]
Idle == [pc |-> "idle", name |-> None, nick |-> None, pwd |-> None,
         token |-> None, due |-> FALSE, hurt |-> FALSE]

\* A SELECT by name: row i is the first, and the only one that is looked at.
Finds(n, i) ==
    /\ i \in DOMAIN user_info /\ user_info[i].name = n
    /\ \A j \in 1 .. i - 1 : user_info[j].name # n
Known(n) == \E i \in DOMAIN user_info : Finds(n, i)
Matches(n, p) == \E i \in DOMAIN user_info : Finds(n, i) /\ user_info[i].pwd = p

TypeOK ==
    /\ user_info \in Seq(Entry)
    /\ \A i, j \in DOMAIN user_info : i # j =>
         user_info[i].name # user_info[j].name /\ user_info[i].nick # user_info[j].nick
    /\ redis \in [Name -> Token \cup {None}]
    /\ context \in [Conn -> {"up", "broken", "none"}]
    /\ tried \in [Conn -> 0 .. clock] /\ clock \in 0 .. MaxTime
    /\ work \in [Worker -> Request]
    /\ told \subseteq Name \X Pwd
    /\ given \in [Login -> Name \cup {None}]
    /\ drew \in [Login -> Token \cup {None}]
    /\ over \subseteq Login
    /\ made \in 0 .. MaxLogins /\ drawn \in 0 .. made
    /\ requests \in 0 .. MaxRequests /\ fails \in 0 .. MaxFailures

Init ==
    /\ user_info = << >>
    /\ redis = [n \in Name |-> None]
    /\ context = [k \in Conn |-> "up"] /\ tried = [k \in Conn |-> 0]
    /\ clock = 0 /\ drawn = 0
    /\ work = [w \in Worker |-> Idle]
    /\ told = {} /\ given = [i \in Login |-> None] /\ drew = [i \in Login |-> None]
    /\ over = {} /\ made = 0
    /\ requests = 0 /\ fails = 0

-----------------------------------------------------------------------------
\* Requests.  `due` says that the password of a login was registered.

Begin(w, r) ==
    /\ work[w].pc \in Answers \cup {"idle"}
    /\ requests < MaxRequests /\ requests' = requests + 1
    /\ work' = [work EXCEPT ![w] = r]
    /\ UNCHANGED <<store, conns, clock, drawn, history, fails>>

BeginRegister(w) == \E n \in Name, k \in Nick, p \in Pwd :
    Begin(w, [Idle EXCEPT !.pc = "look", !.name = n, !.nick = k, !.pwd = p])

BeginLogin(w) == \E n \in Name, p \in Pwd :
    Begin(w, [Idle EXCEPT !.pc = "check", !.name = n, !.pwd = p,
                          !.due = <<n, p>> \in told])

BeginVerify(w) == \E n \in Name, t \in Token \cup {Empty} :
    /\ t = Empty \/ \E i \in Login : drew[i] = t
    /\ Begin(w, [Idle EXCEPT !.pc = "get", !.name = n, !.token = t])

Goto(w, pc) == work' = [work EXCEPT ![w].pc = pc]
Hurt(w, pc) == work' = [work EXCEPT ![w].pc = pc, ![w].hurt = TRUE]

Failure == fails < MaxFailures /\ fails' = fails + 1
NoFailure == UNCHANGED fails

-----------------------------------------------------------------------------
\* registerUser

Look(w) ==
    /\ work[w].pc = "look"
    /\ \/ Goto(w, IF Known(work[w].name) THEN "003" ELSE "insert") /\ NoFailure
       \/ Hurt(w, "insert") /\ Failure      \* taken for "no such user"
    /\ UNCHANGED <<store, conns, clock, drawn, history, requests>>

\* faulty: the schema has no unique keys, or only one
TakenNever(r) == FALSE

\* The unique keys of user_info
Taken(r) == \E i \in DOMAIN user_info :
    user_info[i].name = r.name \/ user_info[i].nick = r.nick

Fresh(w) == [name |-> work[w].name, nick |-> work[w].nick, pwd |-> work[w].pwd]
AddRow(w) == user_info' = Append(user_info, Fresh(w))

\* The statement runs, is refused for its keys, cannot be prepared (which
\* leaves ret 0), or fails before or after the server has run it.
Insert(w) ==
    /\ work[w].pc = "insert"
    /\ \/ /\ ~Taken(Fresh(w)) /\ AddRow(w) /\ NoFailure
          /\ told' = told \cup {<<work[w].name, work[w].pwd>>}
          /\ Goto(w, "002")
       \/ ~Taken(Fresh(w)) /\ AddRow(w) /\ Failure /\ Hurt(w, "004") /\ UNCHANGED told
       \/ /\ \/ Taken(Fresh(w)) /\ NoFailure /\ Goto(w, "004")
             \/ Failure /\ (Hurt(w, "no code") \/ Hurt(w, "004"))
          /\ UNCHANGED <<user_info, told>>
    /\ UNCHANGED <<redis, conns, clock, drawn, given, drew, over, made, requests>>

-----------------------------------------------------------------------------
\* Commands to Redis.  CacheConn::Init() comes before each of them.

\* The last try was within this second.
TooSoon(k) == context[k] = "none" /\ clock < tried[k] + 1
Reaches(k) == context[k] # "broken" /\ ~TooSoon(k)

Connected(k, c) ==
    /\ context' = [context EXCEPT ![k] = c]
    /\ tried' = IF context[k] = "none" /\ ~TooSoon(k)
                THEN [tried EXCEPT ![k] = clock] ELSE tried

\* The command is run and answered.
Answered(k) == Reaches(k) /\ Connected(k, "up") /\ NoFailure

\* It is run and the answer is lost.
Unanswered(k) == Reaches(k) /\ Connected(k, "none") /\ Failure

\* It is not run: too soon for a connection, or the connection is lost, or
\* connecting, selecting the database or the command itself fails.
NotRun(k) ==
    \/ ~Reaches(k) /\ Connected(k, "none") /\ NoFailure
    \/ Reaches(k) /\ Failure /\ \/ Connected(k, "none")
                                \/ Connected(k, "up")
                                \/ context[k] = "none" /\ Connected(k, "broken")

-----------------------------------------------------------------------------
\* verifyUserPassword
Check(w) ==
    /\ work[w].pc = "check"
    /\ \/ /\ Goto(w, IF Matches(work[w].name, work[w].pwd) THEN "setex" ELSE "refused")
          /\ NoFailure
       \/ Hurt(w, "refused") /\ Failure
    /\ UNCHANGED <<store, conns, clock, drawn, history, requests>>

\* The logins of a name whose token is the one that Redis has.
Live(n) == {i \in Login : given[i] = n /\ i \notin over}

\* faulty: a token that is there stays
StoreIfNone(n, t) ==
    /\ redis' = IF redis[n] = None THEN [redis EXCEPT ![n] = t] ELSE redis
    /\ over' = over \cup Live(n)

Store(n, t) ==
    /\ redis' = [redis EXCEPT ![n] = t]
    /\ over' = over \cup Live(n)

\* setToken.  What setex() returns is not looked at: the login is answered
\* with a token whether Redis has it or not, unless there is no connection.
SetToken(w) ==
    LET n == work[w].name
        i == made + 1
        t == drawn + 1
    IN
    /\ work[w].pc = "setex" /\ made < MaxLogins
    /\ made' = i /\ drawn' = t
    /\ \/ /\ \E k \in Conn :
               \/ (Answered(k) \/ Unanswered(k)) /\ Store(n, t)
               \/ NotRun(k) /\ over' = over \cup {i} /\ UNCHANGED redis
          /\ given' = [given EXCEPT ![i] = n] /\ drew' = [drew EXCEPT ![i] = t]
          /\ work' = [work EXCEPT ![w].pc = "token", ![w].token = t]
       \/ /\ Failure
          /\ Hurt(w, "refused")
          /\ UNCHANGED <<redis, conns, given, drew, over>>
    /\ UNCHANGED <<user_info, clock, told, requests>>

\* get() returns an empty string for a name without a token, and for whatever
\* goes wrong.
Get(n) == IF redis[n] = None THEN Empty ELSE redis[n]
Compared(w, value) == IF value = work[w].token THEN "accepted" ELSE "refused"

\* VerifyToken.  Only without a connection is the value not compared.
VerifyToken(w) ==
    /\ work[w].pc = "get"
    /\ \/ \E k \in Conn :
            \/ Answered(k) /\ Goto(w, Compared(w, Get(work[w].name)))
            \/ (Unanswered(k) \/ NotRun(k)) /\ Hurt(w, Compared(w, Empty))
       \/ Failure /\ Hurt(w, "refused") /\ UNCHANGED conns
    /\ UNCHANGED <<store, clock, drawn, history, requests>>

-----------------------------------------------------------------------------
\* Redis drops a token after its 24 hours.
Expire(n) ==
    /\ redis[n] # None
    /\ redis' = [redis EXCEPT ![n] = None]
    /\ over' = over \cup Live(n)
    /\ UNCHANGED <<user_info, conns, clock, drawn, work, told, given, drew, made, requests, fails>>

Tick ==
    /\ clock < MaxTime /\ clock' = clock + 1
    /\ UNCHANGED <<store, conns, drawn, work, history, requests, fails>>

\* No connection to MySQL can be opened and NULL is dereferenced; the server
\* is started again, with connections to Redis that were just made.
Crash(w) ==
    /\ work[w].pc \in {"look", "check"} /\ Failure
    /\ work' = [v \in Worker |-> Idle]
    /\ context' = [k \in Conn |-> "up"] /\ tried' = [k \in Conn |-> clock]
    /\ drawn' = 0
    /\ UNCHANGED <<store, clock, history, requests>>

Handle(w) == Look(w) \/ Insert(w) \/ Check(w) \/ SetToken(w) \/ VerifyToken(w)

Next == \/ \E w \in Worker : \/ BeginRegister(w) \/ BeginLogin(w) \/ BeginVerify(w)
                             \/ Handle(w) \/ Crash(w)
        \/ \E n \in Name : Expire(n)
        \/ Tick

Spec == Init /\ [][Next]_vars
-----------------------------------------------------------------------------
(* Properties *)

\* Whoever was told that the registration succeeded can log in with that
\* password from then on, whatever other registrations of the name or the nick
\* name came between its SELECT and its INSERT, unless the login itself meets
\* a failure.
RegisteredCanLogIn ==
    \A w \in Worker : work[w].pc = "refused" /\ work[w].token = None =>
        work[w].hurt \/ ~work[w].due

\* What a check is told when nothing fails while it is made: a token is
\* accepted if a login of the name drew it and answered with it, and since then
\* no other login of the name stored its own, it did not expire, and Redis did
\* get it.  A token that is over is accepted again once a login behind a restart
\* has drawn it anew; the empty string is, as long as the name has no token.  A
\* check that meets a failure, or the second's pause after one, accepts the
\* empty string and nothing else.
StillGood(n, t) == IF t = Empty THEN Live(n) = {} ELSE \E i \in Live(n) : drew[i] = t
Decided(w) ==
    IF work'[w].hurt THEN work'[w].pc = "accepted" => work[w].token = Empty
    ELSE work'[w].pc = "accepted" <=> StillGood(work[w].name, work[w].token)
TokenHonoured ==
    [][\A w \in Worker : work[w].pc = "get" /\ work'[w].pc \in {"accepted", "refused"} => Decided(w)]_vars
=============================================================================
