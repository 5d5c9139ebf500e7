--------------------------- MODULE SessionProofs ---------------------------
(***************************************************************************)
(* Proofs about Session, for any number of workers, names and connections. *)
(*                                                                         *)
(*   TypeOK              types, and no two rows with a name or nick.       *)
(*   RegisteredCanLogIn  inductive with UserInv: rows are only appended,   *)
(*                       so the first row of a name stays the first.       *)
(*   TokenHonoured       by Tokens: Redis holds for every name exactly the *)
(*                       token of its login that is not over.              *)
(***************************************************************************)
EXTENDS Session, TLAPS

-----------------------------------------------------------------------------
(* Types.                                                                   *)

LEMMA InitTypes == Init => TypeOK
  BY SessionAssumption DEF Init, TypeOK, Idle, Request, Answers, Token, Login

\* The commands' share: the connections stay well formed.
LEMMA CommandTypes ==
    ASSUME TypeOK, NEW k \in Conn, UNCHANGED clock,
           Answered(k) \/ Unanswered(k) \/ NotRun(k)
    PROVE  /\ context' \in [Conn -> {"up", "broken", "none"}]
           /\ tried' \in [Conn -> 0 .. clock']
           /\ fails' \in 0 .. MaxFailures
  <1> USE DEF TypeOK
  <1>1. fails' \in 0 .. MaxFailures
    BY SessionAssumption DEF Answered, Unanswered, NotRun, Failure, NoFailure
  <1>2. PICK c \in {"up", "broken", "none"} : Connected(k, c)
    BY DEF Answered, Unanswered, NotRun
  <1>3. context' \in [Conn -> {"up", "broken", "none"}]
    BY <1>2 DEF Connected
  <1>4. tried' \in [Conn -> 0 .. clock']
    BY <1>2 DEF Connected
  <1> QED
    BY <1>1, <1>3, <1>4

\* A request that goes on stays a request.
LEMMA RequestGoesOn ==
    ASSUME NEW q \in Request, NEW pc \in Answers \cup {"insert", "setex"}
    PROVE  /\ [q EXCEPT !.pc = pc] \in Request
           /\ [q EXCEPT !.pc = pc, !.hurt = TRUE] \in Request
           /\ \A t \in Token : [q EXCEPT !.pc = pc, !.token = t] \in Request
  BY DEF Request

\* A worker's request after a step of its handler.
LEMMA WorkTypes ==
    ASSUME TypeOK, NEW w \in Worker, NEW pc \in Answers \cup {"insert", "setex"},
           Goto(w, pc) \/ Hurt(w, pc)
    PROVE  work' \in [Worker -> Request]
  <1>0. work[w] \in Request
    BY DEF TypeOK
  <1>1. CASE Goto(w, pc)
    BY <1>1, <1>0, RequestGoesOn DEF TypeOK, Goto
  <1>2. CASE Hurt(w, pc)
    BY <1>2, <1>0, RequestGoesOn DEF TypeOK, Hurt
  <1> QED
    BY <1>1, <1>2

\* What Begin needs of the request it is given.
LEMMA BeginTypes ==
    ASSUME TypeOK, NEW w \in Worker, BeginRegister(w) \/ BeginLogin(w) \/ BeginVerify(w)
    PROVE  TypeOK'
  <1>1. PICK r \in Request : Begin(w, r)
    <2>1. CASE BeginRegister(w)
      BY <2>1 DEF BeginRegister, Idle, Request
    <2>2. CASE BeginLogin(w)
      <3>1. PICK n \in Name, p \in Pwd :
              Begin(w, [Idle EXCEPT !.pc = "check", !.name = n, !.pwd = p,
                                    !.due = <<n, p>> \in told])
        BY <2>2 DEF BeginLogin
      <3>2. \A d \in BOOLEAN :
              [Idle EXCEPT !.pc = "check", !.name = n, !.pwd = p, !.due = d] \in Request
        BY DEF Idle, Request
      <3>3. (<<n, p>> \in told) \in BOOLEAN
        OBVIOUS
      <3>4. [Idle EXCEPT !.pc = "check", !.name = n, !.pwd = p,
                         !.due = <<n, p>> \in told] \in Request
        BY <3>2, <3>3, Zenon
      <3> QED
        BY <3>1, <3>4, Zenon
    <2>3. CASE BeginVerify(w)
      <3>1. PICK n \in Name, t \in Token \cup {Empty} :
              Begin(w, [Idle EXCEPT !.pc = "get", !.name = n, !.token = t])
        BY <2>3 DEF BeginVerify
      <3> QED
        BY <3>1 DEF Idle, Request
    <2> QED
      BY <2>1, <2>2, <2>3
  <1>2. work' \in [Worker -> Request]
    BY <1>1 DEF Begin, TypeOK
  <1>3. requests' \in 0 .. MaxRequests
    BY <1>1, SessionAssumption DEF Begin, TypeOK
  <1> QED
    BY <1>1, <1>2, <1>3 DEF Begin, TypeOK, store, conns, history

LEMMA InsertTypes ==
    ASSUME TypeOK, NEW w \in Worker, Insert(w), work[w].name \in Name,
           work[w].nick \in Nick, work[w].pwd \in Pwd
    PROVE  TypeOK'
  <1> DEFINE r == Fresh(w)
  <1>1. r \in Entry
    BY DEF Entry, Fresh
  <1>2. user_info' = user_info \/ (~Taken(r) /\ user_info' = Append(user_info, r))
    BY DEF Insert, AddRow
  <1> HIDE DEF r
  <1>0. user_info \in Seq(Entry) /\ told \subseteq Name \X Pwd /\ fails \in 0 .. MaxFailures
    BY DEF TypeOK
  <1>3. user_info' \in Seq(Entry)
    BY <1>0, <1>1, <1>2
  <1>4. ASSUME NEW i \in DOMAIN user_info', NEW j \in DOMAIN user_info', i # j
        PROVE  /\ user_info'[i].name # user_info'[j].name
               /\ user_info'[i].nick # user_info'[j].nick
    <2>1. CASE user_info' = user_info
      BY <1>4, <2>1 DEF TypeOK
    <2>2. CASE ~Taken(r) /\ user_info' = Append(user_info, r)
      <3>1. \A k \in DOMAIN user_info :
              user_info'[k] = user_info[k] /\ user_info[k].name # r.name
                                           /\ user_info[k].nick # r.nick
        BY <2>2, <1>1 DEF TypeOK, Taken
      <3>2. user_info'[Len(user_info) + 1] = r
        BY <2>2, <1>1 DEF TypeOK
      <3>3. \A k \in DOMAIN user_info' : k \in DOMAIN user_info \/ k = Len(user_info) + 1
        BY <2>2, <1>1 DEF TypeOK
      <3>4. CASE i \in DOMAIN user_info /\ j \in DOMAIN user_info
        BY <1>4, <3>1, <3>4 DEF TypeOK
      <3>5. CASE i = Len(user_info) + 1 /\ j \in DOMAIN user_info
        BY <3>1, <3>2, <3>5
      <3>6. CASE i \in DOMAIN user_info /\ j = Len(user_info) + 1
        BY <3>1, <3>2, <3>6
      <3> QED
        BY <1>4, <3>3, <3>4, <3>5, <3>6
    <2> QED
      BY <1>2, <2>1, <2>2
  <1>5. told' \subseteq Name \X Pwd
    <2>1. told' = told \/ told' = told \cup {<<work[w].name, work[w].pwd>>}
      BY DEF Insert
    <2> QED
      BY <1>0, <2>1
  <1>6. fails' \in 0 .. MaxFailures
    <2>1. Failure \/ NoFailure
      BY DEF Insert
    <2> QED
      BY <1>0, <2>1, SessionAssumption DEF Failure, NoFailure
  <1>7. \E pc \in {"002", "004", "no code"} : Goto(w, pc) \/ Hurt(w, pc)
    BY DEF Insert
  <1>8. work' \in [Worker -> Request]
    BY <1>7, WorkTypes DEF Answers
  <1>9. UNCHANGED <<redis, context, tried, clock, drawn, given, drew, over, made, requests>>
    BY DEF Insert, conns
  <1> QED
    BY <1>3, <1>4, <1>5, <1>6, <1>8, <1>9 DEF TypeOK

LEMMA SetTokenTypes ==
    ASSUME TypeOK, NEW w \in Worker, SetToken(w), work[w].name \in Name
    PROVE  TypeOK'
  <1> DEFINE n == work[w].name
             i == made + 1
             t == drawn + 1
  <1>0. /\ work[w] \in Request /\ work \in [Worker -> Request]
        /\ fails \in 0 .. MaxFailures /\ made \in 0 .. MaxLogins /\ drawn \in 0 .. made
        /\ redis \in [Name -> Token \cup {None}] /\ over \subseteq Login
        /\ given \in [Login -> Name \cup {None}]
        /\ drew \in [Login -> Token \cup {None}]
        /\ context \in [Conn -> {"up", "broken", "none"}]
        /\ tried \in [Conn -> 0 .. clock]
    BY DEF TypeOK
  <1>1. UNCHANGED <<user_info, clock, told, requests>>
    BY DEF SetToken
  <1>2. t \in Token /\ i \in Login /\ made' = i /\ drawn' = t
    BY <1>0, SessionAssumption DEF SetToken, Token, Login
  <1>3. made' \in 0 .. MaxLogins /\ drawn' \in 0 .. made'
    BY <1>0, <1>2 DEF Login
  <1>4. CASE /\ \E k \in Conn :
                   \/ (Answered(k) \/ Unanswered(k)) /\ Store(n, t)
                   \/ NotRun(k) /\ over' = over \cup {i} /\ UNCHANGED redis
             /\ given' = [given EXCEPT ![i] = n] /\ drew' = [drew EXCEPT ![i] = t]
             /\ work' = [work EXCEPT ![w].pc = "token", ![w].token = t]
    <2>1. PICK k \in Conn :
                   \/ (Answered(k) \/ Unanswered(k)) /\ Store(n, t)
                   \/ NotRun(k) /\ over' = over \cup {i} /\ UNCHANGED redis
      BY <1>4
    <2>2. /\ context' \in [Conn -> {"up", "broken", "none"}]
          /\ tried' \in [Conn -> 0 .. clock']
          /\ fails' \in 0 .. MaxFailures
      BY <1>1, <2>1, CommandTypes
    <2>3. Live(n) \subseteq Login
      BY DEF Live
    <2>4. redis' \in [Name -> Token \cup {None}] /\ over' \subseteq Login
      BY <1>0, <1>2, <2>1, <2>3 DEF Store
    <2>5. given' \in [Login -> Name \cup {None}] /\ drew' \in [Login -> Token \cup {None}]
      BY <1>0, <1>2, <1>4
    <2>6. work' \in [Worker -> Request]
      <3>1. [work[w] EXCEPT !.pc = "token", !.token = t] \in Request
        BY <1>0, <1>2, RequestGoesOn DEF Answers
      <3> QED
        BY <1>0, <1>4, <3>1
    <2> QED
      BY <1>1, <1>3, <2>2, <2>4, <2>5, <2>6 DEF TypeOK
  <1>5. CASE Failure /\ Hurt(w, "refused") /\ UNCHANGED <<redis, conns, given, drew, over>>
    <2>1. work' \in [Worker -> Request]
      BY <1>5, WorkTypes DEF Answers
    <2>2. fails' \in 0 .. MaxFailures
      BY <1>0, <1>5, SessionAssumption DEF Failure
    <2> QED
      BY <1>1, <1>3, <1>5, <2>1, <2>2 DEF TypeOK, conns
  <1> QED
    BY <1>4, <1>5 DEF SetToken

LEMMA VerifyTypes ==
    ASSUME TypeOK, NEW w \in Worker, VerifyToken(w)
    PROVE  TypeOK'
  <1>0. /\ fails \in 0 .. MaxFailures
        /\ context \in [Conn -> {"up", "broken", "none"}]
        /\ tried \in [Conn -> 0 .. clock]
    BY DEF TypeOK
  <1>1. UNCHANGED <<user_info, redis, clock, drawn, told, given, drew, over, made, requests>>
    BY DEF VerifyToken, store, history
  <1>2. work' \in [Worker -> Request]
    <2>1. \E pc \in {"accepted", "refused"} : Goto(w, pc) \/ Hurt(w, pc)
      BY DEF VerifyToken, Compared
    <2> QED
      BY <2>1, WorkTypes DEF Answers
  <1>3. /\ context' \in [Conn -> {"up", "broken", "none"}]
        /\ tried' \in [Conn -> 0 .. clock']
        /\ fails' \in 0 .. MaxFailures
    <2>1. \/ \E k \in Conn : Answered(k) \/ Unanswered(k) \/ NotRun(k)
          \/ Failure /\ UNCHANGED conns
      BY DEF VerifyToken
    <2>2. CASE \E k \in Conn : Answered(k) \/ Unanswered(k) \/ NotRun(k)
      BY <1>1, <2>2, CommandTypes
    <2>3. CASE Failure /\ UNCHANGED conns
      BY <1>0, <1>1, <2>3, SessionAssumption DEF Failure, conns
    <2> QED
      BY <2>1, <2>2, <2>3
  <1> QED
    BY <1>1, <1>2, <1>3 DEF TypeOK

\* The two handlers' SELECTs
LEMMA SelectTypes ==
    ASSUME TypeOK, NEW w \in Worker, Look(w) \/ Check(w)
    PROVE  TypeOK'
  <1>1. UNCHANGED <<user_info, redis, context, tried, clock, drawn, told, given, drew, over, made, requests>>
    BY DEF Look, Check, store, conns, history
  <1>2. \E pc \in {"003", "insert", "setex", "refused"} : Goto(w, pc) \/ Hurt(w, pc)
    BY DEF Look, Check
  <1>3. work' \in [Worker -> Request]
    BY <1>2, WorkTypes DEF Answers
  <1>4. Failure \/ NoFailure
    BY DEF Look, Check
  <1>5. fails' \in 0 .. MaxFailures
    BY <1>4, SessionAssumption DEF Failure, NoFailure, TypeOK
  <1> QED
    BY <1>1, <1>3, <1>5 DEF TypeOK

\* What happens around the handlers
LEMMA WorldTypes ==
    ASSUME TypeOK, \/ \E n \in Name : Expire(n)
                   \/ Tick
                   \/ \E w \in Worker : Crash(w)
    PROVE  TypeOK'
  <1>1. CASE \E n \in Name : Expire(n)
    BY <1>1 DEF Expire, TypeOK, conns, Live
  <1>2. CASE Tick
    <2>1. clock' \in 0 .. MaxTime /\ tried' \in [Conn -> 0 .. clock']
      BY <1>2, SessionAssumption DEF Tick, TypeOK, conns
    <2> QED
      BY <1>2, <2>1 DEF Tick, TypeOK, store, conns, history
  <1>3. CASE \E w \in Worker : Crash(w)
    <2>1. Idle \in Request
      BY DEF Idle, Request
    <2>2. fails' \in 0 .. MaxFailures
      BY <1>3, SessionAssumption DEF Crash, Failure, TypeOK
    <2>3. tried' \in [Conn -> 0 .. clock']
      BY <1>3 DEF Crash, TypeOK
    <2> QED
      BY <1>3, <2>1, <2>2, <2>3 DEF Crash, TypeOK, store, history
  <1> QED
    BY <1>1, <1>2, <1>3

-----------------------------------------------------------------------------
\* What a worker's request carries while it is worked on.
Shape ==
    \A w \in Worker :
        /\ work[w].pc \in {"look", "insert"} =>
              work[w].name \in Name /\ work[w].nick \in Nick /\ work[w].pwd \in Pwd
        /\ work[w].pc \in {"check", "setex"} => work[w].name \in Name /\ work[w].pwd \in Pwd
        /\ work[w].pc = "get" => work[w].name \in Name /\ work[w].token \in Token \cup {Empty}
        /\ work[w].pc \in {"look", "insert", "check", "setex"} => work[w].token = None

LEMMA ShapeStep ==
    ASSUME TypeOK, Shape, [Next]_vars
    PROVE  Shape'
  <1> DEFINE Good(q) ==
        /\ q.pc \in {"look", "insert"} => q.name \in Name /\ q.nick \in Nick /\ q.pwd \in Pwd
        /\ q.pc \in {"check", "setex"} => q.name \in Name /\ q.pwd \in Pwd
        /\ q.pc = "get" => q.name \in Name /\ q.token \in Token \cup {Empty}
        /\ q.pc \in {"look", "insert", "check", "setex"} => q.token = None
  <1>0. \A w \in Worker : Good(work[w]) /\ work[w] \in Request
    BY DEF Shape, TypeOK
  <1>1. SUFFICES \A w \in Worker : Good(work'[w])
    BY DEF Shape
  <1>2. CASE UNCHANGED work
    BY <1>0, <1>2
  <1>3. ASSUME NEW w \in Worker, NEW q, work' = [work EXCEPT ![w] = q], Good(q)
        PROVE  \A v \in Worker : Good(work'[v])
    <2>1. \A v \in Worker : work'[v] = IF v = w THEN q ELSE work[v]
      BY <1>3 DEF TypeOK
    <2> QED
      BY <1>0, <1>3, <2>1
  <1>4. ASSUME NEW w \in Worker, BeginRegister(w) \/ BeginLogin(w) \/ BeginVerify(w)
        PROVE  \A v \in Worker : Good(work'[v])
    <2>1. CASE BeginRegister(w)
      BY <1>3, <2>1 DEF BeginRegister, Begin, Idle
    <2>2. CASE BeginLogin(w)
      BY <1>3, <2>2 DEF BeginLogin, Begin, Idle
    <2>3. CASE BeginVerify(w)
      <3>1. PICK n \in Name, t \in Token \cup {Empty} :
              Begin(w, [Idle EXCEPT !.pc = "get", !.name = n, !.token = t])
        BY <2>3 DEF BeginVerify
      <3> DEFINE q == [Idle EXCEPT !.pc = "get", !.name = n, !.token = t]
      <3>3. Good(q)
        BY DEF Idle
      <3>4. work' = [work EXCEPT ![w] = q]
        BY <3>1 DEF Begin
      <3> HIDE DEF q
      <3> QED
        BY <1>3, <3>3, <3>4
    <2> QED
      BY <1>4, <2>1, <2>2, <2>3
  <1>5. ASSUME NEW w \in Worker, NEW pc, Goto(w, pc) \/ Hurt(w, pc),
               \/ pc \in Answers
               \/ pc = "insert" /\ work[w].pc = "look"
               \/ pc = "setex" /\ work[w].pc = "check"
        PROVE  \A v \in Worker : Good(work'[v])
    <2>1. work[w] \in Request /\ Good(work[w])
      BY <1>0
    <2>2. Good([work[w] EXCEPT !.pc = pc]) /\ Good([work[w] EXCEPT !.pc = pc, !.hurt = TRUE])
      BY <1>5, <2>1 DEF Request, Answers
    <2>3. \/ work' = [work EXCEPT ![w] = [work[w] EXCEPT !.pc = pc]]
          \/ work' = [work EXCEPT ![w] = [work[w] EXCEPT !.pc = pc, !.hurt = TRUE]]
      BY <1>5 DEF Goto, Hurt
    <2> QED
      BY <1>3, <2>2, <2>3
  <1>6. ASSUME NEW w \in Worker, Handle(w)
        PROVE  \A v \in Worker : Good(work'[v])
    <2>1. CASE Look(w)
      BY <1>5, <2>1 DEF Look, Answers
    <2>2. CASE Insert(w)
      BY <1>5, <2>2 DEF Insert, Answers
    <2>3. CASE Check(w)
      BY <1>5, <2>3 DEF Check, Answers
    <2>4. CASE SetToken(w)
      <3>1. CASE Hurt(w, "refused")
        BY <1>5, <3>1 DEF Answers
      <3>2. CASE work' = [work EXCEPT ![w].pc = "token", ![w].token = drawn + 1]
        <4>1. Good([work[w] EXCEPT !.pc = "token", !.token = drawn + 1])
          BY <1>0 DEF Request
        <4>2. work' = [work EXCEPT ![w] = [work[w] EXCEPT !.pc = "token", !.token = drawn + 1]]
          BY <1>0, <3>2 DEF TypeOK
        <4> QED
          BY <1>3, <4>1, <4>2
      <3> QED
        BY <2>4, <3>1, <3>2 DEF SetToken
    <2>5. CASE VerifyToken(w)
      BY <1>5, <2>5 DEF VerifyToken, Answers, Compared
    <2> QED
      BY <1>6, <2>1, <2>2, <2>3, <2>4, <2>5 DEF Handle
  <1>7. ASSUME NEW w \in Worker, Crash(w)
        PROVE  \A v \in Worker : Good(work'[v])
    BY <1>7 DEF Crash, Idle
  <1> QED
    BY <1>2, <1>4, <1>6, <1>7 DEF Next, vars, Expire, Tick

LEMMA TypesStep == TypeOK /\ Shape /\ [Next]_vars => TypeOK' /\ Shape'
  <1> SUFFICES ASSUME TypeOK, Shape, [Next]_vars PROVE TypeOK'
    BY ShapeStep
  <1>1. CASE UNCHANGED vars
    BY <1>1 DEF vars, store, conns, history, TypeOK
  <1>2. ASSUME NEW w \in Worker, Handle(w)
        PROVE  TypeOK'
    <2>1. CASE Insert(w)
      <3>1. work[w].pc = "insert"
        BY <2>1 DEF Insert
      <3> QED
        BY <2>1, <3>1, InsertTypes DEF Shape
    <2>2. CASE SetToken(w)
      <3>1. work[w].pc = "setex"
        BY <2>2 DEF SetToken
      <3> QED
        BY <2>2, <3>1, SetTokenTypes DEF Shape
    <2> QED
      BY <1>2, <2>1, <2>2, SelectTypes, VerifyTypes DEF Handle
  <1> QED
    BY <1>1, <1>2, BeginTypes, WorldTypes DEF Next

\* The type invariant: rows of user_info, tokens, connections and requests are
\* what they are meant to be, and the rows' names and nick names differ.
THEOREM SessionTypes == Spec => []TypeOK
  <1>1. Init => TypeOK /\ Shape
    BY InitTypes DEF Init, Shape, Idle
  <1> QED
    BY <1>1, TypesStep, PTL DEF Spec

-----------------------------------------------------------------------------
(* Whoever registered can log in.                                           *)

\* What a request may count on, in terms of what registrations were told.
UserInv ==
    /\ \A d \in told : Matches(d[1], d[2])
    /\ \A w \in Worker :
          work[w].pc = "check" /\ work[w].due => <<work[w].name, work[w].pwd>> \in told
    /\ RegisteredCanLogIn

\* Rows are only appended, and only those that match nobody's name: the first
\* row of a name stays the first, and the new row is the first of its own.
LEMMA RowsStay ==
    ASSUME TypeOK, NEW w \in Worker, Fresh(w) \in Entry, AddRow(w), ~Taken(Fresh(w))
    PROVE  /\ \A n, p : Matches(n, p) => Matches(n, p)'
           /\ \A n, p : n = work[w].name /\ p = work[w].pwd => Matches(n, p)'
  <1> DEFINE r == Fresh(w)
  <1>0. r.name = work[w].name /\ r.pwd = work[w].pwd
    BY DEF Fresh
  <1>1. /\ user_info \in Seq(Entry) /\ r \in Entry
        /\ user_info' = Append(user_info, r)
        /\ \A i \in DOMAIN user_info : user_info[i].name # r.name
    BY DEF TypeOK, AddRow, Taken
  <1> HIDE DEF r
  <1>2. /\ DOMAIN user_info = 1 .. Len(user_info) /\ Len(user_info) \in Nat
        /\ DOMAIN user_info' = 1 .. Len(user_info) + 1
        /\ \A i \in DOMAIN user_info : user_info'[i] = user_info[i]
        /\ user_info'[Len(user_info) + 1] = r
    BY <1>1
  <1>3. ASSUME NEW n, NEW p, Matches(n, p)
        PROVE  Matches(n, p)'
    <2>1. PICK i \in DOMAIN user_info : Finds(n, i) /\ user_info[i].pwd = p
      BY <1>3 DEF Matches
    <2>2. i \in DOMAIN user_info' /\ user_info'[i] = user_info[i]
      BY <1>2
    <2>3. \A j \in 1 .. i - 1 : user_info'[j] = user_info[j]
      BY <1>2
    <2> QED
      BY <2>1, <2>2, <2>3 DEF Matches, Finds
  <1>4. ASSUME NEW n, NEW p, n = r.name, p = r.pwd
        PROVE  Matches(n, p)'
    <2> DEFINE k == Len(user_info) + 1
    <2>1. k \in DOMAIN user_info' /\ user_info'[k] = r
      BY <1>2
    <2>2. \A j \in 1 .. k - 1 : user_info'[j].name # n
      BY <1>1, <1>2, <1>4
    <2> HIDE DEF k
    <2> QED
      BY <2>1, <2>2, <1>4 DEF Matches, Finds
  <1> QED
    BY <1>0, <1>3, <1>4

LEMMA UserStep ==
    ASSUME TypeOK, Shape, UserInv, [Next]_vars
    PROVE  UserInv'
  <1> DEFINE Good(q) ==
        /\ q.pc = "check" /\ q.due => <<q.name, q.pwd>> \in told
        /\ q.pc = "refused" /\ q.token = None => q.hurt \/ ~q.due
  <1>0. /\ \A w \in Worker : Good(work[w]) /\ work[w] \in Request
        /\ work \in [Worker -> Request]
    BY DEF UserInv, RegisteredCanLogIn, TypeOK
  \* A step of one worker that leaves the rows and the history alone
  <1>1. ASSUME NEW w \in Worker, NEW q, work' = [work EXCEPT ![w] = q], Good(q),
               UNCHANGED <<user_info, told>>
        PROVE  UserInv'
    <2>1. \A v \in Worker : work'[v] = IF v = w THEN q ELSE work[v]
      BY <1>0, <1>1
    <2>2. \A v \in Worker : Good(work'[v])
      BY <1>0, <1>1, <2>1
    <2>3. \A n, p : Matches(n, p)' = Matches(n, p)
      BY <1>1 DEF Matches, Finds
    <2> QED
      BY <1>1, <2>2, <2>3 DEF UserInv, RegisteredCanLogIn
  <1>2. ASSUME NEW w \in Worker, BeginRegister(w) \/ BeginLogin(w) \/ BeginVerify(w)
        PROVE  UserInv'
    <2>1. UNCHANGED <<user_info, told>>
      BY <1>2 DEF BeginRegister, BeginLogin, BeginVerify, Begin, store, history
    <2>2. CASE BeginRegister(w)
      BY <1>1, <2>1, <2>2 DEF BeginRegister, Begin, Idle
    <2>3. CASE BeginLogin(w)
      <3>1. PICK n \in Name, p \in Pwd :
              Begin(w, [Idle EXCEPT !.pc = "check", !.name = n, !.pwd = p,
                                    !.due = <<n, p>> \in told])
        BY <2>3 DEF BeginLogin
      <3> DEFINE q == [Idle EXCEPT !.pc = "check", !.name = n, !.pwd = p,
                                   !.due = <<n, p>> \in told]
      <3>2. q.pc = "check" /\ q.name = n /\ q.pwd = p
        BY DEF Idle
      <3>3. q.due = (<<n, p>> \in told)
        BY Zenon DEF Idle
      <3>4. work' = [work EXCEPT ![w] = q]
        BY <3>1 DEF Begin
      <3> HIDE DEF q
      <3>5. Good(q)
        BY <3>2, <3>3
      <3> QED
        BY <1>1, <2>1, <3>4, <3>5
    <2>4. CASE BeginVerify(w)
      <3>1. PICK n \in Name, t \in Token \cup {Empty} :
              Begin(w, [Idle EXCEPT !.pc = "get", !.name = n, !.token = t])
        BY <2>4 DEF BeginVerify
      <3> DEFINE q == [Idle EXCEPT !.pc = "get", !.name = n, !.token = t]
      <3>2. Good(q)
        BY DEF Idle
      <3>3. work' = [work EXCEPT ![w] = q]
        BY <3>1 DEF Begin
      <3> HIDE DEF q
      <3> QED
        BY <1>1, <2>1, <3>2, <3>3
    <2> QED
      BY <1>2, <2>2, <2>3, <2>4
  \* A step that fails is marked, a refusal without a failure was not due.
  <1>3. ASSUME NEW w \in Worker, NEW pc,
               \/ Goto(w, pc) /\ pc \notin {"check", "refused"}
               \/ Hurt(w, pc) /\ pc # "check"
               \/ Goto(w, pc) /\ pc = "refused" /\ (work[w].token # None \/ ~work[w].due),
               UNCHANGED <<user_info, told>>
        PROVE  UserInv'
    <2>1. CASE /\ Goto(w, pc)
               /\ \/ pc \notin {"check", "refused"}
                  \/ pc = "refused" /\ (work[w].token # None \/ ~work[w].due)
      <3>1. Good([work[w] EXCEPT !.pc = pc])
        BY <1>0, <2>1 DEF Request
      <3>2. work' = [work EXCEPT ![w] = [work[w] EXCEPT !.pc = pc]]
        BY <2>1 DEF Goto
      <3> QED
        BY <1>1, <1>3, <3>1, <3>2
    <2>2. CASE Hurt(w, pc) /\ pc # "check"
      <3>1. Good([work[w] EXCEPT !.pc = pc, !.hurt = TRUE])
        BY <1>0, <2>2 DEF Request
      <3>2. work' = [work EXCEPT ![w] = [work[w] EXCEPT !.pc = pc, !.hurt = TRUE]]
        BY <2>2 DEF Hurt
      <3> QED
        BY <1>1, <1>3, <3>1, <3>2
    <2> QED
      BY <1>3, <2>1, <2>2
  <1>4. ASSUME NEW w \in Worker, Insert(w)
        PROVE  UserInv'
    <2>0. PICK pc \in {"002", "004", "no code"} : Goto(w, pc) \/ Hurt(w, pc)
      BY <1>4 DEF Insert
    <2>1. CASE UNCHANGED <<user_info, told>>
      BY <1>3, <2>0, <2>1
    <2>2. CASE ~Taken(Fresh(w)) /\ AddRow(w)
      <3>1. Fresh(w) \in Entry
        BY <1>4 DEF Insert, Shape, Fresh, Entry
      <3>2. /\ \A n, p : Matches(n, p) => Matches(n, p)'
            /\ \A n, p : n = work[w].name /\ p = work[w].pwd => Matches(n, p)'
        BY <2>2, <3>1, RowsStay
      <3>3. told' = told \/ told' = told \cup {<<work[w].name, work[w].pwd>>}
        BY <1>4 DEF Insert
      <3>4. ASSUME NEW d \in told'
            PROVE  Matches(d[1], d[2])'
        <4>1. CASE d \in told
          BY <3>2, <4>1 DEF UserInv
        <4>2. CASE d = <<work[w].name, work[w].pwd>>
          <5>1. d[1] = work[w].name /\ d[2] = work[w].pwd
            BY <4>2
          <5> QED
            BY <3>2, <5>1
        <4> QED
          BY <3>3, <4>1, <4>2
      <3>5. work' = [work EXCEPT ![w] = [work[w] EXCEPT !.pc = pc]]
              \/ work' = [work EXCEPT ![w] = [work[w] EXCEPT !.pc = pc, !.hurt = TRUE]]
        BY <2>0 DEF Goto, Hurt
      <3>6. \A v \in Worker : work'[v] = work[v] \/ work'[v].pc = pc
        <4>1. ASSUME NEW q, q.pc = pc, work' = [work EXCEPT ![w] = q], NEW v \in Worker
              PROVE  work'[v] = work[v] \/ work'[v].pc = pc
          BY <1>0, <4>1
        <4>2. /\ [work[w] EXCEPT !.pc = pc].pc = pc
              /\ [work[w] EXCEPT !.pc = pc, !.hurt = TRUE].pc = pc
          BY <1>0 DEF Request
        <4> QED
          BY <3>5, <4>1, <4>2
      <3>7. told \subseteq told'
        BY <3>3
      <3> QED
        BY <1>0, <3>4, <3>6, <3>7 DEF UserInv, RegisteredCanLogIn
    <2> QED
      BY <1>4, <2>1, <2>2 DEF Insert
  <1>5. ASSUME NEW w \in Worker, Check(w)
        PROVE  UserInv'
    <2>1. UNCHANGED <<user_info, told>> /\ work[w].pc = "check"
      BY <1>5 DEF Check, store, history
    <2>2. work[w].due => Matches(work[w].name, work[w].pwd)
      <3>1. SUFFICES ASSUME work[w].due PROVE Matches(work[w].name, work[w].pwd)
        OBVIOUS
      <3>2. <<work[w].name, work[w].pwd>> \in told
        BY <2>1, <3>1 DEF UserInv
      <3> QED
        BY <3>2 DEF UserInv
    <2>3. \/ Goto(w, "setex") \/ Hurt(w, "refused")
          \/ Goto(w, "refused") /\ ~work[w].due
      BY <1>5, <2>2 DEF Check
    <2> QED
      BY <1>3, <2>1, <2>3
  <1>6. ASSUME NEW w \in Worker, Look(w)
        PROVE  UserInv'
    BY <1>3, <1>6 DEF Look, store, history
  <1>7. ASSUME NEW w \in Worker, SetToken(w)
        PROVE  UserInv'
    <2>1. UNCHANGED <<user_info, told>>
      BY <1>7 DEF SetToken
    <2>2. CASE Hurt(w, "refused")
      BY <1>3, <2>1, <2>2
    <2>3. CASE work' = [work EXCEPT ![w].pc = "token", ![w].token = drawn + 1]
      <3>1. Good([work[w] EXCEPT !.pc = "token", !.token = drawn + 1])
        BY <1>0 DEF Request
      <3>2. work' = [work EXCEPT ![w] = [work[w] EXCEPT !.pc = "token", !.token = drawn + 1]]
        BY <1>0, <2>3
      <3> QED
        BY <1>1, <2>1, <3>1, <3>2
    <2> QED
      BY <1>7, <2>2, <2>3 DEF SetToken
  <1>8. ASSUME NEW w \in Worker, VerifyToken(w)
        PROVE  UserInv'
    <2>1. UNCHANGED <<user_info, told>> /\ work[w].pc = "get"
      BY <1>8 DEF VerifyToken, store, history
    <2>2. work[w].token # None
      BY <2>1, SessionAssumption DEF Shape, Token, Empty
    <2>3. \/ Goto(w, "accepted") \/ Goto(w, "refused")
          \/ Hurt(w, "accepted") \/ Hurt(w, "refused")
      BY <1>8 DEF VerifyToken, Compared
    <2> QED
      BY <1>3, <2>1, <2>2, <2>3
  <1>9. CASE UNCHANGED <<work, user_info, told>>
    <2>1. \A n, p : Matches(n, p)' = Matches(n, p)
      BY <1>9 DEF Matches, Finds
    <2> QED
      BY <1>9, <2>1 DEF UserInv, RegisteredCanLogIn
  <1>10. ASSUME NEW w \in Worker, Crash(w)
         PROVE  UserInv'
    <2>1. UNCHANGED <<user_info, told>> /\ \A v \in Worker : work'[v].pc = "idle"
      BY <1>10 DEF Crash, store, history, Idle
    <2>2. \A n, p : Matches(n, p)' = Matches(n, p)
      BY <2>1 DEF Matches, Finds
    <2> QED
      BY <2>1, <2>2 DEF UserInv, RegisteredCanLogIn
  <1> QED
    BY <1>2, <1>4, <1>5, <1>6, <1>7, <1>8, <1>9, <1>10
    DEF Next, Handle, vars, store, history, Expire, Tick

\* A registration that was answered with success is good for a login.
THEOREM SessionRegisteredCanLogIn == Spec => []RegisteredCanLogIn
  <1>1. Init => TypeOK /\ Shape /\ UserInv
    BY InitTypes DEF Init, Shape, Idle, UserInv, RegisteredCanLogIn
  <1>2. UserInv => RegisteredCanLogIn
    BY DEF UserInv
  <1> QED
    BY <1>1, <1>2, TypesStep, UserStep, PTL DEF Spec

-----------------------------------------------------------------------------
(* A check's answer is the state of the name's login.                       *)

\* Redis has a name's token exactly while one of its logins is not over, and
\* then it has the token that login drew.
Tokens ==
    /\ \A n \in Name : redis[n] # None => \E i \in Live(n) : drew[i] = redis[n]
    /\ \A n \in Name : \A i \in Live(n) : redis[n] = drew[i] /\ drew[i] \in Token
    /\ \A i \in Login : i > made => given[i] = None /\ i \notin over

\* The token is stored: the logins before it are over.
LEMMA StoredTokens ==
    ASSUME TypeOK, Tokens, NEW n \in Name, NEW t \in Token, NEW i \in Login, i = made + 1, made' = i,
           Store(n, t), given' = [given EXCEPT ![i] = n], drew' = [drew EXCEPT ![i] = t]
    PROVE  Tokens'
  <1>0. /\ redis \in [Name -> Token \cup {None}] /\ given \in [Login -> Name \cup {None}]
        /\ drew \in [Login -> Token \cup {None}]
        /\ made \in Nat /\ None \notin Token /\ None \notin Name /\ Login \subseteq Nat
    BY SessionAssumption DEF TypeOK, Token, Login
  <1>1. given[i] = None /\ i \notin over
    BY <1>0 DEF Tokens
  <1>2. over' = over \cup Live(n) /\ redis' = [redis EXCEPT ![n] = t]
    BY DEF Store
  <1>3. \A j \in Login \ {i} : given'[j] = given[j] /\ drew'[j] = drew[j]
    BY <1>0
  <1>4. given'[i] = n /\ drew'[i] = t /\ i \notin over'
    BY <1>0, <1>1, <1>2 DEF Live
  <1>5. Live(n)' = {i}
    BY <1>2, <1>3, <1>4 DEF Live
  <1>6. ASSUME NEW m \in Name \ {n} PROVE Live(m)' = Live(m) /\ i \notin Live(m)
    BY <1>0, <1>1, <1>2, <1>3, <1>4 DEF Live
  <1>7. redis'[n] = t /\ \A m \in Name \ {n} : redis'[m] = redis[m]
    BY <1>0, <1>2
  <1>8. ASSUME NEW m \in Name
        PROVE  /\ redis'[m] # None => \E j \in Live(m)' : drew'[j] = redis'[m]
               /\ \A j \in Live(m)' : redis'[m] = drew'[j] /\ drew'[j] \in Token
    <2>1. CASE m = n
      BY <1>4, <1>5, <1>7, <2>1
    <2>2. CASE m # n
      <3>1. \A j \in Live(m) : drew'[j] = drew[j]
        BY <1>3, <1>6, <2>2 DEF Live
      <3> QED BY <1>6, <1>7, <2>2, <3>1 DEF Tokens
    <2> QED BY <2>1, <2>2
  <1>9. ASSUME NEW j \in Login, j > made' PROVE given'[j] = None /\ j \notin over'
    <2>1. j # i /\ j > made
      BY <1>0, <1>9
    <2>2. given[j] = None /\ j \notin over /\ j \notin Live(n)
      BY <1>0, <2>1 DEF Tokens, Live
    <2> QED BY <1>2, <1>3, <2>1, <2>2
  <1> QED BY <1>8, <1>9 DEF Tokens

\* The token is not stored: its login is over as it is answered.
LEMMA UnstoredTokens ==
    ASSUME TypeOK, Tokens, NEW n \in Name, NEW t \in Token, NEW i \in Login, i = made + 1, made' = i,
           UNCHANGED redis, over' = over \cup {i}, given' = [given EXCEPT ![i] = n], drew' = [drew EXCEPT ![i] = t]
    PROVE  Tokens'
  <1>0. /\ given \in [Login -> Name \cup {None}] /\ drew \in [Login -> Token \cup {None}]
        /\ made \in Nat /\ None \notin Name /\ Login \subseteq Nat
    BY SessionAssumption DEF TypeOK, Login
  <1>1. given[i] = None /\ i \notin over
    BY <1>0 DEF Tokens
  <1>2. \A j \in Login \ {i} : given'[j] = given[j] /\ drew'[j] = drew[j] /\ (j \in over' <=> j \in over)
    BY <1>0
  <1>3. \A m \in Name : Live(m)' = Live(m) /\ i \notin Live(m)
    BY <1>0, <1>1, <1>2 DEF Live
  <1>4. \A m \in Name : \A j \in Live(m) : drew'[j] = drew[j]
    BY <1>2, <1>3 DEF Live
  <1>5. \A j \in Login : j > made' => given'[j] = None /\ j \notin over'
    BY <1>0, <1>2 DEF Tokens
  <1> QED BY <1>3, <1>4, <1>5 DEF Tokens

LEMMA ExpireTokens ==
    ASSUME TypeOK, Tokens, NEW n \in Name, Expire(n)
    PROVE  Tokens'
  <1>0. redis \in [Name -> Token \cup {None}]
    BY DEF TypeOK
  <1>1. /\ redis' = [redis EXCEPT ![n] = None] /\ over' = over \cup Live(n)
        /\ UNCHANGED <<given, drew, made>>
    BY DEF Expire
  <1>2. Live(n)' = {} /\ redis'[n] = None
    BY <1>0, <1>1 DEF Live
  <1>3. \A m \in Name \ {n} : Live(m)' = Live(m) /\ redis'[m] = redis[m]
    BY <1>0, <1>1 DEF Live
  <1>4. \A j \in Login : j > made' => given'[j] = None /\ j \notin over'
    <2>1. ASSUME NEW j \in Login, j > made PROVE given[j] = None /\ j \notin over /\ j \notin Live(n)
      BY <2>1, SessionAssumption DEF Tokens, Live
    <2> QED BY <1>1, <2>1
  <1> QED BY <1>1, <1>2, <1>3, <1>4 DEF Tokens

LEMMA TokensStep ==
    ASSUME TypeOK, Shape, Tokens, [Next]_vars
    PROVE  Tokens'
  <1>1. CASE UNCHANGED <<redis, given, drew, over, made>>
    BY <1>1 DEF Tokens, Live
  <1>2. ASSUME NEW w \in Worker, SetToken(w)
        PROVE  Tokens'
    <2> DEFINE n == work[w].name
               i == made + 1
               t == drawn + 1
    <2>1. n \in Name
      BY <1>2 DEF SetToken, Shape
    <2>2. t \in Token /\ i \in Login /\ made' = i
      BY <1>2, SessionAssumption DEF SetToken, TypeOK, Token, Login
    <2>3. CASE /\ \E k \in Conn :
                    \/ (Answered(k) \/ Unanswered(k)) /\ Store(n, t)
                    \/ NotRun(k) /\ over' = over \cup {i} /\ UNCHANGED redis
               /\ given' = [given EXCEPT ![i] = n] /\ drew' = [drew EXCEPT ![i] = t]
      <3>1. Store(n, t) \/ (over' = over \cup {i} /\ UNCHANGED redis)
        BY <2>3
      <3> QED
        BY <2>1, <2>2, <2>3, <3>1, StoredTokens, UnstoredTokens
    <2>4. CASE UNCHANGED <<redis, given, drew, over>>
      <3>1. \A j \in Login : j > made' => j > made
        BY <2>2 DEF TypeOK, Login
      <3> QED
        BY <2>4, <3>1 DEF Tokens, Live
    <2> QED
      BY <1>2, <2>3, <2>4 DEF SetToken
  <1>3. ASSUME NEW n \in Name, Expire(n)
        PROVE  Tokens'
    BY <1>3, ExpireTokens
  <1>4. ASSUME NEW w \in Worker, \/ BeginRegister(w) \/ BeginLogin(w) \/ BeginVerify(w)
                                 \/ Look(w) \/ Insert(w) \/ Check(w) \/ VerifyToken(w)
                                 \/ Crash(w)
        PROVE  UNCHANGED <<redis, given, drew, over, made>>
    BY <1>4 DEF BeginRegister, BeginLogin, BeginVerify, Begin, Look, Insert, Check,
                VerifyToken, Crash, store, history
  <1>5. Tick \/ UNCHANGED vars => UNCHANGED <<redis, given, drew, over, made>>
    BY DEF Tick, vars, store, history
  <1> QED
    BY <1>1, <1>2, <1>3, <1>4, <1>5 DEF Next, Handle

\* What Redis answers is the token of the name's login that is not over.
LEMMA GetIsLive ==
    ASSUME TypeOK, Tokens, NEW n \in Name, NEW t \in Token \cup {Empty}
    PROVE  Get(n) = t <=> StillGood(n, t)
  <1>0. /\ redis[n] \in Token \cup {None} /\ None \notin Token /\ Empty \notin Token /\ None # Empty
    BY SessionAssumption DEF TypeOK, Token, Empty
  <1>1. CASE t = Empty
    <2>1. Get(n) = Empty <=> redis[n] = None
      BY <1>0 DEF Get
    <2>2. redis[n] = None <=> Live(n) = {}
      BY <1>0 DEF Tokens
    <2> QED BY <1>1, <2>1, <2>2 DEF StillGood
  <1>2. CASE t # Empty
    <2>1. t \in Token /\ (Get(n) = t <=> redis[n] = t)
      BY <1>0, <1>2 DEF Get
    <2>2. redis[n] = t <=> \E i \in Live(n) : drew[i] = t
      BY <1>0, <2>1 DEF Tokens
    <2> QED BY <1>2, <2>1, <2>2 DEF StillGood
  <1> QED BY <1>1, <1>2

\* No request is marked as hurt before its check.
Unhurt == \A w \in Worker : work[w].pc = "get" => ~work[w].hurt

LEMMA UnhurtStep ==
    ASSUME TypeOK, Unhurt, [Next]_vars
    PROVE  Unhurt'
  <1>0. work \in [Worker -> Request]
    BY DEF TypeOK
  <1>1. SUFFICES ASSUME NEW v \in Worker PROVE work'[v].pc = "get" => ~work'[v].hurt
    BY DEF Unhurt
  <1>2. CASE work'[v] = work[v]
    BY <1>2 DEF Unhurt
  <1>3. ASSUME NEW w \in Worker, BeginRegister(w) \/ BeginLogin(w) \/ BeginVerify(w)
        PROVE  work'[v].pc = "get" => ~work'[v].hurt
    <2>1. PICK r : Begin(w, r) /\ (r.pc = "get" => ~r.hurt)
      <3>1. CASE BeginRegister(w)
        <4>1. PICK n \in Name, m \in Nick, p \in Pwd :
                Begin(w, [Idle EXCEPT !.pc = "look", !.name = n, !.nick = m, !.pwd = p])
          BY <3>1 DEF BeginRegister
        <4>2. [Idle EXCEPT !.pc = "look", !.name = n, !.nick = m, !.pwd = p].pc = "look"
          BY DEF Idle
        <4> QED BY <4>1, <4>2
      <3>2. CASE BeginLogin(w)
        <4>1. PICK n \in Name, p \in Pwd :
                Begin(w, [Idle EXCEPT !.pc = "check", !.name = n, !.pwd = p,
                                      !.due = <<n, p>> \in told])
          BY <3>2 DEF BeginLogin
        <4>2. [Idle EXCEPT !.pc = "check", !.name = n, !.pwd = p, !.due = <<n, p>> \in told].pc = "check"
          BY DEF Idle
        <4> QED BY <4>1, <4>2
      <3>3. CASE BeginVerify(w)
        <4>1. PICK n \in Name, t \in Token \cup {Empty} :
                Begin(w, [Idle EXCEPT !.pc = "get", !.name = n, !.token = t])
          BY <3>3 DEF BeginVerify
        <4>2. ~[Idle EXCEPT !.pc = "get", !.name = n, !.token = t].hurt
          BY DEF Idle
        <4> QED BY <4>1, <4>2
      <3> QED BY <1>3, <3>1, <3>2, <3>3
    <2>2. work'[v] = IF v = w THEN r ELSE work[v]
      BY <1>0, <2>1 DEF Begin
    <2> QED BY <2>1, <2>2 DEF Unhurt
  <1>4. ASSUME NEW w \in Worker, NEW pc \in Answers \cup {"insert", "setex"}, Goto(w, pc) \/ Hurt(w, pc)
        PROVE  work'[v].pc = "get" => ~work'[v].hurt
    <2>1. v = w => work'[v].pc = pc
      BY <1>0, <1>4 DEF Goto, Hurt, Request
    <2>2. v # w => work'[v] = work[v]
      BY <1>0, <1>4 DEF Goto, Hurt
    <2>3. pc # "get"
      BY DEF Answers
    <2> QED BY <1>2, <2>1, <2>2, <2>3
  <1>5. ASSUME NEW w \in Worker, Handle(w)
        PROVE  work'[v].pc = "get" => ~work'[v].hurt
    <2>1. CASE Look(w)
      BY <1>4, <2>1 DEF Look, Answers
    <2>2. CASE Insert(w)
      BY <1>4, <2>2 DEF Insert, Answers
    <2>3. CASE Check(w)
      BY <1>4, <2>3 DEF Check, Answers
    <2>4. CASE SetToken(w)
      <3>1. CASE Hurt(w, "refused")
        BY <1>4, <3>1 DEF Answers
      <3>2. CASE work' = [work EXCEPT ![w].pc = "token", ![w].token = drawn + 1]
        <4>1. v = w => work'[v].pc = "token"
          BY <1>0, <3>2 DEF Request
        <4>2. v # w => work'[v] = work[v]
          BY <1>0, <3>2
        <4> QED BY <1>2, <4>1, <4>2
      <3> QED BY <2>4, <3>1, <3>2 DEF SetToken
    <2>5. CASE VerifyToken(w)
      BY <1>4, <2>5 DEF VerifyToken, Answers, Compared
    <2> QED BY <1>5, <2>1, <2>2, <2>3, <2>4, <2>5 DEF Handle
  <1>6. CASE \E w \in Worker : Crash(w)
    BY <1>6 DEF Crash, Idle
  <1>7. CASE UNCHANGED work
    BY <1>2, <1>7
  <1> QED
    BY <1>3, <1>5, <1>6, <1>7 DEF Next, vars, Expire, Tick

\* The one step that decides.
LEMMA CheckDecides ==
    ASSUME TypeOK, Shape, Tokens, Unhurt, [Next]_vars, NEW w \in Worker,
           work[w].pc = "get", work'[w].pc \in {"accepted", "refused"}
    PROVE  Decided(w)
  <1> DEFINE n == work[w].name
             t == work[w].token
  <1>0. /\ work \in [Worker -> Request] /\ work[w] \in Request
        /\ n \in Name /\ t \in Token \cup {Empty} /\ ~work[w].hurt
    BY DEF TypeOK, Shape, Unhurt
  <1>1. VerifyToken(w)
    <2>1. ASSUME NEW v \in Worker, v # w, Handle(v) PROVE FALSE
      <3>1. work'[w] = work[w]
        BY <1>0, <2>1 DEF Handle, Look, Insert, Check, SetToken, VerifyToken, Goto, Hurt
      <3> QED BY <3>1
    <2>2. ASSUME NEW v \in Worker, BeginRegister(v) \/ BeginLogin(v) \/ BeginVerify(v) PROVE FALSE
      <3>1. PICK r : Begin(v, r)
        BY <2>2 DEF BeginRegister, BeginLogin, BeginVerify
      <3>2. v # w /\ work' = [work EXCEPT ![v] = r]
        BY <3>1 DEF Begin, Answers
      <3> QED BY <1>0, <3>2
    <2>3. ASSUME NEW v \in Worker, Crash(v) PROVE FALSE
      BY <2>3 DEF Crash, Idle
    <2>4. ASSUME UNCHANGED work PROVE FALSE
      BY <2>4
    <2>5. Handle(w) => VerifyToken(w)
      BY DEF Handle, Look, Insert, Check, SetToken
    <2> QED BY <2>1, <2>2, <2>3, <2>4, <2>5 DEF Next, vars, Expire, Tick
  <1>2. CASE \E k \in Conn : Answered(k) /\ Goto(w, Compared(w, Get(n)))
    <2>1. Goto(w, Compared(w, Get(n)))
      BY <1>2
    <2>2. work'[w].pc = Compared(w, Get(n)) /\ ~work'[w].hurt
      BY <1>0, <2>1 DEF Goto, Request
    <2>3. Get(n) = t <=> StillGood(n, t)
      BY <1>0, GetIsLive
    <2> QED BY <2>2, <2>3 DEF Decided, Compared
  <1>3. CASE Hurt(w, Compared(w, Empty)) \/ Hurt(w, "refused")
    <2>1. work'[w].hurt /\ (work'[w].pc = Compared(w, Empty) \/ work'[w].pc = "refused")
      BY <1>0, <1>3 DEF Hurt, Request
    <2> QED BY <2>1 DEF Decided, Compared
  <1> QED BY <1>1, <1>2, <1>3 DEF VerifyToken

\* For any number of workers, names, connections and restarts: a check that
\* meets no failure accepts exactly the token of the name's login that is not
\* over, and the empty string exactly while the name has none.
THEOREM SessionTokenHonoured == Spec => TokenHonoured
  <1> DEFINE I == TypeOK /\ Shape /\ Tokens /\ Unhurt
  <1>1. Init => I
    BY InitTypes, SessionAssumption DEF Init, Shape, Idle, Tokens, Unhurt, Live
  <1>2. I /\ [Next]_vars => I'
    BY TypesStep, TokensStep, UnhurtStep
  <1>3. I /\ [Next]_vars =>
          [\A w \in Worker : work[w].pc = "get" /\ work'[w].pc \in {"accepted", "refused"} => Decided(w)]_vars
    BY CheckDecides
  <1> QED
    BY <1>1, <1>2, <1>3, PTL DEF Spec, TokenHonoured
=============================================================================
