----------------------------- MODULE RedisAsync ----------------------------
(***************************************************************************)
(* The event-driven half of the vendored Redis client, RedisPool/async.c:  *)
(* one redisAsyncContext, the program that calls it from its event loop    *)
(* and from its callbacks, and the server.  The unit of the wire is a      *)
(* whole command or a whole reply (RedisClient cuts replies anywhere).     *)
(*                                                                         *)
(* Channels and patterns live in two dictionaries that async.c treats      *)
(* alike; a topic is a name in either.  Left out: MONITOR, callbacks that  *)
(* are NULL, calls made from the connect and disconnect callbacks and from *)
(* the callbacks that freeing runs (they are refused, or only set a flag). *)
(***************************************************************************)
EXTENDS Integers, Sequences, SequencesExt, FiniteSets

CONSTANTS Topics,           \* channel and pattern names
          Subscriptions,    \* the topic lists the program subscribes to
          Polite,           \* whether the program waits for the answer to an UNSUBSCRIBE
                            \* before it sends an ordinary command
          MaxCommands,      \* bound: commands accepted
          MaxMessages       \* bound: messages published

NoTopic == "none"

ASSUME AsyncAssumption == /\ MaxCommands \in Nat /\ MaxMessages \in Nat
                          /\ Subscriptions \subseteq Seq(Topics) \ {<<>>} /\ Polite \in BOOLEAN
                          /\ NoTopic \notin Topics

VARIABLES ac,        \* the redisAsyncContext
          inbox,     \* replies read and not yet taken by redisGetReply
          pc,        \* "loop", "process" (redisProcessCallbacks), "callback", "freed", or the
                     \* assert that failed: "pending" (line 387), "unsubscribed" (line 537)
          cb,        \* the callback variable of redisProcessCallbacks
          got,       \* the reply the running callback was given
          srv,       \* the server and the bytes on the way
          issued,    \* history: the accepted commands, by number
          ran,       \* history: the replies each ordinary callback was run with
          told       \* history: what the disconnect callback was told

vars == <<ac, inbox, pc, cb, got, srv, issued, ran, told>>

(* A callback is its command's number and, for a subscription, the topic.  *)
Callback(n, topic) == [n |-> n, topic |-> topic]
NoCallback == Callback(0, NoTopic)
Message(kind, n, topic, count) == [kind |-> kind, n |-> n, topic |-> topic, count |-> count]
NullReply == Message("null", 0, NoTopic, 0)

Subscribed == DOMAIN ac.topics   \* keys of sub.channels and sub.patterns

(* redisAsyncConnect and redisAsyncInitialize: connected only later.       *)
Init == /\ ac = [connected |-> FALSE, disconnecting |-> FALSE, freeing |-> FALSE, subscribed |-> FALSE,
                 err |-> FALSE, obuf |-> <<>>, replies |-> <<>>, invalid |-> <<>>,
                 topics |-> [t \in {} |-> 0], addRead |-> FALSE, addWrite |-> TRUE]
        /\ inbox = <<>> /\ pc = "loop" /\ cb = NoCallback /\ got = NullReply
        /\ srv = [up |-> TRUE, in |-> <<>>, out |-> <<>>, topics |-> {}, sent |-> 0]
        /\ issued = <<>> /\ ran = <<>> /\ told = "nothing"

----------------------------------------------------------------------------
(* __redisAsyncFree: every pending callback runs with a NULL reply, the    *)
(* disconnect callback hears of a connection there was.                    *)
\* faulty: the callbacks of commands sent while subscribed are forgotten
PendingReplies(a) == a.replies
Pending(a) == a.replies \o a.invalid
Status(a) == IF a.freeing \/ ~a.err THEN "ok" ELSE "error"
AsyncFree(a) ==
  /\ ran' = [i \in DOMAIN ran |-> IF \E j \in DOMAIN Pending(a) : Pending(a)[j].n = i
                                  THEN Append(ran[i], NullReply) ELSE ran[i]]
  /\ told' = IF a.connected THEN Status(a) ELSE told
  /\ ac' = [a EXCEPT !.replies = <<>>, !.invalid = <<>>, !.obuf = <<>>]
  /\ pc' = "freed"

(* __redisAsyncDisconnect: after an error the context accepts no command;  *)
(* a clean one asserts that nothing is pending.                            *)
AsyncDisconnect(a) ==
  IF a.err THEN AsyncFree([a EXCEPT !.disconnecting = TRUE])
  ELSE IF a.replies = <<>> THEN AsyncFree(a)
  ELSE pc' = "pending" /\ ac' = a /\ UNCHANGED <<ran, told>>

(* redisAsyncDisconnect and redisAsyncFree, called by the program: at once *)
(* from the event loop, deferred from a callback.                          *)
\* faulty: disconnecting does not wait for the replies that are due
DisconnectsNowEager == pc = "loop"
DisconnectsNow == pc = "loop" /\ ac.replies = <<>>
Disconnect ==
  /\ pc \in {"loop", "callback"} /\ ~ac.disconnecting
  /\ IF DisconnectsNow THEN AsyncDisconnect([ac EXCEPT !.disconnecting = TRUE])
     ELSE ac' = [ac EXCEPT !.disconnecting = TRUE] /\ UNCHANGED <<pc, ran, told>>
  /\ UNCHANGED <<inbox, cb, got, srv, issued>>
Free ==
  /\ pc \in {"loop", "callback"} /\ ~ac.freeing
  /\ IF pc = "loop" THEN AsyncFree([ac EXCEPT !.freeing = TRUE])
     ELSE ac' = [ac EXCEPT !.freeing = TRUE] /\ UNCHANGED <<pc, ran, told>>
  /\ UNCHANGED <<inbox, cb, got, srv, issued>>

----------------------------------------------------------------------------
(* __redisAsyncCommand                                                     *)

Refuses == ac.disconnecting \/ ac.freeing

Accept(a, kind, topics) ==
  /\ pc \in {"loop", "callback"} /\ ~Refuses /\ Len(issued) < MaxCommands
  /\ issued' = Append(issued, [kind |-> kind, topics |-> topics, list |-> IF ac.subscribed THEN "invalid" ELSE "replies"])
  /\ ran' = Append(ran, <<>>)
  /\ ac' = [a EXCEPT !.obuf = Append(@, [kind |-> kind, n |-> Len(issued) + 1, topics |-> topics]),
                     !.addWrite = TRUE]
  /\ UNCHANGED <<inbox, pc, cb, got, srv, told>>

(* An ordinary command: its callback waits with the others, or, in a       *)
(* context that is subscribed, with the invalid ones.                      *)
UnsubscribePending == \E m \in Range(ac.obuf \o srv.in \o srv.out \o inbox) : m.kind = "unsubscribe"
Command ==
  LET waiting == Callback(Len(issued) + 1, NoTopic)
  IN /\ Polite => ~UnsubscribePending
     /\ Accept(IF ac.subscribed THEN [ac EXCEPT !.invalid = Append(@, waiting)]
               ELSE [ac EXCEPT !.replies = Append(@, waiting)], "ordinary", <<>>)

(* SUBSCRIBE and PSUBSCRIBE: one callback for all topics, copied into the  *)
(* dictionary under each.  cb.pending_subs is set from a topic that is     *)
(* there already and keeps that value for the topics behind it.            *)
AddTopic(acc, t) ==
  LET pending == IF t \in DOMAIN acc.topics THEN acc.topics[t].pending + 1 ELSE acc.pending
      entry == [n |-> Len(issued) + 1, pending |-> pending]
  IN [pending |-> pending, topics |-> [x \in DOMAIN acc.topics \cup {t} |-> IF x = t THEN entry ELSE acc.topics[x]]]
Added(list) ==
  LET added[i \in 0..Len(list)] == IF i = 0 THEN [pending |-> 1, topics |-> ac.topics]
                                   ELSE AddTopic(added[i - 1], list[i])
  IN added[Len(list)].topics
Subscribe(list) == Accept([ac EXCEPT !.subscribed = TRUE, !.topics = Added(list)], "subscribe", list)

(* UNSUBSCRIBE and PUNSUBSCRIBE have no callback of their own.  The program *)
(* names topics that it subscribed to and has not unsubscribed from since.  *)
Wanted(t) ==
  \E i \in DOMAIN issued : /\ issued[i].kind = "subscribe" /\ t \in Range(issued[i].topics)
                           /\ \A j \in i..Len(issued) : issued[j].kind = "unsubscribe" => issued[j].topics # <<t>>
Unsubscribe(t) == ac.subscribed /\ Wanted(t) /\ Accept(ac, "unsubscribe", <<t>>)

----------------------------------------------------------------------------
(* The events of the loop.  Both first settle the connection               *)
(* (__redisAsyncHandleConnect); one in progress makes them return.         *)
ConnectFails ==
  /\ pc = "loop" /\ ~ac.connected /\ (ac.addRead \/ ac.addWrite)
  /\ AsyncDisconnect([ac EXCEPT !.err = TRUE])
  /\ UNCHANGED <<inbox, cb, got, srv, issued>>

(* redisAsyncHandleWrite: as many commands as the socket takes, or an      *)
(* error when the peer has closed.                                         *)
HandleWrite ==
  /\ pc = "loop" /\ ac.addWrite
  /\ \/ \E k \in 0..Len(ac.obuf) :
          LET rest == SubSeq(ac.obuf, k + 1, Len(ac.obuf))
          IN /\ k > 0 \/ ac.obuf = <<>>
             /\ ac' = [ac EXCEPT !.connected = TRUE, !.obuf = rest, !.addWrite = rest # <<>>, !.addRead = TRUE]
             /\ srv' = [srv EXCEPT !.in = @ \o SubSeq(ac.obuf, 1, k)]
             /\ UNCHANGED <<pc, ran, told>>
     \/ /\ ~srv.up /\ ac.obuf # <<>>
        /\ AsyncDisconnect([ac EXCEPT !.connected = TRUE, !.err = TRUE]) /\ UNCHANGED srv
  /\ UNCHANGED <<inbox, cb, got, issued>>

(* redisAsyncHandleRead: what has arrived, then redisProcessCallbacks; an  *)
(* end of file is an error.                                                *)
HandleRead ==
  /\ pc = "loop" /\ ac.addRead
  /\ \/ \E k \in 1..Len(srv.out) :
          /\ inbox' = inbox \o SubSeq(srv.out, 1, k)
          /\ srv' = [srv EXCEPT !.out = SubSeq(@, k + 1, Len(@))]
          /\ pc' = "process" /\ cb' = NoCallback /\ UNCHANGED <<ac, ran, told>>
     \/ /\ ~srv.up /\ srv.out = <<>>
        /\ AsyncDisconnect([ac EXCEPT !.err = TRUE]) /\ UNCHANGED <<inbox, cb, srv>>
  /\ UNCHANGED <<got, issued>>

----------------------------------------------------------------------------
(* redisProcessCallbacks and __redisGetSubscribeCallback                   *)

\* faulty: a disconnect that was put off is forgotten
CueNever == FALSE
Cue == ac.disconnecting /\ ac.obuf = <<>> /\ ac.replies = <<>>
(* No more replies: the cue for a disconnect that was put off.             *)
ProcessNone ==
  /\ pc = "process" /\ inbox = <<>>
  /\ IF Cue THEN AsyncDisconnect(ac)
     ELSE pc' = "loop" /\ UNCHANGED <<ac, ran, told>>
  /\ UNCHANGED <<inbox, cb, got, srv, issued>>

\* faulty: the newest callback is taken
FirstIsNewest(list) == list[Len(list)]
First(list) == list[1]
(* The callback c runs with the reply m (from here to CallbackReturns the  *)
(* program is in it); none at all, and the reply is dropped.               *)
RunCallback(c, m) ==
  /\ cb' = c /\ got' = m
  /\ pc' = IF c = NoCallback THEN "process" ELSE "callback"
  /\ ran' = IF c # NoCallback /\ c.topic = NoTopic THEN [ran EXCEPT ![c.n] = Append(@, m)] ELSE ran

(* A pending regular command is answered first, and in order.              *)
ProcessRegular ==
  /\ pc = "process" /\ inbox # <<>> /\ ac.replies # <<>>
  /\ RunCallback(First(ac.replies), Head(inbox))
  /\ ac' = [ac EXCEPT !.replies = Tail(@)] /\ inbox' = Tail(inbox)
  /\ UNCHANGED <<srv, issued, told>>

(* An error nobody waits for closes the context, and a reply in a context  *)
(* that is not subscribed fails an assertion.                              *)
ProcessUnexpected ==
  /\ pc = "process" /\ inbox # <<>> /\ ac.replies = <<>>
  /\ \/ Head(inbox).kind = "error" /\ AsyncDisconnect([ac EXCEPT !.err = TRUE])
     \/ /\ Head(inbox).kind # "error" /\ ~ac.subscribed
        /\ pc' = "unsubscribed" /\ UNCHANGED <<ac, ran, told>>
  /\ inbox' = Tail(inbox) /\ UNCHANGED <<cb, got, srv, issued>>

(* A message about a topic goes to the topic's callback; the confirmations *)
(* count what is pending, and the last one ends the subscription.          *)
\* faulty: a topic is dropped although another SUBSCRIBE of it is under way
ConfirmedEager(topics, m) ==
  IF m.kind = "unsubscribe" THEN [x \in DOMAIN topics \ {m.topic} |-> topics[x]]
  ELSE IF m.kind = "subscribe" THEN [topics EXCEPT ![m.topic].pending = @ - 1] ELSE topics
Confirmed(topics, m) ==
  IF m.kind = "subscribe" THEN [topics EXCEPT ![m.topic].pending = @ - 1]
  ELSE IF m.kind = "unsubscribe" /\ topics[m.topic].pending = 0
       THEN [x \in DOMAIN topics \ {m.topic} |-> topics[x]]
  ELSE topics
ProcessTopic ==
  /\ pc = "process" /\ inbox # <<>> /\ ac.replies = <<>> /\ ac.subscribed
  /\ LET m == Head(inbox)
     IN /\ m.topic # NoTopic /\ inbox' = Tail(inbox)
        /\ IF m.topic \in Subscribed
           THEN LET topics == Confirmed(ac.topics, m)
                IN /\ ac' = [ac EXCEPT !.topics = topics,
                                       !.subscribed = ~(m.kind = "unsubscribe" /\ m.count = 0 /\ DOMAIN topics = {})]
                   /\ RunCallback(Callback(ac.topics[m.topic].n, m.topic), m)
           ELSE ac' = ac /\ RunCallback(cb, m)
  /\ UNCHANGED <<srv, issued, told>>

(* Any other reply in a subscribed context answers a command sent in it.   *)
ProcessInvalid ==
  /\ pc = "process" /\ inbox # <<>> /\ ac.replies = <<>> /\ ac.subscribed /\ Head(inbox).kind = "reply"
  /\ RunCallback(IF ac.invalid = <<>> THEN cb ELSE Head(ac.invalid), Head(inbox))
  /\ ac' = [ac EXCEPT !.invalid = SubSeq(@, 2, Len(@))] /\ inbox' = Tail(inbox)
  /\ UNCHANGED <<srv, issued, told>>

(* Back in redisProcessCallbacks, which frees the context if asked to.     *)
CallbackReturns ==
  /\ pc = "callback"
  /\ IF ac.freeing THEN AsyncFree(ac) ELSE pc' = "process" /\ UNCHANGED <<ac, ran, told>>
  /\ UNCHANGED <<inbox, cb, got, srv, issued>>

----------------------------------------------------------------------------
(* The server: answers in order, errors for ordinary commands of a         *)
(* subscribed client, may reject a command, refuse the client or go away.  *)
Live == pc \in {"loop", "process", "callback"}

Answers(c) ==
  CASE c.kind = "ordinary" -> <<Message(IF srv.topics = {} THEN "reply" ELSE "error", c.n, NoTopic, 0)>>
    [] c.kind = "subscribe" ->
         [i \in DOMAIN c.topics |-> Message("subscribe", c.n, c.topics[i],
                                            Cardinality(srv.topics \cup Range(SubSeq(c.topics, 1, i))))]
    [] c.kind = "unsubscribe" ->
         <<Message("unsubscribe", c.n, c.topics[1], Cardinality(srv.topics \ Range(c.topics)))>>
ServerAnswers ==
  /\ Live /\ srv.up /\ srv.in # <<>>
  /\ LET c == Head(srv.in)
     IN srv' = [srv EXCEPT !.in = Tail(@), !.out = @ \o Answers(c),
                           !.topics = CASE c.kind = "subscribe" -> @ \cup Range(c.topics)
                                        [] c.kind = "unsubscribe" -> @ \ Range(c.topics)
                                        [] c.kind = "ordinary" -> @]
  /\ UNCHANGED <<ac, inbox, pc, cb, got, issued, ran, told>>
ServerRejects ==
  /\ Live /\ srv.up /\ srv.in # <<>>
  /\ srv' = [srv EXCEPT !.in = Tail(@), !.out = Append(@, Message("error", Head(srv.in).n, NoTopic, 0))]
  /\ UNCHANGED <<ac, inbox, pc, cb, got, issued, ran, told>>
(* QUIT is answered in every mode; then the server closes.                 *)
ServerQuits ==
  /\ Live /\ srv.up /\ srv.in # <<>> /\ Head(srv.in).kind = "ordinary"
  /\ srv' = [srv EXCEPT !.in = <<>>, !.out = Append(@, Message("reply", Head(srv.in).n, NoTopic, 0)), !.up = FALSE]
  /\ UNCHANGED <<ac, inbox, pc, cb, got, issued, ran, told>>
ServerPublishes(t) ==
  /\ Live /\ srv.up /\ t \in srv.topics /\ srv.sent < MaxMessages
  /\ srv' = [srv EXCEPT !.out = Append(@, Message("message", 0, t, 0)), !.sent = @ + 1]
  /\ UNCHANGED <<ac, inbox, pc, cb, got, issued, ran, told>>
ServerCloses(refuses) ==
  /\ Live /\ srv.up
  /\ refuses => srv.in = <<>> /\ srv.out = <<>> /\ ac.obuf = <<>> /\ issued = <<>>
  /\ srv' = [srv EXCEPT !.up = FALSE, !.out = IF refuses THEN <<Message("error", 0, NoTopic, 0)>> ELSE @]
  /\ UNCHANGED <<ac, inbox, pc, cb, got, issued, ran, told>>

Ended == ~Live /\ UNCHANGED vars

Progress == \/ ConnectFails \/ HandleWrite \/ HandleRead
            \/ ProcessNone \/ ProcessRegular \/ ProcessUnexpected \/ ProcessTopic \/ ProcessInvalid
            \/ CallbackReturns
Next == \/ Disconnect \/ Free \/ Command
        \/ \E list \in Subscriptions : Subscribe(list)
        \/ \E t \in Topics : Unsubscribe(t) \/ ServerPublishes(t)
        \/ Progress
        \/ ServerAnswers \/ ServerRejects \/ ServerQuits \/ \E refuses \in BOOLEAN : ServerCloses(refuses)
        \/ Ended

(* The event loop runs while the context lives and callbacks return; a     *)
(* server that is up and has a command answers it.                         *)
Spec == Init /\ [][Next]_vars /\ WF_vars(Progress) /\ WF_vars(ServerAnswers)

----------------------------------------------------------------------------
(* A callback hears the reply to its own command, or news of the topic it  *)
(* was registered for, whatever was pipelined before it and however the    *)
(* replies, the messages and the errors of a subscribed context mix.  The  *)
(* error of a server that refuses the client (number 0) answers whichever. *)
OwnReply ==
  pc = "callback" =>
    IF got.topic = NoTopic THEN got.n \in {cb.n, 0}
    ELSE cb.topic = got.topic /\ got.topic \in Range(issued[cb.n].topics)

(* A command's callback runs once, with its reply or, when the context is  *)
(* freed, with NULL: by then none is left out and none has run twice       *)
(* (privdata that the callback releases is neither leaked nor freed twice). *)
Ordinary == {i \in DOMAIN issued : issued[i].kind = "ordinary"}
ExactlyOnce ==
  \A i \in Ordinary : /\ Len(ran[i]) <= 1
                      /\ pc = "freed" => Len(ran[i]) = 1

(* "For clean disconnects, there should be no pending callbacks": this     *)
(* assertion holds, and so does the one on replies nobody waits for ("the  *)
(* context *must* be subscribed or monitoring") for a program that sends   *)
(* nothing while an UNSUBSCRIBE is under way; and a disconnect that is     *)
(* reported as clean although the program did not free the context has     *)
(* answered every command that was sent outside subscribed mode.           *)
CleanMeansAnswered ==
  /\ pc # "pending" /\ (Polite => pc # "unsubscribed")
  /\ told = "ok" /\ ~ac.freeing =>
       \A i \in Ordinary : issued[i].list = "replies" => ran[i] # <<NullReply>>

(* While the connection is quiet, every topic the server will publish to   *)
(* this client has its callback, and the context knows it is subscribed:   *)
(* no confirmation of an earlier UNSUBSCRIBE took a later SUBSCRIBE along. *)
Quiet == pc = "loop" /\ ac.obuf = <<>> /\ srv.in = <<>> /\ srv.out = <<>> /\ inbox = <<>>
TopicsHeard == Quiet => srv.topics \subseteq Subscribed /\ (srv.topics # {} => ac.subscribed)

(* A disconnect the program asked for comes, also when it was put off with *)
(* commands still to be written or answered: the context is freed.         *)
DisconnectEnds == ac.disconnecting ~> pc = "freed"

=============================================================================
