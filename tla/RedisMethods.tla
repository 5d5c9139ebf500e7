---------------------------- MODULE RedisMethods ---------------------------
(***************************************************************************)
(* The methods of CacheConn, RedisPool/CachePool.cpp: what each one asks   *)
(* the Redis server and how it reads the answer.  All have one shape,      *)
(* Init(), a redisCommand or redisCommandArgv, a test of the reply; the    *)
(* records below hold what differs.  A command name is one byte.           *)
(***************************************************************************)
EXTENDS RedisCommand

CONSTANTS Key, Field,   \* two texts
          Values,       \* the texts stored
          PlainKeys     \* a sequence of texts without spaces and percent signs

(* The methods.  words and values are the format string and its arguments  *)
(* (argv only for redisCommandArgv), argv what the method asks for, kind   *)
(* the answer it expects, null what it does with a NULL reply, ret how it  *)
(* reads a reply.                                                          *)

Method(words, values, argv, kind, null, ret) ==
  [words |-> words, values |-> values, argv |-> argv, kind |-> kind, null |-> null, ret |-> ret]

S == <<PERCENT, LOWER_S>>
D == <<PERCENT, LOWER_D>>
LD == <<PERCENT, LOWER_L, LOWER_D>>
Bracket == <<91>>
One == Decimal(1)
OKText == <<79, 75>>

AUTH == <<65>>      SELECT == <<66>>   GET == <<67>>      SET == <<68>>
SETEX == <<69>>     MGET == <<70>>     EXISTS == <<71>>   DEL == <<72>>
HDEL == <<73>>      HGET == <<74>>     HGETALL == <<75>>  HSET == <<76>>
HINCRBY == <<77>>   INCRBY == <<78>>   HMSET == <<79>>    HMGET == <<80>>
INCR == <<81>>      DECR == <<82>>     LPUSH == <<83>>    RPUSH == <<84>>
LLEN == <<85>>      LRANGE == <<86>>   ZLEXCOUNT == <<87>> ZADD == <<88>>
ZREM == <<89>>      ZINCRBY == <<90>>  ZCARD == <<97>>    ZREVRANGE == <<98>>
ZSCORE == <<99>>    FLUSHDB == <<101>>

GetString == {Method(<<GET, S>>, <<Key>>, <<GET, Key>>, "bulk", "free", "string")}
SetAndSetex == UNION {
  {Method(<<SET, S, S>>, <<Key, v>>, <<SET, Key, v>>, "status", "free", "text"),
   Method(<<SETEX, S, D, S>>, <<Key, 60, v>>, <<SETEX, Key, Decimal(60), v>>, "status", "free", "text")}
  : v \in Values}
(* mget pastes the keys into the format string.                            *)
Mget == {Method(<<MGET>> \o PlainKeys, <<>>, <<MGET>> \o PlainKeys, "array", "free", "strings")}
IsExists == {Method(<<EXISTS, S>>, <<Key>>, <<EXISTS, Key>>, "int", "free", "truth")}
DelAndHdel == {Method(<<DEL, S>>, <<Key>>, <<DEL, Key>>, "int", "free", "integer"),
               Method(<<HDEL, S, S>>, <<Key, Field>>, <<HDEL, Key, Field>>, "int", "free", "integer")}
Hget == {Method(<<HGET, S, S>>, <<Key, Field>>, <<HGET, Key, Field>>, "bulk", "free", "string")}
HgetChar == {Method(<<HGET, S, S>>, <<Key, Field>>, <<HGET, Key, Field>>, "bulk", "keep", "value")}
HgetAll == {Method(<<HGETALL, S>>, <<Key>>, <<HGETALL, Key>>, "array", "free", "pairs")}
HsetAndIncrBy ==
  {Method(<<HSET, S, S, S>>, <<Key, Field, v>>, <<HSET, Key, Field, v>>, "int", "free", "integer") : v \in Values}
  \cup {Method(<<HINCRBY, S, S, LD>>, <<Key, Field, -1>>, <<HINCRBY, Key, Field, Decimal(-1)>>, "int", "free", "integer"),
        Method(<<INCRBY, S, LD>>, <<Key, 10>>, <<INCRBY, Key, Decimal(10)>>, "int", "free", "integer")}
Hmset == {Method(<<>>, <<>>, <<HMSET, Key, Field, v>>, "status", "free", "text") : v \in Values}
Hmget == {Method(<<>>, <<>>, <<HMGET, Key, Field, <<>> >>, "array", "free", "strings")}
IncrToLlen ==
  {Method(<<c, S>>, <<Key>>, <<c, Key>>, "int", "free", "integer") : c \in {INCR, DECR, LLEN}}
  \cup {Method(<<c, S, S>>, <<Key, v>>, <<c, Key, v>>, "int", "free", "integer") : c \in {LPUSH, RPUSH}, v \in Values}
Lrange == {Method(<<LRANGE, S, D, D>>, <<Key, 0, -1>>, <<LRANGE, Key, Decimal(0), Decimal(-1)>>, "array", "free", "strings")}
ZsetExit == {Method(<<ZLEXCOUNT, S, Bracket \o S, Bracket \o S>>, <<Key, v, v>>,
                    <<ZLEXCOUNT, Key, Bracket \o v, Bracket \o v>>, "int", "crash", "checked") : v \in Values}
ZsetAdd == {Method(<<ZADD, S, LD, S>>, <<Key, 10, v>>, <<ZADD, Key, Decimal(10), v>>, "int", "crash", "done") : v \in Values}
ZsetZrem == {Method(<<ZREM, S, S>>, <<Key, v>>, <<ZREM, Key, v>>, "int", "crash", "done") : v \in Values}
ZsetIncr == {Method(<<ZINCRBY, S, One, S>>, <<Key, v>>, <<ZINCRBY, Key, One, v>>, "bulk", "crash", "ok") : v \in Values}
ZsetZcard == {Method(<<ZCARD, S>>, <<Key>>, <<ZCARD, Key>>, "int", "crash", "checked")}
ZsetZrevrange == {Method(<<ZREVRANGE, S, D, D>>, <<Key, 0, 1>>, <<ZREVRANGE, Key, Decimal(0), One>>, "array", "crash", "range")}
ZsetGetScore == {Method(<<ZSCORE, S, S>>, <<Key, v>>, <<ZSCORE, Key, v>>, "bulk", "crash", "score") : v \in Values}
Flushdb == {Method(<<FLUSHDB>>, <<>>, <<FLUSHDB>>, "status", "free", "flushed")}

Methods == UNION {GetString, SetAndSetex, Mget, IsExists, DelAndHdel, Hget, HgetChar, HgetAll, HsetAndIncrBy, Hmset,
                  Hmget, IncrToLlen, Lrange, ZsetExit, ZsetAdd, ZsetZrem, ZsetIncr, ZsetZcard, ZsetZrevrange,
                  ZsetGetScore, Flushdb}

(* The value a method makes of a reply: a number and a list of texts.      *)
Reads(code, texts) == [code |-> code, texts |-> texts]
Texts(reply) == [i \in DOMAIN reply.element |-> reply.element[i].str]
IsString(reply) == reply.type = "string"
(* atoi, for texts that are a number or do not start with one.             *)
Atoi(text) == IF String2ll(text).ok THEN String2ll(text).value ELSE 0
Value(ret, reply) ==
  LET integer == reply.type = "integer"
      array == reply.type = "array"
  IN CASE ret = "string" -> Reads(0, IF IsString(reply) THEN <<reply.str>> ELSE <<<<>>>>)
       [] ret = "text" -> Reads(0, <<reply.str>>)
       [] ret = "value" -> IF IsString(reply) THEN Reads(0, <<reply.str>>) ELSE Reads(-1, <<>>)
       [] ret = "integer" -> Reads(reply.integer, <<>>)
       [] ret = "truth" -> Reads(IF reply.integer = 0 THEN 0 ELSE 1, <<>>)
       [] ret = "checked" -> Reads(IF integer THEN reply.integer ELSE -1, <<>>)
       [] ret = "done" -> Reads(IF integer THEN 0 ELSE -1, <<>>)
       [] ret = "ok" -> Reads(IF reply.str = OKText THEN 0 ELSE -1, <<>>)
       [] ret = "score" -> Reads(IF IsString(reply) THEN Atoi(reply.str) ELSE -1, <<>>)
       [] ret = "strings" -> Reads(1, IF array THEN Texts(reply) ELSE <<>>)
       [] ret = "pairs" -> Reads(1, IF array /\ Len(reply.element) % 2 = 0 THEN Texts(reply) ELSE <<>>)
       [] ret = "range" -> IF array THEN Reads(0, SubSeq(Texts(reply), 1, Min({Len(reply.element), 2})))
                           ELSE Reads(-1, <<>>)
       [] ret = "flushed" -> Reads(IF IsString(reply) /\ reply.str = OKText THEN 1 ELSE 0, <<>>)
=============================================================================
