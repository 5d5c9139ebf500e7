--------------------------- MODULE MCRedisClient ---------------------------
(* A Redis client for TLC: texts with a space, a percent sign, a CRLF and  *)
(* ten bytes; LLONG_MAX is 127, the reader's stack holds four tasks.      *)
EXTENDS RedisClient

MCKey == <<97, SP>>
MCField == <<PERCENT, LOWER_S>>
MCValues == {<<>>, [i \in 1..10 |-> 98]}
MCPlainKeys == <<<<97>>, <<98>>>>
MCPassword == <<112>>

(* The bytes of a reply, as the server writes them.                        *)
RECURSIVE ReplyBytes(_)
ReplyBytes(obj) ==
  CASE obj.type = "status" -> <<PLUS>> \o obj.str \o CRLF
    [] obj.type = "error" -> <<MINUS>> \o obj.str \o CRLF
    [] obj.type = "integer" -> <<COLON>> \o Decimal(obj.integer) \o CRLF
    [] obj.type = "string" -> <<DOLLAR>> \o Decimal(Len(obj.str)) \o CRLF \o obj.str \o CRLF
    [] obj.type = "nil" -> <<DOLLAR>> \o Decimal(-1) \o CRLF
    [] obj.type = "array" ->
         FoldLeft(LAMBDA bytes, e : bytes \o ReplyBytes(e),
                  <<STAR>> \o Decimal(Len(obj.element)) \o CRLF, obj.element)

Answer(obj) == [means |-> obj, bytes |-> ReplyBytes(obj)]
Garbled(bytes) == [means |-> NoReply, bytes |-> bytes]
Array(elements) == [ReplyObject("array") EXCEPT !.element = elements]
Text(bytes) == StringObject("string", bytes)
NilArray == [means |-> NilObject, bytes |-> <<STAR>> \o Decimal(-1) \o CRLF]

MCAnswers ==
  [status |-> {Answer(StringObject("status", OKText))},
   error |-> {Answer(StringObject("error", <<69>>)), Garbled(<<88>>), Garbled(<<DOLLAR, MINUS, ZERO + 2, CR, LF>>)},
   int |-> {Answer(IntegerObject(v)) : v \in {0, -1, 10}} \cup {Answer(IntegerObject(127)), Garbled(<<COLON>> \o Decimal(128) \o CRLF)},
   bulk |-> {Answer(Text(<<>>)), Answer(Text(<<CR, LF>>)), Answer(Text(Decimal(10))), Answer(NilObject)},
   array |-> {Answer(ArrayObject(0)), NilArray,
              Answer(Array(<<Text(<<CR>>), NilObject>>)),
              Answer(Array(<<Array(<<IntegerObject(1), ArrayObject(0)>>), Text(<<LF>>)>>)),
              Answer(Array(<<Text(<<65>>), Array(<<NilObject>>)>>)),
              Garbled(ReplyBytes(Array(<<Array(<<Array(<<Array(<<>>)>>)>>)>>)))}]
============================================================================
