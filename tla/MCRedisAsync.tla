---------------------------- MODULE MCRedisAsync ----------------------------
(* RedisAsync with two topics, subscribed to one by one or together.       *)
EXTENDS RedisAsync
CONSTANTS a, b
MCTopics == {a, b}
MCSubscriptions == {<<a>>, <<a, b>>}
=============================================================================
