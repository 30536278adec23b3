---------------------------- MODULE MCRedisStore ----------------------------
(* Instances of RedisStore for TLC: two servers that share a store. *)
EXTENDS RedisStore

CONSTANTS j1, j2, c1, s1, s2

OneJob     == {j1}
TwoJobs    == {j1, j2}
TwoServers == {s1, s2}
Spread     == [c \in Jobs \union CancelCalls |-> IF c = j2 THEN s2 ELSE s1]
Apart      == [c \in Jobs \union CancelCalls |-> IF c \in Jobs THEN s1 ELSE s2]
=============================================================================
