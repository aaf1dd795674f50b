----------------------------- MODULE MCRedisLock ----------------------------
(* RedisLock for TLC.                                                      *)
EXTENDS RedisLock

\* One client draws two tokens, the others one.
TwoAndOne == [c \in Clients |-> IF c = CHOOSE d \in Clients : TRUE THEN 2 ELSE 1]
=============================================================================
