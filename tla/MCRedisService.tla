--------------------------- MODULE MCRedisService ---------------------------
(* Three request ids, with limits on slots, queued bytes and result bytes that *)
(* each refuse a request the other two would admit.                            *)
EXTENDS RedisService
=============================================================================
