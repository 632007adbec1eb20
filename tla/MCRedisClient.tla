---------------------------- MODULE MCRedisClient ----------------------------
(* Small instances of the redis clients for TLC.                            *)
EXTENDS RedisClient
=============================================================================
