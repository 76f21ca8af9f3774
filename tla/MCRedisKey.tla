----------------------------- MODULE MCRedisKey -----------------------------
(* Instances of RedisKey for TLC: requests are interchangeable.             *)
EXTENDS RedisKey, TLC

MCSymmetry == Permutations(Requests)
=============================================================================
