------------------------------- MODULE MCRedis -------------------------------
(* RedisConsumer's small instances: interchangeable consumers and items.   *)
EXTENDS RedisConsumer

CONSTANTS c1, c2, j1, j2, j3

PairSymmetry == Permutations({c1, c2}) \cup Permutations({j1, j2, j3})
=============================================================================
