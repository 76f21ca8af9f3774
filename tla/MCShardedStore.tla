--------------------------- MODULE MCShardedStore ---------------------------
(* Instances of ShardedStore for TLC: two shards, keys a and c in shard 0,  *)
(* key b in shard 1.                                                        *)
EXTENDS ShardedStore, TLC

MCKeys == {"a", "b", "c"}
MCHash == ("a" :> 0) @@ ("b" :> 1) @@ ("c" :> 2)
MCSymmetry == Permutations(Threads)
=============================================================================
