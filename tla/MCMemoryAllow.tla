---------------------------- MODULE MCMemoryAllow ---------------------------
(* Instance of MemoryAllow for TLC: two shards of one key each.             *)
EXTENDS MemoryAllow, TLC

MCKeys == {"a", "b"}
MCHash == ("a" :> 0) @@ ("b" :> 1)
=============================================================================
