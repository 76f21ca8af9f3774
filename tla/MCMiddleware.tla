---------------------------- MODULE MCMiddleware ----------------------------
(* Instance of Middleware for TLC: two goroutines, both in one process, and *)
(* one configuration for each way an adapter can differ.                    *)
EXTENDS Middleware, TLC

CONSTANTS p1, t1, t2, ip

MCHome == [t \in Threads |-> p1]
MCAddress == [t \in Threads |-> t]
MCConfig(adapter, errors, aborts, onFailure) ==
  [adapter |-> adapter, errors |-> errors, aborts |-> aborts,
   policy |-> onFailure]
MCConfigs ==
  {MCConfig("http", "next", TRUE, "closed"),
   MCConfig("gin", "handler", FALSE, "closed"),
   MCConfig("echo", "next", TRUE, "open"),
   MCConfig("fiber", "handler", TRUE, "closed")}
=============================================================================
