----------------------------- MODULE Middleware -----------------------------
(***************************************************************************)
(* The HTTP adapters (src/middleware) in front of the two-tier limiter.    *)
(* The goroutines serve requests that one client sends over a connection   *)
(* each; every process runs the same adapter with the same configuration.  *)
(***************************************************************************)
EXTENDS Layered

CONSTANTS
  Configs,     \* configurations of the adapter and of the Redis limiter
  Client,      \* the client's address
  Address,     \* the address and port of the connection of each goroutine
  MaxRequests  \* bound on the requests

\* errors: what becomes of a limiter error ("next" without an ErrorHandler).
\* aborts: the handlers set abort the request, as gin asks of them.
ASSUME MiddlewareAssumption ==
  /\ \A c \in Configs :
       /\ c.adapter \in {"http", "gin", "echo", "fiber"}
       /\ c.errors \in {"next", "handler"} /\ c.policy \in {"closed", "open"}
       /\ c.aborts \in BOOLEAN
  /\ Client \in Keys /\ Address \in [Threads -> Keys]
  /\ MaxRequests \in Nat

VARIABLES
  config,    \* the Config of the adapter
  requests,  \* requests received
  answer,    \* the last response on each connection, see Response
  ended,     \* requests answered, by what Allow returned
  served     \* of each Caller: requests that reached the next handler

\* What Allow returns: Result.Allowed, or an error.
Results == {"allow", "deny", "error"}

adapterVars == <<config, requests, answer, ended, served>>
vars == <<layeredVars, adapterVars>>

\* Fault: the connection for every adapter.
PeerOf(t) == Address[t]

\* The default KeyFunc: RemoteAddr has the port in it, ClientIP, RealIP and IP
\* do not.
KeyOf(t) == IF config.adapter = "http" THEN Address[t] ELSE Client

\* A request arrives; KeyFunc may also be one that gives a blank key.
Arrive(t) ==
  /\ requests < MaxRequests
  /\ requests' = requests + 1
  /\ InvalidKey(t) \/ BeginAllow(t, KeyOf(t))
  /\ answer' = [answer EXCEPT ![t] = "none"]
  /\ UNCHANGED <<config, ended, served>>

Allow(t) == Remote(t) /\ UNCHANGED adapterVars

\* What the client gets when its request is stopped here.
Response(t) == IF call[t].result = "error" THEN "error" ELSE "denied"

\* The adapter calls DeniedHandler or ErrorHandler and returns.
Refuses(t) ==
  \/ call[t].result = "deny"
  \/ call[t].result = "error" /\ config.errors = "handler"

\* It calls the next handler.
Continues(t) ==
  \/ call[t].result = "allow"
  \/ call[t].result = "error" /\ config.errors = "next"

\* Whom a request is served to: the client, or one of its connections behind
\* net/http, where each has a quota of its own.
Caller(t) == IF config.adapter = "http" THEN Address[t] ELSE Client

\* Allow returns.  When the adapter returns, the chain of handlers goes on or
\* not (chain).
Respond(t, chain) ==
  /\ ReturnAllow(t)
  /\ \/ Refuses(t) /\ answer' = [answer EXCEPT ![t] = Response(t)]
     \/ Continues(t) /\ answer' = [answer EXCEPT ![t] = "served"]
  /\ ended' = [ended EXCEPT ![call[t].result] = @ + 1]
  /\ served' = IF Continues(t) \/ chain
               THEN [served EXCEPT ![Caller(t)] = @ + 1] ELSE served
  /\ UNCHANGED <<config, requests>>

HTTPMiddleware(t) == config.adapter = "http" /\ Respond(t, FALSE)

\* In gin the chain goes on unless it is aborted.
GinMiddleware(t) ==
  config.adapter = "gin" /\ Respond(t, Refuses(t) /\ ~config.aborts)

EchoMiddleware(t) == config.adapter = "echo" /\ Respond(t, FALSE)

FiberMiddleware(t) == config.adapter = "fiber" /\ Respond(t, FALSE)

Reply(t) ==
  HTTPMiddleware(t) \/ GinMiddleware(t) \/ EchoMiddleware(t)
    \/ FiberMiddleware(t)

Init ==
  /\ LayeredInit
  /\ config \in Configs /\ policy = config.policy
  /\ requests = 0
  /\ answer = [t \in Threads |-> "none"]
  /\ ended = [r \in Results |-> 0]
  /\ served = [k \in Keys |-> 0]

Next ==
  \/ \E t \in Threads : Arrive(t) \/ Allow(t) \/ Reply(t)
  \/ Flush /\ UNCHANGED <<local, adapterVars>>

\* A goroutine that serves a request keeps running: the library bounds its
\* resends and ends every command with a reply, an error or a timeout.
Fairness == \A t \in Threads : WF_vars(Allow(t) \/ Reply(t))

Spec == Init /\ [][Next]_vars /\ Fairness
-----------------------------------------------------------------------------
EventType ==
  {"redis", "callback", "single", "local", "remote"}
    \X {"error", "allowed", "rejected"}

CallType ==
  [pc : {"idle", "run", "load", "loaded", "eval", "reply", "returned", "done"},
   key : Keys \cup {Blank}, tier : {"none", "single", "local", "remote"},
   reloaded : BOOLEAN, reply : {"none", "allow", "deny", "noscript", "lost"},
   result : {"none", "allow", "deny", "error"}, failed : BOOLEAN,
   runs : Nat, resent : 0 .. MaxResends, stale : BOOLEAN,
   told : Seq(EventType)]

\* Types of the state of calls, clients, server and adapter.
TypeOK ==
  /\ loaded \in BOOLEAN /\ flushes \in 0 .. MaxFlushes
  /\ quota \in [Keys -> 0 .. Quota]
  /\ sha \in [Procs -> BOOLEAN] /\ policy \in {"closed", "open"}
  /\ call \in [Threads -> CallType]
  /\ admitted \in [Keys -> Nat] /\ wasted \in [Keys -> Nat] /\ opened \in Nat
  /\ local \in [Procs -> [Keys -> 0 .. LocalQuota]]
  /\ config \in Configs /\ requests \in 0 .. MaxRequests
  /\ answer \in [Threads -> {"none", "served", "error", "denied"}]
  /\ ended \in [Results -> Nat] /\ served \in [Keys -> Nat]

When(p, n) == IF p THEN n ELSE 0

\* Handlers of gin that do not abort let the request go on to the next one.
Unaborted == config.adapter = "gin" /\ ~config.aborts

\* Requests the configuration lets through without a grant: all that Redis
\* could not decide under ErrorFailOpen, all errors without an ErrorHandler, and
\* everything that is stopped by handlers that do not abort.
LetThrough ==
  When(policy = "open", opened)
    + When(config.errors = "next" \/ Unaborted, ended["error"])
    + When(Unaborted, ended["deny"])

\* "the distributed quota is never exceeded" (layered/doc.go:8), seen from the
\* next handler: a client gets, over all its connections and all processes and
\* whatever is lost, resent or reloaded, no more than the quota of one key and
\* the requests its configuration lets through when there is no decision for
\* them.  Behind net/http, whose default key has the port in it, this is what
\* each connection gets.
ClientWithinQuota == \A who \in Keys : served[who] <= Quota + LetThrough

\* Every request is answered: neither reloads nor resends go on for ever.
RequestAnswered ==
  \A t \in Threads : ~At(t, {"idle"}) ~> At(t, {"idle"}) /\ answer[t] # "none"
=============================================================================
