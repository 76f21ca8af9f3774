---------------------------- MODULE RedisClient -----------------------------
(***************************************************************************)
(* The client side of the Redis limiters: Script.Run with its EVALSHA      *)
(* cache (src/redis/script.go) and what Allow makes of its outcome         *)
(* (src/redis/limiter.go).  Goroutines of several processes share one      *)
(* server, which may lose its script cache; requests and replies may be    *)
(* lost.  What the script decides is abstracted to a quota of each key.    *)
(***************************************************************************)
EXTENDS Integers, Sequences, FiniteSets

CONSTANTS
  Threads,    \* goroutines calling Allow
  Procs,      \* processes, each with its own limiter and Script
  Home,       \* the process of each goroutine
  Keys,       \* keys
  Blank,      \* a blank key
  Quota,      \* grants the script has for a key
  MaxResends, \* redis.Options.MaxRetries: resends of a command by the library
  MaxFlushes  \* bound on the losses of the server's script cache

ASSUME ClientAssumption ==
  /\ IsFiniteSet(Threads)
  /\ Home \in [Threads -> Procs]
  /\ Blank \notin Keys
  /\ Quota \in Nat /\ MaxResends \in Nat /\ MaxFlushes \in Nat

VARIABLES
  loaded,    \* the server has the script
  flushes,   \* how often it has lost it
  quota,     \* grants left for each key
  sha,       \* Script.sha of each process is set
  policy,    \* Options.policy: "closed" or "open"
  call,      \* the call each goroutine is in, see Idle
  admitted,  \* of each key: calls the script has let through
  opened,    \* calls ErrorFailOpen has let through
  wasted     \* grants of the script whose reply was lost

serverVars == <<loaded, flushes, quota>>
clientVars == <<sha, policy>>
tallyVars == <<admitted, opened, wasted>>
redisVars == <<serverVars, clientVars, call, tallyVars>>

Idle ==
  [pc       |-> "idle",
   key      |-> Blank,
   tier     |-> "none",  \* the layer whose result is returned
   reloaded |-> FALSE,   \* Run is past its NOSCRIPT reload
   reply    |-> "none",  \* the server's answer under way
   result   |-> "none",  \* Result.Allowed, or an error
   failed   |-> FALSE,   \* the call degraded
   runs     |-> 0,       \* times the script ran
   resent   |-> 0,       \* times the library has sent EVALSHA again
   stale    |-> TRUE,    \* not loaded since the server lost its scripts
   told     |-> <<>>]    \* events reported, as <<receiver, event>>

At(t, places) == call[t].pc \in places

Granted(k) == {t \in Threads : call[t].key = k /\ call[t].reply = "allow"}

\* A reply under way is lost; a grant in it counts for nobody.
Waste(t) ==
  wasted' = IF call[t].reply = "allow"
            THEN [wasted EXCEPT ![call[t].key] = @ + 1] ELSE wasted

\* Run starts with getSHA; it loads the script first when there is none.
StartRun(t) ==
  /\ At(t, {"run"})
  /\ call' = [call EXCEPT ![t].pc = IF sha[Home[t]] THEN "eval" ELSE "load"]
  /\ UNCHANGED <<serverVars, clientVars, tallyVars>>

\* Fault: the SHA is computed and nothing is loaded.
LeavesUnloaded == loaded
AfterLoad == TRUE

\* SCRIPT LOAD reaches the server.
ServeLoad(t) ==
  /\ At(t, {"load"})
  /\ loaded' = AfterLoad
  /\ call' = [call EXCEPT ![t].pc = "loaded", ![t].stale = FALSE]
  /\ UNCHANGED <<flushes, quota, clientVars, tallyVars>>

\* Its reply arrives, and Load caches the SHA.
StoreSHA(t) ==
  /\ At(t, {"loaded"})
  /\ sha' = [sha EXCEPT ![Home[t]] = TRUE]
  /\ call' = [call EXCEPT ![t].pc = "eval"]
  /\ UNCHANGED <<serverVars, policy, tallyVars>>

\* EVALSHA reaches the server, which runs the script if it has it.
ServeEval(t) ==
  LET left == quota[call[t].key]
  IN  /\ At(t, {"eval"})
      /\ IF loaded
         THEN /\ quota' = [quota EXCEPT ![call[t].key] =
                             IF left > 0 THEN left - 1 ELSE left]
              /\ call' = [call EXCEPT
                            ![t].pc = "reply", ![t].runs = @ + 1,
                            ![t].reply = IF left > 0 THEN "allow" ELSE "deny"]
         ELSE /\ call' = [call EXCEPT ![t].pc = "reply",
                                      ![t].reply = "noscript"]
              /\ UNCHANGED quota
      /\ UNCHANGED <<loaded, flushes, clientVars, tallyVars>>

Verdict(result) == IF result = "allow" THEN "allowed" ELSE "rejected"

\* emit, after the script's answer.
Answer(t) ==
  /\ At(t, {"reply"})
  /\ call[t].reply \in {"allow", "deny"}
  /\ call' = [call EXCEPT
                ![t].pc = "returned", ![t].result = call[t].reply,
                ![t].told = Append(@, <<"redis", Verdict(call[t].reply)>>)]
  /\ UNCHANGED <<serverVars, clientVars, tallyVars>>

\* Fault: any answer is followed by a reload.
AnswerMissing(t) == ~call[t].reloaded
ScriptMissing(t) == call[t].reply = "noscript" /\ ~call[t].reloaded

\* Fault: NOSCRIPT is followed by a retry and no reload.
RetryOnly(t) ==
  /\ At(t, {"reply"}) /\ call[t].reply = "noscript"
  /\ call' = [call EXCEPT ![t].pc = "eval"]
  /\ UNCHANGED <<serverVars, clientVars, tallyVars>>

\* The first NOSCRIPT reloads the script.
Reload(t) ==
  /\ At(t, {"reply"}) /\ ScriptMissing(t)
  /\ call' = [call EXCEPT ![t].pc = "load", ![t].reloaded = TRUE]
  /\ UNCHANGED <<serverVars, clientVars, tallyVars>>

\* fallback, as the policy says.
Fallback == IF policy = "open" THEN "allow" ELSE "deny"

\* Fault: the verdict is not reported.
ErrorEvents(result) == <<<<"redis", "error">>, <<"callback", "error">>>>

\* emitError, the onError of fallback, and emit.
FallbackEvents(result) ==
  <<<<"redis", "error">>, <<"callback", "error">>,
    <<"redis", Verdict(result)>>>>

\* The error is reported and the policy decides.
Degrade(t, reply) ==
  call' = [call EXCEPT
             ![t].pc = "returned", ![t].reply = reply, ![t].failed = TRUE,
             ![t].result = Fallback, ![t].told = @ \o FallbackEvents(Fallback)]

\* A second NOSCRIPT is an error.
GiveUp(t) ==
  /\ At(t, {"reply"})
  /\ call[t].reply = "noscript" /\ call[t].reloaded
  /\ Degrade(t, "noscript")
  /\ UNCHANGED <<serverVars, clientVars, tallyVars>>

\* A request or a reply is lost, or the context ends: Run returns an error.
Lose(t) ==
  /\ At(t, {"load", "loaded", "eval", "reply"})
  /\ Degrade(t, "lost")
  /\ Waste(t)
  /\ UNCHANGED <<serverVars, clientVars, admitted, opened>>

\* Run returns something else than an array of three integers.
Unreadable(t) ==
  /\ At(t, {"reply"})
  /\ call[t].reply \in {"allow", "deny"}
  /\ Degrade(t, "lost")
  /\ Waste(t)
  /\ UNCHANGED <<serverVars, clientVars, admitted, opened>>

\* EVALSHA or its reply is lost and the library sends the command again.
Resend(t) ==
  /\ At(t, {"eval", "reply"})
  /\ call[t].resent < MaxResends
  /\ call' = [call EXCEPT ![t].pc = "eval", ![t].reply = "none",
                          ![t].resent = @ + 1]
  /\ Waste(t)
  /\ UNCHANGED <<serverVars, clientVars, admitted, opened>>

\* SCRIPT FLUSH, or a restart of a server that has saved its keys.
Flush ==
  /\ loaded
  /\ flushes < MaxFlushes
  /\ flushes' = flushes + 1
  /\ loaded' = FALSE
  /\ call' = [t \in Threads |-> [call[t] EXCEPT !.stale = TRUE]]
  /\ UNCHANGED <<quota, clientVars, tallyVars>>

RedisInit ==
  /\ loaded = FALSE /\ flushes = 0 /\ quota = [k \in Keys |-> Quota]
  /\ sha = [p \in Procs |-> FALSE]
  /\ policy \in {"closed", "open"}
  /\ call = [t \in Threads |-> Idle]
  /\ admitted = [k \in Keys |-> 0] /\ wasted = [k \in Keys |-> 0]
  /\ opened = 0

\* Allow of a Redis limiter, once started.
RunStep(t) ==
  \/ StartRun(t) \/ ServeLoad(t) \/ StoreSHA(t) \/ ServeEval(t)
  \/ Answer(t) \/ Reload(t) \/ GiveUp(t) \/ Lose(t) \/ Unreadable(t)
  \/ Resend(t)
-----------------------------------------------------------------------------
\* Every grant the script has charged to a key is one admitted call, one call
\* about to be admitted, or one lost reply: retries, reloads and the two tiers
\* neither admit a call twice on one grant nor leak a grant.
QuotaAccounted ==
  \A k \in Keys :
    Quota - quota[k] = admitted[k] + wasted[k] + Cardinality(Granted(k))

\* The NOSCRIPT reload never runs the script a second time; only the library's
\* own resend of a command whose reply was lost can.
RunsExplained ==
  \A t \in Threads : call[t].runs <= 1 + call[t].resent

\* Two processes, or two goroutines sharing Script.sha, never make each other
\* fail with NOSCRIPT: a call gives up on it only when the server lost its
\* scripts after that call's own reload.
NoScriptNeedsFlush ==
  \A t \in Threads :
    call[t].failed /\ call[t].reply = "noscript" => call[t].stale
=============================================================================
