------------------------------ MODULE Layered -------------------------------
(***************************************************************************)
(* The two-tier limiter (src/layered/limiter.go): each process asks its    *)
(* in-memory limiter first and, unless that denies, the Redis limiter all  *)
(* processes share.  The local limiter decides in one step (ShardedStore), *)
(* abstracted to a quota of each key; it may also fail.                    *)
(***************************************************************************)
EXTENDS RedisClient

CONSTANT LocalQuota  \* grants the local limiter has for a key

ASSUME LayeredAssumption == LocalQuota \in Nat

VARIABLE local  \* grants left of each process's local limiter, by key

layeredVars == <<redisVars, local>>

\* What the layered sink hears of a result, and of an error, of a tier.
emit(tier, result) == <<tier, Verdict(result)>>
emitError(tier) == <<tier, "error">>

\* The call with key goes to place, with the events told so far.
Enter(t, key, place, tier, result, told) ==
  call' = [call EXCEPT ![t].pc = place, ![t].key = key, ![t].tier = tier,
                       ![t].result = result, ![t].told = told]

\* A blank key is reported and returned as an error.
InvalidKey(t) ==
  /\ At(t, {"idle"})
  /\ Enter(t, Blank, "done", "single", "error", <<emitError("single")>>)
  /\ UNCHANGED <<serverVars, clientVars, tallyVars, local>>

\* Fault: the local limiter is charged without a check.
NeverExhausted(t, key) == TRUE
HasLocal(t, key) == local[Home[t]][key] > 0

\* The local layer allows, and the remote layer makes the decision.
LocalAllows(t, key) ==
  /\ At(t, {"idle"})
  /\ HasLocal(t, key)
  /\ local' = [local EXCEPT ![Home[t]][key] = @ - 1]
  /\ Enter(t, key, "run", "remote", "none", <<>>)
  /\ UNCHANGED <<serverVars, clientVars, tallyVars>>

\* The local layer fails (ErrMaxKeysExceeded): its error is not returned.
LocalFails(t, key) ==
  /\ At(t, {"idle"})
  /\ Enter(t, key, "run", "remote", "none", <<emitError("local")>>)
  /\ UNCHANGED <<serverVars, clientVars, tallyVars, local>>

\* The local layer denies, and its result is returned.
LocalDenies(t, key) ==
  /\ At(t, {"idle"})
  /\ ~HasLocal(t, key)
  /\ Enter(t, key, "done", "local", "deny", <<emit("local", "deny")>>)
  /\ UNCHANGED <<serverVars, clientVars, tallyVars, local>>

\* remoteAllow reports the remote result; the Redis limiters return no error
\* for a key that is not blank.
RemoteReturns(t) ==
  /\ At(t, {"returned"})
  /\ call' = [call EXCEPT
                ![t].pc = "done",
                ![t].told = Append(@, emit("remote", call[t].result))]
  /\ UNCHANGED <<serverVars, clientVars, tallyVars, local>>

LayeredInit ==
  /\ RedisInit
  /\ local = [p \in Procs |-> [k \in Keys |-> LocalQuota]]

BeginAllow(t, key) ==
  LocalAllows(t, key) \/ LocalFails(t, key) \/ LocalDenies(t, key)

\* remoteAllow.
Remote(t) ==
  \/ RunStep(t) /\ UNCHANGED local
  \/ RemoteReturns(t)

\* The call is over: its outcome is tallied and its locals are gone.
ReturnAllow(t) ==
  LET allowed == call[t].result = "allow"
  IN  /\ At(t, {"done"})
      /\ admitted' = IF allowed /\ ~call[t].failed
                     THEN [admitted EXCEPT ![call[t].key] = @ + 1]
                     ELSE admitted
      /\ opened' = IF allowed /\ call[t].failed THEN opened + 1 ELSE opened
      /\ call' = [call EXCEPT ![t] = Idle]
      /\ UNCHANGED <<serverVars, clientVars, wasted, local>>
-----------------------------------------------------------------------------
\* How often e is in the sequence s.
Times(s, e) == Cardinality({i \in DOMAIN s : s[i] = e})

\* How often receiver was told event in the call of goroutine t.
Heard(t, receiver, event) == Times(call[t].told, <<receiver, event>>)

Verdicts == {"allowed", "rejected"}

\* What a sink hears of a call that returns: the layered sink one verdict, from
\* the tier that decided and the same as the result returned; the sink of the
\* Redis limiter one verdict if it was asked and, if it degraded, one error,
\* which onError hears too ("in addition to (not instead of)",
\* redis/options.go:61).
Reported ==
  \A t \in Threads :
    LET c == call[t]
        asked == IF c.tier = "remote" THEN 1 ELSE 0
        degraded == IF c.failed THEN 1 ELSE 0
    IN  At(t, {"done"}) /\ c.result # "error" =>
          /\ \A e \in Verdicts, tier \in {"local", "remote"} :
               Heard(t, tier, e) =
                 IF tier = c.tier /\ e = Verdict(c.result) THEN 1 ELSE 0
          /\ \A e \in Verdicts :
               Heard(t, "redis", e) = IF e = Verdict(c.result) THEN asked ELSE 0
          /\ Heard(t, "redis", "error") = degraded
          /\ Heard(t, "callback", "error") = degraded
=============================================================================
