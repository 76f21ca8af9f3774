-------------------------- MODULE MiddlewareProofs --------------------------
(***************************************************************************)
(* The quota of the two-tier limiter behind an adapter, for any number of  *)
(* processes, goroutines, requests, resends and flushes.                   *)
(***************************************************************************)
EXTENDS Middleware, SequenceTheorems, FiniteSetTheorems, TLAPS

\* One goroutine's call, by where it is.
CallInv(t) ==
  LET c == call[t]
  IN  /\ c.pc \notin {"idle", "done"} => c.key \in Keys
      /\ c.reply = "allow" => c.key \in Keys
      /\ c.pc \in {"idle", "run", "load", "loaded", "eval"} =>
           c.reply # "allow" /\ c.runs <= c.resent
      /\ c.reply = "noscript" => c.runs <= c.resent \/ c.pc # "reply"
      /\ c.runs <= c.resent + 1
      /\ c.pc = "reply" /\ c.reply = "noscript" => c.stale
      /\ c.failed => c.pc \in {"returned", "done"}
      /\ c.failed /\ c.reply = "noscript" => c.stale
      /\ c.stale \/ loaded
      /\ c.pc \in {"returned", "done"} =>
           (c.reply = "allow" <=> c.result = "allow" /\ ~c.failed)
      /\ c.failed /\ policy = "closed" => c.result = "deny"
      /\ config.adapter # "http" => c.key \in {Client, Blank}
      /\ config.adapter = "http" => c.key \in {Address[t], Blank}

\* What the next handler served was admitted, or let through without a grant.
ServedInv == \A k \in Keys : served[k] <= admitted[k] + LetThrough

Inv ==
  /\ TypeOK
  /\ \A t \in Threads : CallInv(t)
  /\ QuotaAccounted
  /\ ServedInv

-----------------------------------------------------------------------------
(* What a step of goroutine t does to the calls.                            *)

\* Goroutine t's call becomes r, and no other changes.
Becomes(t, r) == r \in CallType /\ call' = [call EXCEPT ![t] = r]

LEMMA VerdictTyped ==
  ASSUME NEW x PROVE Verdict(x) \in {"allowed", "rejected"}
  BY DEF Verdict

\* Events are appended to events.
LEMMA EventsTyped ==
  ASSUME NEW s \in Seq(EventType), NEW x
  PROVE  /\ s \o FallbackEvents(x) \in Seq(EventType)
         /\ Append(s, <<"redis", Verdict(x)>>) \in Seq(EventType)
         /\ Append(s, <<"remote", Verdict(x)>>) \in Seq(EventType)
  <1>1. /\ <<"redis", "error">> \in EventType
        /\ <<"callback", "error">> \in EventType
        /\ <<"redis", Verdict(x)>> \in EventType
        /\ <<"remote", Verdict(x)>> \in EventType
    BY VerdictTyped DEF EventType
  <1>2. FallbackEvents(x) \in Seq(EventType)
    BY <1>1 DEF FallbackEvents
  <1> QED
    BY <1>1, <1>2

\* The fields of a call.
LEMMA Fields ==
  ASSUME NEW c \in CallType
  PROVE  /\ c.key \in Keys \cup {Blank} /\ c.told \in Seq(EventType)
         /\ c.runs \in Nat /\ c.resent \in 0 .. MaxResends
         /\ c.reply \in {"none", "allow", "deny", "noscript", "lost"}
  BY DEF CallType

\* The other calls keep their invariant.
LEMMA OthersKept ==
  ASSUME Inv, NEW t \in Threads, NEW r, Becomes(t, r),
         loaded => loaded', UNCHANGED <<policy, config>>
  PROVE  /\ call' \in [Threads -> CallType]
         /\ call'[t] = r
         /\ \A u \in Threads \ {t} : CallInv(u)'
  <1>1. call \in [Threads -> CallType]
    BY Zenon DEF Inv, TypeOK
  <1>2. call' \in [Threads -> CallType] /\ call'[t] = r
    BY <1>1, SMTT(60) DEF Becomes
  <1>3. ASSUME NEW u \in Threads \ {t} PROVE CallInv(u)'
    <2>1. call'[u] = call[u] /\ CallInv(u)
      BY <1>1 DEF Becomes, Inv
    <2> QED
      BY <2>1 DEF CallInv
  <1> QED
    BY <1>2, <1>3

\* Granted calls are finitely many.
LEMMA GrantedFinite ==
  ASSUME NEW k
  PROVE  IsFiniteSet(Granted(k)) /\ Cardinality(Granted(k)) \in Nat
  <1>1. Granted(k) \subseteq Threads
    BY DEF Granted
  <1> QED
    BY <1>1, ClientAssumption, FS_Subset, FS_CardinalityType

\* A step that neither takes nor gives up a grant.
LEMMA GrantedSame ==
  ASSUME TypeOK, NEW t \in Threads, NEW r, Becomes(t, r),
         call[t].reply = "allow" <=> r.reply = "allow",
         r.reply = "allow" => r.key = call[t].key,
         NEW k \in Keys
  PROVE  Granted(k)' = Granted(k)
  BY Zenon DEF TypeOK, Becomes, Granted

\* The script grants.
LEMMA GrantedMore ==
  ASSUME TypeOK, NEW t \in Threads, NEW r, Becomes(t, r),
         call[t].reply # "allow", r.reply = "allow", r.key = call[t].key,
         NEW k \in Keys
  PROVE  Cardinality(Granted(k))' =
           IF k = call[t].key THEN Cardinality(Granted(k)) + 1
           ELSE Cardinality(Granted(k))
  <1>1. /\ t \notin Granted(k)
        /\ Granted(k)' = IF k = call[t].key THEN Granted(k) \cup {t}
                         ELSE Granted(k)
    BY Zenon DEF TypeOK, Becomes, Granted
  <1> QED
    BY <1>1, GrantedFinite, FS_AddElement, Zenon

\* A grant is used, or its reply is lost.
LEMMA GrantedLess ==
  ASSUME TypeOK, NEW t \in Threads, NEW r, Becomes(t, r),
         call[t].reply = "allow", r.reply # "allow",
         NEW k \in Keys
  PROVE  Cardinality(Granted(k))' =
           IF k = call[t].key THEN Cardinality(Granted(k)) - 1
           ELSE Cardinality(Granted(k))
  <1>1. /\ k = call[t].key => t \in Granted(k)
        /\ Granted(k)' = IF k = call[t].key THEN Granted(k) \ {t}
                         ELSE Granted(k)
    BY Zenon DEF TypeOK, Becomes, Granted
  <1> QED
    BY <1>1, GrantedFinite, FS_RemoveElement, ZenonT(60)

\* Waste counts a grant whose reply is dropped.
LEMMA WasteCounts ==
  ASSUME Inv, NEW t \in Threads, NEW r, Becomes(t, r), Waste(t),
         r.reply # "allow", UNCHANGED <<quota, admitted>>
  PROVE  QuotaAccounted' /\ wasted' \in [Keys -> Nat]
  <1>1. TypeOK /\ CallInv(t) /\ QuotaAccounted
    BY DEF Inv
  <1>2. /\ wasted \in [Keys -> Nat] /\ admitted \in [Keys -> Nat]
        /\ quota \in [Keys -> 0 .. Quota] /\ Quota \in Nat
    BY <1>1, ClientAssumption, Zenon DEF TypeOK
  <1>3. CASE call[t].reply = "allow"
    <2>1. call[t].key \in Keys
      BY <1>3, <1>1 DEF CallInv
    <2>2. wasted' = [wasted EXCEPT ![call[t].key] = @ + 1]
      BY <1>3 DEF Waste
    <2>3. wasted' \in [Keys -> Nat]
      BY <1>2, <2>1, <2>2, SMTT(60)
    <2>4. ASSUME NEW k \in Keys
          PROVE  Quota - quota'[k]
                   = admitted'[k] + wasted'[k] + Cardinality(Granted(k))'
      <3>1. /\ Cardinality(Granted(k))' =
                 IF k = call[t].key THEN Cardinality(Granted(k)) - 1
                 ELSE Cardinality(Granted(k))
            /\ Cardinality(Granted(k)) \in Nat
        BY <1>3, <1>1, GrantedLess, GrantedFinite, SMTT(60)
      <3>2. Quota - quota[k]
              = admitted[k] + wasted[k] + Cardinality(Granted(k))
        BY <1>1, SMTT(60) DEF QuotaAccounted
      <3>3. wasted'[k] = IF k = call[t].key THEN wasted[k] + 1 ELSE wasted[k]
        BY <1>2, <2>2
      <3>4. /\ admitted[k] \in Nat /\ wasted[k] \in Nat /\ quota[k] \in Int
            /\ Quota \in Int /\ quota' = quota /\ admitted' = admitted
        BY <1>2
      <3> QED
        BY <3>1, <3>2, <3>3, <3>4, SMTT(60)
    <2> QED
      BY <2>3, <2>4, SMTT(60) DEF QuotaAccounted
  <1>4. CASE call[t].reply # "allow"
    <2>1. wasted' = wasted
      BY <1>4 DEF Waste
    <2>2. \A k \in Keys : Granted(k)' = Granted(k)
      BY <1>4, <1>1, GrantedSame, SMTT(60)
    <2> QED
      BY <1>1, <1>2, <2>1, <2>2, SMTT(60) DEF QuotaAccounted
  <1> QED
    BY <1>3, <1>4

-----------------------------------------------------------------------------
(* The steps keep the invariant.                                            *)

\* The state besides calls, quota and tallies has its types.
RestTyped ==
  /\ loaded \in BOOLEAN /\ flushes \in 0 .. MaxFlushes
  /\ sha \in [Procs -> BOOLEAN]
  /\ local \in [Procs -> [Keys -> 0 .. LocalQuota]]
  /\ requests \in 0 .. MaxRequests
  /\ answer \in [Threads -> {"none", "served", "error", "denied"}]

LEMMA RestIs == TypeOK => RestTyped
  BY Zenon DEF TypeOK, RestTyped

\* A step that touches no grant keeps the invariant if the call it moves does.
LEMMA QuietStep ==
  ASSUME Inv, NEW t \in Threads, NEW r, Becomes(t, r), RestTyped',
         call[t].reply = "allow" <=> r.reply = "allow",
         r.reply = "allow" => r.key = call[t].key,
         loaded => loaded',
         UNCHANGED <<quota, tallyVars, policy, config, ended, served>>,
         CallInv(t)'
  PROVE  Inv'
  <1>1. TypeOK /\ QuotaAccounted /\ ServedInv
    BY DEF Inv
  <1>2. UNCHANGED <<quota, admitted, opened, wasted, policy, config, ended,
                    served>>
    BY DEF tallyVars
  <1>3. /\ call' \in [Threads -> CallType]
        /\ \A u \in Threads \ {t} : CallInv(u)'
    BY <1>2, OthersKept
  <1>4. \A u \in Threads : CallInv(u)'
    BY <1>3
  <1>5. TypeOK'
    BY <1>1, <1>2, <1>3, Zenon DEF TypeOK, RestTyped
  <1>6. \A k \in Keys : Granted(k)' = Granted(k)
    BY <1>1, GrantedSame, SMTT(60)
  <1>7. QuotaAccounted'
    BY <1>1, <1>2, <1>6, SMTT(60) DEF QuotaAccounted
  <1>8. ServedInv'
    BY <1>1, <1>2 DEF ServedInv, LetThrough, When, Unaborted
  <1> QED
    BY <1>4, <1>5, <1>7, <1>8, SMTT(60) DEF Inv

LEMMA StartRunKept ==
  ASSUME Inv, NEW t \in Threads, StartRun(t), UNCHANGED <<local, adapterVars>>
  PROVE  Inv'
  <1> DEFINE c == call[t]
             r == [c EXCEPT !.pc = IF sha[Home[t]] THEN "eval" ELSE "load"]
  <1>1. TypeOK /\ CallInv(t) /\ c \in CallType /\ c.pc = "run"
    BY Zenon DEF Inv, TypeOK, StartRun, At
  <1>2. Becomes(t, r)
    BY <1>1, SMTT(60) DEF StartRun, Becomes, CallType
  <1>3. UNCHANGED <<loaded, flushes, quota, sha, policy, tallyVars, local,
                    config, requests, answer, ended, served>>
    BY Zenon DEF StartRun, serverVars, clientVars, adapterVars
  <1>4. call'[t] = r
    BY <1>1, <1>2, Zenon DEF Becomes, TypeOK
  <1>5. CallInv(t)'
    BY <1>1, <1>3, <1>4 DEF CallInv, CallType
  <1>6. RestTyped'
    BY <1>1, <1>3, RestIs, ZenonT(60) DEF RestTyped
  <1>7. r.reply = c.reply /\ r.key = c.key
    BY <1>1 DEF CallType
  <1> QED
    BY <1>2, <1>3, <1>5, <1>6, <1>7, QuietStep, Zenon

\* SCRIPT LOAD leaves the server with the script.
LEMMA ServeLoadKept ==
  ASSUME Inv, NEW t \in Threads, ServeLoad(t), UNCHANGED <<local, adapterVars>>
  PROVE  Inv'
  <1> DEFINE c == call[t]
             r == [c EXCEPT !.pc = "loaded", !.stale = FALSE]
  <1>1. TypeOK /\ CallInv(t) /\ c \in CallType /\ c.pc = "load"
    BY Zenon DEF Inv, TypeOK, ServeLoad, At
  <1>2. Becomes(t, r)
    BY <1>1, Zenon DEF ServeLoad, Becomes, CallType
  <1>3. /\ loaded' = TRUE
        /\ UNCHANGED <<flushes, quota, sha, policy, tallyVars, local, config,
                       requests, answer, ended, served>>
    BY Zenon DEF ServeLoad, AfterLoad, clientVars, adapterVars
  <1>4. call'[t] = r
    BY <1>1, <1>2, Zenon DEF Becomes, TypeOK
  <1>5. CallInv(t)'
    BY <1>1, <1>3, <1>4 DEF CallInv, CallType
  <1>6. RestTyped'
    BY <1>1, <1>3, RestIs, Zenon DEF RestTyped
  <1>7. r.reply = c.reply /\ r.key = c.key
    BY <1>1 DEF CallType
  <1> QED
    BY <1>2, <1>3, <1>5, <1>6, <1>7, QuietStep, ZenonT(60)

\* Caching the SHA changes nothing that grants depend on.
LEMMA StoreSHAKept ==
  ASSUME Inv, NEW t \in Threads, StoreSHA(t), UNCHANGED <<local, adapterVars>>
  PROVE  Inv'
  <1> DEFINE c == call[t]
             r == [c EXCEPT !.pc = "eval"]
  <1>1. TypeOK /\ CallInv(t) /\ c \in CallType /\ c.pc = "loaded"
    BY Zenon DEF Inv, TypeOK, StoreSHA, At
  <1>2. Becomes(t, r)
    BY <1>1, SMTT(60) DEF StoreSHA, Becomes, CallType
  <1>3. UNCHANGED <<loaded, flushes, quota, policy, tallyVars, local, config,
                    requests, answer, ended, served>>
    BY Zenon DEF StoreSHA, serverVars, adapterVars
  <1>4. call'[t] = r
    BY <1>1, <1>2, Zenon DEF Becomes, TypeOK
  <1>5. CallInv(t)'
    BY <1>1, <1>3, <1>4 DEF CallInv, CallType
  <1>6. RestTyped'
    <2>1. sha' \in [Procs -> BOOLEAN]
      BY <1>1, ClientAssumption, Zenon DEF StoreSHA, TypeOK
    <2> QED
      BY <1>1, <1>3, <2>1, RestIs, Zenon DEF RestTyped
  <1>7. r.reply = c.reply /\ r.key = c.key
    BY <1>1 DEF CallType
  <1> QED
    BY <1>2, <1>3, <1>5, <1>6, <1>7, QuietStep, Zenon

\* The answer of the script is returned.
LEMMA AnswerKept ==
  ASSUME Inv, NEW t \in Threads, Answer(t), UNCHANGED <<local, adapterVars>>
  PROVE  Inv'
  <1> DEFINE c == call[t]
             told == Append(c.told, <<"redis", Verdict(c.reply)>>)
             r == [c EXCEPT !.pc = "returned", !.result = c.reply,
                            !.told = told]
  <1>1. /\ TypeOK /\ CallInv(t) /\ c \in CallType /\ c.pc = "reply"
        /\ c.reply \in {"allow", "deny"}
    BY Zenon DEF Inv, TypeOK, Answer, At
  <1>2. told \in Seq(EventType)
    BY <1>1, Fields, EventsTyped, Zenon
  <1>3. call' = [call EXCEPT ![t] = r]
    BY <1>1, Zenon DEF Answer, TypeOK, CallType
  <1> HIDE DEF told
  <1>4. Becomes(t, r)
    BY <1>1, <1>2, <1>3, Zenon DEF Becomes, CallType
  <1>5. UNCHANGED <<loaded, flushes, quota, sha, policy, tallyVars, local,
                    config, requests, answer, ended, served>>
    BY Zenon DEF Answer, serverVars, clientVars, adapterVars
  <1>6. call'[t] = r
    BY <1>1, <1>4, Zenon DEF Becomes, TypeOK
  <1>7. CallInv(t)'
    BY <1>1, <1>5, <1>6 DEF CallInv, CallType
  <1>8. RestTyped'
    BY <1>1, <1>5, RestIs, Zenon DEF RestTyped
  <1>9. r.reply = c.reply /\ r.key = c.key
    BY <1>1 DEF CallType
  <1> QED
    BY <1>4, <1>5, <1>7, <1>8, <1>9, QuietStep, Zenon

\* A reload has run no script and taken no grant.
LEMMA ReloadKept ==
  ASSUME Inv, NEW t \in Threads, Reload(t), UNCHANGED <<local, adapterVars>>
  PROVE  Inv'
  <1> DEFINE c == call[t]
             r == [c EXCEPT !.pc = "load", !.reloaded = TRUE]
  <1>1. /\ TypeOK /\ CallInv(t) /\ c \in CallType /\ c.pc = "reply"
        /\ c.reply = "noscript"
    BY Zenon DEF Inv, TypeOK, Reload, ScriptMissing, At
  <1>2. Becomes(t, r)
    BY <1>1, Zenon DEF Reload, Becomes, CallType
  <1>3. UNCHANGED <<loaded, flushes, quota, sha, policy, tallyVars, local,
                    config, requests, answer, ended, served>>
    BY Zenon DEF Reload, serverVars, clientVars, adapterVars
  <1>4. call'[t] = r
    BY <1>1, <1>2, ZenonT(60) DEF Becomes, TypeOK
  <1>5. CallInv(t)'
    BY <1>1, <1>3, <1>4, SMTT(60) DEF CallInv, CallType
  <1>6. RestTyped'
    BY <1>1, <1>3, RestIs, Zenon DEF RestTyped
  <1>7. r.reply = c.reply /\ r.key = c.key
    BY <1>1 DEF CallType
  <1> QED
    BY <1>2, <1>3, <1>5, <1>6, <1>7, QuietStep, Zenon

\* remoteAllow returns what the Redis limiter decided.
LEMMA RemoteReturnsKept ==
  ASSUME Inv, NEW t \in Threads, RemoteReturns(t), UNCHANGED adapterVars
  PROVE  Inv'
  <1> DEFINE c == call[t]
             told == Append(c.told, <<"remote", Verdict(c.result)>>)
             r == [c EXCEPT !.pc = "done", !.told = told]
  <1>1. TypeOK /\ CallInv(t) /\ c \in CallType /\ c.pc = "returned"
    BY Zenon DEF Inv, TypeOK, RemoteReturns, At
  <1>2. told \in Seq(EventType)
    BY <1>1, Fields, EventsTyped, Zenon
  <1>3. call' = [call EXCEPT ![t] = r]
    BY <1>1, Zenon DEF RemoteReturns, emit, TypeOK, CallType
  <1> HIDE DEF told
  <1>4. Becomes(t, r)
    BY <1>1, <1>2, <1>3, Zenon DEF Becomes, CallType
  <1>5. UNCHANGED <<loaded, flushes, quota, sha, policy, tallyVars, local,
                    config, requests, answer, ended, served>>
    BY Zenon DEF RemoteReturns, serverVars, clientVars, adapterVars
  <1>6. call'[t] = r
    BY <1>1, <1>4, Zenon DEF Becomes, TypeOK
  <1>7. CallInv(t)'
    BY <1>1, <1>5, <1>6, SMTT(60) DEF CallInv, CallType
  <1>8. RestTyped'
    BY <1>1, <1>5, RestIs, Zenon DEF RestTyped
  <1>9. r.reply = c.reply /\ r.key = c.key
    BY <1>1 DEF CallType
  <1> QED
    BY <1>4, <1>5, <1>7, <1>8, <1>9, QuietStep, Zenon

\* The script runs once more only where it has not run since the last resend,
\* and its grant is charged to the key.
LEMMA ServeEvalKept ==
  ASSUME Inv, NEW t \in Threads, ServeEval(t), UNCHANGED <<local, adapterVars>>
  PROVE  Inv'
  <1> DEFINE c == call[t]
             left == quota[c.key]
             answered == IF left > 0 THEN "allow" ELSE "deny"
             r == [c EXCEPT !.pc = "reply", !.runs = c.runs + 1,
                            !.reply = answered]
             n == [c EXCEPT !.pc = "reply", !.reply = "noscript"]
  <1>1. TypeOK /\ CallInv(t) /\ c \in CallType /\ c.pc = "eval"
    BY Zenon DEF Inv, TypeOK, ServeEval, At
  <1>2. /\ c.key \in Keys /\ c.reply # "allow" /\ c.runs <= c.resent
        /\ c.runs \in Nat /\ c.resent \in Nat /\ (c.stale \/ loaded)
        /\ ~c.failed
    BY <1>1, Fields, ClientAssumption, SMTT(60) DEF CallInv
  <1>3. UNCHANGED <<loaded, flushes, sha, policy, tallyVars, local, config,
                    requests, answer, ended, served>>
    BY Zenon DEF ServeEval, clientVars, adapterVars
  <1>4. RestTyped'
    BY <1>1, <1>3, RestIs, Zenon DEF RestTyped
  <1>5. ASSUME ~loaded PROVE Inv'
    <2>1. Becomes(t, n) /\ quota' = quota
      BY <1>1, <1>5, ZenonT(60) DEF ServeEval, Becomes, CallType
    <2>2. call'[t] = n
      BY <1>1, <2>1, Zenon DEF Becomes, TypeOK
    <2>3. CallInv(t)'
      BY <1>1, <1>2, <1>3, <1>5, <2>2, SMTT(60) DEF CallInv, CallType
    <2>4. n.reply = "noscript"
      BY <1>1 DEF CallType
    <2> QED
      BY <1>2, <1>3, <1>4, <2>1, <2>3, <2>4, QuietStep, ZenonT(60)
  <1>6. ASSUME loaded
        PROVE  /\ Becomes(t, r) /\ CallInv(t)' /\ r.reply = answered
               /\ r.key = c.key
               /\ quota' = [quota EXCEPT ![c.key] =
                              IF left > 0 THEN left - 1 ELSE left]
    <2>1. call' = [call EXCEPT ![t] = r]
      BY <1>1, <1>6, ZenonT(60) DEF ServeEval, TypeOK, CallType
    <2>2. /\ quota' = [quota EXCEPT ![c.key] =
                         IF left > 0 THEN left - 1 ELSE left]
      BY <1>6 DEF ServeEval
    <2>3. answered \in {"allow", "deny"}
      OBVIOUS
    <2> HIDE DEF answered
    <2>4. Becomes(t, r)
      <3>1. c.runs + 1 \in Nat
        BY <1>2
      <3>2. r \in CallType
        BY <1>1, <2>3, <3>1, Zenon DEF CallType
      <3> QED
        BY <2>1, <3>2, SMTT(60) DEF Becomes
    <2>5. call'[t] = r /\ r.reply = answered /\ r.key = c.key
      BY <1>1, <2>4, ZenonT(60) DEF Becomes, TypeOK, CallType
    <2>6. CallInv(t)'
      BY <1>1, <1>2, <1>3, <1>6, <2>3, <2>5 DEF CallInv, CallType
    <2> QED
      BY <2>2, <2>4, <2>5, <2>6, SMTT(60)
  <1>7. /\ quota \in [Keys -> 0 .. Quota] /\ left \in 0 .. Quota
        /\ Quota \in Nat /\ admitted \in [Keys -> Nat]
        /\ wasted \in [Keys -> Nat]
    BY <1>1, <1>2, ClientAssumption, Zenon DEF TypeOK
  <1>8. ASSUME loaded, ~(left > 0) PROVE Inv'
    <2>1. r.reply = "deny"
      BY <1>6, <1>8
    <2>2. quota' = quota
      BY <1>6, <1>7, <1>8, Zenon
    <2> QED
      BY <1>2, <1>3, <1>4, <1>6, <1>8, <2>1, <2>2, QuietStep, ZenonT(60)
  <1>9. ASSUME loaded, left > 0 PROVE Inv'
    <2>1. Becomes(t, r) /\ r.reply = "allow" /\ r.key = c.key
      BY <1>6, <1>9
    <2>2. quota' = [quota EXCEPT ![c.key] = left - 1]
      BY <1>6, <1>9, SMTT(60)
    <2> HIDE DEF r
    <2>3. /\ call' \in [Threads -> CallType]
          /\ \A u \in Threads : CallInv(u)'
      BY <1>3, <1>6, <1>9, <2>1, OthersKept, SMTT(60)
    <2>4. quota' \in [Keys -> 0 .. Quota]
      <3>1. left - 1 \in 0 .. Quota
        BY <1>7, <1>9
      <3> HIDE DEF left
      <3> QED
        BY <1>7, <2>2, <3>1, Zenon
    <2>5. TypeOK'
      BY <1>1, <1>3, <1>4, <2>3, <2>4, ZenonT(60)
         DEF TypeOK, RestTyped, tallyVars
    <2>6. ASSUME NEW k \in Keys
          PROVE  Quota - quota'[k]
                   = admitted'[k] + wasted'[k] + Cardinality(Granted(k))'
      <3>1. /\ Cardinality(Granted(k))' =
                 IF k = c.key THEN Cardinality(Granted(k)) + 1
                 ELSE Cardinality(Granted(k))
            /\ Cardinality(Granted(k)) \in Nat
        BY <1>1, <1>2, <2>1, GrantedMore, GrantedFinite, SMTT(60)
      <3>2. Quota - quota[k]
              = admitted[k] + wasted[k] + Cardinality(Granted(k))
        BY DEF Inv, QuotaAccounted
      <3>3. quota'[k] = IF k = c.key THEN quota[k] - 1 ELSE quota[k]
        BY <1>7, <2>2, SMTT(60)
      <3>4. /\ admitted'[k] = admitted[k] /\ wasted'[k] = wasted[k]
            /\ admitted[k] \in Nat /\ wasted[k] \in Nat /\ quota[k] \in Int
        BY <1>3, <1>7 DEF tallyVars
      <3> QED
        BY <1>7, <3>1, <3>2, <3>3, <3>4, SMTT(60)
    <2>7. ServedInv'
      BY <1>3 DEF Inv, ServedInv, LetThrough, When, Unaborted, tallyVars
    <2> QED
      BY <2>3, <2>5, <2>6, <2>7, SMTT(60) DEF Inv, QuotaAccounted
  <1> QED
    BY <1>5, <1>8, <1>9, SMTT(60)

\* A call that loses its reply, or sends its command again, keeps the rest of
\* the invariant.
LEMMA WasteKept ==
  ASSUME Inv, NEW t \in Threads, NEW r, Becomes(t, r), Waste(t),
         r.reply # "allow", CallInv(t)',
         UNCHANGED <<loaded, flushes, quota, sha, policy, admitted, opened,
                     local, config, requests, answer, ended, served>>
  PROVE  Inv'
  <1>1. TypeOK
    BY DEF Inv
  <1>2. /\ call' \in [Threads -> CallType]
        /\ \A u \in Threads : CallInv(u)'
    BY OthersKept
  <1>3. QuotaAccounted' /\ wasted' \in [Keys -> Nat]
    BY WasteCounts
  <1>4. TypeOK'
    BY <1>1, <1>2, <1>3, Zenon DEF TypeOK
  <1>5. ServedInv'
    BY DEF Inv, ServedInv, LetThrough, When, Unaborted
  <1> QED
    BY <1>2, <1>3, <1>4, <1>5, SMTT(60) DEF Inv

\* A degraded call has the result the policy says.
LEMMA DegradeStep ==
  ASSUME Inv, NEW t \in Threads, NEW lost \in {"noscript", "lost"},
         Degrade(t, lost), call[t].pc \in {"load", "loaded", "eval", "reply"},
         lost = "noscript" => call[t].stale,
         UNCHANGED <<loaded, policy, config>>
  PROVE  \E r : Becomes(t, r) /\ r.reply = lost /\ r.key = call[t].key
                /\ CallInv(t)'
  <1> DEFINE c == call[t]
             told == c.told \o FallbackEvents(Fallback)
             r == [c EXCEPT !.pc = "returned", !.reply = lost, !.failed = TRUE,
                            !.result = Fallback, !.told = told]
  <1>1. TypeOK /\ CallInv(t) /\ c \in CallType
    BY Zenon DEF Inv, TypeOK
  <1>2. told \in Seq(EventType)
    BY <1>1, Fields, EventsTyped, Zenon
  <1>3. call' = [call EXCEPT ![t] = r]
    BY <1>1, Zenon DEF Degrade, TypeOK, CallType
  <1>4. /\ Fallback \in {"allow", "deny"}
        /\ policy = "closed" => Fallback = "deny"
    BY DEF Fallback
  <1> HIDE DEF told
  <1>5. Becomes(t, r)
    BY <1>1, <1>2, <1>3, <1>4, ZenonT(60) DEF Becomes, CallType
  <1>6. call'[t] = r /\ r.reply = lost /\ r.key = c.key
    BY <1>1, <1>5, ZenonT(60) DEF Becomes, TypeOK, CallType
  <1>7. CallInv(t)'
    BY <1>1, <1>4, <1>6 DEF CallInv, CallType
  <1> QED
    BY <1>5, <1>6, <1>7, Zenon

LEMMA GiveUpKept ==
  ASSUME Inv, NEW t \in Threads, GiveUp(t), UNCHANGED <<local, adapterVars>>
  PROVE  Inv'
  <1>1. /\ TypeOK /\ call[t].pc = "reply" /\ call[t].reply = "noscript"
        /\ call[t].stale
    BY DEF Inv, CallInv, GiveUp, At
  <1>2. UNCHANGED <<loaded, flushes, quota, sha, policy, tallyVars, local,
                    config, requests, answer, ended, served>>
    BY ZenonT(60) DEF GiveUp, serverVars, clientVars, adapterVars
  <1>3. PICK r : /\ Becomes(t, r) /\ r.reply = "noscript"
                 /\ r.key = call[t].key /\ CallInv(t)'
    BY <1>1, <1>2, DegradeStep DEF GiveUp
  <1>4. RestTyped'
    BY <1>1, <1>2, RestIs, Zenon DEF RestTyped
  <1> QED
    BY <1>1, <1>2, <1>3, <1>4, QuietStep

LEMMA LoseKept ==
  ASSUME Inv, NEW t \in Threads, Lose(t), UNCHANGED <<local, adapterVars>>
  PROVE  Inv'
  <1>1. call[t].pc \in {"load", "loaded", "eval", "reply"}
    BY DEF Lose, At
  <1>2. UNCHANGED <<loaded, flushes, quota, sha, policy, admitted, opened,
                    local, config, requests, answer, ended, served>>
    BY Zenon DEF Lose, serverVars, clientVars, adapterVars
  <1>3. PICK r : Becomes(t, r) /\ r.reply = "lost" /\ CallInv(t)'
    BY <1>1, <1>2, DegradeStep, SMTT(60) DEF Lose
  <1> QED
    BY <1>2, <1>3, WasteKept, SMTT(60) DEF Lose

LEMMA UnreadableKept ==
  ASSUME Inv, NEW t \in Threads, Unreadable(t), UNCHANGED <<local, adapterVars>>
  PROVE  Inv'
  <1>1. Lose(t)
    BY DEF Unreadable, Lose, At
  <1> QED
    BY <1>1, LoseKept

LEMMA ResendKept ==
  ASSUME Inv, NEW t \in Threads, Resend(t), UNCHANGED <<local, adapterVars>>
  PROVE  Inv'
  <1> DEFINE c == call[t]
             r == [c EXCEPT !.pc = "eval", !.reply = "none",
                            !.resent = c.resent + 1]
  <1>1. /\ TypeOK /\ CallInv(t) /\ c \in CallType /\ c.pc \in {"eval", "reply"}
        /\ c.resent < MaxResends /\ c.resent \in 0 .. MaxResends
        /\ c.runs \in Nat /\ MaxResends \in Nat
    BY ClientAssumption, Zenon DEF Inv, TypeOK, CallType, Resend, At
  <1>2. call' = [call EXCEPT ![t] = r]
    BY <1>1, Zenon DEF Resend, TypeOK, CallType
  <1>3. c.resent + 1 \in 0 .. MaxResends
    BY <1>1
  <1>4. Becomes(t, r)
    BY <1>1, <1>2, <1>3, ZenonT(60) DEF Becomes, CallType
  <1>5. call'[t] = r /\ r.reply = "none"
    BY <1>1, <1>4, ZenonT(60) DEF Becomes, TypeOK, CallType
  <1>6. UNCHANGED <<loaded, flushes, quota, sha, policy, admitted, opened,
                    local, config, requests, answer, ended, served>>
    BY Zenon DEF Resend, serverVars, clientVars, adapterVars
  <1>7. CallInv(t)'
    BY <1>1, <1>5, <1>6 DEF CallInv, CallType
  <1> QED
    BY <1>4, <1>5, <1>6, <1>7, WasteKept, ZenonT(60) DEF Resend

\* A server that loses its scripts makes every call stale.
LEMMA FlushKept ==
  ASSUME Inv, Flush, UNCHANGED <<local, adapterVars>>
  PROVE  Inv'
  <1>1. TypeOK /\ call \in [Threads -> CallType]
    BY Zenon DEF Inv, TypeOK
  <1>2. call' = [t \in Threads |-> [call[t] EXCEPT !.stale = TRUE]]
    BY DEF Flush
  <1>3. call' \in [Threads -> CallType]
    <2>1. \A c \in CallType : [c EXCEPT !.stale = TRUE] \in CallType
      BY Zenon DEF CallType
    <2> QED
      BY <1>1, <1>2, <2>1
  <1>4. UNCHANGED <<quota, sha, policy, admitted, opened, wasted, local,
                    config, requests, answer, ended, served>>
    BY Zenon DEF Flush, clientVars, tallyVars, adapterVars
  <1>5. ASSUME NEW t \in Threads PROVE CallInv(t)'
    <2>1. CallInv(t) /\ call[t] \in CallType
      BY <1>1 DEF Inv
    <2>2. call'[t] = [call[t] EXCEPT !.stale = TRUE]
      BY <1>2
    <2> QED
      BY <1>4, <2>1, <2>2, SMTT(60) DEF CallInv, CallType
  <1>6. loaded' \in BOOLEAN /\ flushes' \in 0 .. MaxFlushes
    <2>1. loaded' \in BOOLEAN
      BY Zenon DEF Flush
    <2>2. flushes' \in 0 .. MaxFlushes
      <3>1. /\ flushes' = flushes + 1 /\ flushes < MaxFlushes
            /\ flushes \in 0 .. MaxFlushes
        BY <1>1, Zenon DEF Flush, TypeOK
      <3> QED
        BY <3>1, ClientAssumption
    <2> QED
      BY <2>1, <2>2
  <1>7. TypeOK'
    BY <1>1, <1>3, <1>4, <1>6, Zenon DEF TypeOK
  <1>8. \A k \in Keys : Granted(k)' = Granted(k)
    BY <1>1, <1>2, SMTT(60) DEF Granted, CallType
  <1>9. QuotaAccounted' /\ ServedInv'
    BY <1>4, <1>8
       DEF Inv, QuotaAccounted, ServedInv, LetThrough, When, Unaborted
  <1> QED
    BY <1>5, <1>7, <1>9, SMTT(60) DEF Inv

\* Allow is entered with no grant.
LEMMA EnterStep ==
  ASSUME Inv, NEW t \in Threads, call[t].pc = "idle",
         NEW key \in Keys \cup {Blank}, NEW place \in {"run", "done"},
         NEW tier \in {"single", "local", "remote"},
         NEW result \in {"none", "deny", "error"}, NEW told \in Seq(EventType),
         Enter(t, key, place, tier, result, told),
         place = "run" => key \in Keys,
         config.adapter # "http" => key \in {Client, Blank},
         config.adapter = "http" => key \in {Address[t], Blank},
         UNCHANGED <<loaded, policy, config>>
  PROVE  \E r : Becomes(t, r) /\ r.reply # "allow" /\ call[t].reply # "allow"
                /\ CallInv(t)'
  <1> DEFINE c == call[t]
             r == [c EXCEPT !.pc = place, !.key = key, !.tier = tier,
                            !.result = result, !.told = told]
  <1>1. TypeOK /\ CallInv(t) /\ c \in CallType /\ c.pc = "idle"
    BY Zenon DEF Inv, TypeOK
  <1>2. call' = [call EXCEPT ![t] = r]
    BY <1>1, Zenon DEF Enter, TypeOK, CallType
  <1>3. Becomes(t, r)
    BY <1>1, <1>2, ZenonT(60) DEF Becomes, CallType
  <1>4. call'[t] = r /\ r.reply = c.reply /\ c.reply # "allow"
    BY <1>1, <1>3, ZenonT(60) DEF Becomes, TypeOK, CallType, CallInv
  <1>5. CallInv(t)'
    BY <1>1, <1>4, SMTT(60) DEF CallInv, CallType
  <1> QED
    BY <1>3, <1>4, <1>5, Zenon

LEMMA ArriveKept ==
  ASSUME Inv, NEW t \in Threads, Arrive(t)
  PROVE  Inv'
  <1>1. TypeOK /\ call[t].pc = "idle"
    BY SMTT(60)
       DEF Inv, Arrive, InvalidKey, BeginAllow, LocalAllows, LocalFails,
           LocalDenies, At
  <1>2. UNCHANGED <<loaded, flushes, quota, sha, policy, tallyVars, config,
                    ended, served>>
    BY DEF Arrive, InvalidKey, BeginAllow, LocalAllows, LocalFails,
       LocalDenies, serverVars, clientVars
  <1>3. /\ KeyOf(t) \in Keys
        /\ config.adapter # "http" => KeyOf(t) = Client
        /\ config.adapter = "http" => KeyOf(t) = Address[t]
    BY MiddlewareAssumption DEF KeyOf
  <1>4. /\ <<>> \in Seq(EventType)
        /\ <<emitError("single")>> \in Seq(EventType)
        /\ <<emitError("local")>> \in Seq(EventType)
        /\ <<emit("local", "deny")>> \in Seq(EventType)
    <2>1. /\ emitError("single") \in EventType
          /\ emitError("local") \in EventType
          /\ emit("local", "deny") \in EventType
      BY SMTT(60) DEF EventType, emitError, emit, Verdict
    <2> QED
      BY <2>1
  <1>5. \E r : Becomes(t, r) /\ r.reply # "allow" /\ call[t].reply # "allow"
               /\ CallInv(t)'
    <2>1. CASE InvalidKey(t)
      BY <1>1, <1>2, <1>4, <2>1, EnterStep, Zenon DEF InvalidKey
    <2>2. CASE LocalAllows(t, KeyOf(t))
      BY <1>1, <1>2, <1>3, <1>4, <2>2, EnterStep, ZenonT(60) DEF LocalAllows
    <2>3. CASE LocalFails(t, KeyOf(t))
      BY <1>1, <1>2, <1>3, <1>4, <2>3, EnterStep, ZenonT(60) DEF LocalFails
    <2>4. CASE LocalDenies(t, KeyOf(t))
      BY <1>1, <1>2, <1>3, <1>4, <2>4, EnterStep, ZenonT(60) DEF LocalDenies
    <2> QED
      BY <2>1, <2>2, <2>3, <2>4, SMTT(60) DEF Arrive, BeginAllow
  <1>6. local' \in [Procs -> [Keys -> 0 .. LocalQuota]]
    <2>1. local \in [Procs -> [Keys -> 0 .. LocalQuota]] /\ Home[t] \in Procs
      BY <1>1, ClientAssumption, Zenon DEF TypeOK
    <2>2. CASE LocalAllows(t, KeyOf(t))
      <3> DEFINE p == Home[t]
                 k == KeyOf(t)
                 left == local[p][k]
      <3>1. local' = [local EXCEPT ![p] = [local[p] EXCEPT ![k] = left - 1]]
        BY <1>3, <2>1, <2>2, SMTT(60) DEF LocalAllows
      <3>2. left \in 0 .. LocalQuota /\ left > 0
        BY <1>3, <2>1, <2>2, SMTT(60) DEF LocalAllows, HasLocal
      <3>3. left - 1 \in 0 .. LocalQuota
        BY <3>2, LayeredAssumption, SMTT(60)
      <3> HIDE DEF left
      <3>4. [local[p] EXCEPT ![k] = left - 1] \in [Keys -> 0 .. LocalQuota]
        BY <1>3, <2>1, <3>3, SMTT(60)
      <3> QED
        BY <2>1, <3>1, <3>4, SMTT(60)
    <2>3. CASE ~LocalAllows(t, KeyOf(t))
      BY <2>1, <2>3 DEF Arrive, InvalidKey, BeginAllow, LocalFails, LocalDenies
    <2> QED
      BY <2>2, <2>3, SMTT(60)
  <1>7. RestTyped'
    <2>1. requests' \in 0 .. MaxRequests
      <3>1. /\ requests' = requests + 1 /\ requests < MaxRequests
            /\ requests \in 0 .. MaxRequests /\ MaxRequests \in Nat
        BY <1>1, MiddlewareAssumption, Zenon DEF Arrive, TypeOK
      <3> QED
        BY <3>1
    <2>2. answer' \in [Threads -> {"none", "served", "error", "denied"}]
      BY <1>1, Zenon DEF Arrive, TypeOK
    <2> QED
      BY <1>1, <1>2, <1>6, <2>1, <2>2, RestIs, ZenonT(60) DEF RestTyped
  <1>8. PICK r : /\ Becomes(t, r) /\ r.reply # "allow"
                 /\ call[t].reply # "allow" /\ CallInv(t)'
    BY <1>5
  <1> QED
    BY <1>2, <1>7, <1>8, QuietStep, SMTT(60)

\* A request that reaches the next handler was admitted, or is counted among
\* those let through.
LEMMA ReplyKept ==
  ASSUME Inv, NEW t \in Threads, Reply(t)
  PROVE  Inv'
  <1> DEFINE c == call[t]
             allowed == c.result = "allow"
  <1>1. /\ TypeOK /\ CallInv(t) /\ QuotaAccounted /\ ServedInv
        /\ c \in CallType
    BY Zenon DEF Inv, TypeOK
  <1>2. PICK chain \in BOOLEAN :
          Respond(t, chain) /\ (chain => Unaborted)
    BY Zenon
       DEF Reply, HTTPMiddleware, GinMiddleware, EchoMiddleware,
           FiberMiddleware, Unaborted
  <1>3. /\ c.pc = "done" /\ call' = [call EXCEPT ![t] = Idle]
        /\ admitted' = IF allowed /\ ~c.failed
                       THEN [admitted EXCEPT ![c.key] = @ + 1] ELSE admitted
        /\ opened' = IF allowed /\ c.failed THEN opened + 1 ELSE opened
        /\ c.result \in Results
        /\ ended' = [ended EXCEPT ![c.result] = @ + 1]
        /\ served' = IF Continues(t) \/ chain
                     THEN [served EXCEPT ![Caller(t)] = @ + 1] ELSE served
        /\ UNCHANGED <<loaded, flushes, quota, sha, policy, wasted, local,
                       config, requests>>
    BY <1>2, SMTT(60)
       DEF Respond, ReturnAllow, At, serverVars, clientVars, Refuses,
           Continues, Results
  <1>4. /\ c.reply = "allow" <=> allowed /\ ~c.failed
        /\ c.reply = "allow" => c.key \in Keys
    BY <1>1, <1>3, SMTT(60) DEF CallInv
  <1>5. Becomes(t, Idle) /\ Idle.reply = "none"
    <2>1. <<>> \in Seq(EventType)
      BY SMTT(60)
    <2> QED
      BY <1>3, <2>1, ClientAssumption, SMTT(60) DEF Becomes, Idle, CallType
  <1>6. CallInv(t)'
    <2>1. call'[t] = Idle
      BY <1>1, <1>3, ZenonT(60) DEF TypeOK
    <2> QED
      BY <2>1, SMTT(60) DEF CallInv, Idle
  <1>7. /\ call' \in [Threads -> CallType]
        /\ \A u \in Threads : CallInv(u)'
    BY <1>3, <1>5, <1>6, OthersKept, Zenon
  <1>8. /\ admitted \in [Keys -> Nat] /\ wasted \in [Keys -> Nat]
        /\ opened \in Nat /\ quota \in [Keys -> 0 .. Quota] /\ Quota \in Nat
        /\ served \in [Keys -> Nat] /\ ended \in [Results -> Nat]
        /\ Caller(t) \in Keys
    BY <1>1, ClientAssumption, MiddlewareAssumption, ZenonT(60)
       DEF TypeOK, Caller
  <1>9. /\ admitted' \in [Keys -> Nat] /\ opened' \in Nat
        /\ served' \in [Keys -> Nat] /\ ended' \in [Results -> Nat]
    BY <1>3, <1>4, <1>8, SMTT(60)
  <1>10. answer' \in [Threads -> {"none", "served", "error", "denied"}]
    BY <1>1, <1>2, Zenon DEF Respond, Response, TypeOK
  <1>11. TypeOK'
    BY <1>1, <1>3, <1>7, <1>9, <1>10, ZenonT(60) DEF TypeOK
  <1>12. QuotaAccounted'
    <2>1. CASE c.reply = "allow"
      <3> SUFFICES ASSUME NEW k \in Keys
                   PROVE  Quota - quota'[k]
                            = admitted'[k] + wasted'[k] + Cardinality(Granted(k))'
        BY SMTT(60) DEF QuotaAccounted
      <3>1. /\ Cardinality(Granted(k))' =
                 IF k = c.key THEN Cardinality(Granted(k)) - 1
                 ELSE Cardinality(Granted(k))
            /\ Cardinality(Granted(k)) \in Nat
        BY <1>1, <1>5, <2>1, GrantedLess, GrantedFinite, SMTT(60)
      <3>2. Quota - quota[k]
              = admitted[k] + wasted[k] + Cardinality(Granted(k))
        BY <1>1, SMTT(60) DEF QuotaAccounted
      <3>3. admitted'[k] = IF k = c.key THEN admitted[k] + 1 ELSE admitted[k]
        BY <1>3, <1>4, <1>8, <2>1, SMTT(60)
      <3>4. /\ quota'[k] = quota[k] /\ wasted'[k] = wasted[k]
            /\ admitted[k] \in Nat /\ wasted[k] \in Nat /\ quota[k] \in Int
        BY <1>3, <1>8, SMTT(60)
      <3> QED
        BY <1>8, <3>1, <3>2, <3>3, <3>4, SMTT(60)
    <2>2. CASE c.reply # "allow"
      <3>1. \A k \in Keys : Granted(k)' = Granted(k)
        BY <1>1, <1>5, <2>2, GrantedSame, SMTT(60)
      <3>2. admitted' = admitted
        BY <1>3, <1>4, <2>2, SMTT(60)
      <3> QED
        BY <1>1, <1>3, <3>1, <3>2, SMTT(60) DEF QuotaAccounted
    <2> QED
      BY <2>1, <2>2, SMTT(60)
  <1>13. ServedInv'
    <2> DEFINE who == Caller(t)
    <2>1. /\ \A k \in Keys : admitted[k] \in Nat /\ served[k] \in Nat
          /\ \A x \in Results : ended[x] \in Nat
          /\ LetThrough \in Nat
      BY <1>8, SMTT(60) DEF LetThrough, When, Results
    <2>2. /\ \A x \in Results :
               ended'[x] = IF x = c.result THEN ended[x] + 1 ELSE ended[x]
          /\ \A k \in Keys : admitted'[k] >= admitted[k]
          /\ \A k \in Keys :
               served'[k] = IF k = who /\ (Continues(t) \/ chain)
                            THEN served[k] + 1 ELSE served[k]
      BY <1>3, <1>4, <1>8, <2>1, SMTT(60)
    <2>3. LetThrough' \in Nat /\ LetThrough' >= LetThrough
      BY <1>3, <1>8, <2>1, <2>2, SMTT(60)
         DEF LetThrough, When, Unaborted, Results
    <2>4. ASSUME Continues(t) \/ chain
          PROVE  admitted'[who] + LetThrough' >= admitted[who] + LetThrough + 1
      <3>1. CASE allowed /\ ~c.failed
        <4>1. c.key \in Keys /\ c.key = who
          BY <1>1, <1>4, <3>1, ClientAssumption, SMTT(60) DEF CallInv, Caller
        <4>2. admitted'[who] = admitted[who] + 1
          BY <1>3, <1>8, <3>1, <4>1, SMTT(60)
        <4> QED
          BY <1>8, <2>1, <2>3, <4>2, SMTT(60)
      <3>2. CASE ~(allowed /\ ~c.failed)
        <4>1. admitted' = admitted
          BY <1>3, <3>2, SMTT(60)
        <4>2. LetThrough' >= LetThrough + 1
          <5>1. CASE allowed
            <6>1. policy = "open" /\ opened' = opened + 1
              BY <1>1, <1>3, <3>2, <5>1, SMTT(60) DEF CallInv, TypeOK
            <6> QED
              BY <1>3, <1>8, <2>1, <2>2, <5>1, <6>1, SMTT(60)
                 DEF LetThrough, When, Unaborted, Results
          <5>2. CASE ~allowed
            <6>1. \/ c.result = "error" /\ (config.errors = "next" \/ Unaborted)
                  \/ c.result = "deny" /\ Unaborted
              BY <1>2, <1>3, <2>4, <5>2, SMTT(60) DEF Continues, Results
            <6> QED
              BY <1>3, <1>8, <2>1, <2>2, <5>2, <6>1, SMTT(60)
                 DEF LetThrough, When, Unaborted, Results
          <5> QED
            BY <5>1, <5>2, SMTT(60)
        <4> QED
          BY <1>8, <2>1, <2>3, <4>1, <4>2, SMTT(60)
      <3> QED
        BY <3>1, <3>2
    <2>5. \A k \in Keys : served[k] <= admitted[k] + LetThrough
      BY <1>1, Zenon DEF ServedInv
    <2>6. \A k \in Keys : served'[k] <= admitted'[k] + LetThrough'
      BY <1>8, <1>9, <2>1, <2>2, <2>3, <2>4, <2>5, SMTT(60)
    <2> QED
      BY <2>6, Zenon DEF ServedInv
  <1> QED
    BY <1>7, <1>11, <1>12, <1>13, SMTT(60) DEF Inv

-----------------------------------------------------------------------------
(* The invariant holds.                                                     *)

LEMMA InitInv == Init => Inv
  <1> SUFFICES ASSUME Init PROVE Inv
    OBVIOUS
  <1>1. /\ loaded = FALSE /\ flushes = 0 /\ quota = [k \in Keys |-> Quota]
        /\ sha = [p \in Procs |-> FALSE] /\ policy \in {"closed", "open"}
        /\ call = [t \in Threads |-> Idle]
        /\ admitted = [k \in Keys |-> 0] /\ wasted = [k \in Keys |-> 0]
        /\ opened = 0
        /\ local = [p \in Procs |-> [k \in Keys |-> LocalQuota]]
        /\ config \in Configs /\ requests = 0
        /\ ended = [x \in Results |-> 0] /\ served = [k \in Keys |-> 0]
        /\ answer = [t \in Threads |-> "none"]
    BY SMTT(60) DEF Init, LayeredInit, RedisInit
  <1>2. Idle \in CallType
    <2>1. <<>> \in Seq(EventType)
      OBVIOUS
    <2> QED
      BY <2>1, ClientAssumption, SMTT(60) DEF Idle, CallType
  <1>3. /\ 0 \in 0 .. MaxFlushes /\ 0 \in 0 .. MaxRequests
        /\ Quota \in 0 .. Quota /\ LocalQuota \in 0 .. LocalQuota
    BY ClientAssumption, LayeredAssumption, MiddlewareAssumption, SMTT(60)
  <1>4. TypeOK
    BY <1>1, <1>2, <1>3, ZenonT(60) DEF TypeOK
  <1>5. \A t \in Threads : CallInv(t)
    BY <1>1, SMTT(60) DEF CallInv, Idle
  <1>6. QuotaAccounted
    <2>1. \A k \in Keys : Granted(k) = {}
      BY <1>1 DEF Granted, Idle
    <2>2. \A k \in Keys : Cardinality(Granted(k)) = 0
      BY <2>1, FS_EmptySet, Zenon
    <2>3. \A k \in Keys : quota[k] = Quota /\ admitted[k] = 0 /\ wasted[k] = 0
      BY <1>1
    <2> QED
      BY <2>2, <2>3, ClientAssumption, SMTT(60) DEF QuotaAccounted
  <1>7. ServedInv
    BY <1>1, SMTT(60) DEF ServedInv, LetThrough, When, Results
  <1> QED
    BY <1>4, <1>5, <1>6, <1>7, SMTT(60) DEF Inv

LEMMA StepInv == Inv /\ [Next]_vars => Inv'
  <1> SUFFICES ASSUME Inv, [Next]_vars PROVE Inv'
    OBVIOUS
  <1>1. ASSUME NEW t \in Threads, Allow(t) PROVE Inv'
    <2>1. CASE RemoteReturns(t)
      BY <1>1, <2>1, RemoteReturnsKept, SMTT(60) DEF Allow
    <2>2. CASE RunStep(t) /\ UNCHANGED local
      BY <1>1, <2>2, StartRunKept, ServeLoadKept, StoreSHAKept, ServeEvalKept,
         AnswerKept, ReloadKept, GiveUpKept, LoseKept, UnreadableKept,
         ResendKept, SMTT(60)
         DEF Allow, RunStep
    <2> QED
      BY <1>1, <2>1, <2>2 DEF Allow, Remote
  <1>2. CASE UNCHANGED vars
    <2>1. UNCHANGED <<loaded, flushes, quota, sha, policy, call, admitted,
                      opened, wasted, local, config, requests, answer, ended,
                      served>>
      BY <1>2 DEF vars, layeredVars, redisVars, serverVars, clientVars,
         tallyVars, adapterVars
    <2> QED
      BY <2>1, ZenonT(60)
         DEF Inv, TypeOK, CallInv, QuotaAccounted, Granted, ServedInv,
             LetThrough, When, Unaborted
  <1> QED
    BY <1>1, <1>2, ArriveKept, ReplyKept, FlushKept, SMTT(60) DEF Next

\* The invariant, from which the theorems below follow.
THEOREM Invariant == Spec => []Inv
  BY InitInv, StepInv, PTL DEF Spec

\* Calls, clients, server and adapter stay within their types (TypeOK): the
\* local limiter's quota and the server's are never charged below zero.
THEOREM ServiceTyped == Spec => []TypeOK
  <1>1. Inv => TypeOK
    BY DEF Inv
  <1> QED
    BY <1>1, Invariant, PTL

\* The grants of the script are admitted, under way or lost, whatever the
\* interleaving of calls, flushes, losses and resends (script.go, Run).
THEOREM GrantsAccounted == Spec => []QuotaAccounted
  <1>1. Inv => QuotaAccounted
    BY SMTT(60) DEF Inv
  <1> QED
    BY <1>1, Invariant, PTL

\* Run's NOSCRIPT reload never evaluates the script twice.
THEOREM NoDoubleRun == Spec => []RunsExplained
  <1>1. Inv => RunsExplained
    <2> SUFFICES ASSUME Inv, NEW t \in Threads
                 PROVE  call[t].runs <= 1 + call[t].resent
      BY SMTT(60) DEF RunsExplained
    <2>1. /\ call[t].runs <= call[t].resent + 1
          /\ call[t].runs \in Nat /\ call[t].resent \in Nat
      <3>1. call[t] \in CallType /\ CallInv(t)
        BY ZenonT(60) DEF Inv, TypeOK
      <3> QED
        BY <3>1, ClientAssumption, SMTT(60) DEF CallInv, CallType
    <2> QED
      BY <2>1
  <1> QED
    BY <1>1, Invariant, PTL

\* A call fails with NOSCRIPT only when the server lost its scripts after the
\* call's own reload.
THEOREM FailureNeedsFlush == Spec => []NoScriptNeedsFlush
  <1>1. Inv => NoScriptNeedsFlush
    BY SMTT(60) DEF Inv, CallInv, NoScriptNeedsFlush
  <1> QED
    BY <1>1, Invariant, PTL

\* A client, or behind net/http one of its connections, is served at most the
\* quota of its key and what the configuration lets through without a grant.
THEOREM ClientBounded == Spec => []ClientWithinQuota
  <1>1. Inv => ClientWithinQuota
    <2> SUFFICES ASSUME Inv, NEW k \in Keys
                 PROVE  served[k] <= Quota + LetThrough
      BY DEF ClientWithinQuota
    <2>1. served[k] <= admitted[k] + LetThrough
      BY SMTT(60) DEF Inv, ServedInv
    <2>2. Quota - quota[k]
            = admitted[k] + wasted[k] + Cardinality(Granted(k))
      BY SMTT(60) DEF Inv, QuotaAccounted
    <2>3. /\ quota[k] \in 0 .. Quota /\ served[k] \in Nat
          /\ admitted[k] \in Nat /\ wasted[k] \in Nat /\ Quota \in Nat
          /\ opened \in Nat /\ ended \in [Results -> Nat]
      BY ClientAssumption, ZenonT(60) DEF Inv, TypeOK
    <2>4. LetThrough \in Nat
      BY <2>3, SMTT(60) DEF LetThrough, When, Results
    <2>5. Cardinality(Granted(k)) \in Nat
      BY GrantedFinite
    <2> QED
      BY <2>1, <2>2, <2>3, <2>4, <2>5, SMTT(60)
  <1> QED
    BY <1>1, Invariant, PTL

-----------------------------------------------------------------------------
(* What the sinks hear of a call.                                           *)

LEMMA TimesEmpty == ASSUME NEW e PROVE Times(<<>>, e) = 0
  <1>1. {i \in DOMAIN <<>> : <<>>[i] = e} = {}
    OBVIOUS
  <1> QED
    BY <1>1, FS_EmptySet, Zenon DEF Times

\* One more event is one more time for that event only.
LEMMA TimesAppend ==
  ASSUME NEW s \in Seq(EventType), NEW x \in EventType, NEW e
  PROVE  /\ Append(s, x) \in Seq(EventType)
         /\ Times(s, e) \in Nat
         /\ Times(Append(s, x), e)
              = IF e = x THEN Times(s, e) + 1 ELSE Times(s, e)
  <1> DEFINE a == Append(s, x)
             N == Len(s)
             A == {i \in DOMAIN s : s[i] = e}
             B == {i \in DOMAIN a : a[i] = e}
  <1>1. N \in Nat /\ DOMAIN s = 1 .. N
    BY LenProperties, SMTT(60)
  <1>2. /\ a \in Seq(EventType) /\ Len(a) = N + 1
        /\ \A i \in 1 .. N : a[i] = s[i]
        /\ a[N + 1] = x
    BY AppendProperties, SMTT(60)
  <1>3. DOMAIN a = 1 .. N + 1
    BY <1>2, LenProperties
  <1> HIDE DEF a, N
  <1>4. IsFiniteSet(A) /\ Cardinality(A) \in Nat
    <2>1. IsFiniteSet(1 .. N) /\ A \in SUBSET (1 .. N)
      BY <1>1, FS_Interval, SMTT(60)
    <2> QED
      BY <2>1, FS_Subset, FS_CardinalityType, Zenon
  <1>5. B = IF e = x THEN A \cup {N + 1} ELSE A
    BY <1>1, <1>2, <1>3, SMTT(60)
  <1>6. N + 1 \notin A
    BY <1>1
  <1> HIDE DEF A, B
  <1>7. Cardinality(B) = IF e = x THEN Cardinality(A) + 1 ELSE Cardinality(A)
    BY <1>4, <1>5, <1>6, FS_AddElement, Zenon
  <1> QED
    BY <1>2, <1>4, <1>7, Zenon DEF Times, A, B, a

\* Everything but the error of the local tier, which the remote tier's answer
\* does not depend on.
Outcomes == EventType \ {<<"local", "error">>}

\* Events of the Redis limiter in a call that ended as c did.
RedisTold(c, e) ==
  IF e = <<"redis", Verdict(c.result)>> \/
     (c.failed /\ e \in {<<"redis", "error">>, <<"callback", "error">>})
  THEN 1 ELSE 0

Sent(c) ==
  /\ c.tier = "remote"
  /\ ~c.failed
  /\ \A e \in Outcomes : Times(c.told, e) = 0

Returned(c) ==
  /\ c.tier = "remote"
  /\ c.result \in {"allow", "deny"}
  /\ \A e \in Outcomes : Times(c.told, e) = RedisTold(c, e)

Done(c) ==
  \/ c.result = "error"
  \/ /\ c.tier = "local" /\ c.result = "deny" /\ ~c.failed
     /\ \A e \in Outcomes :
          Times(c.told, e) = IF e = <<"local", "rejected">> THEN 1 ELSE 0
  \/ /\ c.tier = "remote" /\ c.result \in {"allow", "deny"}
     /\ \A e \in Outcomes :
          Times(c.told, e) = IF e = <<"remote", Verdict(c.result)>> THEN 1
                             ELSE RedisTold(c, e)

\* What has been told, by how far a call is.
ToldInv(c) ==
  /\ c.pc \in {"run", "load", "loaded", "eval", "reply"} => Sent(c)
  /\ c.pc = "returned" => Returned(c)
  /\ c.pc = "done" => Done(c)

\* d comes from c by a step that reports nothing, by the script's answer, by
\* degrading, or by the return of the remote tier.
Silent(c, d) ==
  /\ c.pc \in {"run", "load", "loaded", "eval", "reply"}
  /\ d.pc \in {"run", "load", "loaded", "eval", "reply"}
  /\ d.tier = c.tier /\ d.failed = c.failed /\ d.told = c.told

Answered(c, d) ==
  /\ c.pc = "reply" /\ d.pc = "returned"
  /\ d.tier = c.tier /\ d.failed = c.failed
  /\ d.result \in {"allow", "deny"}
  /\ d.told = Append(c.told, <<"redis", Verdict(d.result)>>)

Degraded(c, d) ==
  /\ c.pc \in {"load", "loaded", "eval", "reply"} /\ d.pc = "returned"
  /\ d.tier = c.tier /\ d.failed = TRUE
  /\ d.result \in {"allow", "deny"}
  /\ d.told = Append(Append(Append(c.told, <<"redis", "error">>),
                            <<"callback", "error">>),
                     <<"redis", Verdict(d.result)>>)

Passed(c, d) ==
  /\ c.pc = "returned" /\ d.pc = "done"
  /\ d.tier = c.tier /\ d.failed = c.failed /\ d.result = c.result
  /\ d.told = Append(c.told, <<"remote", Verdict(c.result)>>)

Entered(c, d) ==
  /\ ~c.failed /\ d.failed = c.failed
  /\ \/ /\ d.pc = "run" /\ d.tier = "remote"
        /\ d.told \in {<<>>, Append(<<>>, <<"local", "error">>)}
     \/ /\ d.pc = "done" /\ d.tier = "local" /\ d.result = "deny"
        /\ d.told = Append(<<>>, <<"local", "rejected">>)
     \/ d.pc = "done" /\ d.result = "error"

\* Only the loss of the server's scripts, or nothing, is noted.
Unmoved(c, d) ==
  /\ d.pc = c.pc /\ d.tier = c.tier /\ d.failed = c.failed
  /\ d.result = c.result /\ d.told = c.told

Told(c, d) ==
  \/ Silent(c, d) \/ Answered(c, d) \/ Degraded(c, d) \/ Passed(c, d)
  \/ Entered(c, d) \/ Unmoved(c, d) \/ d.pc = "idle"

\* Goroutine t's call goes on in one of these ways, and no other changes.
Tells(t) == \E d : call' = [call EXCEPT ![t] = d] /\ Told(call[t], d)

LEMMA Events ==
  /\ <<"redis", "error">> \in EventType /\ <<"callback", "error">> \in EventType
  /\ <<"local", "error">> \in EventType /\ <<"local", "rejected">> \in EventType
  /\ \A x : /\ <<"redis", Verdict(x)>> \in EventType
            /\ <<"remote", Verdict(x)>> \in EventType
  BY VerdictTyped DEF EventType

LEMMA ToldKept ==
  ASSUME NEW c \in CallType, NEW d \in CallType, ToldInv(c), Told(c, d)
  PROVE  ToldInv(d)
  <1>0. c.told \in Seq(EventType) /\ <<>> \in Seq(EventType)
    BY Fields
  <1>1. CASE Silent(c, d)
    BY <1>1, Zenon DEF Silent, ToldInv, Sent
  <1>2. CASE Answered(c, d)
    <2> DEFINE v == <<"redis", Verdict(d.result)>>
    <2>1. d.pc = "returned" /\ Sent(c) /\ d.tier = "remote" /\ ~d.failed
          /\ d.result \in {"allow", "deny"} /\ d.told = Append(c.told, v)
      BY <1>2, SMTT(60) DEF Answered, ToldInv, Sent
    <2>2. ASSUME NEW e \in Outcomes PROVE Times(d.told, e) = RedisTold(d, e)
      <3>0. v \in EventType
        BY Events, Zenon
      <3>a. Times(Append(c.told, v), e)
              = IF e = v THEN Times(c.told, e) + 1 ELSE Times(c.told, e)
        BY <1>0, <3>0, TimesAppend, ZenonT(60)
      <3>1. Times(d.told, e)
              = IF e = v THEN Times(c.told, e) + 1 ELSE Times(c.told, e)
        <4> HIDE DEF v
        <4> QED
          BY <2>1, <3>a, SMTT(60)
      <3>2. Times(c.told, e) = 0
        BY <2>1, Zenon DEF Sent
      <3>3. RedisTold(d, e) = IF e = v THEN 1 ELSE 0
        BY <2>1, Zenon DEF RedisTold
      <3> QED
        BY <3>1, <3>2, <3>3, SMTT(60)
    <2>3. Returned(d)
      BY <2>1, <2>2, Zenon DEF Returned
    <2> QED
      BY <2>1, <2>3, SMTT(60) DEF ToldInv
  <1>3. CASE Degraded(c, d)
    <2> DEFINE v == <<"redis", Verdict(d.result)>>
               x == <<"redis", "error">>
               y == <<"callback", "error">>
               s1 == Append(c.told, x)
               s2 == Append(s1, y)
    <2>1. d.pc = "returned" /\ Sent(c) /\ d.tier = "remote" /\ d.failed
          /\ d.result \in {"allow", "deny"} /\ d.told = Append(s2, v)
      BY <1>3 DEF Degraded, ToldInv, Sent
    <2>2. v # x /\ v # y /\ x # y
      BY VerdictTyped
    <2>3. x \in EventType /\ y \in EventType /\ v \in EventType
      BY Events, Zenon
    <2> HIDE DEF v, x, y
    <2>4. s1 \in Seq(EventType)
      BY <1>0, <2>3, TimesAppend, Zenon
    <2> HIDE DEF s1
    <2>5. s2 \in Seq(EventType)
      BY <2>3, <2>4, TimesAppend, ZenonT(60)
    <2>6. ASSUME NEW e \in Outcomes PROVE Times(d.told, e) = RedisTold(d, e)
      <3>1. Times(s1, e)
              = IF e = x THEN Times(c.told, e) + 1 ELSE Times(c.told, e)
        BY <1>0, <2>3, TimesAppend, ZenonT(60) DEF s1
      <3>2. Times(s2, e) = IF e = y THEN Times(s1, e) + 1 ELSE Times(s1, e)
        BY <2>3, <2>4, TimesAppend, ZenonT(60)
      <3> HIDE DEF s2
      <3>a. Times(Append(s2, v), e)
              = IF e = v THEN Times(s2, e) + 1 ELSE Times(s2, e)
        BY <2>3, <2>5, TimesAppend, ZenonT(60)
      <3>3. Times(d.told, e) = IF e = v THEN Times(s2, e) + 1 ELSE Times(s2, e)
        BY <2>1, <3>a
      <3>4. Times(c.told, e) = 0
        BY <2>1, Zenon DEF Sent
      <3>5. RedisTold(d, e) = IF e = v \/ e = x \/ e = y THEN 1 ELSE 0
        BY <2>1, Zenon DEF RedisTold, v, x, y
      <3> QED
        BY <2>2, <3>1, <3>2, <3>3, <3>4, <3>5, SMTT(60)
    <2>7. Returned(d)
      BY <2>1, <2>6, Zenon DEF Returned
    <2> QED
      BY <2>1, <2>7, SMTT(60) DEF ToldInv
  <1>4. CASE Passed(c, d)
    <2> DEFINE v == <<"remote", Verdict(c.result)>>
    <2>1. /\ d.pc = "done" /\ Returned(c) /\ d.tier = "remote"
          /\ d.result = c.result /\ d.failed = c.failed
          /\ d.result \in {"allow", "deny"} /\ d.told = Append(c.told, v)
      BY <1>4, SMTT(60) DEF Passed, ToldInv, Returned
    <2>2. ASSUME NEW e \in Outcomes
          PROVE  Times(d.told, e) = IF e = v THEN 1 ELSE RedisTold(d, e)
      <3>0. v \in EventType
        BY Events, Zenon
      <3>a. Times(Append(c.told, v), e)
              = IF e = v THEN Times(c.told, e) + 1 ELSE Times(c.told, e)
        BY <1>0, <3>0, TimesAppend, Zenon
      <3>1. Times(d.told, e)
              = IF e = v THEN Times(c.told, e) + 1 ELSE Times(c.told, e)
        <4> HIDE DEF v
        <4> QED
          BY <2>1, <3>a
      <3>2. /\ Times(c.told, e) = RedisTold(c, e)
            /\ RedisTold(d, e) = RedisTold(c, e)
        BY <2>1, Zenon DEF Returned, RedisTold
      <3>3. e = v => RedisTold(c, e) = 0
        BY DEF RedisTold
      <3> QED
        BY <3>1, <3>2, <3>3, SMTT(60)
    <2>3. Done(d)
      BY <2>1, <2>2, Zenon DEF Done
    <2> QED
      BY <2>1, <2>3, SMTT(60) DEF ToldInv
  <1>5. CASE Entered(c, d)
    <2>1. CASE d.pc = "run" /\ d.tier = "remote"
               /\ d.told \in {<<>>, Append(<<>>, <<"local", "error">>)}
      <3>1. ASSUME NEW e \in Outcomes PROVE Times(d.told, e) = 0
        <4>1. e # <<"local", "error">>
          BY DEF Outcomes
        <4>2. Times(Append(<<>>, <<"local", "error">>), e) = Times(<<>>, e)
          BY <1>0, <4>1, Events, TimesAppend, ZenonT(60)
        <4> QED
          BY <2>1, <4>2, TimesEmpty, Zenon
      <3>2. Sent(d)
        BY <1>5, <2>1, <3>1, Zenon DEF Sent, Entered
      <3> QED
        BY <2>1, <3>2, SMTT(60) DEF ToldInv
    <2>2. CASE d.pc = "done" /\ d.tier = "local" /\ d.result = "deny"
               /\ d.told = Append(<<>>, <<"local", "rejected">>)
      <3>1. ASSUME NEW e \in Outcomes
            PROVE  Times(d.told, e)
                     = IF e = <<"local", "rejected">> THEN 1 ELSE 0
        <4> DEFINE v == <<"local", "rejected">>
        <4>0. v \in EventType
          BY Events, Zenon
        <4>1. Times(Append(<<>>, v), e)
                = IF e = v THEN Times(<<>>, e) + 1 ELSE Times(<<>>, e)
          BY <1>0, <4>0, TimesAppend, Zenon
        <4>2. d.told = Append(<<>>, v)
          BY <2>2
        <4>3. Times(<<>>, e) = 0
          BY TimesEmpty, Zenon
        <4> HIDE DEF v
        <4>4. Times(d.told, e) = IF e = v THEN 1 ELSE 0
          BY <4>1, <4>2, <4>3, SMTT(60)
        <4> QED
          BY <4>4, Zenon DEF v
      <3>2. Done(d)
        BY <1>5, <2>2, <3>1, ZenonT(60) DEF Done, Entered
      <3> QED
        BY <2>2, <3>2 DEF ToldInv
    <2>3. CASE d.pc = "done" /\ d.result = "error"
      BY <2>3, SMTT(60) DEF ToldInv, Done
    <2> QED
      BY <1>5, <2>1, <2>2, <2>3, ZenonT(60) DEF Entered
  <1>6. CASE d.pc = "idle"
    BY <1>6 DEF ToldInv
  <1>7. CASE Unmoved(c, d)
    BY <1>7, ZenonT(60) DEF Unmoved, ToldInv, Sent, Returned, Done, RedisTold
  <1> QED
    BY <1>1, <1>2, <1>3, <1>4, <1>5, <1>6, <1>7, ZenonT(60) DEF Told

\* The steps of Run that report nothing.
LEMMA SilentSteps ==
  ASSUME Inv, NEW t \in Threads,
         \/ StartRun(t) \/ ServeLoad(t) \/ StoreSHA(t) \/ ServeEval(t)
         \/ Reload(t) \/ Resend(t)
  PROVE  Tells(t)
  <1> DEFINE c == call[t]
  <1>1. call \in [Threads -> CallType] /\ c \in CallType
    BY Zenon DEF Inv, TypeOK
  <1>2. ASSUME NEW d, call' = [call EXCEPT ![t] = d], Silent(c, d)
        PROVE  Tells(t)
    BY <1>2, Zenon DEF Tells, Told
  <1>3. CASE StartRun(t)
    <2> DEFINE d == [c EXCEPT !.pc = IF sha[Home[t]] THEN "eval" ELSE "load"]
    <2>1. call' = [call EXCEPT ![t] = d]
      BY <1>1, <1>3, Zenon DEF StartRun, CallType
    <2>2. Silent(c, d)
      BY <1>1, <1>3, SMTT(60) DEF StartRun, At, Silent, CallType
    <2> QED
      BY <1>2, <2>1, <2>2, Zenon
  <1>4. CASE ServeLoad(t)
    <2> DEFINE d == [c EXCEPT !.pc = "loaded", !.stale = FALSE]
    <2>1. call' = [call EXCEPT ![t] = d]
      BY <1>1, <1>4, Zenon DEF ServeLoad, CallType
    <2>2. Silent(c, d)
      BY <1>1, <1>4, Zenon DEF ServeLoad, At, Silent, CallType
    <2> QED
      BY <1>2, <2>1, <2>2, Zenon
  <1>5. CASE StoreSHA(t)
    <2> DEFINE d == [c EXCEPT !.pc = "eval"]
    <2>1. call' = [call EXCEPT ![t] = d]
      BY <1>1, <1>5, Zenon DEF StoreSHA, CallType
    <2>2. Silent(c, d)
      BY <1>1, <1>5, Zenon DEF StoreSHA, At, Silent, CallType
    <2> QED
      BY <1>2, <2>1, <2>2, Zenon
  <1>6. CASE ServeEval(t)
    <2> DEFINE answered == IF quota[c.key] > 0 THEN "allow" ELSE "deny"
               r == [c EXCEPT !.pc = "reply", !.runs = c.runs + 1,
                              !.reply = answered]
               n == [c EXCEPT !.pc = "reply", !.reply = "noscript"]
    <2>1. call' = [call EXCEPT ![t] = r] \/ call' = [call EXCEPT ![t] = n]
      BY <1>1, <1>6, Zenon DEF ServeEval, CallType
    <2> HIDE DEF answered
    <2>2. Silent(c, r) /\ Silent(c, n)
      BY <1>1, <1>6, Zenon DEF ServeEval, At, Silent, CallType
    <2> QED
      BY <1>2, <2>1, <2>2, ZenonT(60)
  <1>7. CASE Reload(t)
    <2> DEFINE d == [c EXCEPT !.pc = "load", !.reloaded = TRUE]
    <2>1. call' = [call EXCEPT ![t] = d]
      BY <1>1, <1>7, Zenon DEF Reload, CallType
    <2>2. Silent(c, d)
      BY <1>1, <1>7, Zenon DEF Reload, At, Silent, CallType
    <2> QED
      BY <1>2, <2>1, <2>2, Zenon
  <1>8. CASE Resend(t)
    <2> DEFINE d == [c EXCEPT !.pc = "eval", !.reply = "none",
                              !.resent = c.resent + 1]
    <2>1. call' = [call EXCEPT ![t] = d]
      BY <1>1, <1>8, Zenon DEF Resend, CallType
    <2>2. Silent(c, d)
      BY <1>1, <1>8, Zenon DEF Resend, At, Silent, CallType
    <2> QED
      BY <1>2, <2>1, <2>2, Zenon
  <1> QED
    BY <1>3, <1>4, <1>5, <1>6, <1>7, <1>8, Zenon

LEMMA FallbackAppends ==
  ASSUME NEW s \in Seq(EventType), NEW result
  PROVE  s \o FallbackEvents(result)
           = Append(Append(Append(s, <<"redis", "error">>),
                           <<"callback", "error">>),
                    <<"redis", Verdict(result)>>)
  <1> DEFINE S == EventType
             x == <<"redis", "error">>
             y == <<"callback", "error">>
             z == <<"redis", Verdict(result)>>
             a1 == Append(s, x)
             a2 == Append(a1, y)
             a3 == Append(a2, z)
             w == <<x, y, z>>
             b == s \o w
             N == Len(s)
  <1>0. /\ x \in S /\ y \in S /\ z \in S
        /\ s \o FallbackEvents(result) = b
    BY Events, Zenon DEF FallbackEvents
  <1> HIDE DEF S, x, y, z
  <1>1. N \in Nat
    BY LenProperties, SMTT(60) DEF S
  <1>2. /\ a1 \in Seq(S) /\ Len(a1) = N + 1 /\ a1[N + 1] = x
        /\ \A i \in 1 .. N : a1[i] = s[i]
    BY <1>0, AppendProperties, SMTT(60) DEF S
  <1> HIDE DEF N, a1
  <1>3. /\ a2 \in Seq(S) /\ Len(a2) = N + 2 /\ a2[N + 2] = y
        /\ \A i \in 1 .. N + 1 : a2[i] = a1[i]
    BY <1>0, <1>1, <1>2, AppendProperties, SMTT(60)
  <1> HIDE DEF a2
  <1>4. /\ a3 \in Seq(S) /\ Len(a3) = N + 3 /\ a3[N + 3] = z
        /\ \A i \in 1 .. N + 2 : a3[i] = a2[i]
    BY <1>0, <1>1, <1>3, AppendProperties, SMTT(60)
  <1> HIDE DEF a3
  <1>5. w \in Seq(S) /\ Len(w) = 3 /\ w[1] = x /\ w[2] = y /\ w[3] = z
    BY <1>0, SMTT(60)
  <1> HIDE DEF w
  <1>6. /\ b \in Seq(S) /\ Len(b) = N + 3
        /\ \A i \in 1 .. N + 3 : b[i] = IF i <= N THEN s[i] ELSE w[i - N]
    <2>1. /\ b \in Seq(S) /\ Len(b) = Len(s) + Len(w)
          /\ \A i \in 1 .. Len(s) + Len(w) :
               b[i] = IF i <= Len(s) THEN s[i] ELSE w[i - Len(s)]
      BY <1>5, ConcatProperties, Zenon DEF S
    <2> HIDE DEF b
    <2> QED
      BY <1>5, <2>1 DEF N
  <1> HIDE DEF b
  <1>7. ASSUME NEW i \in 1 .. N + 3 PROVE a3[i] = b[i]
    <2>1. CASE i \in 1 .. N
      BY <1>1, <1>2, <1>3, <1>4, <1>6, <2>1, SMTT(60)
    <2>2. CASE i = N + 1
      BY <1>1, <1>2, <1>3, <1>4, <1>5, <1>6, <2>2, SMTT(60)
    <2>3. CASE i = N + 2
      <3>1. a3[i] = y /\ b[i] = w[i - N]
        BY <1>1, <1>3, <1>4, <1>6, <2>3, SMTT(60)
      <3>2. i - N = 2
        BY <1>1, <2>3
      <3> QED
        BY <1>5, <3>1, <3>2, ZenonT(60)
    <2>4. CASE i = N + 3
      <3>1. a3[i] = z /\ b[i] = w[i - N]
        BY <1>1, <1>4, <1>6, <2>4, SMTT(60)
      <3>2. i - N = 3
        BY <1>1, <2>4, SMTT(60)
      <3> QED
        BY <1>5, <3>1, <3>2, ZenonT(60)
    <2> QED
      BY <1>1, <2>1, <2>2, <2>3, <2>4, SMTT(60)
  <1>8. a3 = b
    BY <1>4, <1>6, <1>7, SeqEqual, SMTT(60)
  <1> QED
    BY <1>0, <1>8, Zenon DEF a1, a2, a3, x, y, z

\* emit, and emitError with onError before it when the call degrades.
LEMMA ReportSteps ==
  ASSUME Inv, NEW t \in Threads,
         \/ Answer(t) \/ GiveUp(t) \/ Lose(t) \/ Unreadable(t)
         \/ RemoteReturns(t)
  PROVE  Tells(t)
  <1> DEFINE c == call[t]
  <1>1. call \in [Threads -> CallType] /\ c \in CallType
        /\ c.told \in Seq(EventType)
    BY Fields, Zenon DEF Inv, TypeOK
  <1>2. CASE Answer(t)
    <2> DEFINE told == Append(c.told, <<"redis", Verdict(c.reply)>>)
               d == [c EXCEPT !.pc = "returned", !.result = c.reply,
                              !.told = told]
    <2>1. call' = [call EXCEPT ![t] = d]
      BY <1>1, <1>2, Zenon DEF Answer, CallType
    <2>2. c.pc = "reply" /\ c.reply \in {"allow", "deny"}
      BY <1>2, Zenon DEF Answer, At
    <2>3. /\ d.pc = "returned" /\ d.result = c.reply /\ d.told = told
          /\ d.tier = c.tier /\ d.failed = c.failed
      <3> HIDE DEF told
      <3> QED
        BY <1>1, Zenon DEF CallType
    <2>4. Answered(c, d)
      <3> HIDE DEF d
      <3> QED
        BY <2>2, <2>3, Zenon DEF Answered
    <2> QED
      BY <2>1, <2>4, Zenon DEF Tells, Told
  <1>3. ASSUME NEW reply, Degrade(t, reply),
               c.pc \in {"load", "loaded", "eval", "reply"}
        PROVE  Tells(t)
    <2> DEFINE told == c.told \o FallbackEvents(Fallback)
               d == [c EXCEPT !.pc = "returned", !.reply = reply,
                              !.failed = TRUE, !.result = Fallback,
                              !.told = told]
    <2>1. call' = [call EXCEPT ![t] = d]
      BY <1>1, <1>3, Zenon DEF Degrade, CallType
    <2>2. /\ d.pc = "returned" /\ d.result = Fallback /\ d.told = told
          /\ d.tier = c.tier /\ d.failed = TRUE
      <3> HIDE DEF told
      <3> QED
        BY <1>1, Zenon DEF CallType
    <2>3. Fallback \in {"allow", "deny"}
      BY DEF Fallback
    <2>4. told = Append(Append(Append(c.told, <<"redis", "error">>),
                               <<"callback", "error">>),
                        <<"redis", Verdict(Fallback)>>)
      BY <1>1, FallbackAppends, Zenon
    <2>5. Degraded(c, d)
      <3> HIDE DEF d
      <3> QED
        BY <1>3, <2>2, <2>3, <2>4, ZenonT(60) DEF Degraded
    <2> QED
      BY <2>1, <2>5, Zenon DEF Tells, Told
  <1>4. CASE GiveUp(t) \/ Lose(t) \/ Unreadable(t)
    BY <1>3, <1>4, SMTT(60) DEF GiveUp, Lose, Unreadable, At
  <1>5. CASE RemoteReturns(t)
    <2> DEFINE told == Append(c.told, <<"remote", Verdict(c.result)>>)
               d == [c EXCEPT !.pc = "done", !.told = told]
    <2>1. call' = [call EXCEPT ![t] = d]
      BY <1>1, <1>5, Zenon DEF RemoteReturns, emit, CallType
    <2>2. c.pc = "returned"
      BY <1>5, Zenon DEF RemoteReturns, At
    <2>3. /\ d.pc = "done" /\ d.result = c.result /\ d.told = told
          /\ d.tier = c.tier /\ d.failed = c.failed
      <3> HIDE DEF told
      <3> QED
        BY <1>1, Zenon DEF CallType
    <2>4. Passed(c, d)
      <3> HIDE DEF d
      <3> QED
        BY <2>2, <2>3, Zenon DEF Passed
    <2> QED
      BY <2>1, <2>4, Zenon DEF Tells, Told
  <1> QED
    BY <1>2, <1>4, <1>5, Zenon

\* The answer of the local tier, or the error for a blank key.
LEMMA EnterTells ==
  ASSUME Inv, NEW t \in Threads, Arrive(t)
  PROVE  Tells(t)
  <1> DEFINE c == call[t]
  <1>1. call \in [Threads -> CallType] /\ c \in CallType /\ CallInv(t)
    BY Zenon DEF Inv, TypeOK
  <1>2. c.pc = "idle"
    BY SMTT(60)
       DEF Arrive, InvalidKey, BeginAllow, LocalAllows, LocalFails,
           LocalDenies, At
  <1>3. ~c.failed
    BY <1>1, <1>2 DEF CallInv
  <1>4. ASSUME NEW key, NEW place, NEW tier, NEW result, NEW told,
               Enter(t, key, place, tier, result, told),
               \/ /\ place = "run" /\ tier = "remote"
                  /\ told \in {<<>>, Append(<<>>, <<"local", "error">>)}
               \/ /\ place = "done" /\ tier = "local" /\ result = "deny"
                  /\ told = Append(<<>>, <<"local", "rejected">>)
               \/ place = "done" /\ result = "error"
        PROVE  Tells(t)
    <2> DEFINE d == [c EXCEPT !.pc = place, !.key = key, !.tier = tier,
                              !.result = result, !.told = told]
    <2>1. call' = [call EXCEPT ![t] = d]
      BY <1>1, <1>4, Zenon DEF Enter, CallType
    <2>2. /\ d.pc = place /\ d.tier = tier /\ d.result = result
          /\ d.told = told /\ d.failed = c.failed
      BY <1>1, Zenon DEF CallType
    <2>3. Entered(c, d)
      <3> HIDE DEF d
      <3> QED
        BY <1>3, <1>4, <2>2, Zenon DEF Entered
    <2> QED
      BY <2>1, <2>3, Zenon DEF Tells, Told
  <1>5. /\ <<emitError("local")>> = Append(<<>>, <<"local", "error">>)
        /\ <<emit("local", "deny")>> = Append(<<>>, <<"local", "rejected">>)
    BY DEF emitError, emit, Verdict
  <1>6. CASE InvalidKey(t)
    BY <1>4, <1>6, Zenon DEF InvalidKey
  <1>7. CASE LocalAllows(t, KeyOf(t))
    BY <1>4, <1>7, Zenon DEF LocalAllows
  <1>8. CASE LocalFails(t, KeyOf(t))
    <2>1. Enter(t, KeyOf(t), "run", "remote", "none",
                Append(<<>>, <<"local", "error">>))
      BY <1>5, <1>8, Zenon DEF LocalFails
    <2> QED
      BY <1>4, <2>1, Zenon
  <1>9. CASE LocalDenies(t, KeyOf(t))
    <2>1. Enter(t, KeyOf(t), "done", "local", "deny",
                Append(<<>>, <<"local", "rejected">>))
      BY <1>5, <1>9, Zenon DEF LocalDenies
    <2> QED
      BY <1>4, <2>1, Zenon
  <1> QED
    BY <1>6, <1>7, <1>8, <1>9, Zenon DEF Arrive, BeginAllow

LEMMA ReplyTells ==
  ASSUME NEW t \in Threads, Reply(t)
  PROVE  Tells(t)
  <1>1. call' = [call EXCEPT ![t] = Idle]
    BY Zenon DEF Reply, HTTPMiddleware, GinMiddleware, EchoMiddleware,
       FiberMiddleware, Respond, ReturnAllow
  <1>2. Idle.pc = "idle"
    BY DEF Idle
  <1> QED
    BY <1>1, <1>2, Zenon DEF Tells, Told

\* Every step keeps what has been told of every call.
LEMMA ToldStep ==
  ASSUME Inv, Inv', [Next]_vars, \A t \in Threads : ToldInv(call[t])
  PROVE  \A t \in Threads : ToldInv(call'[t])
  <1>1. call \in [Threads -> CallType] /\ call' \in [Threads -> CallType]
    BY Zenon DEF Inv, TypeOK
  <1> SUFFICES ASSUME NEW t \in Threads PROVE Told(call[t], call'[t])
    BY <1>1, ToldKept, Zenon
  <1>2. ASSUME NEW u \in Threads, Tells(u) PROVE Told(call[t], call'[t])
    <2>1. PICK d : call' = [call EXCEPT ![u] = d] /\ Told(call[u], d)
      BY <1>2, Zenon DEF Tells
    <2>2. CASE t = u
      BY <1>1, <2>1, <2>2, Zenon
    <2>3. CASE t # u
      <3>1. call'[t] = call[t]
        BY <1>1, <2>1, <2>3, Zenon
      <3> QED
        BY <3>1, Zenon DEF Told, Unmoved
    <2> QED
      BY <2>2, <2>3, Zenon
  <1>3. ASSUME NEW u \in Threads, Allow(u) PROVE Told(call[t], call'[t])
    BY <1>2, <1>3, SilentSteps, ReportSteps, Zenon DEF Allow, Remote, RunStep
  <1>4. CASE Flush
    <2>1. call'[t] = [call[t] EXCEPT !.stale = TRUE] /\ call[t] \in CallType
      BY <1>1, <1>4, Zenon DEF Flush
    <2>2. Unmoved(call[t], [call[t] EXCEPT !.stale = TRUE])
      BY <2>1, Zenon DEF Unmoved, CallType
    <2> QED
      BY <2>1, <2>2, Zenon DEF Told
  <1>5. CASE UNCHANGED vars
    BY <1>5, Zenon DEF vars, layeredVars, redisVars, Told, Unmoved
  <1> QED
    BY <1>2, <1>3, <1>4, <1>5, EnterTells, ReplyTells, Zenon DEF Next

\* Of a call that returns, the layered sink has heard one verdict, that of the
\* tier whose result is returned; the Redis limiter's sink and onError have
\* heard what that limiter did (limiter.go of redis and of layered), whatever
\* was lost, resent or reloaded on the way.
THEOREM VerdictsHeard == Spec => []Reported
  <1> DEFINE J == \A t \in Threads : ToldInv(call[t])
  <1>1. Init => J
    BY SMTT(60) DEF Init, LayeredInit, RedisInit, Idle, ToldInv
  <1>2. Inv /\ Inv' /\ [Next]_vars /\ J => J'
    BY ToldStep
  <1>3. Inv /\ J => Reported
    <2> SUFFICES ASSUME Inv, J PROVE Reported
      OBVIOUS
    <2>1. ASSUME NEW t \in Threads, call[t].pc = "done",
                 call[t].result # "error"
          PROVE  LET c == call[t]
                     asked == IF c.tier = "remote" THEN 1 ELSE 0
                     degraded == IF c.failed THEN 1 ELSE 0
                 IN  /\ \A e \in Verdicts, tier \in {"local", "remote"} :
                          Heard(t, tier, e) =
                            IF tier = c.tier /\ e = Verdict(c.result)
                            THEN 1 ELSE 0
                     /\ \A e \in Verdicts :
                          Heard(t, "redis", e) =
                            IF e = Verdict(c.result) THEN asked ELSE 0
                     /\ Heard(t, "redis", "error") = degraded
                     /\ Heard(t, "callback", "error") = degraded
      <3> DEFINE c == call[t]
      <3>1. Done(c) /\ c.result # "error"
        BY <2>1, Zenon DEF ToldInv
      <3>2. /\ \A e \in Verdicts : /\ <<"local", e>> \in Outcomes
                                   /\ <<"remote", e>> \in Outcomes
                                   /\ <<"redis", e>> \in Outcomes
            /\ <<"redis", "error">> \in Outcomes
            /\ <<"callback", "error">> \in Outcomes
        BY DEF Outcomes, EventType, Verdicts
      <3>3. Verdict(c.result) \in Verdicts /\ "error" \notin Verdicts
        BY VerdictTyped, SMTT(60) DEF Verdicts
      <3> HIDE DEF c
      <3>4. CASE /\ c.tier = "local" /\ c.result = "deny" /\ ~c.failed
                 /\ \A e \in Outcomes : Times(c.told, e)
                      = IF e = <<"local", "rejected">> THEN 1 ELSE 0
        <4>1. Verdict(c.result) = "rejected"
          BY <3>4 DEF Verdict
        <4>2. \A e \in Verdicts :
                /\ Times(c.told, <<"local", e>>)
                     = IF e = "rejected" THEN 1 ELSE 0
                /\ Times(c.told, <<"remote", e>>) = 0
                /\ Times(c.told, <<"redis", e>>) = 0
          BY <3>2, <3>4, Zenon
        <4>3. /\ Times(c.told, <<"redis", "error">>) = 0
              /\ Times(c.told, <<"callback", "error">>) = 0
          BY <3>2, <3>4
        <4> QED
          BY <3>3, <3>4, <4>1, <4>2, <4>3, ZenonT(60) DEF Heard, c
      <3>5. CASE /\ c.tier = "remote" /\ c.result \in {"allow", "deny"}
                 /\ \A e \in Outcomes : Times(c.told, e)
                      = IF e = <<"remote", Verdict(c.result)>> THEN 1
                        ELSE RedisTold(c, e)
        <4>1. \A e \in Verdicts :
                /\ Times(c.told, <<"local", e>>) = 0
                /\ Times(c.told, <<"remote", e>>)
                     = IF e = Verdict(c.result) THEN 1 ELSE 0
                /\ Times(c.told, <<"redis", e>>)
                     = IF e = Verdict(c.result) THEN 1 ELSE 0
          BY <3>2, <3>3, <3>5, Zenon DEF RedisTold
        <4>2. /\ Times(c.told, <<"redis", "error">>)
                   = IF c.failed THEN 1 ELSE 0
              /\ Times(c.told, <<"callback", "error">>)
                   = IF c.failed THEN 1 ELSE 0
          BY <3>2, <3>3, <3>5 DEF RedisTold
        <4> QED
          BY <3>3, <3>5, <4>1, <4>2, Zenon DEF Heard, c
      <3> QED
        BY <3>1, <3>4, <3>5, Zenon DEF Done
    <2> QED
      BY <2>1, Zenon DEF Reported, At
  <1> QED
    BY <1>1, <1>2, <1>3, Invariant, PTL DEF Spec
=============================================================================
