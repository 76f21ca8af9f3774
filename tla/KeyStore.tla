------------------------------ MODULE KeyStore ------------------------------
(***************************************************************************)
(* What the limiters may rely on when they call stateStore.withState       *)
(* (src/memory/state_store.go): an atomic, bounded set of keys.  A call is *)
(* served while its key is stored, or refused; a key is stored only for a  *)
(* call that asks for it, and only while there is room.                    *)
(***************************************************************************)
EXTENDS Naturals, FiniteSets

CONSTANTS
  Threads, Keys,
  MaxKeys,     \* 0 is unlimited
  MayRefuse,   \* the policy refuses new keys when full
  MayForget    \* keys may expire or be evicted

VARIABLES
  stored,      \* keys that have state
  status,      \* status of each caller: "idle", "busy", "ok" or "err"
  arg          \* the key it asks for

storeVars == <<stored, status, arg>>

HasRoom == MaxKeys = 0 \/ Cardinality(stored) < MaxKeys

Begin(t, k) ==
  /\ status[t] = "idle"
  /\ status' = [status EXCEPT ![t] = "busy"]
  /\ arg' = [arg EXCEPT ![t] = k]
  /\ UNCHANGED stored

Create(t) ==
  /\ status[t] = "busy"
  /\ arg[t] \notin stored
  /\ HasRoom
  /\ stored' = stored \cup {arg[t]}
  /\ UNCHANGED <<status, arg>>

Serve(t) ==
  /\ status[t] = "busy"
  /\ arg[t] \in stored
  /\ status' = [status EXCEPT ![t] = "ok"]
  /\ UNCHANGED <<stored, arg>>

Refuse(t) ==
  /\ status[t] = "busy"
  /\ MayRefuse
  /\ status' = [status EXCEPT ![t] = "err"]
  /\ UNCHANGED <<stored, arg>>

End(t) ==
  /\ status[t] \in {"ok", "err"}
  /\ status' = [status EXCEPT ![t] = "idle"]
  /\ \E k \in Keys : arg' = [arg EXCEPT ![t] = k]
  /\ UNCHANGED stored

Forget(k) ==
  /\ MayForget
  /\ stored' = stored \ {k}
  /\ UNCHANGED <<status, arg>>

StoreInit ==
  /\ stored = {}
  /\ status = [t \in Threads |-> "idle"]
  /\ arg \in [Threads -> Keys]

StoreNext ==
  \/ \E t \in Threads :
       \/ \E k \in Keys : Begin(t, k)
       \/ Create(t) \/ Serve(t) \/ Refuse(t) \/ End(t)
  \/ \E k \in Keys : Forget(k)

StoreSpec == StoreInit /\ [][StoreNext]_storeVars
=============================================================================
