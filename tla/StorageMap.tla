----------------------------- MODULE StorageMap -----------------------------
(***************************************************************************)
(* What the per-contract storage promises the OS                           *)
(* (trait PerContractStorage, crates/starknet-os/src/starknet/             *)
(* starknet_storage.rs): every contract is a total map from keys to        *)
(* values.  A read answers the current value; a write replaces it and      *)
(* answers the value it replaced.  Caches, prefetched leaves and remote    *)
(* reads are not visible.  `answer` is the last request with its answer.   *)
(***************************************************************************)
CONSTANTS Contract, Key, Value, None

VARIABLES store, answer

Init == /\ store \in [Contract -> [Key -> Value]]
        /\ answer = None

Read(a, k) ==
    /\ answer' = [hint |-> "read", contract |-> a, key |-> k,
                  value |-> store[a][k], new |-> store[a][k]]
    /\ UNCHANGED store

Write(a, k, v) ==
    /\ answer' = [hint |-> "write", contract |-> a, key |-> k,
                  value |-> store[a][k], new |-> v]
    /\ store' = [store EXCEPT ![a][k] = v]

\* A write whose previous value nobody asks for.
Overwrite(a, k, v) == /\ store' = [store EXCEPT ![a][k] = v]
                      /\ UNCHANGED answer

Next == \E a \in Contract, k \in Key :
           \/ Read(a, k)
           \/ \E v \in Value : Write(a, k, v) \/ Overwrite(a, k, v)

Spec == Init /\ [][Next]_<<store, answer>>
=============================================================================
