---------------------------- MODULE CacheService ----------------------------
(***************************************************************************)
(* CacheService and InMemoryCache of examples/nvi/main.cpp.  The members   *)
(* that InMemoryCache overrides are public there, so callers reach them    *)
(* with and without the checks of the public interface of CacheService.    *)
(* A key or a value is known by its length.                                *)
(***************************************************************************)
EXTENDS Integers, FiniteSets

CONSTANTS
  KeyLengths,
  ValueLengths,
  NotStored,   \* no entry in cache_
  MaxCalls     \* bound: the number of get calls

VARIABLES
  cache,   \* cache_: the length of the value of each key
  hits,    \* hits_
  misses,  \* misses_
  metrics  \* the calls counted for each operation

vars == <<cache, hits, misses, metrics>>

Init ==
  /\ cache = [key \in KeyLengths |-> NotStored]
  /\ hits = 0 /\ misses = 0
  /\ metrics = [get |-> 0, put |-> 0, remove |-> 0]

ValidKey(key)     == key \in 1..256
ValidValue(value) == value \in 0..1024 * 1024

IncrementMetrics(operation) == metrics' = [metrics EXCEPT ![operation] = @ + 1]

-----------------------------------------------------------------------------
(* InMemoryCache::get_impl, put_impl and remove_impl                       *)
GetImpl(key) ==
  /\ IF cache[key] # NotStored
     THEN hits' = hits + 1 /\ UNCHANGED misses
     ELSE misses' = misses + 1 /\ UNCHANGED hits
  /\ UNCHANGED cache

PutImpl(key, value) ==
  /\ cache' = [cache EXCEPT ![key] = value]
  /\ UNCHANGED <<hits, misses>>

RemoveImpl(key) ==
  /\ cache' = [cache EXCEPT ![key] = NotStored]
  /\ UNCHANGED <<hits, misses>>

(* CacheService::get, put and remove; a call that fails a check throws     *)
(* before it changes anything.                                             *)
Get(key) == ValidKey(key) /\ IncrementMetrics("get") /\ GetImpl(key)

Put(key, value) ==
  ValidKey(key) /\ ValidValue(value) /\ IncrementMetrics("put") /\ PutImpl(key, value)

Remove(key) == ValidKey(key) /\ IncrementMetrics("remove") /\ RemoveImpl(key)

Next ==
  /\ hits + misses + metrics.get + metrics.put + metrics.remove < MaxCalls
  /\ \E key \in KeyLengths :
       \/ Get(key) \/ Remove(key)
       \/ \E value \in ValueLengths : Put(key, value)
       \/ /\ UNCHANGED metrics
          /\ \/ GetImpl(key) \/ RemoveImpl(key)
             \/ \E value \in ValueLengths : PutImpl(key, value)

Spec == Init /\ [][Next]_vars

-----------------------------------------------------------------------------
(* Validation always runs, regardless of override: the cache only ever     *)
(* holds keys and values that validate_key and validate_value accept.      *)
OnlyValidStored ==
  \A key \in KeyLengths :
    cache[key] # NotStored => ValidKey(key) /\ ValidValue(cache[key])
=============================================================================
