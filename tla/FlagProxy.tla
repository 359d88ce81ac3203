----------------------------- MODULE FlagProxy -----------------------------
(***************************************************************************)
(* CachingFeatureFlagProxy of examples/proxy/main.cpp in front of          *)
(* RemoteFeatureFlagService, whose flags do not change.                    *)
(***************************************************************************)
CONSTANTS
  Flags,   \* the names callers ask for
  Unknown  \* what the cache says of a flag it does not hold

VARIABLES
  flag_cache,  \* cache_
  check        \* the last check, its answer and where the answer came from

vars == <<flag_cache, check>>

(* RemoteFeatureFlagService::is_enabled                                    *)
Remote(flag_name) == flag_name = "new-checkout"

(* A variant with a plausible slip, which takes no part in the             *)
(* specification; it serves to show that a property notices the slip.      *)
KeepEnabledOnly(flag_name) ==
  /\ check' = <<flag_name, Remote(flag_name), "asked">>
  /\ flag_cache' = [flag_cache EXCEPT ![flag_name] = IF Remote(flag_name) THEN TRUE ELSE @]

Init ==
  /\ flag_cache = [flag_name \in Flags |-> Unknown]
  /\ check = <<>>

(* is_enabled: an enabled and a disabled flag are cached alike.            *)
CacheHit(flag_name) ==
  /\ flag_cache[flag_name] # Unknown
  /\ check' = <<flag_name, flag_cache[flag_name], "kept">>
  /\ UNCHANGED flag_cache

AskRemote(flag_name) ==
  /\ check' = <<flag_name, Remote(flag_name), "asked">>
  /\ flag_cache' = [flag_cache EXCEPT ![flag_name] = Remote(flag_name)]

IsEnabled(flag_name) ==
  CacheHit(flag_name) \/ (flag_cache[flag_name] = Unknown /\ AskRemote(flag_name))

Next == \E flag_name \in Flags : IsEnabled(flag_name)

Spec == Init /\ [][Next]_vars

-----------------------------------------------------------------------------
(* The cache holds Booleans.                                               *)
TypeOK == flag_cache \in [Flags -> BOOLEAN \cup {Unknown}]

(* The proxy answers as the service behind it would, and asks it about     *)
(* each flag once.                                                         *)
Proxies == INSTANCE ReadThrough WITH
  Keys      <- Flags,
  Source    <- [flag_name \in Flags |-> Remote(flag_name)],
  Worthless <- {},
  Seeded    <- <<>>,
  kept      <- {flag_name \in Flags : flag_cache[flag_name] # Unknown},
  reply     <- check

ReadsThrough == Proxies!Spec
=============================================================================
