----------------------------- MODULE MCLookups -----------------------------
(***************************************************************************)
(* Instances of the programs that look things up, for TLC.  The programs   *)
(* have nothing in common; a behaviour is one of one of them.              *)
(***************************************************************************)
EXTENDS Naturals

CONSTANTS
  ProfileIds, CachedIds, RowIds,  \* see ProfileFacade
  Nothing,                        \* std::nullopt, and no entry
  MaxBatch, MaxAsked, MaxUsers

(* The value for nothing is no object, no name and no answer.              *)
ASSUME LookupsAssumption ==
  /\ Nothing \notin ProfileIds \cup CachedIds \cup RowIds
  /\ Nothing \notin Nat /\ Nothing \notin BOOLEAN
  /\ Nothing \notin {"Ada", "Grace", "test-db-user-5", "cached-test-user"}
  /\ MaxBatch \in Nat /\ MaxAsked \in Nat /\ MaxUsers \in Nat

VARIABLES
  program,
  cache, metrics, answer,
  stored, lookup,
  flag_cache, check,
  roles, objects, users

facade     == <<cache, metrics, answer>>
repository == <<stored, lookup>>
proxy      == <<flag_cache, check>>
flyweight  == <<roles, objects, users>>

Facade == INSTANCE ProfileFacade WITH
  UserIds <- ProfileIds, Cached <- CachedIds, Rows <- RowIds, NoProfile <- Nothing

Repository == INSTANCE UserRepository WITH UserIds <- {1, 5, 7, 42}, NoName <- Nothing

Proxy == INSTANCE FlagProxy WITH
  Flags <- {"new-checkout", "beta-search", "dark-mode"}, Unknown <- Nothing

Factory == INSTANCE RoleFactory WITH
  RoleNames <- {"admin", "editor", "viewer", "guest"}, NoRole <- Nothing

Init ==
  /\ program \in {"facade", "abstract_factory", "proxy", "flyweight"}
  /\ Facade!Init /\ Repository!Init /\ Proxy!Init /\ Factory!Init

Next ==
  \/ program = "facade" /\ Facade!Next
     /\ UNCHANGED <<program, repository, proxy, flyweight>>
  \/ program = "abstract_factory" /\ Repository!Next
     /\ UNCHANGED <<program, facade, proxy, flyweight>>
  \/ program = "proxy" /\ Proxy!Next
     /\ UNCHANGED <<program, facade, repository, flyweight>>
  \/ program = "flyweight" /\ Factory!Next
     /\ UNCHANGED <<program, facade, repository, proxy>>

Spec == Init /\ [][Next]_<<program, facade, repository, proxy, flyweight>>

-----------------------------------------------------------------------------
(* The caches, the counters and the shared objects keep their types.       *)
TypeOK == Facade!TypeOK /\ Repository!TypeOK /\ Proxy!TypeOK /\ Factory!TypeOK

(* fetch_profiles: the results are aligned with the ids of the batch.      *)
AnswersAligned == Facade!AnswersAligned

(* fetch_profiles: a batch counts each of its ids once, by its source.     *)
EachIdCountedOnce == Facade!EachIdCountedOnce

(* get_user_name answers as the database of its family would, or with the  *)
(* entry its cache was made with, and is_enabled as the remote service     *)
(* would; neither asks again about what it has kept.                       *)
ReadThroughCaches == Repository!ReadsThrough /\ Proxy!ReadsThrough

(* get_role: users share a role object exactly when they asked for the     *)
(* same name.                                                              *)
RolesShared == Factory!RolesShared
=============================================================================
