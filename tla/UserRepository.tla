--------------------------- MODULE UserRepository ---------------------------
(***************************************************************************)
(* UserRepository of examples/abstract_factory/main.cpp, one made by each  *)
(* BackendFactory.                                                         *)
(***************************************************************************)
EXTENDS Integers

CONSTANTS
  UserIds,  \* the ids callers ask for
  NoName    \* std::nullopt

VARIABLES
  stored,  \* data_ of the CacheClient of each repository
  lookup   \* the last lookup, its answer and where the answer came from

vars == <<stored, lookup>>

Families == {"production", "test"}

(* load_user of the clients that create_database makes.                    *)
LoadUser(family, user_id) ==
  CASE family = "production" /\ user_id = 42 -> "Ada"
    [] family = "test" /\ user_id = 5        -> "test-db-user-5"
    [] OTHER                                 -> NoName

(* The initial data_ of the clients that create_cache makes; the users a   *)
(* cache does not hold are mapped to NoName.                               *)
CreateCache(family) ==
  [user_id \in UserIds |->
     CASE family = "production" /\ user_id = 7 -> "Grace"
       [] family = "test" /\ user_id = 1       -> "cached-test-user"
       [] OTHER                                -> NoName]

Init ==
  /\ stored = [family \in Families |-> CreateCache(family)]
  /\ lookup = <<>>

(* get_user_name: a hit in the cache, or a load that is put into the cache *)
(* when it found the user.                                                 *)
GetUserName(family, user_id) ==
  LET cached == stored[family][user_id]
      loaded == LoadUser(family, user_id)
  IN  IF cached # NoName
      THEN /\ lookup' = <<<<family, user_id>>, cached, "kept">>
           /\ UNCHANGED stored
      ELSE /\ lookup' = <<<<family, user_id>>, loaded, "asked">>
           /\ stored' = [stored EXCEPT ![family][user_id] = loaded]

Next == \E family \in Families, user_id \in UserIds : GetUserName(family, user_id)

Spec == Init /\ [][Next]_vars

-----------------------------------------------------------------------------
Names == {"Ada", "Grace", "test-db-user-5", "cached-test-user", NoName}

(* The caches hold names.                                                  *)
TypeOK == stored \in [Families -> [UserIds -> Names]]

(* The entries the caches are made with; load_user knows none of them.     *)
Seeded ==
  [key \in {<<"production", 7>>, <<"test", 1>>} |->
     IF key = <<"production", 7>> THEN "Grace" ELSE "cached-test-user"]

(* A repository answers from the database of its family, or from the entry *)
(* its cache was made with, and does not ask the database again about a    *)
(* user it has found.                                                      *)
Repositories == INSTANCE ReadThrough WITH
  Keys      <- Families \X UserIds,
  Source    <- [key \in Families \X UserIds |-> LoadUser(key[1], key[2])],
  Worthless <- {NoName},
  Seeded    <- Seeded,
  kept      <- {key \in Families \X UserIds : stored[key[1]][key[2]] # NoName},
  reply     <- lookup

ReadsThrough == Repositories!Spec
=============================================================================
