--------------------------- MODULE LookupsProofs ---------------------------
(***************************************************************************)
(* Theorems about the programs that look things up, for every set of users *)
(* the facade is asked for, has cached or finds in its database, every     *)
(* length of a batch and any number of users of a role; the flags, the     *)
(* roles and the users of the abstract factory's clients are the code's.   *)
(***************************************************************************)
EXTENDS MCLookups, Integers, Sequences, SequenceTheorems,
        FiniteSetTheorems, TLAPS

(* A step of Spec is a step of each program or leaves its variables alone. *)
LEMMA ProgramStep ==
  ASSUME [Next]_<<program, facade, repository, proxy, flyweight>>
  PROVE  /\ [Facade!Next]_(Facade!vars)
         /\ [Repository!Next]_(Repository!vars)
         /\ [Proxy!Next]_(Proxy!vars)
         /\ [Factory!Next]_(Factory!vars)
BY DEF Next, facade, repository, proxy, flyweight,
       Facade!vars, Repository!vars, Proxy!vars, Factory!vars

-----------------------------------------------------------------------------
(***************************************************************************)
(* RoleFactory                                                             *)
(***************************************************************************)

RoleNames == {"admin", "editor", "viewer", "guest"}

(* The types of RoleFactory.                                               *)
RoleTypes ==
  /\ roles \in [RoleNames -> Nat \cup {Nothing}]
  /\ objects \in Seq({Factory!Permissions(role_name) : role_name \in RoleNames})
  /\ users \in Seq([asked : RoleNames, role : Nat])

(* The factory knows the object of every name that was asked for, an       *)
(* object is known under one name only, and every object has a user.       *)
RoleInv ==
  /\ \A role_name \in RoleNames :
       roles[role_name] # Nothing =>
         /\ roles[role_name] \in 1..Len(objects)
         /\ objects[roles[role_name]] = Factory!Permissions(role_name)
         /\ \A other \in RoleNames : roles[other] = roles[role_name] => other = role_name
  /\ \A i \in 1..Len(users) :
       roles[users[i].asked] # Nothing /\ users[i].role = roles[users[i].asked]
  /\ \A k \in 1..Len(objects) : \E i \in 1..Len(users) : users[i].role = k

(* A new user context refers to the role of its name.                      *)
LEMMA AddsUser ==
  ASSUME RoleTypes, NEW role_name \in RoleNames, NEW role \in Nat,
         Factory!AddUser(role_name, role)
  PROVE  /\ users' \in Seq([asked : RoleNames, role : Nat])
         /\ Len(users') = Len(users) + 1 /\ Len(users) \in Nat
         /\ users'[Len(users) + 1].asked = role_name
         /\ users'[Len(users) + 1].role = role
         /\ \A i \in 1..Len(users) : users'[i] = users[i] /\ users[i].asked \in RoleNames
<1> DEFINE User == [asked : RoleNames, role : Nat]
<1>1. PICK user \in User : user.asked = role_name /\ user.role = role
                          /\ user = [asked |-> role_name, role |-> role]
  OBVIOUS
<1>2. users \in Seq(User) /\ users' = Append(users, user)
  BY <1>1 DEF RoleTypes, Factory!AddUser
<1>3. \A u \in User : u.asked \in RoleNames
  OBVIOUS
<1> HIDE DEF User
<1>4. /\ users' \in Seq(User) /\ Len(users') = Len(users) + 1 /\ Len(users) \in Nat
      /\ users'[Len(users) + 1] = user
      /\ \A i \in 1..Len(users) : users'[i] = users[i] /\ users[i] \in User
  BY <1>2
<1> QED
  BY <1>1, <1>3, <1>4 DEF User

(* get_role preserves both.                                                *)
LEMMA RoleStep ==
  ASSUME RoleTypes, RoleInv, [Factory!Next]_(Factory!vars)
  PROVE  RoleTypes' /\ RoleInv'
<1>t. /\ roles \in [RoleNames -> Nat \cup {Nothing}] /\ Len(objects) \in Nat
      /\ Nothing \notin Nat
  BY LookupsAssumption DEF RoleTypes
<1>1. ASSUME NEW role_name \in RoleNames, Factory!ReuseRole(role_name)
      PROVE  RoleTypes' /\ RoleInv'
  <2>1. /\ roles[role_name] # Nothing /\ roles[role_name] \in Nat
        /\ Factory!AddUser(role_name, roles[role_name]) /\ UNCHANGED <<roles, objects>>
    BY <1>1, <1>t DEF Factory!ReuseRole
  <2>2. /\ users' \in Seq([asked : RoleNames, role : Nat])
        /\ Len(users') = Len(users) + 1 /\ Len(users) \in Nat
        /\ users'[Len(users) + 1].asked = role_name
        /\ users'[Len(users) + 1].role = roles[role_name]
        /\ \A i \in 1..Len(users) : users'[i] = users[i]
    BY <2>1, AddsUser
  <2>3. \A i \in 1..Len(users') : i \in 1..Len(users) \/ i = Len(users) + 1
    BY <2>2
  <2>4. ASSUME NEW i \in 1..Len(users')
        PROVE  roles[users'[i].asked] # Nothing /\ users'[i].role = roles[users'[i].asked]
    <3>1. CASE i \in 1..Len(users)
      <4>1. users'[i] = users[i]
        BY <3>1, <2>2
      <4> QED
        BY <4>1, <3>1 DEF RoleInv
    <3>2. CASE i = Len(users) + 1
      BY <3>2, <2>1, <2>2
    <3> QED
      BY <3>1, <3>2, <2>3
  <2>8. \A i \in 1..Len(users) : i \in 1..Len(users') /\ users'[i].role = users[i].role
    BY <2>2
  <2>5. \A k \in 1..Len(objects) : \E i \in 1..Len(users') : users'[i].role = k
    BY <2>8, Zenon DEF RoleInv
  <2>6. RoleTypes'
    BY <2>1, <2>2 DEF RoleTypes
  <2>7. RoleInv'
    BY <2>1, <2>4, <2>5 DEF RoleInv
  <2> QED
    BY <2>6, <2>7
<1>2. ASSUME NEW role_name \in RoleNames, Factory!CreateRole(role_name)
      PROVE  RoleTypes' /\ RoleInv'
  <2> DEFINE new == Len(objects) + 1
  <2>1. /\ roles[role_name] = Nothing
        /\ objects' \in Seq({Factory!Permissions(name) : name \in RoleNames})
        /\ Len(objects') = new /\ objects'[new] = Factory!Permissions(role_name)
        /\ \A k \in 1..Len(objects) : objects'[k] = objects[k]
        /\ roles' = [roles EXCEPT ![role_name] = new]
        /\ Factory!AddUser(role_name, new) /\ new \in Nat
    BY <1>2, <1>t DEF Factory!CreateRole, RoleTypes
  <2>2. /\ users' \in Seq([asked : RoleNames, role : Nat])
        /\ Len(users') = Len(users) + 1 /\ Len(users) \in Nat
        /\ users'[Len(users) + 1].asked = role_name
        /\ users'[Len(users) + 1].role = new
        /\ \A i \in 1..Len(users) : users'[i] = users[i] /\ users[i].asked \in RoleNames
    BY <2>1, AddsUser
  <2>3. /\ roles'[role_name] = new
        /\ \A name \in RoleNames \ {role_name} : roles'[name] = roles[name]
        /\ roles' \in [RoleNames -> Nat \cup {Nothing}]
    BY <2>1, <1>t
  <2>4. /\ \A i \in 1..Len(users') : i \in 1..Len(users) \/ i = Len(users) + 1
        /\ \A i \in 1..Len(users) : i \in 1..Len(users')
        /\ Len(users) + 1 \in 1..Len(users')
        /\ \A k \in 1..new : k \in 1..Len(objects) \/ k = new
        /\ \A k \in 1..Len(objects) : k \in 1..new /\ k # new
        /\ new \in 1..new /\ new # Nothing
    BY <2>1, <2>2, <1>t
  <2> HIDE DEF new
  <2>5. ASSUME NEW name \in RoleNames, roles'[name] # Nothing
        PROVE  /\ roles'[name] \in 1..new
               /\ objects'[roles'[name]] = Factory!Permissions(name)
               /\ \A other \in RoleNames : roles'[other] = roles'[name] => other = name
    BY <2>5, <2>1, <2>3, <2>4 DEF RoleInv
  <2>6. \A i \in 1..Len(users') :
          roles'[users'[i].asked] # Nothing /\ users'[i].role = roles'[users'[i].asked]
    BY <2>1, <2>2, <2>3, <2>4 DEF RoleInv
  <2>7. \A k \in 1..new : \E i \in 1..Len(users') : users'[i].role = k
    BY <2>2, <2>4 DEF RoleInv
  <2>8. RoleTypes'
    BY <2>1, <2>2, <2>3 DEF RoleTypes
  <2>9. RoleInv'
    BY <2>1, <2>5, <2>6, <2>7 DEF RoleInv
  <2> QED
    BY <2>8, <2>9
<1>3. CASE UNCHANGED Factory!vars
  BY <1>3 DEF Factory!vars, RoleTypes, RoleInv
<1> QED
  BY <1>1, <1>2, <1>3 DEF Factory!Next, RoleNames

(* Both hold of every behaviour.                                           *)
LEMMA RoleInvariant == Spec => [](RoleTypes /\ RoleInv)
<1>1. Init => RoleTypes /\ RoleInv
  BY DEF Init, Factory!Init, RoleTypes, RoleInv, RoleNames
<1>2. RoleTypes /\ RoleInv /\ [Next]_<<program, facade, repository, proxy, flyweight>>
        => RoleTypes' /\ RoleInv'
  BY ProgramStep, RoleStep
<1> QED
  BY <1>1, <1>2, PTL DEF Spec

(* Every user asked for the name of a role.                                *)
LEMMA UsersAsked ==
  ASSUME RoleTypes
  PROVE  /\ DOMAIN users = 1..Len(users) /\ DOMAIN objects = 1..Len(objects)
         /\ \A i \in 1..Len(users) : users[i].asked \in RoleNames
<1> DEFINE User == [asked : RoleNames, role : Nat]
<1>1. \A u \in User : u.asked \in RoleNames
  OBVIOUS
<1>2. users \in Seq(User)
  BY DEF RoleTypes
<1> HIDE DEF User
<1>3. DOMAIN users = 1..Len(users) /\ \A i \in 1..Len(users) : users[i] \in User
  BY <1>2
<1>4. DOMAIN objects = 1..Len(objects)
  BY DEF RoleTypes
<1> QED
  BY <1>1, <1>3, <1>4

(* get_role: users share a role object exactly when they asked for the     *)
(* same name, and it has the permissions of that name.                     *)
THEOREM SharesRoles == Spec => []RolesShared
<1>1. RoleTypes /\ RoleInv => RolesShared
  <2> SUFFICES ASSUME RoleTypes, RoleInv PROVE RolesShared
    OBVIOUS
  <2>1. /\ DOMAIN users = 1..Len(users) /\ DOMAIN objects = 1..Len(objects)
        /\ \A i \in 1..Len(users) : users[i].asked \in RoleNames
    BY UsersAsked
  <2>2. \A i \in 1..Len(users) : users[i].role \in 1..Len(objects)
    BY <2>1 DEF RoleInv
  <2>3. \A i, j \in 1..Len(users) :
          users[i].role = users[j].role <=> users[i].asked = users[j].asked
    BY <2>1 DEF RoleInv
  <2>4. 1..Len(objects) = {users[i].role : i \in 1..Len(users)}
    BY <2>2 DEF RoleInv
  <2>5. \A i \in 1..Len(users) :
          objects[users[i].role] = Factory!Permissions(users[i].asked)
    BY <2>1 DEF RoleInv
  <2> QED
    BY <2>1, <2>3, <2>4, <2>5 DEF RolesShared, Factory!RolesShared
<1> QED
  BY <1>1, RoleInvariant, PTL

-----------------------------------------------------------------------------
(***************************************************************************)
(* FlagProxy                                                               *)
(***************************************************************************)

FlagNames == {"new-checkout", "beta-search", "dark-mode"}

(* What is cached is what the service says.                                *)
FlagInv ==
  /\ flag_cache \in [FlagNames -> BOOLEAN \cup {Nothing}]
  /\ \A flag_name \in FlagNames :
       flag_cache[flag_name] # Nothing => flag_cache[flag_name] = Proxy!Remote(flag_name)

(* The flags whose answers are cached.                                     *)
KeptFlags == {flag_name \in FlagNames : flag_cache[flag_name] # Nothing}

(* is_enabled preserves it and is a lookup in a read-through cache.        *)
LEMMA FlagStep ==
  ASSUME FlagInv, [Proxy!Next]_(Proxy!vars)
  PROVE  FlagInv' /\ [Proxy!Proxies!Next]_<<KeptFlags, check>>
<1>1. CASE UNCHANGED Proxy!vars
  BY <1>1 DEF Proxy!vars, FlagInv, KeptFlags
<1>2. ASSUME NEW flag_name \in FlagNames, Proxy!IsEnabled(flag_name)
      PROVE  FlagInv' /\ Proxy!Proxies!Next
  <2>1. Proxy!Remote(flag_name) \in BOOLEAN
    BY DEF Proxy!Remote
  <2>2. FlagInv'
    BY <1>2, <2>1
    DEF FlagInv, Proxy!IsEnabled, Proxy!CacheHit, Proxy!AskRemote, Proxy!Remote
  <2>3. CASE Proxy!CacheHit(flag_name)
    <3>1. /\ flag_name \in KeptFlags /\ KeptFlags' = KeptFlags
          /\ check' = <<flag_name, Proxy!Remote(flag_name), "kept">>
      BY <2>3 DEF Proxy!CacheHit, FlagInv, KeptFlags
    <3>2. Proxy!Proxies!Hit(flag_name)
      BY <3>1 DEF Proxy!Proxies!Hit, Proxy!Proxies!Answer, KeptFlags, FlagNames
    <3> QED
      BY <2>2, <3>2 DEF Proxy!Proxies!Next, FlagNames
  <2>4. CASE flag_cache[flag_name] = Nothing /\ Proxy!AskRemote(flag_name)
    <3>1. /\ flag_name \notin KeptFlags /\ KeptFlags' = KeptFlags \cup {flag_name}
          /\ check' = <<flag_name, Proxy!Remote(flag_name), "asked">>
      BY <2>1, <2>4, LookupsAssumption DEF Proxy!AskRemote, FlagInv, KeptFlags
    <3>2. Proxy!Proxies!Miss(flag_name)
      BY <3>1 DEF Proxy!Proxies!Miss, KeptFlags, FlagNames
    <3> QED
      BY <2>2, <3>2 DEF Proxy!Proxies!Next, FlagNames
  <2> QED
    BY <1>2, <2>3, <2>4 DEF Proxy!IsEnabled
<1> QED
  BY <1>1, <1>2 DEF Proxy!Next, FlagNames

(* What is cached stays true.                                              *)
LEMMA FlagInvariant == Spec => []FlagInv
<1>1. Init => FlagInv
  BY DEF Init, Proxy!Init, FlagInv, FlagNames
<1>2. FlagInv /\ [Next]_<<program, facade, repository, proxy, flyweight>> => FlagInv'
  BY ProgramStep, FlagStep
<1> QED
  BY <1>1, <1>2, PTL DEF Spec

(* The proxy is a read-through cache of the service.                       *)
LEMMA ProxyReadsThrough == Spec => Proxy!ReadsThrough
<1>1. Init => FlagInv /\ Proxy!Proxies!Init
  BY DEF Init, Proxy!Init, FlagInv, Proxy!Proxies!Init, FlagNames
<1>2. FlagInv /\ [Next]_<<program, facade, repository, proxy, flyweight>>
        => FlagInv' /\ [Proxy!Proxies!Next]_<<KeptFlags, check>>
  BY ProgramStep, FlagStep
<1> QED
  BY <1>1, <1>2, PTL
  DEF Spec, Proxy!ReadsThrough, Proxy!Proxies!Spec, KeptFlags, FlagNames

-----------------------------------------------------------------------------
(***************************************************************************)
(* UserRepository                                                          *)
(***************************************************************************)

UserIds == {1, 5, 7, 42}

(* The families and the users they may be asked for.                       *)
UserKeys == Repository!Families \X UserIds

(* A cache holds what it was made with, and besides only what the database *)
(* of its family says.                                                     *)
RepositoryInv ==
  /\ stored \in [Repository!Families -> [UserIds -> Repository!Names]]
  /\ \A family \in Repository!Families, user_id \in UserIds :
       \/ stored[family][user_id] = Repository!CreateCache(family)[user_id]
       \/ /\ Repository!CreateCache(family)[user_id] = Nothing
          /\ stored[family][user_id] = Repository!LoadUser(family, user_id)

(* The users whose names are cached.                                       *)
KeptUsers == {key \in UserKeys : stored[key[1]][key[2]] # Nothing}

(* What a cache was made with, and what the database says of the others.   *)
LEMMA KnownUsers ==
  ASSUME NEW family \in Repository!Families, NEW user_id \in UserIds
  PROVE  /\ Repository!CreateCache(family)[user_id] \in Repository!Names
         /\ Repository!LoadUser(family, user_id) \in Repository!Names
         /\ Repository!Repositories!Answer(<<family, user_id>>)
              = IF Repository!CreateCache(family)[user_id] # Nothing
                THEN Repository!CreateCache(family)[user_id]
                ELSE Repository!LoadUser(family, user_id)
<1>1. <<family, user_id>> \in Repository!Families \X {1, 5, 7, 42}
  BY DEF UserIds
<1>2. "Ada" # Nothing /\ "Grace" # Nothing /\ "test-db-user-5" # Nothing
      /\ "cached-test-user" # Nothing
  BY LookupsAssumption
<1>3. family = "production" \/ family = "test"
  BY DEF Repository!Families
<1>4. user_id = 1 \/ user_id = 5 \/ user_id = 7 \/ user_id = 42
  BY DEF UserIds
<1>5. CASE family = "production"
  BY <1>1, <1>2, <1>4, <1>5
  DEF Repository!CreateCache, Repository!LoadUser, Repository!Names, UserIds,
      Repository!Repositories!Answer, Repository!Seeded
<1>6. CASE family = "test"
  BY <1>1, <1>2, <1>4, <1>6
  DEF Repository!CreateCache, Repository!LoadUser, Repository!Names, UserIds,
      Repository!Repositories!Answer, Repository!Seeded
<1> QED
  BY <1>3, <1>5, <1>6

(* get_user_name preserves the invariant and is a lookup in a read-through *)
(* cache.                                                                  *)
LEMMA RepositoryStep ==
  ASSUME RepositoryInv, [Repository!Next]_(Repository!vars)
  PROVE  RepositoryInv' /\ [Repository!Repositories!Next]_<<KeptUsers, lookup>>
<1>1. CASE UNCHANGED Repository!vars
  BY <1>1 DEF Repository!vars, RepositoryInv, KeptUsers
<1>2. ASSUME NEW family \in Repository!Families, NEW user_id \in UserIds,
             Repository!GetUserName(family, user_id)
      PROVE  RepositoryInv' /\ Repository!Repositories!Next
  <2> DEFINE key == <<family, user_id>>
             made == Repository!CreateCache(family)[user_id]
             loaded == Repository!LoadUser(family, user_id)
  <2>1. /\ made \in Repository!Names /\ loaded \in Repository!Names
        /\ Repository!Repositories!Answer(key) = IF made # Nothing THEN made ELSE loaded
    BY KnownUsers
  <2>2. /\ stored \in [Repository!Families -> [UserIds -> Repository!Names]]
        /\ stored[family][user_id] = made \/ (made = Nothing /\ stored[family][user_id] = loaded)
    BY DEF RepositoryInv
  <2>3. CASE stored[family][user_id] # Nothing
    <3>1. /\ lookup' = <<key, stored[family][user_id], "kept">> /\ stored' = stored
      BY <1>2, <2>3 DEF Repository!GetUserName
    <3>2. stored[family][user_id] = Repository!Repositories!Answer(key)
      BY <2>1, <2>2, <2>3
    <3>3. key \in KeptUsers /\ KeptUsers' = KeptUsers
      BY <2>3, <3>1 DEF KeptUsers, UserKeys
    <3>4. Repository!Repositories!Hit(key)
      BY <3>1, <3>2, <3>3 DEF Repository!Repositories!Hit, KeptUsers, UserKeys, UserIds
    <3>5. RepositoryInv'
      BY <3>1 DEF RepositoryInv
    <3> QED
      BY <3>4, <3>5 DEF Repository!Repositories!Next, UserIds
  <2>4. CASE stored[family][user_id] = Nothing
    <3>1. /\ lookup' = <<key, loaded, "asked">>
          /\ stored' = [stored EXCEPT ![family][user_id] = loaded]
      BY <1>2, <2>4 DEF Repository!GetUserName
    <3>2. made = Nothing
      BY <2>1, <2>2, <2>4
    <3> HIDE DEF made, loaded
    <3>3. /\ stored' \in [Repository!Families -> [UserIds -> Repository!Names]]
          /\ stored'[family][user_id] = loaded
          /\ \A f \in Repository!Families, u \in UserIds :
               f # family \/ u # user_id => stored'[f][u] = stored[f][u]
      BY <2>1, <2>2, <3>1
    <3>4. RepositoryInv'
      BY <3>2, <3>3 DEF RepositoryInv, made, loaded
    <3>5. key \notin KeptUsers
      BY <2>4 DEF KeptUsers
    <3>6. KeptUsers' = IF loaded = Nothing THEN KeptUsers ELSE KeptUsers \cup {key}
      BY <2>4, <3>3 DEF KeptUsers, UserKeys
    <3>7. Repository!Repositories!Miss(key)
      <4>1. key \in UserKeys /\ key[1] = family /\ key[2] = user_id
        BY DEF UserKeys
      <4>2. [k \in UserKeys |-> Repository!LoadUser(k[1], k[2])][key] = loaded
        BY <4>1 DEF loaded
      <4> HIDE DEF key
      <4> QED
        BY <3>1, <3>5, <3>6, <4>2
        DEF Repository!Repositories!Miss, KeptUsers, UserKeys, UserIds
    <3> QED
      BY <3>4, <3>7 DEF Repository!Repositories!Next, UserIds
  <2> QED
    BY <2>3, <2>4
<1> QED
  BY <1>1, <1>2 DEF Repository!Next, UserIds

(* The caches start with what they were made with.                         *)
LEMMA RepositoryStarts == Init => RepositoryInv /\ Repository!Repositories!Init
<1> SUFFICES ASSUME Init PROVE RepositoryInv /\ Repository!Repositories!Init
  OBVIOUS
<1>1. /\ stored = [family \in Repository!Families |-> Repository!CreateCache(family)]
      /\ lookup = <<>>
  BY DEF Init, Repository!Init
<1>2. \A family \in Repository!Families :
        Repository!CreateCache(family) \in [UserIds -> Repository!Names]
  BY DEF Repository!CreateCache, Repository!Names, UserIds
<1>3. RepositoryInv
  BY <1>1, <1>2 DEF RepositoryInv
<1>4. KeptUsers = {<<"production", 7>>, <<"test", 1>>}
  <2>1. "Grace" # Nothing /\ "cached-test-user" # Nothing
    BY LookupsAssumption
  <2>2. \A family \in Repository!Families, user_id \in UserIds :
          stored[family][user_id] # Nothing
            <=> <<family, user_id>> \in {<<"production", 7>>, <<"test", 1>>}
    BY <1>1, <2>1 DEF UserIds, Repository!CreateCache, Repository!Families
  <2>3. <<"production", 7>> \in UserKeys /\ <<"test", 1>> \in UserKeys
    BY DEF UserKeys, UserIds, Repository!Families
  <2> QED
    BY <2>2, <2>3 DEF KeptUsers, UserKeys
<1> QED
  BY <1>1, <1>3, <1>4 DEF Repository!Repositories!Init, Repository!Seeded, KeptUsers, UserKeys, UserIds

(* The caches stay true to their families.                                 *)
LEMMA RepositoryInvariant == Spec => []RepositoryInv
<1>1. RepositoryInv /\ [Next]_<<program, facade, repository, proxy, flyweight>> => RepositoryInv'
  BY ProgramStep, RepositoryStep
<1> QED
  BY <1>1, RepositoryStarts, PTL DEF Spec

(* A repository is a read-through cache of its family's database, made     *)
(* with one entry.                                                         *)
LEMMA RepositoryReadsThrough == Spec => Repository!ReadsThrough
<1>1. Init => RepositoryInv /\ Repository!Repositories!Init
  BY RepositoryStarts
<1>2. RepositoryInv /\ [Next]_<<program, facade, repository, proxy, flyweight>>
        => RepositoryInv' /\ [Repository!Repositories!Next]_<<KeptUsers, lookup>>
  BY ProgramStep, RepositoryStep
<1> QED
  BY <1>1, <1>2, PTL
  DEF Spec, Repository!ReadsThrough, Repository!Repositories!Spec, KeptUsers, UserKeys, UserIds

(* get_user_name and is_enabled answer as their sources would, or with     *)
(* what the cache was made with, and do not ask again about what they have *)
(* kept: both refine ReadThrough.                                          *)
THEOREM ReadsThroughCaches == Spec => ReadThroughCaches
BY RepositoryReadsThrough, ProxyReadsThrough DEF ReadThroughCaches

-----------------------------------------------------------------------------
(***************************************************************************)
(* UserProfileFacade                                                       *)
(***************************************************************************)

(* A set of naturals that is not empty has a least element.                *)
LEMMA LeastOf ==
  ASSUME NEW S \in SUBSET Nat, S # {}
  PROVE  \E n \in S : \A m \in S : n <= m
<1> DEFINE R == OpToRel(<, Nat)
<1>1. IsWellFoundedOn(R, Nat)
  BY NatLessThanWellFounded
<1>2. \A x, y \in Nat : <<x, y>> \in R <=> x < y
  BY DEF OpToRel
<1> HIDE DEF R
<1>3. PICK n \in S : \A m \in S : ~(<<m, n>> \in R)
  BY <1>1, WFMin
<1>4. \A m \in S : ~(m < n)
  BY <1>2, <1>3, Zenon
<1> QED
  BY <1>4

(* The instance counts as this module does.                                *)
LEMMA SameCardinality == \A S : Facade!Cardinality(S) = Cardinality(S)
BY DEF Facade!Cardinality, Cardinality

(* positions lists the elements of S in increasing order.                  *)
Lists(positions, S) ==
  /\ positions \in [1..Cardinality(S) -> S]
  /\ \A i, j \in 1..Cardinality(S) : i < j => positions[i] < positions[j]

(* The elements of an interval that have some property can be listed in    *)
(* increasing order: a shortest interval with a set that cannot would end  *)
(* with an element of it, to be appended to the list of the others.        *)
LEMMA ListExists ==
  ASSUME NEW n \in Nat, NEW S \in SUBSET (1..n)
  PROVE  \E positions : Lists(positions, S)
<1> DEFINE Listed(m) == \A T \in SUBSET (1..m) : \E positions : Lists(positions, T)
           Bad == {m \in Nat : ~Listed(m)}
<1>1. SUFFICES Bad = {}
  <2>1. Listed(n)
    BY <1>1
  <2> QED
    BY <2>1
<1>2. SUFFICES ASSUME Bad # {} PROVE FALSE
  OBVIOUS
<1>3. PICK m \in Bad : \A k \in Bad : m <= k
  <2>1. Bad \in SUBSET Nat
    OBVIOUS
  <2> HIDE DEF Bad
  <2> QED
    BY <2>1, <1>2, LeastOf
<1>4. m \in Nat /\ ~Listed(m) /\ \A k \in Nat : k < m => Listed(k)
  BY <1>3
<1>5. PICK T \in SUBSET (1..m) : ~ \E positions : Lists(positions, T)
  BY <1>4
<1> HIDE DEF Bad
<1>6. ASSUME m = 0 PROVE FALSE
  <2>1. T = {}
    BY <1>6, <1>5
  <2>2. Cardinality(T) = 0
    BY <2>1, FS_EmptySet
  <2>3. [i \in 1..0 |-> i] \in [1..0 -> T]
    BY <2>1
  <2>4. Lists([i \in 1..0 |-> i], T)
    BY <2>2, <2>3 DEF Lists
  <2> QED
    BY <2>4, <1>5
<1>7. ASSUME m # 0 PROVE FALSE
  <2>1. m - 1 \in Nat /\ Listed(m - 1)
    <3>1. m - 1 \in Nat /\ m - 1 < m
      BY <1>4, <1>7
    <3> HIDE DEF Listed
    <3> QED
      BY <1>4, <3>1
  <2>2. m \in T
    <3>1. m \notin T => T \in SUBSET (1..(m - 1))
      BY <1>4, <1>5, <2>1
    <3> QED
      BY <3>1, <2>1, <1>5
  <2> DEFINE others == T \ {m}
  <2>3. others \in SUBSET (1..(m - 1))
    BY <1>4, <1>5, <2>1
  <2>4. PICK listed : Lists(listed, others)
    BY <2>1, <2>3
  <2>5. IsFiniteSet(T) /\ Cardinality(T) \in Nat
    <3>1. IsFiniteSet(1..m)
      BY <1>4, FS_Interval
    <3>2. IsFiniteSet(T)
      BY <1>5, <3>1, FS_Subset
    <3> QED
      BY <3>2, FS_CardinalityType
  <2>6. /\ Cardinality(others) = Cardinality(T) - 1 /\ Cardinality(others) \in Nat
    BY <2>2, <2>5, FS_RemoveElement, FS_CardinalityType
  <2> DEFINE c == Cardinality(T)
             positions == [i \in 1..c |-> IF i = c THEN m ELSE listed[i]]
  <2>7. /\ listed \in [1..(c - 1) -> others]
        /\ \A i, j \in 1..(c - 1) : i < j => listed[i] < listed[j]
    BY <2>4, <2>6 DEF Lists
  <2>8. c \in Nat /\ \A i \in 1..c : i = c \/ (i \in 1..(c - 1) /\ i # c)
    BY <2>5
  <2> HIDE DEF c
  <2>9. \A i \in 1..(c - 1) : listed[i] \in T /\ listed[i] < m
    <3>1. \A x \in others : x \in T /\ x < m
      <4>1. m \in Nat
        BY <1>4
      <4> QED
        BY <4>1, <2>3
    <3>2. \A i \in 1..(c - 1) : listed[i] \in others
      BY <2>7
    <3> QED
      BY <3>1, <3>2
  <2>10. positions \in [1..c -> T]
    <3>1. \A i \in 1..c : (IF i = c THEN m ELSE listed[i]) \in T
      BY <2>2, <2>8, <2>9
    <3> QED
      BY <3>1
  <2>11. \A i, j \in 1..c : i < j => positions[i] < positions[j]
    <3>1. \A i \in 1..c : positions[i] = IF i = c THEN m ELSE listed[i]
      OBVIOUS
    <3> HIDE DEF positions
    <3>2. ASSUME NEW i \in 1..c, NEW j \in 1..c, i < j
          PROVE  positions[i] < positions[j]
      <4>1. i # c /\ i \in 1..(c - 1)
        BY <2>8, <3>2
      <4>2. j = c \/ (j # c /\ j \in 1..(c - 1))
        BY <2>8
      <4> QED
        BY <2>7, <2>9, <3>1, <3>2, <4>1, <4>2
    <3> QED
      BY <3>2
  <2> HIDE DEF positions
  <2>12. Lists(positions, T)
    BY <2>10, <2>11 DEF Lists, c
  <2> QED
    BY <2>12, <1>5
<1> QED
  BY <1>6, <1>7

(* Such a list is one to one with the set.                                 *)
LEMMA ListsAll ==
  ASSUME NEW n \in Nat, NEW S \in SUBSET (1..n), NEW positions, Lists(positions, S)
  PROVE  /\ IsFiniteSet(S) /\ Cardinality(S) \in Nat
         /\ positions \in Injection(1..Cardinality(S), S)
         /\ positions \in Surjection(1..Cardinality(S), S)
<1>1. IsFiniteSet(S)
  <2>1. IsFiniteSet(1..n)
    BY FS_Interval
  <2> QED
    BY <2>1, FS_Subset
<1>2. Cardinality(S) \in Nat
  BY <1>1, FS_CardinalityType
<1> DEFINE k == Cardinality(S)
<1>3. k \in Nat /\ positions \in [1..k -> S]
      /\ \A i, j \in 1..k : i < j => positions[i] < positions[j]
  <2>1. k \in Nat /\ positions \in [1..k -> S]
    BY <1>2 DEF Lists
  <2>2. \A i, j \in 1..k : i < j => positions[i] < positions[j]
    BY Zenon DEF Lists
  <2> QED
    BY <2>1, <2>2
<1>4. IsFiniteSet(1..k) /\ Cardinality(1..k) = k
  BY <1>2, FS_Interval
<1>5. positions \in Injection(1..k, S)
  <2> HIDE DEF k
  <2>1. \A i \in 1..k : positions[i] \in Nat
    <3>1. S \subseteq Nat
      OBVIOUS
    <3> QED
      BY <1>3, <3>1
  <2>2. \A i, j \in 1..k : i # j => i < j \/ j < i
    OBVIOUS
  <2>3. \A i, j \in 1..k : positions[i] = positions[j] => i = j
    <3>1. ASSUME NEW i \in 1..k, NEW j \in 1..k, positions[i] = positions[j], i # j
          PROVE  FALSE
      <4>1. positions[i] \in Nat /\ positions[j] \in Nat
        BY <2>1
      <4>2. positions[i] < positions[j] \/ positions[j] < positions[i]
        BY <1>3, <2>2, <3>1
      <4> QED
        BY <3>1, <4>1, <4>2
    <3> QED
      BY <3>1
  <2> QED
    BY <1>3, <2>3 DEF Injection, IsInjective
<1>6. positions \in Surjection(1..k, S)
  BY <1>1, <1>4, <1>5, FS_Injection
<1> QED
  BY <1>1, <1>2, <1>5, <1>6

(* MissedPositions is the list of the positions without a profile.         *)
LEMMA MissedAreListed ==
  ASSUME NEW n \in Nat, NEW results, DOMAIN results = 1..n
  PROVE  Lists(Facade!MissedPositions(results), {i \in 1..n : results[i] = Nothing})
<1> DEFINE missed == {i \in 1..n : results[i] = Nothing}
           Ordered(positions) ==
             \A i, j \in DOMAIN positions : i < j => positions[i] < positions[j]
<1>1. Facade!MissedPositions(results)
        = CHOOSE positions \in [1..Cardinality(missed) -> missed] : Ordered(positions)
  <2>1. {i \in DOMAIN results : results[i] = Nothing} = missed
    OBVIOUS
  <2> QED
    BY <2>1, SameCardinality DEF Facade!MissedPositions
<1>2. PICK listed : Lists(listed, missed)
  BY ListExists
<1>3. listed \in [1..Cardinality(missed) -> missed] /\ Ordered(listed)
  BY <1>2 DEF Lists
<1> HIDE DEF missed, Ordered
<1>4. /\ Facade!MissedPositions(results) \in [1..Cardinality(missed) -> missed]
      /\ Ordered(Facade!MissedPositions(results))
  BY <1>1, <1>3
<1>5. DOMAIN Facade!MissedPositions(results) = 1..Cardinality(missed)
  BY <1>4
<1> QED
  BY <1>4, <1>5 DEF Lists, Ordered, missed

(* The users that the cache or the database knows.                         *)
Known == CachedIds \cup RowIds

(* What a batch finds in the cache, the positions it misses there, and     *)
(* what the database has for them.                                         *)
Missed(ids) == {p \in DOMAIN ids : ids[p] \notin cache}
Results(ids) == Facade!FindMany(cache, ids)
Positions(ids) == Facade!MissedPositions(Results(ids))
Loaded(ids) ==
  Facade!FindMany(RowIds, [i \in DOMAIN Positions(ids) |-> ids[Positions(ids)[i]]])

(* The missed ids are loaded one by one, each from its position.           *)
LEMMA Loads ==
  ASSUME NEW n \in Nat, NEW ids \in [1..n -> ProfileIds]
  PROVE  /\ Missed(ids) \in SUBSET (1..n)
         /\ IsFiniteSet(Missed(ids)) /\ Cardinality(Missed(ids)) \in Nat
         /\ DOMAIN Results(ids) = 1..n
         /\ \A p \in 1..n : Results(ids)[p] = IF ids[p] \in cache THEN ids[p] ELSE Nothing
         /\ Positions(ids) \in Injection(1..Cardinality(Missed(ids)), Missed(ids))
         /\ Positions(ids) \in Surjection(1..Cardinality(Missed(ids)), Missed(ids))
         /\ Loaded(ids) \in [1..Cardinality(Missed(ids)) -> RowIds \cup {Nothing}]
         /\ \A i \in 1..Cardinality(Missed(ids)) :
              Loaded(ids)[i] = IF ids[Positions(ids)[i]] \in RowIds
                               THEN ids[Positions(ids)[i]] ELSE Nothing
<1>1. DOMAIN ids = 1..n /\ Nothing \notin ProfileIds
  BY LookupsAssumption
<1>2. /\ DOMAIN Results(ids) = 1..n
      /\ \A p \in 1..n : Results(ids)[p] = IF ids[p] \in cache THEN ids[p] ELSE Nothing
  BY <1>1 DEF Results, Facade!FindMany
<1>3. Missed(ids) = {p \in 1..n : Results(ids)[p] = Nothing}
  BY <1>1, <1>2 DEF Missed
<1>4. Missed(ids) \in SUBSET (1..n)
  BY <1>3
<1>5. Lists(Positions(ids), Missed(ids))
  BY <1>2, <1>3, MissedAreListed DEF Positions
<1>6. /\ IsFiniteSet(Missed(ids)) /\ Cardinality(Missed(ids)) \in Nat
      /\ Positions(ids) \in Injection(1..Cardinality(Missed(ids)), Missed(ids))
      /\ Positions(ids) \in Surjection(1..Cardinality(Missed(ids)), Missed(ids))
  BY <1>4, <1>5, ListsAll
<1>7. DOMAIN Positions(ids) = 1..Cardinality(Missed(ids))
  BY <1>5 DEF Lists
<1>8. /\ DOMAIN Loaded(ids) = 1..Cardinality(Missed(ids))
      /\ \A i \in 1..Cardinality(Missed(ids)) :
           Loaded(ids)[i] = IF ids[Positions(ids)[i]] \in RowIds
                            THEN ids[Positions(ids)[i]] ELSE Nothing
      /\ Loaded(ids) = [i \in DOMAIN Loaded(ids) |-> Loaded(ids)[i]]
  BY <1>7 DEF Loaded, Facade!FindMany
<1>9. Loaded(ids) \in [1..Cardinality(Missed(ids)) -> RowIds \cup {Nothing}]
  BY <1>8
<1> QED
  BY <1>2, <1>4, <1>6, <1>8, <1>9

(* Merging puts every loaded profile where its id was missed.              *)
LEMMA Merges ==
  ASSUME NEW n \in Nat, NEW ids \in [1..n -> ProfileIds],
         CachedIds \subseteq cache, cache \subseteq Known
  PROVE  /\ Facade!Merge(Results(ids), Positions(ids), Loaded(ids)) = Facade!FindMany(Known, ids)
         /\ \A p \in 1..n : ids[p] \in Known =>
              ids[p] \in cache \cup ({Loaded(ids)[i] : i \in DOMAIN Loaded(ids)} \ {Nothing})
<1> DEFINE k == Cardinality(Missed(ids))
           loaded == Loaded(ids)
           positions == Positions(ids)
           results == Results(ids)
           merged == Facade!Merge(results, positions, loaded)
<1>1. /\ DOMAIN results = 1..n /\ DOMAIN loaded = 1..k /\ DOMAIN ids = 1..n
      /\ \A p \in 1..n : results[p] = IF ids[p] \in cache THEN ids[p] ELSE Nothing
      /\ \A i \in 1..k : positions[i] \in Missed(ids)
      /\ \A p \in Missed(ids) : \E i \in 1..k : positions[i] = p
      /\ \A i \in 1..k : loaded[i] = IF ids[positions[i]] \in RowIds
                                     THEN ids[positions[i]] ELSE Nothing
  <2>1. positions \in Surjection(1..k, Missed(ids)) /\ loaded \in [1..k -> RowIds \cup {Nothing}]
    BY Loads
  <2>2. /\ \A i \in 1..k : positions[i] \in Missed(ids)
        /\ \A p \in Missed(ids) : \E i \in 1..k : positions[i] = p
    <3> HIDE DEF k, positions
    <3> QED
      BY <2>1 DEF Surjection
  <2>3. /\ DOMAIN results = 1..n
        /\ \A p \in 1..n : results[p] = IF ids[p] \in cache THEN ids[p] ELSE Nothing
        /\ \A i \in 1..k : loaded[i] = IF ids[positions[i]] \in RowIds
                                       THEN ids[positions[i]] ELSE Nothing
    BY Loads
  <2> HIDE DEF loaded, positions, results, k
  <2>4. DOMAIN loaded = 1..k /\ DOMAIN ids = 1..n
    BY <2>1
  <2> QED
    BY <2>2, <2>3, <2>4
<1>2. /\ \A p \in 1..n : ids[p] \in ProfileIds
      /\ Nothing \notin ProfileIds /\ RowIds \subseteq Known
      /\ \A id \in Known : id \in cache \/ id \in RowIds
  BY LookupsAssumption DEF Known
<1>3. /\ DOMAIN merged = 1..n /\ merged = [p \in 1..n |-> merged[p]]
      /\ \A p \in 1..n : merged[p] =
           IF \E i \in 1..k : positions[i] = p /\ loaded[i] # Nothing
           THEN loaded[CHOOSE i \in 1..k : positions[i] = p]
           ELSE results[p]
  BY <1>1 DEF Facade!Merge
<1> HIDE DEF merged, loaded, positions, results, k
<1>4. \A p \in 1..n : p \in Missed(ids) <=> ids[p] \notin cache
  <2>1. DOMAIN ids = 1..n
    OBVIOUS
  <2> QED
    BY <2>1 DEF Missed
<1>5. ASSUME NEW p \in 1..n
      PROVE  /\ merged[p] = IF ids[p] \in Known THEN ids[p] ELSE Nothing
             /\ ids[p] \in Known =>
                  ids[p] \in cache \cup ({loaded[i] : i \in DOMAIN loaded} \ {Nothing})
  <2>1. CASE ids[p] \in cache
    <3>1. ~ \E i \in 1..k : positions[i] = p
      BY <1>1, <1>4, <2>1
    <3> QED
      BY <1>1, <1>3, <2>1, <3>1
  <2>2. CASE ids[p] \notin cache /\ ids[p] \in RowIds
    <3>1. PICK i \in 1..k : positions[i] = p
      BY <1>1, <1>4, <2>2
    <3>2. \A j \in 1..k : positions[j] = p => loaded[j] = ids[p]
      BY <1>1, <2>2
    <3>3. ids[p] # Nothing
      BY <1>2
    <3>4. loaded[CHOOSE j \in 1..k : positions[j] = p] = ids[p]
      BY <3>1, <3>2
    <3>5. merged[p] = ids[p]
      BY <1>3, <3>1, <3>2, <3>3, <3>4
    <3> QED
      BY <1>1, <1>2, <2>2, <3>1, <3>2, <3>3, <3>5
  <2>3. CASE ids[p] \notin cache /\ ids[p] \notin RowIds
    <3>1. \A j \in 1..k : positions[j] = p => loaded[j] = Nothing
      BY <1>1, <2>3
    <3> QED
      BY <1>1, <1>2, <1>3, <2>3, <3>1
  <2> QED
    BY <2>1, <2>2, <2>3
<1>6. merged = Facade!FindMany(Known, ids)
  BY <1>1, <1>3, <1>5 DEF Facade!FindMany
<1> QED
  BY <1>5, <1>6 DEF merged, loaded, positions, results

(* The positions of the ids among some users.                              *)
Places(ids, known_ids) == {p \in DOMAIN ids : ids[p] \in known_ids}

(* The counters grow by the ids found in the cache, by those only the      *)
(* database knows and by the others, which make up the batch.              *)
LEMMA Counts ==
  ASSUME NEW n \in Nat, NEW ids \in [1..n -> ProfileIds]
  PROVE  /\ Facade!Found(Results(ids)) = Cardinality(Places(ids, cache))
         /\ Facade!Found(Loaded(ids)) = Cardinality(Places(ids, RowIds \ cache))
         /\ Len(Loaded(ids)) = Cardinality(Missed(ids))
         /\ Cardinality(Places(ids, cache)) \in Nat
         /\ Cardinality(Places(ids, RowIds \ cache)) \in Nat
         /\ Cardinality(Missed(ids)) \in Nat
         /\ Cardinality(Places(ids, cache)) + Cardinality(Missed(ids)) = n
         /\ Cardinality(Places(ids, RowIds \ cache)) <= Cardinality(Missed(ids))
<1> DEFINE k == Cardinality(Missed(ids))
           loaded == Loaded(ids)
           positions == Positions(ids)
           hits == Places(ids, cache)
           rows == Places(ids, RowIds \ cache)
           found == {i \in 1..k : loaded[i] # Nothing}
<1>d. DOMAIN ids = 1..n /\ IsFiniteSet(1..n) /\ Cardinality(1..n) = n
  BY FS_Interval
<1>n. /\ \A p \in 1..n : ids[p] \in ProfileIds
      /\ Nothing \notin ProfileIds /\ Nothing \notin RowIds
  BY LookupsAssumption
<1>s. /\ hits \subseteq 1..n /\ rows \subseteq Missed(ids) /\ Missed(ids) \subseteq 1..n
      /\ hits \cup Missed(ids) = 1..n /\ hits \cap Missed(ids) = {}
  BY <1>d DEF Places, Missed
<1>l. /\ k \in Nat /\ loaded \in [1..k -> RowIds \cup {Nothing}]
      /\ positions \in Injection(1..k, Missed(ids))
      /\ positions \in Surjection(1..k, Missed(ids))
      /\ \A i \in 1..k : loaded[i] = IF ids[positions[i]] \in RowIds
                                     THEN ids[positions[i]] ELSE Nothing
  BY Loads
<1>f. /\ IsFiniteSet(hits) /\ IsFiniteSet(rows) /\ IsFiniteSet(Missed(ids))
      /\ Cardinality(hits) \in Nat /\ Cardinality(rows) \in Nat
      /\ Cardinality(rows) <= k
  <2> HIDE DEF hits, rows
  <2>1. IsFiniteSet(hits) /\ IsFiniteSet(Missed(ids))
    BY <1>d, <1>s, FS_Subset
  <2>2. IsFiniteSet(rows) /\ Cardinality(rows) <= k
    BY <2>1, <1>s, FS_Subset
  <2> QED
    BY <2>1, <2>2, FS_CardinalityType
<1>1. Facade!Found(Results(ids)) = Cardinality(hits)
  <2>1. {p \in DOMAIN Results(ids) : Results(ids)[p] # Nothing} = hits
    <3>1. /\ DOMAIN Results(ids) = 1..n
          /\ \A p \in 1..n : Results(ids)[p] = IF ids[p] \in cache THEN ids[p] ELSE Nothing
      BY Loads
    <3> QED
      BY <3>1, <1>d, <1>n DEF Places
  <2> QED
    BY <2>1, SameCardinality DEF Facade!Found
<1>2. Facade!Found(loaded) = Cardinality(found)
  <2>1. {i \in DOMAIN loaded : loaded[i] # Nothing} = found
    BY <1>l
  <2> HIDE DEF loaded, found
  <2> QED
    BY <2>1, SameCardinality DEF Facade!Found
<1>3. Cardinality(found) = Cardinality(rows)
  <2> HIDE DEF k, loaded, positions
  <2>1. /\ \A i \in 1..k : positions[i] \in Missed(ids)
        /\ \A i, j \in 1..k : positions[i] = positions[j] => i = j
        /\ \A p \in Missed(ids) : \E i \in 1..k : positions[i] = p
    <3>1. positions \in Injection(1..k, Missed(ids)) /\ positions \in Surjection(1..k, Missed(ids))
      BY <1>l
    <3> QED
      BY <3>1 DEF Injection, IsInjective, Surjection
  <2>2. /\ \A p \in Missed(ids) : p \in 1..n /\ ids[p] \notin cache
        /\ \A p \in Missed(ids) : p \in rows <=> ids[p] \in RowIds
    <3>1. DOMAIN ids = 1..n
      BY <1>d
    <3>2. \A p : p \in Missed(ids) <=> p \in 1..n /\ ids[p] \notin cache
      BY <3>1 DEF Missed
    <3>3. \A p : p \in rows <=> p \in 1..n /\ ids[p] \in RowIds /\ ids[p] \notin cache
      BY <3>1 DEF Places
    <3> QED
      BY <3>2, <3>3
  <2>3. \A i \in 1..k : i \in found <=> positions[i] \in rows
    <3>1. /\ \A i \in 1..k : loaded[i] = IF ids[positions[i]] \in RowIds
                                         THEN ids[positions[i]] ELSE Nothing
          /\ Nothing \notin RowIds
      BY <1>l, <1>n
    <3>2. \A i \in 1..k : loaded[i] # Nothing <=> ids[positions[i]] \in RowIds
      BY <3>1
    <3> HIDE DEF rows
    <3> QED
      BY <3>2, <2>1, <2>2
  <2> DEFINE pair == [i \in found |-> positions[i]]
  <2>4. found \subseteq 1..k
    OBVIOUS
  <2> HIDE DEF found, rows
  <2>5. pair \in [found -> rows]
    BY <2>3, <2>4
  <2>6. \A i, j \in found : pair[i] = pair[j] => i = j
    BY <2>1, <2>4
  <2>7. \A p \in rows : \E i \in found : pair[i] = p
    BY <2>1, <2>3, <1>s
  <2> HIDE DEF pair
  <2>8. pair \in Bijection(found, rows)
    BY <2>5, <2>6, <2>7 DEF Bijection, Injection, IsInjective, Surjection
  <2>9. IsFiniteSet(found)
    <3>1. IsFiniteSet(1..k)
      BY <1>l, FS_Interval
    <3> QED
      BY <2>4, <3>1, FS_Subset
  <2>10. ExistsBijection(found, rows)
    BY <2>8 DEF ExistsBijection
  <2> QED
    BY <2>9, <2>10, FS_Bijection
<1>4. Len(loaded) = k
  <2> HIDE DEF k, loaded
  <2> QED
    BY <1>l
<1>5. Cardinality(hits) + k = n
  <2> HIDE DEF hits
  <2>1. /\ Cardinality(hits \cup Missed(ids))
             = Cardinality(hits) + k - Cardinality(hits \cap Missed(ids))
    BY <1>f, FS_Union
  <2>2. Cardinality(hits \cap Missed(ids)) = 0
    BY <1>s, FS_EmptySet
  <2>3. Cardinality(hits \cup Missed(ids)) = n
    BY <1>s, <1>d
  <2>4. k \in Nat /\ Cardinality(hits) \in Nat
    BY <1>l, <1>f
  <2> HIDE DEF k
  <2> QED
    BY <2>1, <2>2, <2>3, <2>4
<1> QED
  BY <1>1, <1>2, <1>3, <1>4, <1>5, <1>f, <1>l

(* The last answer is aligned, what the cache was made with is still in it *)
(* and the counters add up to at most the ids that may be asked for.       *)
FacadeInv ==
  /\ Facade!TypeOK /\ Facade!AnswersAligned
  /\ CachedIds \subseteq cache
  /\ Facade!Total(metrics) <= MaxAsked

(* What EachIdCountedOnce says of a step.                                  *)
Counted ==
  /\ metrics'.cache_hits = metrics.cache_hits + Facade!Asked(cache)
  /\ metrics'.db_hits = metrics.db_hits + Facade!Asked(RowIds \ cache)
  /\ Facade!Total(metrics') = Facade!Total(metrics) + Len(answer'.ids)

(* fetch_profiles preserves the invariant and counts every id once.        *)
LEMMA BatchStep ==
  ASSUME FacadeInv, NEW ids \in Facade!Batches, Facade!FetchProfiles(ids)
  PROVE  FacadeInv' /\ Counted
<1>1. PICK n \in 1..MaxBatch : ids \in [1..n -> ProfileIds]
  BY DEF Facade!Batches
<1>2. n \in Nat /\ ids \in Seq(ProfileIds) /\ Len(ids) = n /\ DOMAIN ids = 1..n
  BY <1>1, LookupsAssumption
<1>3. CachedIds \subseteq cache /\ cache \subseteq Known
  BY DEF FacadeInv, Facade!TypeOK, Known
<1> DEFINE h == Cardinality(Places(ids, cache))
           d == Cardinality(Places(ids, RowIds \ cache))
           k == Cardinality(Missed(ids))
           put == {Loaded(ids)[i] : i \in DOMAIN Loaded(ids)} \ {Nothing}
<1>4. /\ Facade!Total(metrics) + n <= MaxAsked
      /\ answer' = [ids |-> ids, results |-> Facade!Merge(Results(ids), Positions(ids), Loaded(ids))]
      /\ cache' = cache \cup put
      /\ metrics' = [cache_hits |-> metrics.cache_hits + Facade!Found(Results(ids)),
                     db_hits    |-> metrics.db_hits + Facade!Found(Loaded(ids)),
                     misses     |-> metrics.misses + Len(Loaded(ids)) - Facade!Found(Loaded(ids))]
  BY <1>2 DEF Facade!FetchProfiles, Results, Positions, Loaded
<1>5. /\ Facade!Found(Results(ids)) = h /\ Facade!Found(Loaded(ids)) = d
      /\ Len(Loaded(ids)) = k /\ h \in Nat /\ d \in Nat /\ k \in Nat
      /\ h + k = n /\ d <= k
  BY <1>1, <1>2, <1>3, Counts
<1>6. /\ answer'.ids = ids /\ answer'.results = Facade!FindMany(Known, ids)
      /\ \A p \in 1..n : ids[p] \in Known => ids[p] \in cache'
  BY <1>1, <1>2, <1>3, <1>4, Merges
<1>7. CachedIds \subseteq cache' /\ cache' \subseteq Known
  <2>1. Loaded(ids) \in [1..k -> RowIds \cup {Nothing}]
    BY <1>1, <1>2, <1>3, Loads
  <2>2. put \subseteq Known
    <3> HIDE DEF k
    <3> QED
      BY <2>1 DEF Known
  <2> QED
    BY <1>3, <1>4, <2>2
<1> HIDE DEF h, d, k, put
<1>8. /\ metrics.cache_hits \in Nat /\ metrics.db_hits \in Nat /\ metrics.misses \in Nat
      /\ MaxAsked \in Nat
      /\ Facade!Total(metrics) = metrics.cache_hits + metrics.db_hits + metrics.misses
  BY LookupsAssumption DEF FacadeInv, Facade!TypeOK, Facade!Total
<1>9. /\ metrics'.cache_hits = metrics.cache_hits + h
      /\ metrics'.db_hits = metrics.db_hits + d
      /\ metrics'.misses = metrics.misses + k - d
  BY <1>4, <1>5
<1>10. Facade!Total(metrics') = Facade!Total(metrics) + n
  <2>1. Facade!Total(metrics') = metrics'.cache_hits + metrics'.db_hits + metrics'.misses
    BY DEF Facade!Total
  <2>2. /\ n \in Nat /\ h \in Nat /\ d \in Nat /\ k \in Nat /\ h + k = n
        /\ metrics.cache_hits \in Nat /\ metrics.db_hits \in Nat /\ metrics.misses \in Nat
        /\ Facade!Total(metrics) = metrics.cache_hits + metrics.db_hits + metrics.misses
    BY <1>2, <1>5, <1>8
  <2>3. Facade!Total(metrics') = (metrics.cache_hits + h) + (metrics.db_hits + d)
                                    + (metrics.misses + k - d)
    BY <2>1, <1>9
  <2>4. PICK a \in Nat, b \in Nat, c \in Nat :
          a = metrics.cache_hits /\ b = metrics.db_hits /\ c = metrics.misses
    BY <2>2
  <2>5. /\ Facade!Total(metrics) = a + b + c
        /\ Facade!Total(metrics') = (a + h) + (b + d) + (c + k - d)
    BY <2>2, <2>3, <2>4
  <2>6. (a + h) + (b + d) + (c + k - d) = (a + b + c) + n
    BY <2>2
  <2> QED
    BY <2>5, <2>6
<1>11. Counted
  <2>1. Facade!Asked(cache) = h /\ Facade!Asked(RowIds \ cache) = d
    BY <1>6, SameCardinality DEF Facade!Asked, Places, h, d
  <2> QED
    BY <2>1, <1>2, <1>6, <1>9, <1>10 DEF Counted
<1>12. Facade!AnswersAligned'
  <2>1. answer'.results = Facade!FindMany(CachedIds \cup RowIds, answer'.ids)
    <3>1. Known = CachedIds \cup RowIds
      BY DEF Known
    <3> QED
      BY <1>6, <3>1
  <2>2. ASSUME NEW p \in 1..n PROVE answer'.results[p] \in cache' \cup {Nothing}
    BY <1>2, <1>6 DEF Facade!FindMany
  <2> QED
    BY <1>2, <1>6, <2>1, <2>2 DEF Facade!AnswersAligned
<1>13. Facade!Total(metrics') <= MaxAsked
  BY <1>4, <1>10
<1>14. Facade!TypeOK'
  <2>1. /\ metrics'.cache_hits \in 0..MaxAsked /\ metrics'.db_hits \in 0..MaxAsked
        /\ metrics'.misses \in 0..MaxAsked
    <3>1. metrics'.cache_hits \in Nat /\ metrics'.db_hits \in Nat
      BY <1>5, <1>8, <1>9
    <3>2. metrics.misses \in Nat /\ k \in Nat /\ d \in Nat /\ d <= k
          /\ metrics'.misses = metrics.misses + k - d
      BY <1>5, <1>8, <1>9
    <3>3. metrics'.misses \in Nat
      BY <3>2
    <3>4. metrics'.cache_hits + metrics'.db_hits + metrics'.misses <= MaxAsked
      BY <1>13 DEF Facade!Total
    <3>5. MaxAsked \in Nat
      BY <1>8
    <3> QED
      BY <3>1, <3>3, <3>4, <3>5
  <2>2. metrics' \in [cache_hits : 0..MaxAsked, db_hits : 0..MaxAsked, misses : 0..MaxAsked]
    <3>1. metrics' = [cache_hits |-> metrics'.cache_hits, db_hits |-> metrics'.db_hits,
                      misses |-> metrics'.misses]
      BY <1>4
    <3> QED
      BY <2>1, <3>1
  <2>3. answer'.results \in [DOMAIN answer'.ids -> ProfileIds \cup {Nothing}]
    BY <1>2, <1>6 DEF Facade!FindMany
  <2>4. answer'.ids \in Facade!Batches \cup {<<>>}
    BY <1>6
  <2>5. cache' \subseteq CachedIds \cup RowIds
    BY <1>7 DEF Known
  <2> QED
    BY <2>2, <2>3, <2>4, <2>5 DEF Facade!TypeOK, Facade!Batches
<1> QED
  BY <1>7, <1>11, <1>12, <1>13, <1>14 DEF FacadeInv

(* The invariant holds of every behaviour.                                 *)
LEMMA FacadeInvariant == Spec => []FacadeInv
<1>1. Init => FacadeInv
  <2> SUFFICES ASSUME Init PROVE FacadeInv
    OBVIOUS
  <2>1. /\ cache = CachedIds /\ metrics = [cache_hits |-> 0, db_hits |-> 0, misses |-> 0]
        /\ answer = [ids |-> <<>>, results |-> <<>>]
    BY DEF Init, Facade!Init
  <2>2. Facade!AnswersAligned
    BY <2>1 DEF Facade!AnswersAligned, Facade!FindMany
  <2>3. Facade!TypeOK
    BY <2>1, LookupsAssumption DEF Facade!TypeOK
  <2>4. Facade!Total(metrics) <= MaxAsked
    BY <2>1, LookupsAssumption DEF Facade!Total
  <2> QED
    BY <2>1, <2>2, <2>3, <2>4 DEF FacadeInv
<1>2. FacadeInv /\ [Next]_<<program, facade, repository, proxy, flyweight>> => FacadeInv'
  <2> SUFFICES ASSUME FacadeInv, [Next]_<<program, facade, repository, proxy, flyweight>>
               PROVE  FacadeInv'
    OBVIOUS
  <2>1. CASE UNCHANGED Facade!vars
    BY <2>1 DEF Facade!vars, FacadeInv, Facade!TypeOK, Facade!AnswersAligned
  <2>2. CASE Facade!Next
    BY <2>2, BatchStep DEF Facade!Next
  <2> QED
    BY <2>1, <2>2, ProgramStep
<1> QED
  BY <1>1, <1>2, PTL DEF Spec

(* fetch_profiles: the results are aligned with the ids of the batch,      *)
(* whichever of them the cache held, repeated or unknown.                  *)
THEOREM AlignsAnswers == Spec => []AnswersAligned
<1>1. FacadeInv => AnswersAligned
  BY DEF FacadeInv, AnswersAligned
<1> QED
  BY <1>1, FacadeInvariant, PTL

(* fetch_profiles: the metrics count each id of a batch once, by where its *)
(* profile was found.                                                      *)
THEOREM CountsIdsOnce == Spec => EachIdCountedOnce
<1>1. FacadeInv /\ [Next]_<<program, facade, repository, proxy, flyweight>>
        => [Counted]_(Facade!vars)
  BY ProgramStep, BatchStep DEF Facade!Next
<1> QED
  BY <1>1, FacadeInvariant, PTL
  DEF Spec, EachIdCountedOnce, Facade!EachIdCountedOnce, Counted

(* The caches, the counters and the shared objects keep their types.       *)
THEOREM TypeCorrect == Spec => []TypeOK
<1>1. FacadeInv => Facade!TypeOK
  BY DEF FacadeInv
<1>2. RepositoryInv => Repository!TypeOK
  BY DEF RepositoryInv, Repository!TypeOK, UserIds
<1>3. FlagInv => Proxy!TypeOK
  BY DEF FlagInv, Proxy!TypeOK, FlagNames
<1>4. RoleTypes /\ RoleInv => Factory!TypeOK
  <2> SUFFICES ASSUME RoleTypes, RoleInv PROVE Factory!TypeOK
    OBVIOUS
  <2>1. /\ DOMAIN users = 1..Len(users) /\ DOMAIN objects = 1..Len(objects)
        /\ \A i \in 1..Len(users) : users[i].asked \in RoleNames
    BY UsersAsked
  <2>2. \A role_name \in RoleNames : roles[role_name] \in DOMAIN objects \cup {Nothing}
    BY <2>1 DEF RoleInv
  <2>3. roles \in [RoleNames -> DOMAIN objects \cup {Nothing}]
    <3>1. roles \in [RoleNames -> Nat \cup {Nothing}]
      BY DEF RoleTypes
    <3> QED
      BY <2>2, <3>1
  <2>4. \A i \in DOMAIN users : users[i].role \in DOMAIN objects
    BY <2>1 DEF RoleInv
  <2> QED
    BY <2>1, <2>3, <2>4 DEF Factory!TypeOK, RoleNames
<1> QED
  BY <1>1, <1>2, <1>3, <1>4, FacadeInvariant, RepositoryInvariant, FlagInvariant,
     RoleInvariant, PTL DEF TypeOK
=============================================================================
