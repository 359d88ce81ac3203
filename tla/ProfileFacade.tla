--------------------------- MODULE ProfileFacade ---------------------------
(***************************************************************************)
(* UserProfileFacade of examples/facade/main.cpp with its cache, database  *)
(* and metrics.  A profile is known by its user_id; its name and tier are  *)
(* left out.                                                               *)
(***************************************************************************)
EXTENDS Integers, Sequences, FiniteSets

CONSTANTS
  UserIds,    \* the ids callers ask for
  Cached,     \* the users of the initial cache_
  Rows,       \* the users of the database's rows_
  NoProfile,  \* std::nullopt
  MaxBatch,   \* bound: the length of a batch
  MaxAsked    \* bound: the ids asked for in all

VARIABLES
  cache,    \* cache_: the users whose profile is cached
  metrics,  \* Metrics
  answer    \* the last batch and the results it got

vars == <<cache, metrics, answer>>

Batches == UNION {[1..n -> UserIds] : n \in 1..MaxBatch}

Init ==
  /\ cache = Cached
  /\ metrics = [cache_hits |-> 0, db_hits |-> 0, misses |-> 0]
  /\ answer = [ids |-> <<>>, results |-> <<>>]

(* A variant of FindMany with a plausible slip, which takes no part in the *)
(* specification; it serves to show that a property notices the slip.      *)
LeavingOutMisses(users, ids) == SelectSeq(ids, LAMBDA id : id \in users)

(* ProfileCache::get_many and ProfileDatabase::load_many: one answer for   *)
(* each id, in the order of the ids.                                       *)
FindMany(users, ids) == [i \in DOMAIN ids |-> IF ids[i] \in users THEN ids[i] ELSE NoProfile]

(* The positions of results without a profile, in increasing order.        *)
MissedPositions(results) ==
  LET missed == {i \in DOMAIN results : results[i] = NoProfile}
  IN  CHOOSE positions \in [1..Cardinality(missed) -> missed] :
        \A i, j \in DOMAIN positions : i < j => positions[i] < positions[j]

(* Variants with one plausible slip each, which take no part in the        *)
(* specification; they serve to show that a property notices the slip.     *)
MergeInLoadedOrder(results, missed_positions, loaded) ==
  [pos \in DOMAIN results |->
     IF pos \in DOMAIN loaded /\ loaded[pos] # NoProfile THEN loaded[pos] ELSE results[pos]]
CountEachUserOnce(results) == Cardinality({results[i] : i \in DOMAIN results} \ {NoProfile})

(* results with the loaded profiles put where their ids were missed.       *)
Merge(results, missed_positions, loaded) ==
  [pos \in DOMAIN results |->
     IF \E i \in DOMAIN loaded : missed_positions[i] = pos /\ loaded[i] # NoProfile
     THEN loaded[CHOOSE i \in DOMAIN loaded : missed_positions[i] = pos]
     ELSE results[pos]]

Found(results) == Cardinality({i \in DOMAIN results : results[i] # NoProfile})

Total(m) == m.cache_hits + m.db_hits + m.misses

(* fetch_profiles(user_ids), put_many included.                            *)
FetchProfiles(user_ids) ==
  LET results          == FindMany(cache, user_ids)
      missed_positions == MissedPositions(results)
      loaded           == FindMany(Rows, [i \in DOMAIN missed_positions |->
                                            user_ids[missed_positions[i]]])
  IN  /\ Total(metrics) + Len(user_ids) <= MaxAsked
      /\ answer' = [ids |-> user_ids, results |-> Merge(results, missed_positions, loaded)]
      /\ cache' = cache \cup ({loaded[i] : i \in DOMAIN loaded} \ {NoProfile})
      /\ metrics' = [cache_hits |-> metrics.cache_hits + Found(results),
                     db_hits    |-> metrics.db_hits + Found(loaded),
                     misses     |-> metrics.misses + Len(loaded) - Found(loaded)]

Next == \E user_ids \in Batches : FetchProfiles(user_ids)

Spec == Init /\ [][Next]_vars

-----------------------------------------------------------------------------
(* The cache holds known users only, and an answer is as long as its batch.*)
TypeOK ==
  /\ cache \subseteq Cached \cup Rows
  /\ metrics \in [cache_hits : 0..MaxAsked, db_hits : 0..MaxAsked, misses : 0..MaxAsked]
  /\ answer.ids \in Batches \cup {<<>>}
  /\ answer.results \in [DOMAIN answer.ids -> UserIds \cup {NoProfile}]

(* The results are aligned with the ids, whatever part of them came from   *)
(* the cache and whichever ids were repeated or unknown, and every profile *)
(* handed out has been cached.                                             *)
AnswersAligned ==
  /\ answer.results = FindMany(Cached \cup Rows, answer.ids)
  /\ \A i \in DOMAIN answer.ids : answer.results[i] \in cache \cup {NoProfile}

(* A batch counts each of its ids once: as a cache hit when the cache held *)
(* it before the batch, as a database hit when only the database has it,   *)
(* even the second time in the batch, and as a miss otherwise.             *)
Asked(users) == Cardinality({i \in DOMAIN answer'.ids : answer'.ids[i] \in users})

EachIdCountedOnce ==
  [][/\ metrics'.cache_hits = metrics.cache_hits + Asked(cache)
     /\ metrics'.db_hits = metrics.db_hits + Asked(Rows \ cache)
     /\ Total(metrics') = Total(metrics) + Len(answer'.ids)]_vars
=============================================================================
