------------------------- MODULE FirstSuccessProofs -------------------------
(***************************************************************************)
(* Theorems about FirstSuccess, for every finite set of lookups.           *)
(***************************************************************************)
EXTENDS FirstSuccess, FiniteSetTheorems, TLAPS

(* What is left of a finite set when an element is taken out, in numbers.  *)
LEMMA OneLess ==
  ASSUME NEW S, NEW x \in S, IsFiniteSet(S)
  PROVE  /\ Cardinality(S) \in Nat
         /\ Cardinality(S \ {x}) = Cardinality(S) - 1
         /\ Cardinality(S) = 1 <=> S = {x}
<1>1. Cardinality(S) \in Nat /\ IsFiniteSet(S \ {x})
  BY FS_CardinalityType, FS_RemoveElement
<1>2. Cardinality(S \ {x}) = Cardinality(S) - 1
  BY FS_RemoveElement
<1>3. Cardinality(S \ {x}) = 0 <=> S \ {x} = {}
  BY <1>1, FS_EmptySet
<1> QED
  BY <1>1, <1>2, <1>3

(* The steps of the lookups that do not count a failure leave NotCounted   *)
(* as it is; the one that does removes its lookup.                         *)
LEMMA NotCountedStep ==
  ASSUME TypeOK, [Next]_vars
  PROVE  \/ NotCounted' = NotCounted /\ remaining' = remaining
         \/ \E l \in Lookups :
              /\ CountFailure(l)
              /\ l \in NotCounted
              /\ NotCounted' = NotCounted \ {l}
<1>1. ASSUME NEW l \in Lookups, Lookup(l), ~CountFailure(l)
      PROVE  NotCounted' = NotCounted /\ remaining' = remaining
  BY <1>1 DEF Lookup, FnReturns, FnThrows, ClaimValue, SetValue, RecordError, ClaimError,
              CollectError, SetException, Exchange, Goto, shared, NotCounted, TypeOK, Paths
<1>2. ASSUME NEW l \in Lookups, CountFailure(l)
      PROVE  l \in NotCounted /\ NotCounted' = NotCounted \ {l}
  BY <1>2 DEF CountFailure, Goto, NotCounted, TypeOK, Paths
<1>3. ASSUME Caller \/ UNCHANGED vars
      PROVE  NotCounted' = NotCounted /\ remaining' = remaining
  BY <1>3 DEF Caller, CallerGets, CallerTimesOut, CallerJoins, vars, shared, NotCounted
<1> QED
  BY <1>1, <1>2, <1>3 DEF Next

(* The members of FirstSuccess keep their types, and remaining counts the  *)
(* lookups that have not failed.                                           *)
THEOREM TypeCorrect == SafeSpec => []TypeOK
<1>1. Init => TypeOK
  <2> SUFFICES ASSUME Init PROVE TypeOK
    OBVIOUS
  <2>1. NotCounted = Lookups
    BY DEF Init, NotCounted
  <2> QED
    BY <2>1 DEF Init, TypeOK, Paths, Pc, CallerPc
<1>2. TypeOK /\ [Next]_vars => TypeOK'
  <2> SUFFICES ASSUME TypeOK, [Next]_vars PROVE TypeOK'
    OBVIOUS
  <2>1. remaining' = Cardinality(NotCounted)'
    <3>1. CASE NotCounted' = NotCounted /\ remaining' = remaining
      BY <3>1 DEF TypeOK
    <3>2. ASSUME NEW l \in Lookups, CountFailure(l), l \in NotCounted,
                 NotCounted' = NotCounted \ {l}
          PROVE  remaining' = Cardinality(NotCounted)'
      <4>1. IsFiniteSet(NotCounted)
        BY FirstSuccessAssumption, FS_Subset DEF NotCounted
      <4>2. Cardinality(NotCounted \ {l}) = Cardinality(NotCounted) - 1
        BY <3>2, <4>1, OneLess
      <4> QED
        BY <3>2, <4>2 DEF CountFailure, TypeOK
    <3> QED
      BY <3>1, <3>2, NotCountedStep
  <2>2. ASSUME NEW l \in Lookups, Lookup(l) PROVE TypeOK'
    <3> USE DEF Goto, shared
    <3>1. CASE FnReturns(l) \/ FnThrows(l)
      BY <2>1, <3>1 DEF FnReturns, FnThrows, TypeOK, Paths, Pc
    <3>2. CASE ClaimValue(l)
      <4>1. PICK to \in {"setting", "returned"} : pc' = [pc EXCEPT ![l] = to]
        BY <3>2 DEF ClaimValue, Exchange
      <4> QED
        BY <2>1, <3>2, <4>1 DEF ClaimValue, Exchange, TypeOK, Paths, Pc
    <3>3. CASE ClaimError(l)
      <4>1. PICK to \in {"collecting", "returned"} : pc' = [pc EXCEPT ![l] = to]
        BY <3>3 DEF ClaimError, Exchange
      <4> QED
        BY <2>1, <3>3, <4>1 DEF ClaimError, Exchange, TypeOK, Paths, Pc
    <3>4. CASE SetValue(l)
      BY <2>1, <3>4 DEF SetValue, TypeOK, Paths, Pc
    <3>5. CASE RecordError(l)
      BY <2>1, <3>5 DEF RecordError, TypeOK, Paths, Pc
    <3>6. CASE CountFailure(l)
      BY <2>1, <3>6 DEF CountFailure, TypeOK, Paths, Pc
    <3>7. CASE CollectError(l)
      BY <2>1, <3>7 DEF CollectError, TypeOK, Paths, Pc
    <3>8. CASE SetException(l)
      BY <2>1, <3>8 DEF SetException, TypeOK, Paths, Pc
    <3> QED
      BY <2>2, <3>1, <3>2, <3>3, <3>4, <3>5, <3>6, <3>7, <3>8 DEF Lookup
  <2>3. CASE Caller
    BY <2>1, <2>3 DEF Caller, CallerGets, CallerTimesOut, CallerJoins, shared, TypeOK, Paths, CallerPc
  <2>4. CASE UNCHANGED vars
    BY <2>1, <2>4 DEF vars, TypeOK, Paths
  <2> QED
    BY <2>2, <2>3, <2>4 DEF Next
<1> QED
  BY <1>1, <1>2, PTL DEF SafeSpec

-----------------------------------------------------------------------------
(***************************************************************************)
(* The promise is claimed once                                             *)
(***************************************************************************)

(* done.exchange elects one thread, which satisfies the promise once.      *)
THEOREM ClaimedOnce == SafeSpec => []OneClaim
<1>1. Init => OneClaim
  BY DEF Init, OneClaim, Claimants
<1>2. TypeOK /\ OneClaim /\ [Next]_vars => OneClaim'
  <2> SUFFICES ASSUME TypeOK, OneClaim, [Next]_vars PROVE OneClaim'
    OBVIOUS
  <2>t. /\ pc \in [Lookups -> Pc]
        /\ done \in BOOLEAN
        /\ Unset \notin {"value", "error"} \X Lookups
    BY FirstSuccessAssumption DEF TypeOK
  <2>1. ASSUME NEW l \in Lookups, Lookup(l) PROVE OneClaim'
    <3>1. CASE FnReturns(l) \/ FnThrows(l) \/ RecordError(l) \/ CountFailure(l)
      <4>1. Claimants' = Claimants /\ done' = done /\ promise' = promise
        BY <3>1, <2>t
        DEF FnReturns, FnThrows, RecordError, CountFailure, Goto, shared, Claimants
      <4> QED
        BY <4>1 DEF OneClaim
    <3>2. CASE ClaimValue(l) \/ ClaimError(l)
      <4>1. done' /\ promise' = promise
        BY <3>2 DEF ClaimValue, ClaimError, Exchange
      <4>2. CASE done
        <5>1. Claimants' = Claimants
          BY <3>2, <4>2, <2>t DEF ClaimValue, ClaimError, Exchange, Goto, Claimants
        <5> QED
          BY <4>1, <4>2, <5>1 DEF OneClaim
      <4>3. CASE ~done
        <5>1. Claimants' = Claimants \cup {l}
          BY <3>2, <4>3, <2>t DEF ClaimValue, ClaimError, Exchange, Goto, Claimants
        <5> QED
          BY <4>1, <4>3, <5>1 DEF OneClaim
      <4> QED
        BY <4>2, <4>3
    <3>3. CASE SetValue(l) \/ SetException(l)
      <4>1. Claimants = {l} /\ done
        BY <3>3, <2>t DEF SetValue, SetException, OneClaim, Claimants
      <4>2. Claimants' = Claimants \ {l}
        BY <3>3, <2>t DEF SetValue, SetException, Goto, Claimants
      <4>3. promise' # Unset /\ done' = done
        BY <3>3, <2>t DEF SetValue, SetException, TypeOK, Paths
      <4> QED
        BY <4>1, <4>2, <4>3 DEF OneClaim
    <3>4. CASE CollectError(l)
      <4>1. Claimants' = Claimants /\ done' = done /\ promise' = promise
        BY <3>4, <2>t DEF CollectError, Goto, shared, Claimants
      <4> QED
        BY <4>1 DEF OneClaim
    <3> QED
      BY <2>1, <3>1, <3>2, <3>3, <3>4 DEF Lookup
  <2>2. CASE Caller
    BY <2>2 DEF Caller, CallerGets, CallerTimesOut, CallerJoins, shared, OneClaim, Claimants
  <2>3. CASE UNCHANGED vars
    BY <2>3 DEF vars, OneClaim, Claimants
  <2> QED
    BY <2>1, <2>2, <2>3 DEF Next
<1> QED
  BY <1>1, <1>2, TypeCorrect, PTL DEF SafeSpec

-----------------------------------------------------------------------------
(***************************************************************************)
(* An error means that every lookup has failed                             *)
(***************************************************************************)

(* The strengthening: a thread that reports an error has seen remaining    *)
(* reach zero, after which nothing is recorded and last_error is final.    *)
AllCounted == NotCounted = {}

ErrorPath ==
  /\ \A l \in Lookups :
       /\ pc[l] \in {"claimingError", "collecting", "delivering"} => AllCounted
       /\ pc[l] = "delivering" => err[l] = lastError
  /\ \A x \in Lookups \cup {Unset} :
       promise = <<"error", x>> => AllCounted /\ x = lastError /\ x \in Lookups

(* All lookups have failed and recorded once all have counted.             *)
LEMMA AllCountedMeans ==
  ASSUME TypeOK, AllCounted, NEW l \in Lookups
  PROVE  outcome[l] = "error" /\ pc[l] \notin {"looking", "recording", "counting"}
BY DEF TypeOK, Paths, AllCounted, NotCounted

(* Counting to the end is never undone.                                    *)
LEMMA AllCountedStays ==
  ASSUME TypeOK, [Next]_vars, AllCounted
  PROVE  AllCounted'
BY NotCountedStep DEF AllCounted

(* On the way to set_exception all failures are counted, and what is       *)
(* delivered is the final last_error.                                      *)
LEMMA ErrorPathInvariant == SafeSpec => []ErrorPath
<1>1. Init => ErrorPath
  BY FirstSuccessAssumption DEF Init, ErrorPath
<1>2. TypeOK /\ ErrorPath /\ [Next]_vars => ErrorPath'
  <2> SUFFICES ASSUME TypeOK, ErrorPath, [Next]_vars PROVE ErrorPath'
    OBVIOUS
  <2>t. pc \in [Lookups -> Pc] /\ err \in [Lookups -> Lookups \cup {Unset}]
    BY DEF TypeOK
  <2>a. AllCounted => AllCounted'
    BY AllCountedStays
  <2>1. ASSUME NEW l \in Lookups, Lookup(l) PROVE ErrorPath'
    <3>1. CASE FnReturns(l) \/ FnThrows(l) \/ ClaimValue(l) \/ SetValue(l)
      BY <3>1, <2>t, <2>a
      DEF FnReturns, FnThrows, ClaimValue, SetValue, Exchange, Goto, shared, ErrorPath
    <3>2. CASE RecordError(l)
      <4>1. ~AllCounted
        BY <3>2, AllCountedMeans DEF RecordError
      <4> QED
        BY <3>2, <4>1, <2>t DEF RecordError, Goto, ErrorPath
    <3>3. CASE CountFailure(l)
      <4>1. l \in NotCounted /\ NotCounted' = NotCounted \ {l}
        BY <3>3 DEF CountFailure, Goto, NotCounted, TypeOK, Paths
      <4>2. IsFiniteSet(NotCounted)
        BY FirstSuccessAssumption, FS_Subset DEF NotCounted
      <4>3. remaining = 1 => AllCounted'
        BY <4>1, <4>2, OneLess DEF TypeOK, AllCounted
      <4> QED
        BY <3>3, <4>3, <2>t, <2>a DEF CountFailure, Goto, ErrorPath
    <3>4. CASE ClaimError(l)
      BY <3>4, <2>t, <2>a DEF ClaimError, Exchange, Goto, ErrorPath
    <3>5. CASE CollectError(l)
      BY <3>5, <2>t, <2>a DEF CollectError, Goto, shared, ErrorPath
    <3>6. CASE SetException(l)
      <4>1. AllCounted' /\ err[l] = lastError /\ err[l] \in Lookups
        BY <3>6, <2>a DEF SetException, ErrorPath, TypeOK, Paths
      <4> QED
        BY <3>6, <4>1, <2>t, <2>a DEF SetException, Goto, ErrorPath
    <3> QED
      BY <2>1, <3>1, <3>2, <3>3, <3>4, <3>5, <3>6 DEF Lookup
  <2>2. CASE Caller
    BY <2>2, <2>a DEF Caller, CallerGets, CallerTimesOut, CallerJoins, shared, ErrorPath
  <2>3. CASE UNCHANGED vars
    BY <2>3, <2>a DEF vars, ErrorPath
  <2> QED
    BY <2>1, <2>2, <2>3 DEF Next
<1> QED
  BY <1>1, <1>2, TypeCorrect, PTL DEF SafeSpec

(* The promise holds an error only when every lookup has failed, and then  *)
(* it is the error recorded last.                                          *)
THEOREM ErrorOnlyWhenAllFailed == SafeSpec => []ErrorMeansAllFailed
<1>1. TypeOK /\ ErrorPath => ErrorMeansAllFailed
  BY AllCountedMeans DEF ErrorPath, ErrorMeansAllFailed
<1> QED
  BY <1>1, TypeCorrect, ErrorPathInvariant, PTL

-----------------------------------------------------------------------------
(***************************************************************************)
(* The race is settled when the threads have returned                      *)
(***************************************************************************)

(* The strengthening: whoever returned from try_set_value has left done    *)
(* set, and once all failures are counted done is set or the thread that   *)
(* counted the last one is about to set it.                                *)
SomeoneClaims ==
  /\ \A l \in Lookups : pc[l] = "returned" /\ outcome[l] = "value" => done
  /\ Lookups # {} /\ AllCounted /\ ~done => \E l \in Lookups : pc[l] = "claimingError"

(* No thread returns without the result being claimed by it or by another. *)
LEMMA SomeoneClaimsInvariant == SafeSpec => []SomeoneClaims
<1>1. Init => SomeoneClaims
  BY DEF Init, SomeoneClaims, AllCounted, NotCounted
<1>2. TypeOK /\ OneClaim /\ SomeoneClaims /\ [Next]_vars => SomeoneClaims'
  <2> SUFFICES ASSUME TypeOK, OneClaim, SomeoneClaims, [Next]_vars PROVE SomeoneClaims'
    OBVIOUS
  <2>t. pc \in [Lookups -> Pc] /\ outcome \in [Lookups -> {"pending", "value", "error"}]
    BY DEF TypeOK
  <2>1. ASSUME NEW l \in Lookups, Lookup(l) PROVE SomeoneClaims'
    <3>1. CASE CountFailure(l)
      <4>1. l \in NotCounted /\ NotCounted' = NotCounted \ {l} /\ outcome[l] = "error"
        BY <3>1 DEF CountFailure, Goto, NotCounted, TypeOK, Paths
      <4>2. IsFiniteSet(NotCounted)
        BY FirstSuccessAssumption, FS_Subset DEF NotCounted
      <4>3. SUFFICES ASSUME AllCounted', Lookups # {}, ~done
                     PROVE  remaining = 1
        BY <3>1, <4>1, <2>t DEF CountFailure, Goto, SomeoneClaims
      <4>4. Cardinality(NotCounted \ {l}) = 0
        <5>1. NotCounted \ {l} = {}
          BY <4>1, <4>3 DEF AllCounted
        <5> QED
          BY <5>1, FS_EmptySet
      <4> QED
        BY <4>1, <4>2, <4>4, OneLess DEF TypeOK
    <3>2. CASE ClaimValue(l) \/ ClaimError(l)
      BY <3>2 DEF ClaimValue, ClaimError, Exchange, SomeoneClaims
    <3>3. ASSUME ~CountFailure(l), ~ClaimValue(l), ~ClaimError(l)
          PROVE  SomeoneClaims'
      <4>1. AllCounted' = AllCounted /\ done' = done
        BY <2>1, <3>3
        DEF Lookup, FnReturns, FnThrows, SetValue, RecordError, CollectError, SetException,
            Goto, shared, AllCounted, NotCounted, TypeOK, Paths
      <4>2. pc[l] = "setting" => done
        BY DEF OneClaim, Claimants
      <4>3. pc[l] # "claimingError" /\ (pc'[l] = "returned" => pc[l] \in {"setting", "delivering"})
        BY <2>1, <3>3, <2>t
        DEF Lookup, FnReturns, FnThrows, SetValue, RecordError, CollectError, SetException, Goto
      <4>4. \A k \in Lookups \ {l} : pc'[k] = pc[k] /\ outcome'[k] = outcome[k]
        BY <2>1, <3>3, <2>t
        DEF Lookup, FnReturns, FnThrows, SetValue, RecordError, CollectError, SetException, Goto
      <4>5. pc[l] # "looking" => outcome' = outcome
        BY <2>1, <3>3
        DEF Lookup, FnReturns, FnThrows, SetValue, RecordError, CollectError, SetException
      <4>6. pc[l] = "delivering" => outcome[l] = "error"
        BY DEF TypeOK, Paths
      <4> QED
        BY <4>1, <4>2, <4>3, <4>4, <4>5, <4>6 DEF SomeoneClaims
    <3> QED
      BY <3>1, <3>2, <3>3
  <2>2. CASE Caller
    BY <2>2 DEF Caller, CallerGets, CallerTimesOut, CallerJoins, shared, SomeoneClaims,
                AllCounted, NotCounted
  <2>3. CASE UNCHANGED vars
    BY <2>3 DEF vars, SomeoneClaims, AllCounted, NotCounted
  <2> QED
    BY <2>1, <2>2, <2>3 DEF Next
<1> QED
  BY <1>1, <1>2, TypeCorrect, ClaimedOnce, PTL DEF SafeSpec

(* When every thread has returned, as after the joins, the promise is set, *)
(* whether the caller was still waiting for it or had given up.            *)
THEOREM SettledAfterJoins == SafeSpec => []SettledWhenAllReturned
<1>1. TypeOK /\ OneClaim /\ SomeoneClaims => SettledWhenAllReturned
  <2> SUFFICES ASSUME TypeOK, OneClaim, SomeoneClaims, Lookups # {},
                      \A l \in Lookups : pc[l] = "returned"
               PROVE  promise # Unset
    BY DEF SettledWhenAllReturned
  <2>1. Claimants = {}
    BY DEF Claimants
  <2>2. done
    <3>1. CASE \E l \in Lookups : outcome[l] = "value"
      BY <3>1 DEF SomeoneClaims
    <3>2. CASE \A l \in Lookups : outcome[l] # "value"
      BY <3>2 DEF SomeoneClaims, AllCounted, NotCounted
    <3> QED
      BY <3>1, <3>2
  <2> QED
    BY <2>1, <2>2 DEF OneClaim
<1> QED
  BY <1>1, TypeCorrect, ClaimedOnce, SomeoneClaimsInvariant, PTL

-----------------------------------------------------------------------------
(***************************************************************************)
(* The implementation of the race                                          *)
(***************************************************************************)

(* Every behaviour of FirstSuccess is, to its caller, a behaviour of Race: *)
(* fn() ending is End, setting the promise is Settle, and the flag, the    *)
(* counter and the recorded error are invisible.                           *)
THEOREM RaceRefinement == SafeSpec => R!SafeSpec
<1>1. Init => R!Init
  BY DEF Init, R!Init
<1>2. TypeOK /\ OneClaim /\ ErrorPath /\ [Next]_vars => [R!Next]_(R!vars)
  <2> SUFFICES ASSUME TypeOK, OneClaim, ErrorPath, [Next]_vars
               PROVE  [R!Next]_(R!vars)
    OBVIOUS
  <2>1. ASSUME NEW l \in Lookups, Lookup(l) PROVE [R!Next]_(R!vars)
    <3>1. CASE FnReturns(l) \/ FnThrows(l)
      <4>1. R!End(l)
        BY <3>1 DEF FnReturns, FnThrows, shared, TypeOK, Paths, R!End
      <4> QED
        BY <4>1 DEF R!Next
    <3>2. CASE SetValue(l)
      <4>1. promise = Unset /\ outcome[l] = "value"
        BY <3>2 DEF SetValue, OneClaim, Claimants, TypeOK, Paths
      <4>2. R!Settle(l)
        BY <3>2, <4>1 DEF SetValue, R!Settle
      <4> QED
        BY <4>2 DEF R!Next
    <3>3. CASE SetException(l)
      <4>1. promise = Unset /\ err[l] \in Lookups /\ AllCounted
        BY <3>3 DEF SetException, OneClaim, Claimants, TypeOK, Paths, ErrorPath
      <4>2. R!Settle(err[l])
        BY <3>3, <4>1, AllCountedMeans DEF SetException, R!Settle
      <4> QED
        BY <4>1, <4>2 DEF R!Next
    <3>4. CASE ClaimValue(l) \/ RecordError(l) \/ CountFailure(l) \/ ClaimError(l) \/ CollectError(l)
      BY <3>4
      DEF ClaimValue, RecordError, CountFailure, ClaimError, CollectError, Exchange, shared, R!vars
    <3> QED
      BY <2>1, <3>1, <3>2, <3>3, <3>4 DEF Lookup
  <2>2. CASE Caller
    BY <2>2 DEF Caller, CallerGets, CallerTimesOut, CallerJoins, shared, R!vars
  <2>3. CASE UNCHANGED vars
    BY <2>3 DEF vars, R!vars
  <2> QED
    BY <2>1, <2>2, <2>3 DEF Next
<1> QED
  BY <1>1, <1>2, TypeCorrect, ClaimedOnce, ErrorPathInvariant, PTL DEF SafeSpec, R!SafeSpec
=============================================================================
