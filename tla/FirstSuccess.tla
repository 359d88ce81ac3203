---------------------------- MODULE FirstSuccess ----------------------------
(***************************************************************************)
(* FirstSuccess of examples/futures_promises/main.cpp, the lookup threads  *)
(* that run_lookup starts, and run_lookup_demo, which waits for the result *)
(* with a timeout and joins the threads.                                   *)
(*                                                                         *)
(* Each atomic operation, each critical section of mu and each call on the *)
(* promise is one action; a lookup's locals are its pc and err.            *)
(***************************************************************************)
EXTENDS Integers, FiniteSets

CONSTANTS
  Lookups,  \* the threads, n of them, that FirstSuccess(n) is built for
  Unset     \* no value, no error

ASSUME FirstSuccessAssumption ==
  /\ IsFiniteSet(Lookups)
  /\ Unset \notin Lookups
  /\ Unset \notin {"value", "error"} \X (Lookups \cup {Unset})

VARIABLES
  promise,    \* the promise's shared state: Unset, <<"value", l>> or
              \* <<"error", l>> for the value or the error of lookup l
  done,       \* the atomic flag done
  remaining,  \* the atomic counter remaining
  lastError,  \* last_error: the lookup whose error it is, or Unset
  pc,         \* where each lookup thread is
  outcome,    \* what fn() did in each thread: "pending", "value" or "error"
  err,        \* report_failure's local variable err
  caller      \* where run_lookup_demo is

vars == <<promise, done, remaining, lastError, pc, outcome, err, caller>>

shared == <<promise, done, remaining, lastError>>

(* A lookup thread is inside fn() ("looking"), about to claim the result   *)
(* with done.exchange after a value ("claiming") or after the last failure *)
(* ("claimingError"), about to set the promise ("setting"), to record its  *)
(* error ("recording"), to decrement remaining ("counting"), to read       *)
(* last_error ("collecting") or to set the exception ("delivering"), or    *)
(* returned.                                                               *)
Pc == {"looking", "claiming", "setting", "recording", "counting",
       "claimingError", "collecting", "delivering", "returned"}

CallerPc == {"waiting", "joining", "timedOut", "returned"}

Goto(l, label) == pc' = [pc EXCEPT ![l] = label]

(* Variants with one plausible slip each, which take no part in the        *)
(* specification; they serve to show that a property notices the slip.     *)
ClaimByTest(l, win, lose) ==
  /\ Goto(l, IF done THEN lose ELSE win)
  /\ UNCHANGED <<shared, outcome, err, caller>>
CountAtZero(l) ==
  /\ pc[l] = "counting"
  /\ remaining' = remaining - 1
  /\ Goto(l, IF remaining = 0 THEN "claimingError" ELSE "returned")
  /\ UNCHANGED <<promise, done, lastError, outcome, err, caller>>
CountBeforeRecording(l) ==
  /\ pc[l] = "looking"
  /\ outcome' = [outcome EXCEPT ![l] = "error"]
  /\ Goto(l, "counting")
  /\ UNCHANGED <<shared, err, caller>>
CountTwice(l) ==
  /\ pc[l] = "counting"
  /\ remaining' = remaining - 2
  /\ Goto(l, IF remaining <= 2 THEN "claimingError" ELSE "returned")
  /\ UNCHANGED <<promise, done, lastError, outcome, err, caller>>
CountTestsNewValue(l) ==
  /\ pc[l] = "counting"
  /\ remaining' = remaining - 1
  /\ Goto(l, IF remaining' = 1 THEN "claimingError" ELSE "returned")
  /\ UNCHANGED <<promise, done, lastError, outcome, err, caller>>

-----------------------------------------------------------------------------
Init ==
  /\ promise = Unset
  /\ done = FALSE
  /\ remaining = Cardinality(Lookups)
  /\ lastError = Unset
  /\ pc = [l \in Lookups |-> "looking"]
  /\ outcome = [l \in Lookups |-> "pending"]
  /\ err = [l \in Lookups |-> Unset]
  /\ caller = "waiting"

(* fn() returns a value, the argument of try_set_value.                    *)
FnReturns(l) ==
  /\ pc[l] = "looking"
  /\ outcome' = [outcome EXCEPT ![l] = "value"]
  /\ Goto(l, "claiming")
  /\ UNCHANGED <<shared, err, caller>>

(* fn() throws; run_lookup catches and calls report_failure.               *)
FnThrows(l) ==
  /\ pc[l] = "looking"
  /\ outcome' = [outcome EXCEPT ![l] = "error"]
  /\ Goto(l, "recording")
  /\ UNCHANGED <<shared, err, caller>>

(* done.exchange(true): the one thread that finds FALSE goes on to win.    *)
Exchange(l, win, lose) ==
  /\ done' = TRUE
  /\ Goto(l, IF done THEN lose ELSE win)
  /\ UNCHANGED <<promise, remaining, lastError, outcome, err, caller>>

(* try_set_value                                                           *)
ClaimValue(l) == pc[l] = "claiming" /\ Exchange(l, "setting", "returned")

(* promise.set_value, which would throw were the promise already set.      *)
SetValue(l) ==
  /\ pc[l] = "setting"
  /\ promise' = <<"value", l>>
  /\ Goto(l, "returned")
  /\ UNCHANGED <<done, remaining, lastError, outcome, err, caller>>

(* report_failure: the critical section that records the error.            *)
RecordError(l) ==
  /\ pc[l] = "recording"
  /\ lastError' = l
  /\ Goto(l, "counting")
  /\ UNCHANGED <<promise, done, remaining, outcome, err, caller>>

(* report_failure: remaining.fetch_sub(1) == 1.                            *)
CountFailure(l) ==
  /\ pc[l] = "counting"
  /\ remaining' = remaining - 1
  /\ Goto(l, IF remaining = 1 THEN "claimingError" ELSE "returned")
  /\ UNCHANGED <<promise, done, lastError, outcome, err, caller>>

(* report_failure: done.exchange(true).                                    *)
ClaimError(l) == pc[l] = "claimingError" /\ Exchange(l, "collecting", "returned")

(* report_failure: the critical section that reads last_error.             *)
CollectError(l) ==
  /\ pc[l] = "collecting"
  /\ err' = [err EXCEPT ![l] = lastError]
  /\ Goto(l, "delivering")
  /\ UNCHANGED <<shared, outcome, caller>>

(* promise.set_exception                                                   *)
SetException(l) ==
  /\ pc[l] = "delivering"
  /\ promise' = <<"error", err[l]>>
  /\ Goto(l, "returned")
  /\ UNCHANGED <<done, remaining, lastError, outcome, err, caller>>

Lookup(l) ==
  \/ FnReturns(l) \/ FnThrows(l)
  \/ ClaimValue(l) \/ SetValue(l)
  \/ RecordError(l) \/ CountFailure(l)
  \/ ClaimError(l) \/ CollectError(l) \/ SetException(l)

(***************************************************************************)
(* run_lookup_demo, after it has started the threads                       *)
(***************************************************************************)

(* wait_for finds the future ready, and get returns or throws.             *)
CallerGets ==
  /\ caller = "waiting"
  /\ promise # Unset
  /\ caller' = "joining"
  /\ UNCHANGED <<shared, pc, outcome, err>>

(* wait_for gives up; how long the lookups take is not bounded.            *)
CallerTimesOut ==
  /\ caller = "waiting"
  /\ promise = Unset
  /\ caller' = "timedOut"
  /\ UNCHANGED <<shared, pc, outcome, err>>

(* The threads have been joined, whether the result was in time or not.    *)
CallerJoins ==
  /\ caller \in {"joining", "timedOut"}
  /\ \A l \in Lookups : pc[l] = "returned"
  /\ caller' = "returned"
  /\ UNCHANGED <<shared, pc, outcome, err>>

Caller == CallerGets \/ CallerTimesOut \/ CallerJoins

-----------------------------------------------------------------------------
Next == (\E l \in Lookups : Lookup(l)) \/ Caller

SafeSpec == Init /\ [][Next]_vars

(* Every thread keeps being scheduled and every fn() ends.                 *)
Spec == SafeSpec /\ WF_vars(Caller) /\ \A l \in Lookups : WF_vars(Lookup(l))

-----------------------------------------------------------------------------
(***************************************************************************)
(* Properties                                                              *)
(***************************************************************************)

(* The lookups that have not counted as a failure, and may not.            *)
NotCounted ==
  {l \in Lookups : pc[l] \in {"looking", "recording", "counting"} \/ outcome[l] = "value"}

(* Where a lookup is tells how its fn() ended, and that its error has been *)
(* recorded before it is counted.                                          *)
Paths ==
  \A l \in Lookups :
    /\ pc[l] = "looking" <=> outcome[l] = "pending"
    /\ pc[l] \in {"claiming", "setting"} => outcome[l] = "value"
    /\ pc[l] \in {"recording", "counting", "claimingError", "collecting", "delivering"}
         => outcome[l] = "error"
    /\ outcome[l] = "error" /\ pc[l] # "recording" => lastError \in Lookups
    /\ pc[l] = "delivering" => err[l] \in Lookups

(* The members of FirstSuccess and the locals of its threads keep their    *)
(* types; only failures count down, one each, so remaining is the number   *)
(* of lookups that have not failed; and try_set_value is reached by values *)
(* only, report_failure by errors only.                                    *)
TypeOK ==
  /\ promise \in {Unset} \cup ({"value", "error"} \X Lookups)
  /\ done \in BOOLEAN
  /\ remaining = Cardinality(NotCounted)
  /\ lastError \in Lookups \cup {Unset}
  /\ pc \in [Lookups -> Pc]
  /\ outcome \in [Lookups -> {"pending", "value", "error"}]
  /\ err \in [Lookups -> Lookups \cup {Unset}]
  /\ caller \in CallerPc
  /\ Paths

(* done.exchange elects one thread: from then on either that thread is on  *)
(* its way to the promise or the promise is set, so set_value and          *)
(* set_exception together are called at most once and never throw.         *)
Claimants == {l \in Lookups : pc[l] \in {"setting", "collecting", "delivering"}}

OneClaim ==
  /\ ~done => Claimants = {} /\ promise = Unset
  /\ done => IF promise = Unset THEN \E l \in Lookups : Claimants = {l}
                                ELSE Claimants = {}

(* The caller gets an error only when every lookup has failed, and the     *)
(* error is the last one recorded: the fallback error for a missing        *)
(* last_error is never needed.                                             *)
ErrorMeansAllFailed ==
  \A l \in Lookups \cup {Unset} :
    promise = <<"error", l>> =>
      /\ \A k \in Lookups : outcome[k] = "error"
      /\ l \in Lookups
      /\ l = lastError

(* A caller that timed out and then joined the threads has a ready future: *)
(* a race whose threads have all returned has been settled.                *)
SettledWhenAllReturned ==
  Lookups # {} /\ (\A l \in Lookups : pc[l] = "returned") => promise # Unset

(* To the caller FirstSuccess is a race: with the flag, the counter, the   *)
(* lock and the threads' positions hidden, every step is a step of Race,   *)
(* and a race that can be settled is settled.                              *)
R == INSTANCE Race WITH result <- promise

ImplementsRace == R!Spec
=============================================================================
