------------------------------- MODULE Race -------------------------------
(***************************************************************************)
(* What a "first success" race promises, without the flag, the counter and *)
(* the lock: the result is settled once, with the value of some lookup     *)
(* that succeeded, or with the error of some lookup when all have failed.  *)
(* FirstSuccess is shown to implement this specification.                  *)
(***************************************************************************)
CONSTANTS Lookups, Unset

VARIABLES
  outcome,  \* "pending", "value" or "error", for each lookup
  result    \* Unset, or the outcome the caller gets and whose it is

vars == <<outcome, result>>

Init ==
  /\ outcome = [l \in Lookups |-> "pending"]
  /\ result = Unset

(* A lookup ends.                                                          *)
End(l) ==
  /\ outcome[l] = "pending"
  /\ \E o \in {"value", "error"} : outcome' = [outcome EXCEPT ![l] = o]
  /\ UNCHANGED result

(* Success needs one value, failure needs every lookup to have failed.     *)
Settle(l) ==
  /\ result = Unset
  /\ outcome[l] # "pending"
  /\ outcome[l] = "error" => \A k \in Lookups : outcome[k] = "error"
  /\ result' = <<outcome[l], l>>
  /\ UNCHANGED outcome

Next == \E l \in Lookups : End(l) \/ Settle(l)

SafeSpec == Init /\ [][Next]_vars

(* Every lookup ends, and a race that can be settled is.                   *)
Spec ==
  /\ SafeSpec
  /\ \A l \in Lookups : WF_vars(End(l))
  /\ WF_vars(\E l \in Lookups : Settle(l))
=============================================================================
