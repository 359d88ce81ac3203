------------------------------ MODULE Routing ------------------------------
(***************************************************************************)
(* RequestRouter with the two strategies of examples/strategy/main.cpp.    *)
(* Backends are numbered from 0, as in their vector, which is not empty:   *)
(* of no backends neither strategy can choose one (a division by zero, the *)
(* end of the vector dereferenced).  Work is a load, so not negative; the  *)
(* int is added as it is.                                                  *)
(***************************************************************************)
EXTENDS Integers, FiniteSetsExt

CONSTANTS
  N,         \* the number of backends, at least one
  NextMod,   \* the values of next_, modulo which it is incremented
  MaxWork,   \* bound: the simulated work of a request
  Requests   \* bound: the number of requests

VARIABLES
  strategy,   \* the router's strategy_
  in_flight,  \* in_flight of each backend
  next,       \* next_, zero and unused with least_loaded
  chosen,     \* how often each backend has been chosen
  handled     \* the number of requests handled

vars == <<strategy, in_flight, next, chosen, handled>>

Backends == 0..N - 1

(* make_backends                                                           *)
Initial == [b \in Backends |-> CASE b = 0 -> 2 [] b = 1 -> 5 [] OTHER -> 1]

Init ==
  /\ strategy \in {"round_robin", "least_loaded"}
  /\ in_flight = Initial
  /\ next = 0
  /\ chosen = [b \in Backends |-> 0]
  /\ handled = 0

(* min_element: the first of the least loaded backends.                    *)
LeastLoaded == Min({b \in Backends : \A c \in Backends : in_flight[b] <= in_flight[c]})

(* Variants with one plausible slip each, which take no part in the        *)
(* specification; they serve to show that a property notices the slip.     *)
SkippingTheLast == next % (N - 1)

RoundRobin == next % N

(* choose_backend                                                          *)
ChooseBackend == IF strategy = "round_robin" THEN RoundRobin ELSE LeastLoaded

(* handle_request(request_id, simulated_work)                              *)
HandleRequest(work) ==
  LET backend == ChooseBackend
  IN  /\ in_flight' = [in_flight EXCEPT ![backend] = @ + work]
      /\ chosen' = [chosen EXCEPT ![backend] = @ + 1]
      /\ next' = IF strategy = "round_robin" THEN (next + 1) % NextMod ELSE next
      /\ handled' = handled + 1
      /\ UNCHANGED strategy

Next == handled < Requests /\ \E work \in 0..MaxWork : HandleRequest(work)

Spec == Init /\ [][Next]_vars

-----------------------------------------------------------------------------
(* The counters are natural numbers.                                       *)
TypeOK ==
  /\ strategy \in {"round_robin", "least_loaded"}
  /\ in_flight \in [Backends -> Nat] /\ chosen \in [Backends -> 0..Requests]
  /\ next \in 0..NextMod - 1
  /\ handled \in 0..Requests

(* Requests are balanced.  Round robin chooses each backend as often as    *)
(* any other, up to one request, and one more for each time that next_ has *)
(* wrapped, NextMod being no multiple of N.  With the least loaded backend *)
(* the loads draw together: whatever the work of the requests, they differ *)
(* by no more than at the start or by one request.                         *)
Balanced ==
  /\ strategy = "round_robin" =>
       \A b, c \in Backends : chosen[b] - chosen[c] <= 1 + handled \div NextMod
  /\ strategy = "least_loaded" =>
       \A b, c \in Backends :
         \/ in_flight[b] - in_flight[c] <= MaxWork
         \/ \E d, e \in Backends : in_flight[b] - in_flight[c] <= Initial[d] - Initial[e]
=============================================================================
