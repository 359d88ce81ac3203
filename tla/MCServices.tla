----------------------------- MODULE MCServices -----------------------------
(***************************************************************************)
(* Instances of the client-side programs, for TLC.  The programs have      *)
(* nothing in common; a behaviour is one of one of them.                   *)
(***************************************************************************)
EXTENDS Integers

CONSTANTS
  MaxEvents, MaxTokens,
  Cmds, MaxAttempts, MaxApplied,
  N, NextMod, MaxWork, Requests,
  Chars, MaxLength, IntBytes, IntSize, MaxParts

(* At least one backend; the bounds are natural numbers.                   *)
ASSUME ServicesAssumption ==
  /\ MaxEvents \in Nat /\ MaxTokens \in Nat
  /\ MaxAttempts \in Nat /\ MaxApplied \in Nat
  /\ N \in Nat \ {0} /\ NextMod \in Nat \ {0}
  /\ MaxWork \in Nat /\ Requests \in Nat
  /\ IntSize \in Nat

VARIABLES
  program,
  state, waits, socket, abandoned, events, tokens, verdict,
  connected, commands, applied, call, outcome,
  strategy, in_flight, next, chosen, handled,
  keys, parts, same

connection == <<state, waits, socket, abandoned, events, tokens, verdict>>
command    == <<connected, commands, applied, call, outcome>>
routing    == <<strategy, in_flight, next, chosen, handled>>
key        == <<keys, parts, same>>

Session == INSTANCE Connection
Queue   == INSTANCE CommandQueue
Router  == INSTANCE Routing
Key     == INSTANCE KeyEncoding

Init ==
  /\ program \in {"state", "command", "strategy", "traits_tag_dispatch"}
  /\ Session!Init /\ Queue!Init /\ Router!Init /\ Key!Init

Next ==
  \/ program = "state" /\ Session!Next
     /\ UNCHANGED <<program, command, routing, key>>
  \/ program = "command" /\ Queue!Next
     /\ UNCHANGED <<program, connection, routing, key>>
  \/ program = "strategy" /\ Router!Next
     /\ UNCHANGED <<program, connection, command, key>>
  \/ program = "traits_tag_dispatch" /\ Key!Next
     /\ UNCHANGED <<program, connection, command, routing>>

Spec == Init /\ [][Next]_<<program, connection, command, routing, key>>

-----------------------------------------------------------------------------
(* The states, the calls and the counters keep their types.                *)
TypeOK == Session!TypeOK /\ Queue!TypeOK /\ Router!TypeOK

(* Connection: state_ follows the socket, up to undelivered events; that   *)
(* no event is mistaken holds for callers that wait before they connect    *)
(* again.                                                                  *)
StateFollowsSocket == Session!StateFollowsSocket

(* execute_all: commands leave the queue only when all were executed.      *)
QueuedUntilApplied == Queue!QueuedUntilApplied

(* execute_with_retry: executed once, or not at all when it throws or      *)
(* allows no attempt.                                                      *)
RetryAppliesOnce == Queue!RetryAppliesOnce

(* RequestRouter: both strategies balance what they promise to balance.    *)
Balanced == Router!Balanced

(* append_part: equal keys were built from equal parts.                    *)
Unambiguous == Key!Unambiguous
=============================================================================
