-------------------------- MODULE BlockingChannel --------------------------
(***************************************************************************)
(* What a bounded blocking queue promises to its callers, with no mutex,   *)
(* no condition variable and no wakeups: a FIFO channel of bounded         *)
(* capacity that can be closed.  A send is refused once the channel is     *)
(* closed; a receive reports "drained" only when the channel is closed and *)
(* empty.  BoundedQueue is shown to implement this specification.          *)
(***************************************************************************)
EXTENDS Naturals, Sequences

CONSTANTS
  Producers,  \* callers of push
  Consumers,  \* callers of pop
  Capacity,   \* bound on the number of items in the channel
  NumItems,   \* how many items each producer sends
  NoItem      \* what a consumer holds between two receives

VARIABLES
  chan,       \* the items sent and not yet received, oldest first
  closed,     \* has the channel been closed?
  sent,       \* number of items each producer has sent so far
  held,       \* the item each consumer is handling, or NoItem
  phase       \* "active", "handling", or how the caller ended

vars == <<chan, closed, sent, held, phase>>

(* A producer is finished when it has sent all its items.                  *)
Phase(n) == IF n < NumItems THEN "active" ELSE "done"

Init ==
  /\ chan = <<>>
  /\ closed = FALSE
  /\ sent = [p \in Producers |-> 0]
  /\ held = [c \in Consumers |-> NoItem]
  /\ phase = [t \in Producers \cup Consumers |->
                IF t \in Producers THEN Phase(0) ELSE "active"]

(* The n-th item of producer p enters the channel.                         *)
Send(p) ==
  /\ phase[p] = "active"
  /\ ~closed
  /\ Len(chan) < Capacity
  /\ chan' = Append(chan, <<p, sent[p]>>)
  /\ sent' = [sent EXCEPT ![p] = @ + 1]
  /\ phase' = [phase EXCEPT ![p] = Phase(sent[p] + 1)]
  /\ UNCHANGED <<closed, held>>

(* A send on a closed channel is refused and its producer gives up.        *)
Refuse(p) ==
  /\ phase[p] = "active"
  /\ closed
  /\ phase' = [phase EXCEPT ![p] = "refused"]
  /\ UNCHANGED <<chan, closed, sent, held>>

(* A consumer receives the oldest item, closed or not.                     *)
Receive(c) ==
  /\ phase[c] = "active"
  /\ chan # <<>>
  /\ held' = [held EXCEPT ![c] = Head(chan)]
  /\ chan' = Tail(chan)
  /\ phase' = [phase EXCEPT ![c] = "handling"]
  /\ UNCHANGED <<closed, sent>>

(* The consumer is done with its item and asks for the next.               *)
Finish(c) ==
  /\ phase[c] = "handling"
  /\ held' = [held EXCEPT ![c] = NoItem]
  /\ phase' = [phase EXCEPT ![c] = "active"]
  /\ UNCHANGED <<chan, closed, sent>>

(* The end of the stream: nothing is left and nothing can come.            *)
Drain(c) ==
  /\ phase[c] = "active"
  /\ closed
  /\ chan = <<>>
  /\ phase' = [phase EXCEPT ![c] = "drained"]
  /\ UNCHANGED <<chan, closed, sent, held>>

Close ==
  /\ ~closed
  /\ closed' = TRUE
  /\ UNCHANGED <<chan, sent, held, phase>>

Next ==
  \/ \E p \in Producers : Send(p) \/ Refuse(p)
  \/ \E c \in Consumers : Receive(c) \/ Finish(c) \/ Drain(c)
  \/ Close

SafeSpec == Init /\ [][Next]_vars

(* A send or a receive that is possible happens, for some caller: no one   *)
(* caller is promised a turn.  Refusals and drains reach every caller.     *)
Fairness ==
  /\ WF_vars(\E p \in Producers : Send(p))
  /\ WF_vars(\E c \in Consumers : Receive(c))
  /\ \A p \in Producers : WF_vars(Refuse(p))
  /\ \A c \in Consumers : WF_vars(Finish(c)) /\ WF_vars(Drain(c))

Spec == SafeSpec /\ Fairness
=============================================================================
