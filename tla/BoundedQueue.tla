---------------------------- MODULE BoundedQueue ----------------------------
(***************************************************************************)
(* BoundedQueue<T> of examples/bounded_queue/main.cpp together with the    *)
(* threads that use it: producer(), consumer() and main(), which closes    *)
(* the queue and joins the threads.                                        *)
(*                                                                         *)
(* Every access to q_ and closed_ is made with mu_ held, so an action is   *)
(* one critical section: from the acquisition of mu_ (on entry to push or  *)
(* pop, or when condition_variable::wait reacquires it) to its release (on *)
(* return, or when wait blocks).  close() is three actions because its two *)
(* notify_all calls are made after mu_ is released.                        *)
(***************************************************************************)
EXTENDS Naturals, Sequences, FiniteSets

CONSTANTS
  Producers,      \* the producer threads
  Consumers,      \* the consumer threads
  Capacity,       \* the constructor's argument
  NumItems,       \* how many items each producer pushes
  JoinProducers,  \* TRUE: main() joins the producers before close(), as the
                  \* example does; FALSE: the owner closes at any moment
  NoItem          \* a consumer holds no item

(* The constructor rejects capacity 0 (it throws invalid_argument), and    *)
(* main() starts a consumer, without which items would stay in the queue.  *)
ASSUME BoundedQueueAssumption ==
  /\ IsFiniteSet(Producers)
  /\ IsFiniteSet(Consumers) /\ Consumers # {}
  /\ Producers \cap Consumers = {}
  /\ Capacity \in Nat \ {0}
  /\ NumItems \in Nat
  /\ JoinProducers \in BOOLEAN
  /\ NoItem \notin Producers \X Nat

VARIABLES
  q,          \* q_, oldest item first
  closed,     \* closed_
  pc,         \* where each thread is, see Pc below
  sent,       \* producer's loop counter i: the pushes that returned true
  held,       \* the item a consumer has popped and not yet counted
  processed,  \* the atomic counter shared by the consumers
  main        \* where main() is after starting the threads

vars == <<q, closed, pc, sent, held, processed, main>>

Threads == Producers \cup Consumers

Items == Producers \X Nat

(* A thread is about to lock mu_ ("calling"), blocked in the wait set of   *)
(* its condition variable ("waiting": not_full_ for a producer, not_empty_ *)
(* for a consumer), woken and about to reacquire mu_ ("notified"), outside *)
(* the queue with an item ("handling"), or returned from its function.     *)
ProducerPc == {"calling", "waiting", "notified", "done", "refused"}
ConsumerPc == {"calling", "waiting", "notified", "handling", "drained"}

InCall == {"calling", "notified"}

MainPc == {"running", "notifyEmpty", "notifyFull", "joining", "exit"}

-----------------------------------------------------------------------------
(***************************************************************************)
(* The condition variables                                                 *)
(***************************************************************************)

(* The threads of S blocked in their condition variable.                   *)
Waiting(S) == {t \in S : pc[t] = "waiting"}

(* The threads of S woken but not yet past the predicate.                  *)
Notified(S) == {t \in S : pc[t] = "notified"}

(* Variants of the operators below, each with one plausible slip; they     *)
(* take no part in the specification and serve to show that a property     *)
(* notices the slip.                                                       *)
NotifyNobody(S, f) == {f}
NotifyNoWaiter(S) == pc
CanPushIgnoringClose == Len(q) < Capacity
CanPushOneTooMany == closed \/ Len(q) <= Capacity
NothingLeftOnceClosed == q = <<>> \/ closed
OneProducerReturned == \E p \in Producers : pc[p] \in {"done", "refused"}

(* notify_one wakes one of the waiters, any of them; none is no error.     *)
NotifyOne(S, f) ==
  IF Waiting(S) = {}
  THEN {f}
  ELSE {[f EXCEPT ![t] = "notified"] : t \in Waiting(S)}

(* notify_all wakes every waiter.                                          *)
NotifyAll(S) == [t \in Threads |-> IF t \in Waiting(S) THEN "notified" ELSE pc[t]]

(* The predicates given to wait.                                           *)
CanPush == closed \/ Len(q) < Capacity
CanPop == closed \/ q # <<>>

-----------------------------------------------------------------------------
(* producer()'s loop test: i < items.                                      *)
LoopTest(i) == IF i < NumItems THEN "calling" ELSE "done"

Init ==
  /\ q = <<>>
  /\ closed = FALSE
  /\ pc = [t \in Threads |-> IF t \in Producers THEN LoopTest(0) ELSE "calling"]
  /\ sent = [p \in Producers |-> 0]
  /\ held = [c \in Consumers |-> NoItem]
  /\ processed = 0
  /\ main = "running"

(* A step that only moves thread t.                                        *)
Moves(t, label) ==
  /\ pc' = [pc EXCEPT ![t] = label]
  /\ UNCHANGED <<q, closed, sent, held, processed, main>>

(***************************************************************************)
(* push(), called in producer()'s loop                                     *)
(***************************************************************************)

(* The predicate is false: wait releases mu_ and blocks.                   *)
PushBlocks(p) == pc[p] \in InCall /\ ~CanPush /\ Moves(p, "waiting")

(* push returns false and the producer stops.                              *)
PushRefused(p) == pc[p] \in InCall /\ CanPush /\ closed /\ Moves(p, "refused")

(* The item is queued, one consumer notified, and push returns true.       *)
PushEnqueues(p) ==
  /\ pc[p] \in InCall
  /\ CanPush
  /\ ~closed
  /\ q' = Append(q, <<p, sent[p]>>)
  /\ sent' = [sent EXCEPT ![p] = @ + 1]
  /\ pc' \in NotifyOne(Consumers, [pc EXCEPT ![p] = LoopTest(sent[p] + 1)])
  /\ UNCHANGED <<closed, held, processed, main>>

Push(p) == PushBlocks(p) \/ PushRefused(p) \/ PushEnqueues(p)

(***************************************************************************)
(* pop(), called in consumer()'s loop                                      *)
(***************************************************************************)

PopBlocks(c) == pc[c] \in InCall /\ ~CanPop /\ Moves(c, "waiting")

(* The test that makes pop give up.                                        *)
NothingLeft == q = <<>>

(* pop returns nullopt and the consumer returns.                           *)
PopDrained(c) == pc[c] \in InCall /\ CanPop /\ NothingLeft /\ Moves(c, "drained")

(* The oldest item is taken out and one producer notified.                 *)
PopTakes(c) ==
  /\ pc[c] \in InCall
  /\ CanPop
  /\ ~NothingLeft
  /\ held' = [held EXCEPT ![c] = Head(q)]
  /\ q' = Tail(q)
  /\ pc' \in NotifyOne(Producers, [pc EXCEPT ![c] = "handling"])
  /\ UNCHANGED <<closed, sent, processed, main>>

Pop(c) == PopBlocks(c) \/ PopDrained(c) \/ PopTakes(c)

(* consumer() counts the item it popped and calls pop again.               *)
Handle(c) ==
  /\ pc[c] = "handling"
  /\ processed' = processed + 1
  /\ held' = [held EXCEPT ![c] = NoItem]
  /\ pc' = [pc EXCEPT ![c] = "calling"]
  /\ UNCHANGED <<q, closed, sent, main>>

(* A condition variable may wake a waiter without any notification.        *)
SpuriousWakeup(t) == pc[t] = "waiting" /\ Moves(t, "notified")

(***************************************************************************)
(* main(): join the producers, close the queue, join the consumers         *)
(***************************************************************************)

ProducersReturned == \A p \in Producers : pc[p] \in {"done", "refused"}
ConsumersReturned == \A c \in Consumers : pc[c] = "drained"

(* close(): closed_ is set under mu_.                                      *)
CloseSetFlag ==
  /\ main = "running"
  /\ JoinProducers => ProducersReturned
  /\ closed' = TRUE
  /\ main' = "notifyEmpty"
  /\ UNCHANGED <<q, pc, sent, held, processed>>

(* close(): not_empty_.notify_all(), after mu_ is released.                *)
CloseNotifyEmpty ==
  /\ main = "notifyEmpty"
  /\ pc' = NotifyAll(Consumers)
  /\ main' = "notifyFull"
  /\ UNCHANGED <<q, closed, sent, held, processed>>

(* close(): not_full_.notify_all().                                        *)
CloseNotifyFull ==
  /\ main = "notifyFull"
  /\ pc' = NotifyAll(Producers)
  /\ main' = "joining"
  /\ UNCHANGED <<q, closed, sent, held, processed>>

(* Every thread has been joined; main() reads processed and returns.       *)
MainReturns ==
  /\ main = "joining"
  /\ ProducersReturned
  /\ ConsumersReturned
  /\ main' = "exit"
  /\ UNCHANGED <<q, closed, pc, sent, held, processed>>

Main == CloseSetFlag \/ CloseNotifyEmpty \/ CloseNotifyFull \/ MainReturns

-----------------------------------------------------------------------------
Next ==
  \/ \E p \in Producers : Push(p)
  \/ \E c \in Consumers : Pop(c) \/ Handle(c)
  \/ \E t \in Threads : SpuriousWakeup(t)
  \/ Main

(* Every std::thread keeps being scheduled and gets mu_ when it asks for   *)
(* it; nothing is assumed of spurious wakeups.                             *)
Fairness ==
  /\ \A p \in Producers : WF_vars(Push(p))
  /\ \A c \in Consumers : WF_vars(Pop(c) \/ Handle(c))
  /\ WF_vars(Main)

SafeSpec == Init /\ [][Next]_vars

Spec == SafeSpec /\ Fairness

-----------------------------------------------------------------------------
(***************************************************************************)
(* Properties                                                              *)
(***************************************************************************)

(* The variables of push, pop, close and of the thread functions keep      *)
(* their C++ types and ranges, q_ never grows past capacity_, and closed_  *)
(* is set exactly from close()'s critical section on.                      *)
TypeOK ==
  /\ q \in Seq(Items)
  /\ Len(q) <= Capacity
  /\ closed \in BOOLEAN
  /\ pc \in [Threads -> ProducerPc \cup ConsumerPc]
  /\ \A p \in Producers : pc[p] \in ProducerPc
  /\ \A c \in Consumers : pc[c] \in ConsumerPc
  /\ sent \in [Producers -> 0..NumItems]
  /\ \A p \in Producers : pc[p] \in InCall \cup {"waiting"} => sent[p] < NumItems
  /\ held \in [Consumers -> Items \cup {NoItem}]
  /\ processed \in Nat
  /\ main \in MainPc
  /\ closed = (main # "running")

(* push notifies one consumer per item and pop one producer per freed      *)
(* slot.  That is enough: while a consumer is blocked, every item in the   *)
(* queue has a woken consumer on its way to it, even if running threads    *)
(* take items out of turn; and while a producer is blocked in an open      *)
(* queue, every free slot has a woken producer on its way to it.           *)
NoLostWakeup ==
  /\ Waiting(Consumers) # {} => Len(q) <= Cardinality(Notified(Consumers))
  /\ Waiting(Producers) # {} /\ ~closed
       => Capacity - Len(q) <= Cardinality(Notified(Producers))

(* close() sets closed_ under mu_ but notifies after releasing it.  No     *)
(* thread slips between the two into a wait it is never woken from: after  *)
(* each notify_all its wait set is empty, and stays empty.                 *)
CloseWakesEveryone ==
  /\ main \in {"notifyFull", "joining", "exit"} => Waiting(Consumers) = {}
  /\ main \in {"joining", "exit"} => Waiting(Producers) = {}

(* The items for which push returned true.                                 *)
Accepted == {x \in Producers \X (0..NumItems) : x[2] < sent[x[1]]}

(* When main() reads processed, every item for which push returned true    *)
(* has been counted exactly once, whenever close() was called.             *)
ProcessedAtExit == main = "exit" => processed = Cardinality(Accepted)

(* main() as written, which joins the producers before close(), loses      *)
(* nothing: no push is refused and every item generated is processed.      *)
NothingRefused ==
  JoinProducers =>
    /\ \A p \in Producers : pc[p] # "refused"
    /\ main = "exit" => processed = NumItems * Cardinality(Producers)

(* The queue is a FIFO channel of bounded capacity to its callers: with    *)
(* the wait sets and the notifications hidden, every step is a step of the *)
(* channel, and the lock and the wakeups keep the channel's progress.      *)
Channel == INSTANCE BlockingChannel WITH
  chan <- q,
  phase <- [t \in Threads |->
              IF pc[t] \in {"calling", "waiting", "notified"} THEN "active" ELSE pc[t]]

ImplementsChannel == Channel!Spec

(* main() returns: nobody waits for ever, whichever threads close() finds  *)
(* blocked.                                                                *)
MainEventuallyReturns == <>(main = "exit")
=============================================================================
