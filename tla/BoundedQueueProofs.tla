------------------------- MODULE BoundedQueueProofs -------------------------
(***************************************************************************)
(* Theorems about BoundedQueue, for all sets of producers and consumers    *)
(* and for every capacity and number of items.                             *)
(***************************************************************************)
EXTENDS BoundedQueue, FiniteSetTheorems, TLAPS

(* The types, bounds and program counters of BoundedQueue are an           *)
(* invariant; in particular q_ never holds more than capacity_ items.      *)
THEOREM TypeCorrect == SafeSpec => []TypeOK
<1>1. Init => TypeOK
  <2> SUFFICES ASSUME Init PROVE TypeOK
    OBVIOUS
  <2> USE BoundedQueueAssumption DEF Init
  <2>1. pc \in [Threads -> ProducerPc \cup ConsumerPc]
    BY DEF LoopTest, Threads, ProducerPc, ConsumerPc
  <2>2. \A p \in Producers : pc[p] = LoopTest(0)
    BY DEF Threads
  <2>3. \A c \in Consumers : pc[c] = "calling"
    BY DEF Threads
  <2>4. sent \in [Producers -> 0..NumItems] /\ held \in [Consumers -> Items \cup {NoItem}]
    OBVIOUS
  <2>5. \A p \in Producers : pc[p] \in InCall \cup {"waiting"} => sent[p] < NumItems
    BY <2>2 DEF LoopTest, InCall
  <2>6. q \in Seq(Items) /\ Len(q) <= Capacity /\ processed \in Nat
    OBVIOUS
  <2>7. closed \in BOOLEAN /\ main \in MainPc /\ closed = (main # "running")
    BY DEF MainPc
  <2>8. \A p \in Producers : pc[p] \in ProducerPc
    BY <2>2 DEF LoopTest, ProducerPc
  <2>9. \A c \in Consumers : pc[c] \in ConsumerPc
    BY <2>3 DEF ConsumerPc
  <2> QED
    BY <2>1, <2>4, <2>5, <2>6, <2>7, <2>8, <2>9 DEF TypeOK
<1>2. TypeOK /\ [Next]_vars => TypeOK'
  <2> SUFFICES ASSUME TypeOK, [Next]_vars PROVE TypeOK'
    OBVIOUS
  <2> USE BoundedQueueAssumption
  <2>1. ASSUME NEW p \in Producers, PushBlocks(p) PROVE TypeOK'
    BY <2>1 DEF PushBlocks, Moves, TypeOK, Threads, ProducerPc, ConsumerPc, InCall
  <2>2. ASSUME NEW p \in Producers, PushRefused(p) PROVE TypeOK'
    BY <2>2 DEF PushRefused, Moves, TypeOK, Threads, ProducerPc, ConsumerPc, InCall
  <2>3. ASSUME NEW p \in Producers, PushEnqueues(p) PROVE TypeOK'
    <3>1. q' \in Seq(Items) /\ Len(q') <= Capacity
      BY <2>3 DEF PushEnqueues, CanPush, TypeOK, Items
    <3>2. PICK f : f = [pc EXCEPT ![p] = LoopTest(sent[p] + 1)] /\ pc' \in NotifyOne(Consumers, f)
      BY <2>3 DEF PushEnqueues
    <3>3. \/ pc' = f
          \/ \E t \in Consumers : pc' = [f EXCEPT ![t] = "notified"]
      BY <3>2 DEF NotifyOne, Waiting
    <3>4. sent' \in [Producers -> 0..NumItems] /\ sent'[p] = sent[p] + 1
      BY <2>3 DEF PushEnqueues, TypeOK
    <3>5. /\ pc' \in [Threads -> ProducerPc \cup ConsumerPc]
          /\ \A r \in Producers : pc'[r] \in ProducerPc
          /\ \A c \in Consumers : pc'[c] \in ConsumerPc
      BY <3>2, <3>3 DEF TypeOK, LoopTest, Threads, ProducerPc, ConsumerPc
    <3>6. \A r \in Producers : pc'[r] \in InCall \cup {"waiting"} => sent'[r] < NumItems
      BY <2>3, <3>2, <3>3, <3>4
      DEF PushEnqueues, TypeOK, LoopTest, Threads, ProducerPc, ConsumerPc, InCall
    <3> QED
      BY <2>3, <3>1, <3>4, <3>5, <3>6 DEF PushEnqueues, TypeOK
  <2>4. ASSUME NEW c \in Consumers, PopBlocks(c) PROVE TypeOK'
    BY <2>4 DEF PopBlocks, Moves, TypeOK, Threads, ProducerPc, ConsumerPc, InCall
  <2>5. ASSUME NEW c \in Consumers, PopDrained(c) PROVE TypeOK'
    BY <2>5 DEF PopDrained, NothingLeft, Moves, TypeOK, Threads, ProducerPc, ConsumerPc, InCall
  <2>6. ASSUME NEW c \in Consumers, PopTakes(c) PROVE TypeOK'
    <3>1. q' \in Seq(Items) /\ Len(q') <= Capacity /\ Head(q) \in Items
      BY <2>6 DEF PopTakes, NothingLeft, TypeOK
    <3>2. PICK f : f = [pc EXCEPT ![c] = "handling"] /\ pc' \in NotifyOne(Producers, f)
      BY <2>6 DEF PopTakes, NothingLeft
    <3>3. \/ pc' = f
          \/ \E t \in Waiting(Producers) : pc' = [f EXCEPT ![t] = "notified"]
      BY <3>2 DEF NotifyOne
    <3>4. /\ pc' \in [Threads -> ProducerPc \cup ConsumerPc]
          /\ \A r \in Producers : pc'[r] \in ProducerPc
          /\ \A d \in Consumers : pc'[d] \in ConsumerPc
      BY <3>2, <3>3 DEF TypeOK, Waiting, Threads, ProducerPc, ConsumerPc
    <3>5. \A r \in Producers : pc'[r] \in InCall \cup {"waiting"} => sent[r] < NumItems
      BY <3>2, <3>3 DEF TypeOK, Waiting, Threads, InCall
    <3> QED
      BY <2>6, <3>1, <3>4, <3>5 DEF PopTakes, NothingLeft, TypeOK
  <2>7. ASSUME NEW c \in Consumers, Handle(c) PROVE TypeOK'
    BY <2>7 DEF Handle, TypeOK, Threads, ProducerPc, ConsumerPc, InCall
  <2>8. ASSUME NEW t \in Threads, SpuriousWakeup(t) PROVE TypeOK'
    BY <2>8 DEF SpuriousWakeup, Moves, TypeOK, Threads, ProducerPc, ConsumerPc, InCall
  <2>9. CASE Main
    <3>1. CASE CloseSetFlag
      BY <3>1 DEF CloseSetFlag, TypeOK, MainPc
    <3>2. CASE CloseNotifyEmpty
      BY <3>2 DEF CloseNotifyEmpty, NotifyAll, Waiting, TypeOK, MainPc,
                  Threads, ProducerPc, ConsumerPc, InCall
    <3>3. CASE CloseNotifyFull
      BY <3>3 DEF CloseNotifyFull, NotifyAll, Waiting, TypeOK, MainPc,
                  Threads, ProducerPc, ConsumerPc, InCall
    <3>4. CASE MainReturns
      BY <3>4 DEF MainReturns, TypeOK, MainPc
    <3> QED
      BY <2>9, <3>1, <3>2, <3>3, <3>4 DEF Main
  <2>10. CASE UNCHANGED vars
    BY <2>10 DEF vars, TypeOK
  <2> QED
    BY <2>1, <2>2, <2>3, <2>4, <2>5, <2>6, <2>7, <2>8, <2>9, <2>10
    DEF Next, Push, Pop
<1> QED
  BY <1>1, <1>2, PTL DEF SafeSpec

-----------------------------------------------------------------------------
(* Once close() has made a notify_all, no thread is left blocked in that   *)
(* wait set and none blocks again: closed_ was set before, and a thread    *)
(* that sees it set does not block.                                        *)
THEOREM CloseWakes == SafeSpec => []CloseWakesEveryone
<1>1. Init => CloseWakesEveryone
  BY DEF Init, CloseWakesEveryone
<1>2. TypeOK /\ CloseWakesEveryone /\ [Next]_vars => CloseWakesEveryone'
  <2> SUFFICES ASSUME TypeOK, CloseWakesEveryone, [Next]_vars
               PROVE  CloseWakesEveryone'
    OBVIOUS
  <2>0. closed = (main # "running") /\ pc \in [Threads -> ProducerPc \cup ConsumerPc]
    BY DEF TypeOK
  <2> USE BoundedQueueAssumption, <2>0 DEF CloseWakesEveryone, Waiting, Threads
  <2>1. ASSUME NEW p \in Producers, Push(p) PROVE CloseWakesEveryone'
    BY <2>1 DEF Push, PushBlocks, Moves, PushRefused, PushEnqueues, CanPush, LoopTest, NotifyOne
  <2>2. ASSUME NEW c \in Consumers, Pop(c) PROVE CloseWakesEveryone'
    BY <2>2 DEF Pop, PopBlocks, Moves, PopDrained, NothingLeft, PopTakes, CanPop, NotifyOne
  <2>3. ASSUME NEW c \in Consumers, Handle(c) PROVE CloseWakesEveryone'
    BY <2>3 DEF Handle
  <2>4. ASSUME NEW t \in Threads, SpuriousWakeup(t) PROVE CloseWakesEveryone'
    BY <2>4 DEF SpuriousWakeup, Moves
  <2>5. CASE Main
    BY <2>5 DEF Main, CloseSetFlag, CloseNotifyEmpty, CloseNotifyFull, MainReturns, NotifyAll
  <2>6. CASE UNCHANGED vars
    BY <2>6 DEF vars
  <2> QED
    BY <2>1, <2>2, <2>3, <2>4, <2>5, <2>6 DEF Next
<1> QED
  BY <1>1, <1>2, TypeCorrect, PTL DEF SafeSpec

-----------------------------------------------------------------------------
(***************************************************************************)
(* No wakeup is lost                                                       *)
(***************************************************************************)

(* A step that takes at most one thread out of the notified threads lowers *)
(* their number by at most one.                                            *)
LEMMA LosesAtMostOne ==
  ASSUME NEW S, NEW T, NEW x, IsFiniteSet(S), IsFiniteSet(T), S \ {x} \subseteq T
  PROVE  /\ Cardinality(S) \in Nat
         /\ Cardinality(T) \in Nat
         /\ Cardinality(T) >= Cardinality(S) - 1
<1>1. Cardinality(S) \in Nat /\ Cardinality(T) \in Nat
  BY FS_CardinalityType
<1>2. Cardinality(S \ {x}) = IF x \in S THEN Cardinality(S) - 1 ELSE Cardinality(S)
  BY FS_RemoveElement, Zenon
<1>3. Cardinality(S \ {x}) <= Cardinality(T)
  BY FS_Subset
<1> QED
  BY <1>1, <1>2, <1>3

(* One more notified thread raises their number by one.                    *)
LEMMA GainsOne ==
  ASSUME NEW S, NEW T, NEW x, IsFiniteSet(S), x \notin S, T = S \cup {x}
  PROVE  /\ Cardinality(S) \in Nat
         /\ Cardinality(T) = Cardinality(S) + 1
BY FS_CardinalityType, FS_AddElement

(* The notified threads among finitely many are finitely many.             *)
LEMMA NotifiedFinite ==
  ASSUME NEW S, IsFiniteSet(S)
  PROVE  /\ IsFiniteSet(Notified(S))
         /\ Cardinality(Notified(S)) \in Nat
BY FS_Subset, FS_CardinalityType DEF Notified

(* No notification is lost: while a consumer is blocked each queued item   *)
(* has a woken consumer, and while a producer is blocked in an open queue  *)
(* each free slot has a woken producer.  The invariant is inductive on top *)
(* of TypeOK: a thread blocks only when there is nothing to wake it for, a *)
(* thread that takes what a notified one was woken for lowers both sides,  *)
(* and each new item or slot comes with a notification.                    *)
THEOREM NoWakeupLost == SafeSpec => []NoLostWakeup
<1>1. Init => NoLostWakeup
  BY DEF Init, NoLostWakeup, Waiting, Threads, LoopTest
<1>2. TypeOK /\ NoLostWakeup /\ [Next]_vars => NoLostWakeup'
  <2> SUFFICES ASSUME TypeOK, NoLostWakeup, [Next]_vars
               PROVE  NoLostWakeup'
    OBVIOUS
  <2>t. /\ q \in Seq(Items) /\ Len(q) \in Nat /\ Len(q) <= Capacity
        /\ Capacity \in Nat
        /\ closed = (main # "running")
        /\ pc \in [Threads -> ProducerPc \cup ConsumerPc]
    BY BoundedQueueAssumption DEF TypeOK
  <2>f. /\ IsFiniteSet(Notified(Consumers)) /\ Cardinality(Notified(Consumers)) \in Nat
        /\ IsFiniteSet(Notified(Producers)) /\ Cardinality(Notified(Producers)) \in Nat
    BY NotifiedFinite, BoundedQueueAssumption
  <2>g. /\ IsFiniteSet(Notified(Consumers)') /\ Cardinality(Notified(Consumers)') \in Nat
        /\ IsFiniteSet(Notified(Producers)') /\ Cardinality(Notified(Producers)') \in Nat
    BY FS_Subset, FS_CardinalityType, BoundedQueueAssumption DEF Notified
  <2>d. Producers \cap Consumers = {}
    BY BoundedQueueAssumption
  (* A step that concerns one side only leaves the other side's sets alone. *)
  <2>1. ASSUME NEW p \in Producers, PushBlocks(p) PROVE NoLostWakeup'
    <3>1. Len(q) = Capacity /\ UNCHANGED <<q, closed>>
      BY <2>1, <2>t DEF PushBlocks, Moves, CanPush
    <3>2. UNCHANGED <<Waiting(Consumers), Notified(Consumers)>>
      BY <2>1, <2>t, <2>d DEF PushBlocks, Moves, Waiting, Notified, Threads
    <3> QED
      BY <3>1, <3>2, <2>t, <2>g DEF NoLostWakeup
  <2>2. ASSUME NEW p \in Producers, PushRefused(p) PROVE NoLostWakeup'
    <3>1. UNCHANGED <<Waiting(Consumers), Notified(Consumers)>>
      BY <2>2, <2>t, <2>d DEF PushRefused, Moves, Waiting, Notified, Threads
    <3> QED
      BY <2>2, <3>1 DEF PushRefused, Moves, NoLostWakeup
  <2>3. ASSUME NEW p \in Producers, PushEnqueues(p) PROVE NoLostWakeup'
    <3>1. Len(q') = Len(q) + 1 /\ closed' = closed
      BY <2>3, <2>t DEF PushEnqueues
    <3>2. PICK f : f = [pc EXCEPT ![p] = LoopTest(sent[p] + 1)] /\ pc' \in NotifyOne(Consumers, f)
      BY <2>3 DEF PushEnqueues
    <3>3. Waiting(Consumers)' # {} =>
            \E t \in Waiting(Consumers) :
              /\ t \notin Notified(Consumers)
              /\ Notified(Consumers)' = Notified(Consumers) \cup {t}
      BY <3>2, <2>t, <2>d DEF NotifyOne, Waiting, Notified, Threads, LoopTest
    <3>4. /\ Waiting(Producers)' = Waiting(Producers)
          /\ Notified(Producers) \ {p} \subseteq Notified(Producers)'
      BY <2>3, <3>2, <2>t, <2>d
      DEF PushEnqueues, InCall, NotifyOne, Waiting, Notified, Threads, LoopTest
    <3>5. Waiting(Consumers)' # {} => Len(q') <= Cardinality(Notified(Consumers)')
      <4> SUFFICES ASSUME Waiting(Consumers)' # {}
                   PROVE  Len(q') <= Cardinality(Notified(Consumers)')
        OBVIOUS
      <4>1. Cardinality(Notified(Consumers)') = Cardinality(Notified(Consumers)) + 1
        BY <3>3, <2>f, GainsOne
      <4>2. Len(q) <= Cardinality(Notified(Consumers))
        BY <3>3 DEF NoLostWakeup
      <4> QED
        BY <4>1, <4>2, <3>1, <2>t, <2>f
    <3>6. Waiting(Producers)' # {} /\ ~closed' =>
            Capacity - Len(q') <= Cardinality(Notified(Producers)')
      <4>1. Cardinality(Notified(Producers)') >= Cardinality(Notified(Producers)) - 1
        BY <3>4, <2>f, <2>g, LosesAtMostOne
      <4> QED
        BY <4>1, <3>1, <3>4, <2>t, <2>f, <2>g DEF NoLostWakeup
    <3> QED
      BY <3>5, <3>6 DEF NoLostWakeup
  <2>4. ASSUME NEW c \in Consumers, PopBlocks(c) PROVE NoLostWakeup'
    <3>1. Len(q) = 0 /\ ~closed /\ UNCHANGED <<q, closed>>
      BY <2>4 DEF PopBlocks, Moves, CanPop
    <3>2. UNCHANGED <<Waiting(Producers), Notified(Producers)>>
      BY <2>4, <2>t, <2>d DEF PopBlocks, Moves, Waiting, Notified, Threads
    <3> QED
      BY <3>1, <3>2, <2>t, <2>g DEF NoLostWakeup
  <2>5. ASSUME NEW c \in Consumers, PopDrained(c) PROVE NoLostWakeup'
    <3>1. Len(q) = 0 /\ closed /\ UNCHANGED <<q, closed>>
      BY <2>5 DEF PopDrained, NothingLeft, Moves, CanPop
    <3> QED
      BY <3>1, <2>g DEF NoLostWakeup
  <2>6. ASSUME NEW c \in Consumers, PopTakes(c) PROVE NoLostWakeup'
    <3>1. Len(q') = Len(q) - 1 /\ closed' = closed
      BY <2>6, <2>t DEF PopTakes, NothingLeft
    <3>2. PICK f : f = [pc EXCEPT ![c] = "handling"] /\ pc' \in NotifyOne(Producers, f)
      BY <2>6 DEF PopTakes, NothingLeft
    <3>3. Waiting(Producers)' # {} =>
            \E t \in Waiting(Producers) :
              /\ t \notin Notified(Producers)
              /\ Notified(Producers)' = Notified(Producers) \cup {t}
      BY <3>2, <2>t, <2>d DEF NotifyOne, Waiting, Notified, Threads
    <3>4. /\ Waiting(Consumers)' = Waiting(Consumers)
          /\ Notified(Consumers) \ {c} \subseteq Notified(Consumers)'
      BY <2>6, <3>2, <2>t, <2>d DEF PopTakes, NothingLeft, InCall, NotifyOne, Waiting, Notified, Threads
    <3>5. Waiting(Consumers)' # {} => Len(q') <= Cardinality(Notified(Consumers)')
      <4>1. Cardinality(Notified(Consumers)') >= Cardinality(Notified(Consumers)) - 1
        BY <3>4, <2>f, <2>g, LosesAtMostOne
      <4> QED
        BY <4>1, <3>1, <3>4, <2>t, <2>f, <2>g DEF NoLostWakeup
    <3>6. Waiting(Producers)' # {} /\ ~closed' =>
            Capacity - Len(q') <= Cardinality(Notified(Producers)')
      <4> SUFFICES ASSUME Waiting(Producers)' # {}, ~closed
                   PROVE  Capacity - Len(q') <= Cardinality(Notified(Producers)')
        BY <3>1
      <4>1. Cardinality(Notified(Producers)') = Cardinality(Notified(Producers)) + 1
        BY <3>3, <2>f, GainsOne
      <4>2. Capacity - Len(q) <= Cardinality(Notified(Producers))
        BY <3>3 DEF NoLostWakeup
      <4> QED
        BY <4>1, <4>2, <3>1, <2>t, <2>f
    <3> QED
      BY <3>5, <3>6 DEF NoLostWakeup
  <2>7. ASSUME NEW c \in Consumers, Handle(c) PROVE NoLostWakeup'
    <3>1. UNCHANGED <<Waiting(Producers), Notified(Producers),
                      Waiting(Consumers), Notified(Consumers)>>
      BY <2>7, <2>t DEF Handle, Waiting, Notified, Threads
    <3> QED
      BY <2>7, <3>1 DEF Handle, NoLostWakeup
  <2>8. ASSUME NEW t \in Threads, SpuriousWakeup(t) PROVE NoLostWakeup'
    <3>1. /\ Waiting(Producers)' \subseteq Waiting(Producers)
          /\ Waiting(Consumers)' \subseteq Waiting(Consumers)
          /\ Notified(Producers) \subseteq Notified(Producers)'
          /\ Notified(Consumers) \subseteq Notified(Consumers)'
      BY <2>8, <2>t DEF SpuriousWakeup, Moves, Waiting, Notified, Threads
    <3>2. /\ Cardinality(Notified(Producers)) <= Cardinality(Notified(Producers)')
          /\ Cardinality(Notified(Consumers)) <= Cardinality(Notified(Consumers)')
      BY <3>1, <2>g, FS_Subset
    <3>3. UNCHANGED <<q, closed>>
      BY <2>8 DEF SpuriousWakeup, Moves
    <3> QED
      BY <3>1, <3>2, <3>3, <2>t, <2>f, <2>g DEF NoLostWakeup
  <2>9. CASE Main
    <3>1. CASE CloseSetFlag \/ MainReturns
      BY <3>1 DEF CloseSetFlag, MainReturns, NoLostWakeup, Waiting, Notified
    <3>2. CASE CloseNotifyEmpty
      <4>1. Waiting(Consumers)' = {} /\ closed'
        BY <3>2, <2>t DEF CloseNotifyEmpty, NotifyAll, Waiting, Threads
      <4> QED
        BY <4>1 DEF NoLostWakeup
    <3>3. CASE CloseNotifyFull
      <4>1. closed' /\ q' = q /\ UNCHANGED <<Waiting(Consumers), Notified(Consumers)>>
        BY <3>3, <2>t, <2>d DEF CloseNotifyFull, NotifyAll, Waiting, Notified, Threads
      <4> QED
        BY <4>1 DEF NoLostWakeup
    <3> QED
      BY <2>9, <3>1, <3>2, <3>3 DEF Main
  <2>10. CASE UNCHANGED vars
    BY <2>10 DEF vars, NoLostWakeup, Waiting, Notified
  <2> QED
    BY <2>1, <2>2, <2>3, <2>4, <2>5, <2>6, <2>7, <2>8, <2>9, <2>10
    DEF Next, Push, Pop
<1> QED
  BY <1>1, <1>2, TypeCorrect, PTL DEF SafeSpec

-----------------------------------------------------------------------------
(***************************************************************************)
(* The queue implements the channel                                        *)
(***************************************************************************)

(* What the channel sees of a thread.                                      *)
PhaseOf == [t \in Threads |->
              IF pc[t] \in {"calling", "waiting", "notified"} THEN "active" ELSE pc[t]]

(* Every behaviour of BoundedQueue is, to its callers, a behaviour of a    *)
(* FIFO channel of bounded capacity: push and pop take effect in their     *)
(* critical sections, close() when it sets closed_, and blocking, waking   *)
(* and notifying are invisible.                                            *)
THEOREM ChannelRefinement == SafeSpec => Channel!SafeSpec
<1> USE DEF Channel!vars
<1>1. Init => Channel!Init
  <2> SUFFICES ASSUME Init PROVE Channel!Init
    OBVIOUS
  <2>1. \A t \in Threads : pc[t] = IF t \in Producers THEN LoopTest(0) ELSE "calling"
    BY DEF Init
  <2> QED
    BY <2>1 DEF Init, Channel!Init, Channel!Phase, LoopTest, Threads
<1>2. TypeOK /\ [Next]_vars => [Channel!Next]_(Channel!vars)
  <2> SUFFICES ASSUME TypeOK, [Next]_vars PROVE [Channel!Next]_(Channel!vars)
    OBVIOUS
  <2>t. /\ pc \in [Threads -> ProducerPc \cup ConsumerPc]
        /\ closed = (main # "running")
        /\ Producers \cap Consumers = {}
        /\ Capacity \in Nat
        /\ Len(q) \in Nat
        /\ Len(q) <= Capacity
        /\ sent \in [Producers -> 0..NumItems]
    BY BoundedQueueAssumption DEF TypeOK
  <2>1. ASSUME NEW p \in Producers, PushBlocks(p) PROVE UNCHANGED Channel!vars
    BY <2>1, <2>t DEF PushBlocks, Moves, InCall, Threads
  <2>2. ASSUME NEW p \in Producers, PushRefused(p) PROVE Channel!Refuse(p)
    BY <2>2, <2>t DEF PushRefused, Moves, InCall, Threads, Channel!Refuse
  <2>3. ASSUME NEW p \in Producers, PushEnqueues(p) PROVE Channel!Send(p)
    <3>1. PICK f : f = [pc EXCEPT ![p] = LoopTest(sent[p] + 1)] /\ pc' \in NotifyOne(Consumers, f)
      BY <2>3 DEF PushEnqueues
    <3>2. PhaseOf' = [PhaseOf EXCEPT ![p] = Channel!Phase(sent[p] + 1)]
      BY <2>3, <2>t, <3>1
      DEF PushEnqueues, NotifyOne, Waiting, InCall, Threads, LoopTest, PhaseOf, Channel!Phase
    <3>3. Len(q) < Capacity
      BY <2>3 DEF PushEnqueues, CanPush
    <3> QED
      BY <2>3, <2>t, <3>2, <3>3 DEF PushEnqueues, InCall, Threads, PhaseOf, Channel!Send
  <2>4. ASSUME NEW c \in Consumers, PopBlocks(c) PROVE UNCHANGED Channel!vars
    BY <2>4, <2>t DEF PopBlocks, Moves, InCall, Threads
  <2>5. ASSUME NEW c \in Consumers, PopDrained(c) PROVE Channel!Drain(c)
    BY <2>5, <2>t DEF PopDrained, NothingLeft, Moves, CanPop, InCall, Threads, Channel!Drain
  <2>6. ASSUME NEW c \in Consumers, PopTakes(c) PROVE Channel!Receive(c)
    <3>1. PICK f : f = [pc EXCEPT ![c] = "handling"] /\ pc' \in NotifyOne(Producers, f)
      BY <2>6 DEF PopTakes, NothingLeft
    <3>2. PhaseOf' = [PhaseOf EXCEPT ![c] = "handling"]
      BY <2>6, <2>t, <3>1 DEF PopTakes, NothingLeft, NotifyOne, Waiting, InCall, Threads, PhaseOf
    <3> QED
      BY <2>6, <2>t, <3>2 DEF PopTakes, NothingLeft, InCall, Threads, PhaseOf, Channel!Receive
  <2>7. ASSUME NEW c \in Consumers, Handle(c) PROVE Channel!Finish(c)
    BY <2>7, <2>t DEF Handle, Threads, Channel!Finish
  <2>8. ASSUME NEW t \in Threads, SpuriousWakeup(t) PROVE UNCHANGED Channel!vars
    BY <2>8, <2>t DEF SpuriousWakeup, Moves, Threads
  <2>9. CASE Main
    <3>1. CASE CloseSetFlag
      BY <3>1, <2>t DEF CloseSetFlag, Channel!Close, Channel!Next
    <3>2. CASE CloseNotifyEmpty
      BY <3>2, <2>t DEF CloseNotifyEmpty, NotifyAll, Waiting, Threads
    <3>3. CASE CloseNotifyFull
      BY <3>3, <2>t DEF CloseNotifyFull, NotifyAll, Waiting, Threads
    <3>4. CASE MainReturns
      BY <3>4 DEF MainReturns
    <3> QED
      BY <2>9, <3>1, <3>2, <3>3, <3>4 DEF Main
  <2>10. CASE UNCHANGED vars
    BY <2>10 DEF vars
  <2> QED
    BY <2>1, <2>2, <2>3, <2>4, <2>5, <2>6, <2>7, <2>8, <2>9, <2>10
    DEF Next, Push, Pop, Channel!Next
<1> QED
  BY <1>1, <1>2, TypeCorrect, PTL DEF SafeSpec, Channel!SafeSpec

-----------------------------------------------------------------------------
(***************************************************************************)
(* Every accepted item is counted                                          *)
(***************************************************************************)

(* The consumers that have popped an item and not yet counted it.          *)
Handling == {c \in Consumers : pc[c] = "handling"}

(* Every item for which push returned true is counted, with a consumer or  *)
(* in the queue.  A producer is done when it has pushed its last item and  *)
(* is refused by a closed queue only, and a consumer returns from a closed *)
(* and empty queue, to which nothing is added any more.                    *)
CountInv ==
  /\ processed + Cardinality(Handling) + Len(q) = Cardinality(Accepted)
  /\ \A p \in Producers : pc[p] = "done" => sent[p] = NumItems
  /\ \A p \in Producers : pc[p] = "refused" => closed
  /\ JoinProducers /\ closed => \A p \in Producers : pc[p] = "done"
  /\ \A c \in Consumers : pc[c] = "drained" => closed /\ q = <<>>
  /\ main = "exit" => ConsumersReturned

(* The sets that are counted are finite.                                   *)
LEMMA CountedFinite ==
  /\ IsFiniteSet(Handling) /\ Cardinality(Handling) \in Nat
  /\ IsFiniteSet(Accepted) /\ Cardinality(Accepted) \in Nat
<1>1. IsFiniteSet(Handling)
  BY FS_Subset, BoundedQueueAssumption DEF Handling
<1>2. IsFiniteSet(Producers \X (0..NumItems))
  <2>1. 0 \in Int /\ NumItems \in Int
    BY BoundedQueueAssumption
  <2> QED
    BY <2>1, FS_Interval, FS_Product, BoundedQueueAssumption
<1>3. IsFiniteSet(Accepted)
  BY <1>2, FS_Subset DEF Accepted
<1> QED
  BY <1>1, <1>3, FS_CardinalityType

(* The count and what goes with it are an inductive invariant.             *)
LEMMA CountInvariant == SafeSpec => []CountInv
<1>1. Init => CountInv
  <2> SUFFICES ASSUME Init PROVE CountInv
    OBVIOUS
  <2> USE BoundedQueueAssumption DEF Init
  <2>1. Handling = {} /\ Accepted = {}
    BY DEF Handling, Accepted, Threads
  <2>2. processed + Cardinality(Handling) + Len(q) = Cardinality(Accepted)
    BY <2>1, FS_EmptySet
  <2>3. /\ \A p \in Producers : pc[p] = LoopTest(0)
        /\ \A c \in Consumers : pc[c] = "calling"
    BY DEF Threads
  <2> QED
    BY <2>2, <2>3 DEF CountInv, LoopTest
<1>2. TypeOK /\ CountInv /\ [Next]_vars => CountInv'
  <2> SUFFICES ASSUME TypeOK, CountInv, [Next]_vars PROVE CountInv'
    OBVIOUS
  <2>t. /\ q \in Seq(Items) /\ Len(q) \in Nat /\ processed \in Nat
        /\ closed = (main # "running")
        /\ pc \in [Threads -> ProducerPc \cup ConsumerPc]
        /\ sent \in [Producers -> 0..NumItems] /\ NumItems \in Nat
        /\ Producers \subseteq Threads /\ Consumers \subseteq Threads
        /\ Producers \cap Consumers = {}
    BY BoundedQueueAssumption DEF TypeOK, Threads
  (* The part that is not about numbers. *)
  <2>1. /\ \A p \in Producers : pc'[p] = "done" => sent'[p] = NumItems
        /\ \A p \in Producers : pc'[p] = "refused" => closed'
        /\ JoinProducers /\ closed' => \A p \in Producers : pc'[p] = "done"
        /\ \A c \in Consumers : pc'[c] = "drained" => closed' /\ q' = <<>>
        /\ main' = "exit" => ConsumersReturned'
    <3> DEFINE Goal == /\ \A p \in Producers : pc'[p] = "done" => sent'[p] = NumItems
                       /\ \A p \in Producers : pc'[p] = "refused" => closed'
                       /\ JoinProducers /\ closed' => \A p \in Producers : pc'[p] = "done"
                       /\ \A c \in Consumers : pc'[c] = "drained" => closed' /\ q' = <<>>
                       /\ main' = "exit" => ConsumersReturned'
    <3>i. /\ \A p \in Producers : pc[p] = "done" => sent[p] = NumItems
          /\ \A p \in Producers : pc[p] = "refused" => closed
          /\ JoinProducers /\ closed => \A p \in Producers : pc[p] = "done"
          /\ \A c \in Consumers : pc[c] = "drained" => closed /\ q = <<>>
          /\ main = "exit" => ConsumersReturned
      BY DEF CountInv
    <3>1. ASSUME NEW p \in Producers, PushBlocks(p) \/ PushRefused(p) PROVE Goal
      BY <3>1, <3>i, <2>t DEF PushBlocks, PushRefused, Moves, InCall, ConsumersReturned
    <3>2. ASSUME NEW p \in Producers, PushEnqueues(p) PROVE Goal
      <4>0. PICK f : f = [pc EXCEPT ![p] = LoopTest(sent[p] + 1)]
        OBVIOUS
      <4>1. /\ f \in [Threads -> ProducerPc \cup ConsumerPc]
            /\ f[p] = LoopTest(sent[p] + 1) /\ \A t \in Threads \ {p} : f[t] = pc[t]
        BY <4>0, <2>t DEF LoopTest, ProducerPc, ConsumerPc
      <4>2. /\ pc' \in NotifyOne(Consumers, f) /\ ~closed /\ pc[p] \in InCall
            /\ sent' = [sent EXCEPT ![p] = @ + 1] /\ UNCHANGED <<closed, main>>
        BY <4>0, <3>2 DEF PushEnqueues
      <4>3. \A t \in Threads :
              pc'[t] = f[t] \/ (t \in Consumers /\ pc[t] = "waiting" /\ pc'[t] = "notified")
        BY <4>1, <4>2, <2>t DEF NotifyOne, Waiting
      <4>4. pc'[p] = LoopTest(sent[p] + 1) /\ sent'[p] = sent[p] + 1 /\ sent[p] \in 0..NumItems
        BY <4>1, <4>2, <4>3, <2>t
      <4>5. sent[p] < NumItems
        BY <4>2 DEF TypeOK
      <4>6. /\ pc'[p] = "done" => sent'[p] = NumItems
            /\ pc'[p] # "refused"
        BY <4>4, <4>5, <2>t DEF LoopTest
      <4>7. /\ \A r \in Producers \ {p} : pc'[r] = pc[r] /\ sent'[r] = sent[r]
            /\ \A c \in Consumers : pc'[c] # "drained"
        BY <4>1, <4>2, <4>3, <2>t, <3>i
      <4>8. main # "exit" /\ ~closed'
        BY <4>2, <2>t
      <4> QED
        BY <4>2, <4>6, <4>7, <4>8, <3>i
    <3>3. ASSUME NEW c \in Consumers, PopBlocks(c) \/ PopDrained(c) PROVE Goal
      BY <3>3, <3>i, <2>t
      DEF PopBlocks, CanPop, PopDrained, NothingLeft, Moves, InCall, ConsumersReturned
    <3>4. ASSUME NEW c \in Consumers, PopTakes(c) PROVE Goal
      <4>0. PICK f : f = [pc EXCEPT ![c] = "handling"]
        OBVIOUS
      <4>1. /\ f \in [Threads -> ProducerPc \cup ConsumerPc]
            /\ f[c] = "handling" /\ \A t \in Threads \ {c} : f[t] = pc[t]
        BY <4>0, <2>t DEF ConsumerPc
      <4>2. /\ pc' \in NotifyOne(Producers, f) /\ q # <<>> /\ pc[c] \in InCall
            /\ UNCHANGED <<sent, closed, main>>
        BY <4>0, <3>4 DEF PopTakes, NothingLeft
      <4>3. \A t \in Threads :
              pc'[t] = f[t] \/ (t \in Producers /\ pc[t] = "waiting" /\ pc'[t] = "notified")
        BY <4>1, <4>2, <2>t DEF NotifyOne, Waiting
      <4>4. \A p \in Producers :
              pc'[p] = pc[p] \/ (pc[p] = "waiting" /\ pc'[p] = "notified")
        BY <4>1, <4>3, <2>t
      <4>5. \A d \in Consumers : pc'[d] # "drained"
        BY <4>1, <4>2, <4>3, <2>t, <3>i
      <4>6. main # "exit"
        BY <4>2, <3>i DEF ConsumersReturned, InCall
      <4> QED
        BY <4>2, <4>4, <4>5, <4>6, <3>i
    <3>5. ASSUME NEW c \in Consumers, Handle(c) PROVE Goal
      BY <3>5, <3>i, <2>t DEF Handle, ConsumersReturned
    <3>6. ASSUME NEW t \in Threads, SpuriousWakeup(t) PROVE Goal
      BY <3>6, <3>i, <2>t DEF SpuriousWakeup, Moves, ConsumersReturned
    <3>7. CASE CloseSetFlag
      BY <3>7, <3>i, <2>t DEF CloseSetFlag, ProducersReturned
    <3>8. CASE CloseNotifyEmpty \/ CloseNotifyFull
      BY <3>8, <3>i, <2>t DEF CloseNotifyEmpty, CloseNotifyFull, NotifyAll, Waiting
    <3>9. CASE MainReturns
      BY <3>9, <3>i DEF MainReturns, ConsumersReturned
    <3>10. CASE UNCHANGED vars
      BY <3>10, <3>i DEF vars, ConsumersReturned
    <3> QED
      BY <3>1, <3>2, <3>3, <3>4, <3>5, <3>6, <3>7, <3>8, <3>9, <3>10 DEF Next, Push, Pop, Main
  (* The numbers. *)
  <2>2. processed' + Cardinality(Handling') + Len(q') = Cardinality(Accepted')
    <3> DEFINE Goal == processed' + Cardinality(Handling') + Len(q') = Cardinality(Accepted')
    <3>f. /\ IsFiniteSet(Handling) /\ Cardinality(Handling) \in Nat
          /\ IsFiniteSet(Accepted) /\ Cardinality(Accepted) \in Nat
      BY CountedFinite
    <3>i. processed + Cardinality(Handling) + Len(q) = Cardinality(Accepted)
      BY DEF CountInv
    <3>1. ASSUME UNCHANGED <<processed, q, sent>>,
                 \A c \in Consumers : pc'[c] = "handling" <=> pc[c] = "handling"
          PROVE  Goal
      BY <3>1, <3>i DEF Handling, Accepted
    <3>2. ASSUME NEW p \in Producers, PushBlocks(p) \/ PushRefused(p) PROVE Goal
      BY <3>2, <3>1, <2>t DEF PushBlocks, PushRefused, Moves
    <3>3. ASSUME NEW p \in Producers, PushEnqueues(p) PROVE Goal
      <4>1. /\ sent[p] \in 0..NumItems /\ sent' = [sent EXCEPT ![p] = @ + 1]
            /\ Len(q') = Len(q) + 1 /\ processed' = processed
        BY <3>3, <2>t DEF PushEnqueues
      <4>2. Handling' = Handling
        <5>0. PICK f : f = [pc EXCEPT ![p] = LoopTest(sent[p] + 1)]
          OBVIOUS
        <5>1. /\ f \in [Threads -> ProducerPc \cup ConsumerPc]
              /\ \A t \in Threads \ {p} : f[t] = pc[t]
          BY <5>0, <2>t DEF LoopTest, ProducerPc, ConsumerPc
        <5>2. pc' \in NotifyOne(Consumers, f)
          BY <5>0, <3>3 DEF PushEnqueues
        <5>3. \A t \in Threads :
                pc'[t] = f[t] \/ (t \in Consumers /\ pc[t] = "waiting" /\ pc'[t] = "notified")
          BY <5>1, <5>2, <2>t DEF NotifyOne, Waiting
        <5> QED
          BY <5>1, <5>3, <2>t DEF Handling
      <4>3. <<p, sent[p]>> \notin Accepted /\ Accepted' = Accepted \cup {<<p, sent[p]>>}
        <5>1. \A x \in Producers \X (0..NumItems) :
                x[2] < sent'[x[1]] <=> (x[2] < sent[x[1]] \/ x = <<p, sent[p]>>)
          <6>1. ASSUME NEW r \in Producers, NEW n \in 0..NumItems
                PROVE  n < sent'[r] <=> (n < sent[r] \/ <<r, n>> = <<p, sent[p]>>)
            <7>1. CASE r = p
              <8>1. sent'[p] = sent[p] + 1
                BY <4>1, <2>t
              <8>2. n \in Nat /\ sent[p] \in Nat
                BY <4>1, <2>t
              <8>3. n < sent[p] + 1 <=> (n < sent[p] \/ n = sent[p])
                BY <8>2
              <8>4. <<r, n>> = <<p, sent[p]>> <=> n = sent[p]
                BY <7>1
              <8> QED
                BY <7>1, <8>1, <8>3, <8>4
            <7>2. CASE r # p
              BY <7>2, <4>1, <2>t
            <7> QED
              BY <7>1, <7>2
          <6> QED
            BY <6>1
        <5>2. <<p, sent[p]>> \in Producers \X (0..NumItems)
          BY <4>1
        <5>3. ~(sent[p] < sent[p])
          BY <4>1, <2>t
        <5> QED
          BY <5>1, <5>2, <5>3 DEF Accepted
      <4>4. Cardinality(Accepted') = Cardinality(Accepted) + 1
        BY <4>3, <3>f, FS_AddElement
      <4> QED
        BY <4>1, <4>2, <4>4, <3>f, <3>i, <2>t
    <3>4. ASSUME NEW c \in Consumers, PopBlocks(c) \/ PopDrained(c) PROVE Goal
      BY <3>4, <3>1, <2>t DEF PopBlocks, PopDrained, Moves, InCall
    <3>5. ASSUME NEW c \in Consumers, PopTakes(c) PROVE Goal
      <4>1. /\ Len(q') = Len(q) - 1 /\ UNCHANGED <<processed, sent>> /\ pc[c] \in InCall
        BY <3>5, <2>t DEF PopTakes, NothingLeft
      <4>2. c \notin Handling /\ Handling' = Handling \cup {c}
        <5>0. PICK f : f = [pc EXCEPT ![c] = "handling"]
          OBVIOUS
        <5>1. /\ f \in [Threads -> ProducerPc \cup ConsumerPc] /\ f[c] = "handling"
              /\ \A t \in Threads \ {c} : f[t] = pc[t]
          BY <5>0, <2>t DEF ConsumerPc
        <5>2. pc' \in NotifyOne(Producers, f)
          BY <5>0, <3>5 DEF PopTakes
        <5>3. \A t \in Threads :
                pc'[t] = f[t] \/ (t \in Producers /\ pc[t] = "waiting" /\ pc'[t] = "notified")
          BY <5>1, <5>2, <2>t DEF NotifyOne, Waiting
        <5> QED
          BY <5>1, <5>3, <4>1, <2>t DEF Handling, InCall
      <4>3. Cardinality(Handling') = Cardinality(Handling) + 1
        BY <4>2, <3>f, FS_AddElement
      <4>4. Accepted' = Accepted
        BY <4>1 DEF Accepted
      <4> QED
        BY <4>1, <4>3, <4>4, <3>f, <3>i, <2>t
    <3>6. ASSUME NEW c \in Consumers, Handle(c) PROVE Goal
      <4>1. c \in Handling /\ Handling' = Handling \ {c}
        BY <3>6, <2>t DEF Handle, Handling
      <4>2. Cardinality(Handling') = Cardinality(Handling) - 1
        BY <4>1, <3>f, FS_RemoveElement
      <4>3. Accepted' = Accepted /\ processed' = processed + 1 /\ q' = q
        BY <3>6 DEF Handle, Accepted
      <4> QED
        BY <4>2, <4>3, <3>f, <3>i, <2>t
    <3>7. ASSUME NEW t \in Threads, SpuriousWakeup(t) PROVE Goal
      BY <3>7, <3>1, <2>t DEF SpuriousWakeup, Moves
    <3>8. CASE Main
      BY <3>8, <3>1, <2>t
      DEF Main, CloseSetFlag, CloseNotifyEmpty, CloseNotifyFull, MainReturns, NotifyAll, Waiting
    <3>9. CASE UNCHANGED vars
      BY <3>9, <3>1 DEF vars
    <3> QED
      BY <3>2, <3>3, <3>4, <3>5, <3>6, <3>7, <3>8, <3>9 DEF Next, Push, Pop
  <2> QED
    BY <2>1, <2>2 DEF CountInv
<1> QED
  BY <1>1, <1>2, TypeCorrect, PTL DEF SafeSpec

(* When the consumers have returned no item is left with them or in the    *)
(* queue.                                                                  *)
LEMMA AtExit ==
  ASSUME TypeOK, CountInv, main = "exit"
  PROVE  processed = Cardinality(Accepted)
<1>1. \A c \in Consumers : pc[c] = "drained"
  BY DEF CountInv, ConsumersReturned
<1>2. Handling = {}
  BY <1>1 DEF Handling
<1>3. q = <<>>
  BY <1>1, BoundedQueueAssumption DEF CountInv
<1>4. Cardinality(Handling) = 0 /\ Len(q) = 0
  BY <1>2, <1>3, FS_EmptySet
<1> QED
  BY <1>4, CountedFinite DEF CountInv, TypeOK

(* When main() reads processed, it has counted every item for which push   *)
(* returned true, and none twice, whenever the queue was closed.           *)
THEOREM CountsEveryItem == SafeSpec => []ProcessedAtExit
<1>1. TypeOK /\ CountInv => ProcessedAtExit
  BY AtExit DEF ProcessedAtExit
<1> QED
  BY <1>1, TypeCorrect, CountInvariant, PTL

(* When the producers are joined before close(), no push is refused and    *)
(* what is counted is every item of every producer.                        *)
THEOREM NothingIsRefused == SafeSpec => []NothingRefused
<1>1. TypeOK /\ CountInv => NothingRefused
  <2> SUFFICES ASSUME TypeOK, CountInv, JoinProducers
               PROVE  /\ \A p \in Producers : pc[p] # "refused"
                      /\ main = "exit" => processed = NumItems * Cardinality(Producers)
    BY DEF NothingRefused
  <2>1. \A p \in Producers : pc[p] # "refused"
    BY DEF CountInv
  <2>2. ASSUME main = "exit" PROVE processed = NumItems * Cardinality(Producers)
    <3>1. \A p \in Producers : sent[p] = NumItems
      BY <2>2 DEF CountInv, TypeOK
    <3> DEFINE Numbers == {n \in 0..NumItems : n < NumItems}
    <3>2. Accepted = Producers \X Numbers
      BY <3>1 DEF Accepted
    <3>3. IsFiniteSet(Numbers) /\ Cardinality(Numbers) = NumItems
      <4>1. Numbers = 0..(NumItems - 1) /\ 0 \in Int /\ NumItems - 1 \in Int
        BY BoundedQueueAssumption
      <4>2. IsFiniteSet(0..(NumItems - 1))
        BY <4>1, FS_Interval
      <4>3. Cardinality(0..(NumItems - 1))
              = IF 0 > NumItems - 1 THEN 0 ELSE (NumItems - 1) - 0 + 1
        BY <4>1, FS_Interval, Zenon
      <4>4. NumItems \in Nat
        BY BoundedQueueAssumption
      <4>5. Cardinality(0..(NumItems - 1)) = NumItems
        BY <4>3, <4>4
      <4> HIDE DEF Numbers
      <4> QED
        BY <4>1, <4>2, <4>5
    <3> HIDE DEF Numbers
    <3>4. Cardinality(Accepted) = Cardinality(Producers) * NumItems
      BY <3>2, <3>3, FS_Product, BoundedQueueAssumption
    <3>5. Cardinality(Producers) \in Nat /\ NumItems \in Nat
      BY FS_CardinalityType, BoundedQueueAssumption
    <3>6. Cardinality(Producers) * NumItems = NumItems * Cardinality(Producers)
      BY <3>5
    <3> QED
      BY <3>4, <3>6, <2>2, AtExit
  <2> QED
    BY <2>1, <2>2
<1> QED
  BY <1>1, TypeCorrect, CountInvariant, PTL
=================================================================================
