-------------------------- MODULE ThreadPoolProofs --------------------------
(***************************************************************************)
(* Theorems about ThreadPool, for every set of workers, every number of    *)
(* jobs and every choice of the jobs that submit a job themselves.         *)
(***************************************************************************)
EXTENDS ThreadPool, FiniteSetTheorems, TLAPS

(* A notification moves a blocked worker only, and only to "notified".     *)
LEMMA NotifyMoves ==
  ASSUME NEW f \in [Workers -> WorkerPc], NEW p \in NotifyOne(f)
  PROVE  /\ p \in [Workers -> WorkerPc]
         /\ \A w \in Workers : p[w] = f[w] \/ (pc[w] = "waiting" /\ p[w] = "notified")
<1>1. CASE Waiting = {}
  BY <1>1 DEF NotifyOne
<1>2. CASE Waiting # {}
  <2>1. PICK v \in Waiting : p = [f EXCEPT ![v] = "notified"]
    BY <1>2 DEF NotifyOne
  <2> QED
    BY <2>1 DEF Waiting, WorkerPc
<1> QED
  BY <1>1, <1>2

(* The jobs are numbers, so that none is mistaken for no job, and a job's  *)
(* own job is neither one of main()'s nor that of another one.             *)
LEMMA JobFacts ==
  /\ Jobs \subseteq Nat /\ NoJob \notin Jobs
  /\ Submitted \subseteq Jobs /\ Spawning \subseteq Submitted
  /\ \A j \in Spawning : Child(j) \in Jobs /\ Child(j) \notin Submitted
  /\ \A j, k \in Spawning : Child(j) = Child(k) => j = k
  /\ \A j \in Jobs \ Submitted : \E k \in Spawning : j = Child(k)
BY ThreadPoolAssumption DEF Jobs, Submitted, Child

(* A pool without workers, jobs or futures has the right types.            *)
LEMMA TypeInit == Init => TypeOK
<1> SUFFICES ASSUME Init PROVE TypeOK
  OBVIOUS
<1> USE ThreadPoolAssumption, JobFacts DEF Init
<1>1. queue \in Seq(Jobs) /\ next \in Submitted
  BY DEF Submitted
<1>2. /\ pc \in [Workers -> WorkerPc]
      /\ job \in [Workers -> Jobs \cup {NoJob}]
      /\ \A w \in Workers : job[w] # NoJob <=> pc[w] \in Runs
  BY DEF WorkerPc, Runs
<1>3. future \in [Jobs -> FutureState]
  BY DEF FutureState
<1>4. main \in MainPc /\ ~stopping /\ main \notin {"notifyAll", "joining", "exit"}
  BY DEF MainPc
<1>5. stopping \in BOOLEAN
  OBVIOUS
<1> QED
  BY <1>1, <1>2, <1>3, <1>4, <1>5 DEF TypeOK

(* Every step keeps the types, whichever thread makes it.                *)
LEMMA TypeNext == TypeOK /\ [Next]_vars => TypeOK'
<1> SUFFICES ASSUME TypeOK, [Next]_vars PROVE TypeOK'
  OBVIOUS
<1> USE ThreadPoolAssumption, JobFacts
<1>1. ASSUME NEW w \in Workers, StartWorker(w) PROVE TypeOK'
  <2>1. /\ pc' \in [Workers -> WorkerPc]
        /\ \A v \in Workers : pc'[v] \in Runs <=> pc[v] \in Runs
    BY <1>1 DEF StartWorker, TypeOK, WorkerPc, Runs
  <2>2. main' \in MainPc /\ stopping' = (main' \in {"notifyAll", "joining", "exit"})
    BY <1>1 DEF StartWorker, TypeOK, MainPc
  <2> QED
    BY <1>1, <2>1, <2>2 DEF StartWorker, TypeOK
<1>2. CASE Submit
  BY <1>2 DEF Submit, Enqueue, TypeOK, MainPc, FutureState
<1>3. CASE SubmitNotifies
  <2>1. /\ pc' \in [Workers -> WorkerPc]
        /\ \A w \in Workers : job'[w] # NoJob <=> pc'[w] \in Runs
    <3>1. pc' \in NotifyOne(pc) /\ pc \in [Workers -> WorkerPc] /\ job' = job
      BY <1>3 DEF SubmitNotifies, TypeOK
    <3>2. \A w \in Workers : job[w] # NoJob <=> pc[w] \in Runs
      BY DEF TypeOK
    <3>3. /\ pc' \in [Workers -> WorkerPc]
          /\ \A w \in Workers : pc'[w] = pc[w] \/ (pc[w] = "waiting" /\ pc'[w] = "notified")
      BY <3>1, NotifyMoves
    <3> QED
      BY <3>1, <3>2, <3>3 DEF Runs
  <2>2. next' \in Submitted /\ main' \in MainPc /\ stopping' = FALSE
        /\ main' \notin {"notifyAll", "joining", "exit"}
    <3>1. next \in 1..NumJobs /\ stopping = FALSE
      BY <1>3 DEF SubmitNotifies, TypeOK, Submitted
    <3> QED
      BY <1>3, <3>1 DEF SubmitNotifies, LoopsOrGoesOn, Submitted, MainPc
  <2> QED
    BY <1>3, <2>1, <2>2 DEF SubmitNotifies, TypeOK
<1>4. CASE Get
  BY <1>4 DEF Get, LoopsOrGoesOn, TypeOK, Submitted, MainPc
<1>5. CASE Stop
  BY <1>5 DEF Stop, TypeOK, MainPc
<1>6. CASE StopNotifies
  BY <1>6 DEF StopNotifies, NotifyAll, Waiting, TypeOK, MainPc, WorkerPc, Runs
<1>7. CASE Join
  BY <1>7 DEF Join, TypeOK, MainPc
<1>8. ASSUME NEW w \in Workers, WorkerBlocks(w) PROVE TypeOK'
  BY <1>8 DEF WorkerBlocks, InLoop, Moves, TypeOK, WorkerPc, Runs
<1>9. ASSUME NEW w \in Workers, WorkerStops(w) PROVE TypeOK'
  BY <1>9 DEF WorkerStops, InLoop, Moves, TypeOK, WorkerPc, Runs
<1>10. ASSUME NEW w \in Workers, WorkerTakes(w) PROVE TypeOK'
  <2>1. queue # <<>>
    BY <1>10 DEF WorkerTakes, CanProceed, MustStop
  <2>2. Head(queue) \in Jobs /\ queue' \in Seq(Jobs)
    BY <1>10, <2>1 DEF WorkerTakes, Popped, TypeOK
  <2> QED
    BY <1>10, <2>2 DEF WorkerTakes, TypeOK, WorkerPc, Runs
<1>11. ASSUME NEW w \in Workers, JobReturns(w) PROVE TypeOK'
  BY <1>11 DEF JobReturns, Loops, TypeOK, WorkerPc, Runs, FutureState
<1>12. ASSUME NEW w \in Workers, JobSubmits(w) PROVE TypeOK'
  BY <1>12 DEF JobSubmits, Enqueue, TypeOK, WorkerPc, Runs, FutureState
<1>13. ASSUME NEW w \in Workers, JobNotifies(w) PROVE TypeOK'
  <2> DEFINE f == [pc EXCEPT ![w] = "finishing"]
  <2>1. f \in [Workers -> WorkerPc]
    BY DEF TypeOK, WorkerPc
  <2>2. \A v \in Workers : f[v] \in Runs <=> pc[v] \in Runs
    BY <1>13 DEF JobNotifies, TypeOK, Runs
  <2>3. pc' \in NotifyOne(f)
    BY <1>13 DEF JobNotifies
  <2> HIDE DEF f
  <2>4. /\ pc' \in [Workers -> WorkerPc]
        /\ \A v \in Workers : pc'[v] \in Runs <=> pc[v] \in Runs
    BY <2>1, <2>2, <2>3, NotifyMoves DEF Runs
  <2> QED
    BY <1>13, <2>4 DEF JobNotifies, TypeOK
<1>14. ASSUME NEW w \in Workers, JobRefused(w) PROVE TypeOK'
  <2>1. future' \in [Jobs -> FutureState]
    <3>1. job[w] \in Jobs /\ Child(job[w]) \in Jobs
      BY <1>14 DEF JobRefused
    <3> QED
      BY <1>14, <3>1 DEF JobRefused, TypeOK, FutureState
  <2>2. /\ pc' \in [Workers -> WorkerPc]
        /\ job' \in [Workers -> Jobs \cup {NoJob}]
        /\ \A v \in Workers : job'[v] # NoJob <=> pc'[v] \in Runs
    BY <1>14 DEF JobRefused, Loops, TypeOK, WorkerPc, Runs
  <2> QED
    BY <1>14, <2>1, <2>2 DEF JobRefused, Loops, TypeOK
<1>15. ASSUME NEW w \in Workers, SpuriousWakeup(w) PROVE TypeOK'
  BY <1>15 DEF SpuriousWakeup, Moves, TypeOK, WorkerPc, Runs
<1>16. CASE UNCHANGED vars
  BY <1>16 DEF vars, TypeOK
<1> QED
  BY <1>1, <1>2, <1>3, <1>4, <1>5, <1>6, <1>7, <1>8, <1>9, <1>10, <1>11, <1>12,
     <1>13, <1>14, <1>15, <1>16 DEF Next, Main, Worker

(* The pool's members, the workers' locals and main()'s loop keep their    *)
(* types and ranges, and a worker holds a job exactly while it runs one.   *)
THEOREM TypeCorrect == Spec => []TypeOK
BY TypeInit, TypeNext, PTL DEF Spec

-----------------------------------------------------------------------------
(* notify_all wakes whoever is blocked, and from then on a worker that     *)
(* tests the predicate sees stopping_ set and does not block.              *)
THEOREM StopWakes == Spec => []StopWakesEveryone
<1>1. Init => StopWakesEveryone
  BY DEF Init, StopWakesEveryone
<1>2. TypeOK /\ StopWakesEveryone /\ [Next]_vars => StopWakesEveryone'
  <2> SUFFICES ASSUME TypeOK, StopWakesEveryone, [Next]_vars PROVE StopWakesEveryone'
    OBVIOUS
  <2>t. /\ pc \in [Workers -> WorkerPc]
        /\ stopping = (main \in {"notifyAll", "joining", "exit"})
    BY DEF TypeOK
  <2> USE <2>t DEF StopWakesEveryone, Waiting
  <2>1. CASE Main
    BY <2>1 DEF Main, StartWorker, Submit, Enqueue, SubmitNotifies, LoopsOrGoesOn, NotifyOne, Get,
                Stop, StopNotifies, NotifyAll, Join
  <2>2. ASSUME NEW w \in Workers, Worker(w) PROVE StopWakesEveryone'
    BY <2>2 DEF Worker, WorkerBlocks, CanProceed, Moves, WorkerStops, WorkerTakes, JobReturns,
                Loops, JobSubmits, Enqueue, JobNotifies, NotifyOne, JobRefused
  <2>3. ASSUME NEW w \in Workers, SpuriousWakeup(w) PROVE StopWakesEveryone'
    BY <2>3 DEF SpuriousWakeup, Moves
  <2>4. CASE UNCHANGED vars
    BY <2>4 DEF vars
  <2> QED
    BY <2>1, <2>2, <2>3, <2>4 DEF Next
<1> QED
  BY <1>1, <1>2, TypeCorrect, PTL DEF Spec

-----------------------------------------------------------------------------
(***************************************************************************)
(* No wakeup is lost                                                       *)
(***************************************************************************)

(* The workers about to make the notify_one of their job's submit().       *)
Notifiers == {w \in Workers : pc[w] = "notifying"}

(* Whether main() is about to make the notify_one of its submit().         *)
MainNotifies == IF main = "notifying" THEN 1 ELSE 0

(* A set that loses one element at most loses one in number at most.       *)
LEMMA LosesAtMostOne ==
  ASSUME NEW S, NEW T, NEW x, IsFiniteSet(S), IsFiniteSet(T), S \ {x} \subseteq T
  PROVE  Cardinality(T) >= Cardinality(S) - 1
<1>1. Cardinality(S) \in Nat /\ Cardinality(T) \in Nat
  BY FS_CardinalityType
<1>2. Cardinality(S \ {x}) = IF x \in S THEN Cardinality(S) - 1 ELSE Cardinality(S)
  BY FS_RemoveElement, Zenon
<1>3. Cardinality(S \ {x}) <= Cardinality(T)
  BY FS_Subset
<1> QED
  BY <1>1, <1>2, <1>3

(* While a worker is blocked in an open pool each queued job has a woken   *)
(* worker or a notification to come.  The invariant is inductive on top of *)
(* TypeOK: a worker blocks on an empty queue only, a job that enters the   *)
(* queue brings a notification to come, which wakes a blocked worker when  *)
(* it is made, and a woken worker that is counted leaves with a job.       *)
THEOREM NoWakeupLost == Spec => []NoLostWakeup
<1>1. Init => NoLostWakeup
  BY DEF Init, NoLostWakeup, Waiting
<1>2. TypeOK /\ NoLostWakeup /\ [Next]_vars => NoLostWakeup'
  <2>s. /\ Notifications = Cardinality(Notified) + Cardinality(Notifiers) + MainNotifies
        /\ Notifications' = Cardinality(Notified') + Cardinality(Notifiers') + MainNotifies'
    BY Zenon DEF Notifications, Notifiers, MainNotifies
  <2> SUFFICES ASSUME TypeOK, NoLostWakeup, [Next]_vars, Waiting' # {}, ~stopping'
               PROVE  Len(queue') <= Cardinality(Notified') + Cardinality(Notifiers') + MainNotifies'
    BY <2>s DEF NoLostWakeup
  <2> DEFINE Goal == Len(queue') <= Cardinality(Notified') + Cardinality(Notifiers') + MainNotifies'
  <2>t. /\ queue \in Seq(Jobs) /\ Len(queue) \in Nat
        /\ pc \in [Workers -> WorkerPc]
        /\ stopping = (main \in {"notifyAll", "joining", "exit"})
        /\ \A w \in Workers : job[w] # NoJob <=> pc[w] \in Runs
    BY DEF TypeOK
  <2>f. /\ IsFiniteSet(Waiting) /\ IsFiniteSet(Notified) /\ IsFiniteSet(Notifiers)
        /\ IsFiniteSet(Waiting') /\ IsFiniteSet(Notified') /\ IsFiniteSet(Notifiers')
    BY FS_Subset, ThreadPoolAssumption DEF Waiting, Notified, Notifiers
  <2>n. /\ Cardinality(Notified) \in Nat /\ Cardinality(Notifiers) \in Nat
        /\ Cardinality(Notified') \in Nat /\ Cardinality(Notifiers') \in Nat
        /\ MainNotifies \in 0..1 /\ MainNotifies' \in 0..1
    BY <2>f, FS_CardinalityType DEF MainNotifies
  <2>i. Waiting # {} /\ ~stopping =>
          Len(queue) <= Cardinality(Notified) + Cardinality(Notifiers) + MainNotifies
    BY <2>s DEF NoLostWakeup
  <2>1. ASSUME NEW w \in Workers, StartWorker(w) PROVE Goal
    <3>1. Waiting' = Waiting /\ Notified' = Notified /\ Notifiers' = Notifiers
      BY <2>1, <2>t DEF StartWorker, Waiting, Notified, Notifiers
    <3>2. MainNotifies' = MainNotifies /\ UNCHANGED <<queue, stopping>>
      BY <2>1 DEF StartWorker, MainNotifies
    <3> QED
      BY <3>1, <3>2, <2>i
  <2>2. CASE Submit
    <3>1. Waiting' = Waiting /\ Notified' = Notified /\ Notifiers' = Notifiers
      BY <2>2 DEF Submit, Waiting, Notified, Notifiers
    <3>2. MainNotifies = 0 /\ MainNotifies' = 1 /\ ~stopping
      BY <2>2 DEF Submit, Enqueue, MainNotifies
    <3>3. Len(queue') = Len(queue) + 1
      BY <2>2, <2>t DEF Submit, Enqueue
    <3> QED
      BY <3>1, <3>2, <3>3, <2>i, <2>n, <2>t
  <2>3. CASE SubmitNotifies
    <3>1. MainNotifies = 1 /\ MainNotifies' = 0 /\ UNCHANGED <<queue, stopping>>
      BY <2>3 DEF SubmitNotifies, LoopsOrGoesOn, MainNotifies
    <3>2. PICK v \in Waiting : pc' = [pc EXCEPT ![v] = "notified"]
      BY <2>3 DEF SubmitNotifies, NotifyOne, Waiting
    <3>3. v \notin Notified /\ Notified' = Notified \cup {v} /\ Notifiers' = Notifiers
      BY <3>2, <2>t DEF Waiting, Notified, Notifiers
    <3>4. Cardinality(Notified') = Cardinality(Notified) + 1
      BY <3>3, <2>f, FS_AddElement
    <3> QED
      BY <3>1, <3>2, <3>3, <3>4, <2>i, <2>n, <2>t
  <2>4. CASE Get \/ Stop \/ Join
    <3>1. MainNotifies = 0 /\ MainNotifies' = 0 /\ UNCHANGED <<queue, pc>>
      BY <2>4 DEF Get, LoopsOrGoesOn, Stop, Join, MainNotifies
    <3>2. Waiting' = Waiting /\ Notified' = Notified /\ Notifiers' = Notifiers
      BY <3>1 DEF Waiting, Notified, Notifiers
    <3>3. ~stopping
      BY <2>4 DEF Get, Stop, Join
    <3> QED
      BY <3>1, <3>2, <3>3, <2>i
  <2>5. CASE StopNotifies
    BY <2>5, <2>t DEF StopNotifies
  <2>6. ASSUME NEW w \in Workers, WorkerBlocks(w) PROVE Goal
    BY <2>6, <2>n DEF WorkerBlocks, Moves, CanProceed
  <2>7. ASSUME NEW w \in Workers, WorkerStops(w) PROVE Goal
    BY <2>7 DEF WorkerStops, Moves, MustStop
  <2>8. ASSUME NEW w \in Workers, WorkerTakes(w) PROVE Goal
    <3>1. Len(queue') = Len(queue) - 1 /\ ~stopping /\ MainNotifies' = MainNotifies
      BY <2>8, <2>t DEF WorkerTakes, CanProceed, MustStop, Popped, MainNotifies
    <3>2. Waiting' = Waiting /\ Notified \ {w} \subseteq Notified' /\ Notifiers' = Notifiers
      BY <2>8, <2>t DEF WorkerTakes, InLoop, Waiting, Notified, Notifiers
    <3>3. Cardinality(Notified') >= Cardinality(Notified) - 1
      BY <3>2, <2>f, LosesAtMostOne
    <3> QED
      BY <3>1, <3>2, <3>3, <2>i, <2>n, <2>t
  <2>9. ASSUME NEW w \in Workers, JobReturns(w) PROVE Goal
    <3>1. Waiting' = Waiting /\ Notified' = Notified /\ Notifiers' = Notifiers
      BY <2>9, <2>t DEF JobReturns, Loops, Waiting, Notified, Notifiers
    <3>2. MainNotifies' = MainNotifies /\ UNCHANGED <<queue, stopping>>
      BY <2>9 DEF JobReturns, Loops, MainNotifies
    <3> QED
      BY <3>1, <3>2, <2>i
  <2>10. ASSUME NEW w \in Workers, JobSubmits(w) PROVE Goal
    <3>1. /\ Waiting' = Waiting /\ Notified' = Notified
          /\ w \notin Notifiers /\ Notifiers' = Notifiers \cup {w}
      BY <2>10, <2>t DEF JobSubmits, Waiting, Notified, Notifiers
    <3>2. Len(queue') = Len(queue) + 1 /\ ~stopping /\ MainNotifies' = MainNotifies
      BY <2>10, <2>t DEF JobSubmits, Enqueue, MainNotifies
    <3>3. Cardinality(Notifiers') = Cardinality(Notifiers) + 1
      BY <3>1, <2>f, FS_AddElement
    <3> QED
      BY <3>1, <3>2, <3>3, <2>i, <2>n, <2>t
  <2>11. ASSUME NEW w \in Workers, JobNotifies(w) PROVE Goal
    <3>1. UNCHANGED <<queue, stopping>> /\ MainNotifies' = MainNotifies /\ pc[w] = "notifying"
      BY <2>11 DEF JobNotifies, MainNotifies
    <3>2. PICK v \in Waiting : pc' = [[pc EXCEPT ![w] = "finishing"] EXCEPT ![v] = "notified"]
      <4>1. CASE Waiting = {}
        BY <4>1, <2>11, <2>t DEF JobNotifies, NotifyOne, Waiting
      <4>2. CASE Waiting # {}
        BY <4>2, <2>11 DEF JobNotifies, NotifyOne
      <4> QED
        BY <4>1, <4>2
    <3>3. v \notin Notified /\ Notified' = Notified \cup {v} /\ Notifiers \ {w} \subseteq Notifiers'
      BY <3>1, <3>2, <2>t DEF Waiting, Notified, Notifiers
    <3>4. Cardinality(Notified') = Cardinality(Notified) + 1
      BY <3>3, <2>f, FS_AddElement
    <3>5. Cardinality(Notifiers') >= Cardinality(Notifiers) - 1
      BY <3>3, <2>f, LosesAtMostOne
    <3> QED
      BY <3>1, <3>2, <3>4, <3>5, <2>i, <2>n, <2>t
  <2>12. ASSUME NEW w \in Workers, JobRefused(w) PROVE Goal
    BY <2>12 DEF JobRefused, Loops
  <2>13. ASSUME NEW w \in Workers, SpuriousWakeup(w) PROVE Goal
    <3>1. w \in Waiting /\ Notified \subseteq Notified' /\ Notifiers' = Notifiers
      BY <2>13, <2>t DEF SpuriousWakeup, Moves, Waiting, Notified, Notifiers
    <3>2. Cardinality(Notified) <= Cardinality(Notified')
      BY <3>1, <2>f, FS_Subset
    <3>3. UNCHANGED <<queue, stopping>> /\ MainNotifies' = MainNotifies
      BY <2>13 DEF SpuriousWakeup, Moves, MainNotifies
    <3> QED
      BY <3>1, <3>2, <3>3, <2>i, <2>n, <2>t
  <2>14. CASE UNCHANGED vars
    BY <2>14, <2>i DEF vars, Waiting, Notified, Notifiers, MainNotifies
  <2> QED
    BY <2>1, <2>2, <2>3, <2>4, <2>5, <2>6, <2>7, <2>8, <2>9, <2>10, <2>11, <2>12,
       <2>13, <2>14 DEF Next, Main, Worker
<1> QED
  BY <1>1, <1>2, TypeCorrect, PTL DEF Spec

-----------------------------------------------------------------------------
(***************************************************************************)
(* The inductive invariant                                                 *)
(***************************************************************************)

(* A job is in one place at most, and it is in one exactly while its       *)
(* future is pending.                                                      *)
OnePlace ==
  /\ \A i, k \in DOMAIN queue : queue[i] = queue[k] => i = k
  /\ \A v, w \in Workers : job[v] = job[w] /\ job[v] # NoJob => v = w
  /\ \A i \in DOMAIN queue, w \in Workers : queue[i] # job[w]
  /\ \A j \in Jobs :
       future[j] = "pending" <=> \/ \E i \in DOMAIN queue : queue[i] = j
                                 \/ \E w \in Workers : job[w] = j

(* The jobs main() has submitted are those before its loop counter.        *)
IsSubmitted(j) ==
  CASE main \in {"starting", "submitting"} -> j < next
    [] main = "notifying"                  -> j <= next
    [] OTHER                               -> TRUE

(* A job of main() enters the queue when main() submits it; waiting for    *)
(* the results, main() has read the values of the jobs before its counter, *)
(* and of all of them when it destroys the pool.                           *)
MainsJobs ==
  /\ \A j \in Submitted : future[j] = "none" <=> ~IsSubmitted(j)
  /\ \A j \in Submitted : future[j] # "refused"
  /\ main = "awaiting" => AwaitResults /\ \A j \in Submitted : j < next => future[j] = "value"
  /\ AwaitResults /\ main \in {"stopping", "notifyAll", "joining", "exit"}
       => \A j \in Submitted : future[j] = "value"

(* A job submits its own job while a worker runs it, and it fails exactly  *)
(* when that is refused, which only a stopping pool does.                  *)
ChildrensJobs ==
  /\ \A w \in Workers :
       pc[w] \in {"notifying", "finishing"} =>
         job[w] \in Spawning /\ future[Child(job[w])] \in {"pending", "value"}
  /\ \A j \in Spawning :
       /\ future[j] \in {"none", "pending"} =>
            \/ future[Child(j)] = "none"
            \/ \E w \in Workers : job[w] = j /\ pc[w] \in {"notifying", "finishing"}
       /\ future[j] = "value" => future[Child(j)] \in {"pending", "value"}
       /\ future[j] = "exception" <=> future[Child(j)] = "refused"
       /\ future[j] = "exception" => stopping
  /\ \A j \in Jobs \ Spawning : future[j] # "exception"

(* A worker returns from an empty queue that no job can enter any more.    *)
Stopped ==
  /\ \A w \in Workers : pc[w] = "stopped" => stopping /\ queue = <<>>
  /\ main = "exit" => \A w \in Workers : pc[w] = "stopped"

IInv == TypeOK /\ OnePlace /\ MainsJobs /\ ChildrensJobs /\ Stopped

(* The invariant holds before the first worker is started.                 *)
LEMMA InitIInv == Init => IInv
<1> SUFFICES ASSUME Init PROVE IInv
  OBVIOUS
<1> USE ThreadPoolAssumption, JobFacts DEF Init
<1>1. OnePlace
  BY DEF OnePlace
<1>2. MainsJobs
  BY DEF MainsJobs, IsSubmitted, Submitted
<1>3. ChildrensJobs
  BY DEF ChildrensJobs
<1>4. Stopped
  BY DEF Stopped
<1> QED
  BY <1>1, <1>2, <1>3, <1>4, TypeInit DEF IInv

(* A job in its first step has a pending future, and its own job is new.   *)
LEMMA SpawnerRuns ==
  ASSUME IInv, NEW w \in Workers, pc[w] = "running"
  PROVE  /\ job[w] \in Jobs /\ future[job[w]] = "pending"
         /\ job[w] \in Spawning => future[Child(job[w])] = "none"
<1>1. job[w] \in Jobs /\ job[w] # NoJob
  BY DEF IInv, TypeOK, Runs
<1>2. future[job[w]] = "pending"
  BY <1>1 DEF IInv, OnePlace
<1>3. ~ \E v \in Workers : job[v] = job[w] /\ pc[v] \in {"notifying", "finishing"}
  BY <1>1 DEF IInv, OnePlace
<1> QED
  BY <1>1, <1>2, <1>3 DEF IInv, ChildrensJobs

(* A job whose future did not exist enters the queue.                      *)
LEMMA EnqueueOnePlace ==
  ASSUME TypeOK, OnePlace, NEW j \in Jobs, future[j] = "none", Enqueue(j), job' = job
  PROVE  OnePlace'
<1>1. /\ queue \in Seq(Jobs) /\ Len(queue) \in Nat
      /\ DOMAIN queue = 1..Len(queue)
      /\ future \in [Jobs -> FutureState]
  BY DEF TypeOK
<1>2. /\ DOMAIN queue' = 1..(Len(queue) + 1)
      /\ queue'[Len(queue) + 1] = j
      /\ \A i \in DOMAIN queue : queue'[i] = queue[i]
  BY <1>1 DEF Enqueue
<1>3. \A i \in DOMAIN queue' : i \in DOMAIN queue \/ i = Len(queue) + 1
  BY <1>1, <1>2
<1>4. \A i \in DOMAIN queue : i \in DOMAIN queue' /\ i # Len(queue) + 1
  BY <1>1, <1>2
<1>5. Len(queue) + 1 \in DOMAIN queue'
  BY <1>1, <1>2
<1>6. /\ \A i \in DOMAIN queue : queue[i] # j
      /\ \A w \in Workers : job[w] # j
  BY DEF OnePlace
<1>7. /\ future'[j] = "pending"
      /\ \A k \in Jobs \ {j} : future'[k] = future[k]
  BY <1>1 DEF Enqueue
<1> DEFINE n == Len(queue) + 1
<1> HIDE DEF n
<1>8. \A i, k \in DOMAIN queue' : queue'[i] = queue'[k] => i = k
  BY <1>2, <1>3, <1>6 DEF OnePlace, n
<1>9. \A i \in DOMAIN queue', w \in Workers : queue'[i] # job'[w]
  BY <1>2, <1>3, <1>6 DEF OnePlace
<1>10. \A k \in Jobs :
         future'[k] = "pending" <=> \/ \E i \in DOMAIN queue' : queue'[i] = k
                                    \/ \E w \in Workers : job'[w] = k
  <2> SUFFICES ASSUME NEW k \in Jobs
               PROVE  future'[k] = "pending" <=> \/ \E i \in DOMAIN queue' : queue'[i] = k
                                                 \/ \E w \in Workers : job'[w] = k
    OBVIOUS
  <2>1. CASE k = j
    BY <2>1, <1>2, <1>5, <1>7
  <2>2. CASE k # j
    BY <2>2, <1>2, <1>3, <1>4, <1>7 DEF OnePlace
  <2> QED
    BY <2>1, <2>2
<1> QED
  BY <1>8, <1>9, <1>10 DEF OnePlace

(* A worker takes the oldest job out of the queue.                         *)
LEMMA TakeOnePlace ==
  ASSUME TypeOK, OnePlace, NEW w \in Workers, WorkerTakes(w)
  PROVE  OnePlace'
<1>1. /\ queue \in Seq(Jobs) /\ Len(queue) \in Nat \ {0}
      /\ DOMAIN queue = 1..Len(queue)
      /\ job \in [Workers -> Jobs \cup {NoJob}]
      /\ pc[w] \notin Runs
  BY DEF TypeOK, WorkerTakes, CanProceed, MustStop, InLoop, Runs
<1>2. job[w] = NoJob
  BY <1>1 DEF TypeOK
<1>3. /\ job'[w] = queue[1]
      /\ \A v \in Workers \ {w} : job'[v] = job[v]
      /\ future' = future
  BY <1>1 DEF WorkerTakes
<1>4. /\ DOMAIN queue' = 1..(Len(queue) - 1)
      /\ \A i \in DOMAIN queue' : queue'[i] = queue[i + 1]
  BY <1>1 DEF WorkerTakes, Popped
<1>5. \A i \in DOMAIN queue' : i + 1 \in DOMAIN queue /\ i + 1 # 1 /\ i \in Int
  BY <1>1, <1>4
<1>6. 1 \in DOMAIN queue /\ queue[1] \in Jobs /\ queue[1] # NoJob
  BY <1>1, JobFacts
<1>7. \A i \in DOMAIN queue : i = 1 \/ \E k \in DOMAIN queue' : i = k + 1
  <2> SUFFICES ASSUME NEW i \in DOMAIN queue, i # 1
               PROVE  \E k \in DOMAIN queue' : i = k + 1
    OBVIOUS
  <2>1. i - 1 \in DOMAIN queue' /\ i = (i - 1) + 1
    BY <1>1, <1>4
  <2> QED
    BY <2>1
<1>8. \A i, k \in DOMAIN queue' : queue'[i] = queue'[k] => i = k
  BY <1>4, <1>5 DEF OnePlace
<1>9. \A u, v \in Workers : job'[u] = job'[v] /\ job'[u] # NoJob => u = v
  BY <1>3, <1>6 DEF OnePlace
<1>10. \A i \in DOMAIN queue', v \in Workers : queue'[i] # job'[v]
  BY <1>3, <1>4, <1>5, <1>6 DEF OnePlace
<1>11. \A k \in Jobs :
         future'[k] = "pending" <=> \/ \E i \in DOMAIN queue' : queue'[i] = k
                                    \/ \E v \in Workers : job'[v] = k
  <2> SUFFICES ASSUME NEW k \in Jobs
               PROVE  (\/ \E i \in DOMAIN queue : queue[i] = k
                       \/ \E v \in Workers : job[v] = k)
                      <=> \/ \E i \in DOMAIN queue' : queue'[i] = k
                          \/ \E v \in Workers : job'[v] = k
    BY <1>3 DEF OnePlace
  <2>1. ASSUME NEW i \in DOMAIN queue, queue[i] = k
        PROVE  \/ \E m \in DOMAIN queue' : queue'[m] = k
               \/ \E v \in Workers : job'[v] = k
    BY <2>1, <1>3, <1>4, <1>7
  <2>2. ASSUME NEW v \in Workers, job[v] = k
        PROVE  \E u \in Workers : job'[u] = k
    BY <2>2, <1>2, <1>3, JobFacts
  <2>3. ASSUME NEW i \in DOMAIN queue', queue'[i] = k
        PROVE  \E m \in DOMAIN queue : queue[m] = k
    BY <2>3, <1>4, <1>5
  <2>4. ASSUME NEW v \in Workers, job'[v] = k
        PROVE  \/ \E m \in DOMAIN queue : queue[m] = k
               \/ \E u \in Workers : job[u] = k
    BY <2>4, <1>3, <1>6
  <2> QED
    BY <2>1, <2>2, <2>3, <2>4
<1> QED
  BY <1>8, <1>9, <1>10, <1>11 DEF OnePlace

(* A worker's job ends with its future ready, any change to other futures  *)
(* leaving pending those that were.                                        *)
LEMMA EndOnePlace ==
  ASSUME TypeOK, OnePlace, NEW w \in Workers, job[w] # NoJob, Loops(w),
         future'[job[w]] # "pending",
         \A j \in Jobs \ {job[w]} : future'[j] = "pending" <=> future[j] = "pending"
  PROVE  OnePlace'
<1>1. job \in [Workers -> Jobs \cup {NoJob}] /\ job[w] \in Jobs
  BY DEF TypeOK
<1>2. /\ job'[w] = NoJob /\ NoJob \notin Jobs
      /\ \A v \in Workers \ {w} : job'[v] = job[v]
      /\ queue' = queue
  BY <1>1, JobFacts DEF Loops
<1>3. queue \in Seq(Jobs) /\ \A i \in DOMAIN queue : queue[i] \in Jobs
  BY DEF TypeOK
<1>4. \A u, v \in Workers : job'[u] = job'[v] /\ job'[u] # NoJob => u = v
  BY <1>2 DEF OnePlace
<1>5. \A i \in DOMAIN queue, v \in Workers : queue[i] # job'[v]
  BY <1>2, <1>3 DEF OnePlace
<1>6. \A k \in Jobs :
         future'[k] = "pending" <=> \/ \E i \in DOMAIN queue : queue[i] = k
                                    \/ \E v \in Workers : job'[v] = k
  <2> SUFFICES ASSUME NEW k \in Jobs
               PROVE  future'[k] = "pending" <=> \/ \E i \in DOMAIN queue : queue[i] = k
                                                 \/ \E v \in Workers : job'[v] = k
    OBVIOUS
  <2>1. CASE k = job[w]
    BY <2>1, <1>1, <1>2 DEF OnePlace
  <2>2. CASE k # job[w]
    BY <2>2, <1>1, <1>2 DEF OnePlace
  <2> QED
    BY <2>1, <2>2
<1> QED
  BY <1>2, <1>4, <1>5, <1>6 DEF OnePlace

(* A step that leaves the queue, the workers' jobs and the futures alone.  *)
Idle == UNCHANGED <<queue, job, future>>

(* A notification by main() moves blocked workers only.                    *)
LEMMA MainNotifiesPc ==
  ASSUME TypeOK, SubmitNotifies \/ StopNotifies
  PROVE  \A w \in Workers : pc'[w] = pc[w] \/ (pc[w] = "waiting" /\ pc'[w] = "notified")
<1>t. pc \in [Workers -> WorkerPc]
  BY DEF TypeOK
<1>1. CASE SubmitNotifies
  BY <1>1, <1>t, NotifyMoves DEF SubmitNotifies
<1>2. CASE StopNotifies
  BY <1>2, <1>t DEF StopNotifies, NotifyAll, Waiting
<1> QED
  BY <1>1, <1>2

(* So does the notification of a job's submit(), apart from the worker     *)
(* that makes it.                                                          *)
LEMMA JobNotifiesPc ==
  ASSUME TypeOK, NEW w \in Workers, JobNotifies(w)
  PROVE  /\ pc[w] = "notifying" /\ pc'[w] = "finishing"
         /\ \A v \in Workers \ {w} :
              pc'[v] = pc[v] \/ (pc[v] = "waiting" /\ pc'[v] = "notified")
<1> DEFINE f == [pc EXCEPT ![w] = "finishing"]
<1>1. pc[w] = "notifying" /\ pc' \in NotifyOne(f)
  BY DEF JobNotifies
<1>2. /\ f \in [Workers -> WorkerPc] /\ f[w] = "finishing"
      /\ \A v \in Workers \ {w} : f[v] = pc[v]
  BY DEF TypeOK, WorkerPc
<1> HIDE DEF f
<1>3. \A v \in Workers : pc'[v] = f[v] \/ (pc[v] = "waiting" /\ pc'[v] = "notified")
  BY <1>1, <1>2, NotifyMoves
<1> QED
  BY <1>1, <1>2, <1>3

(* Every step keeps each job in one place.                                 *)
LEMMA OnePlaceNext == IInv /\ [Next]_vars => OnePlace'
<1> SUFFICES ASSUME IInv, [Next]_vars PROVE OnePlace'
  OBVIOUS
<1>t. TypeOK /\ OnePlace /\ future \in [Jobs -> FutureState]
  BY DEF IInv, TypeOK
<1>1. ASSUME Idle PROVE OnePlace'
  BY <1>1, <1>t DEF Idle, OnePlace
<1>2. CASE Submit
  <2>1. next \in Jobs /\ future[next] = "none"
    <3>1. next \in Submitted /\ next \in Nat
      BY <1>t DEF TypeOK, Submitted
    <3>2. ~IsSubmitted(next)
      BY <1>2, <3>1 DEF Submit, IsSubmitted
    <3> QED
      BY <3>1, <3>2, JobFacts DEF IInv, MainsJobs
  <2> QED
    BY <1>2, <1>t, <2>1, EnqueueOnePlace DEF Submit
<1>3. ASSUME NEW w \in Workers, WorkerTakes(w) PROVE OnePlace'
  BY <1>3, <1>t, TakeOnePlace
<1>4. ASSUME NEW w \in Workers, JobReturns(w) PROVE OnePlace'
  <2>1. job[w] \in Jobs /\ job[w] # NoJob
    BY <1>4 DEF IInv, TypeOK, JobReturns, Runs
  <2>2. /\ future'[job[w]] # "pending"
        /\ \A j \in Jobs \ {job[w]} : future'[j] = future[j]
    BY <1>4, <1>t, <2>1 DEF JobReturns
  <2> QED
    BY <1>4, <1>t, <2>1, <2>2, EndOnePlace DEF JobReturns
<1>5. ASSUME NEW w \in Workers, JobSubmits(w) PROVE OnePlace'
  <2>1. future[Child(job[w])] = "none" /\ Child(job[w]) \in Jobs
    BY <1>5, SpawnerRuns, JobFacts DEF JobSubmits
  <2> QED
    BY <1>5, <1>t, <2>1, EnqueueOnePlace DEF JobSubmits
<1>6. ASSUME NEW w \in Workers, JobRefused(w) PROVE OnePlace'
  <2>1. /\ job[w] \in Jobs /\ job[w] # NoJob
        /\ future[Child(job[w])] = "none" /\ Child(job[w]) \in Jobs
    BY <1>6, SpawnerRuns, JobFacts DEF JobRefused
  <2>2. /\ future'[job[w]] # "pending"
        /\ \A j \in Jobs \ {job[w]} : future'[j] = "pending" <=> future[j] = "pending"
    BY <1>6, <1>t, <2>1 DEF JobRefused
  <2> QED
    BY <1>6, <1>t, <2>1, <2>2, EndOnePlace DEF JobRefused
<1> QED
  BY <1>1, <1>2, <1>3, <1>4, <1>5, <1>6
  DEF Next, Main, Worker, Idle, StartWorker, SubmitNotifies, Get, Stop, StopNotifies, Join,
      WorkerBlocks, WorkerStops, JobNotifies, SpuriousWakeup, Moves, vars

(* Every step keeps what is said of main()'s jobs.                         *)
LEMMA MainsJobsNext == IInv /\ [Next]_vars => MainsJobs'
<1> SUFFICES ASSUME IInv, [Next]_vars PROVE MainsJobs'
  OBVIOUS
<1>t. /\ MainsJobs /\ NumJobs \in Nat \ {0} /\ Submitted = 1..NumJobs
      /\ next \in Submitted /\ future \in [Jobs -> FutureState]
      /\ Submitted \subseteq Jobs
      /\ \A w \in Workers : pc[w] \in Runs => job[w] \in Jobs
  BY ThreadPoolAssumption, JobFacts DEF IInv, TypeOK, Submitted
<1>1. CASE Submit
  <2>1. /\ main = "submitting" /\ main' = "notifying" /\ next' = next
        /\ future' = [future EXCEPT ![next] = "pending"]
    BY <1>1 DEF Submit, Enqueue
  <2>2. \A j \in Submitted : IsSubmitted(j)' <=> IsSubmitted(j) \/ j = next
    BY <1>t, <2>1 DEF IsSubmitted
  <2> QED
    BY <1>t, <2>1, <2>2 DEF MainsJobs
<1>2. CASE SubmitNotifies
  <2>1. \A j \in Submitted : IsSubmitted(j)' <=> IsSubmitted(j)
    BY <1>2, <1>t DEF SubmitNotifies, LoopsOrGoesOn, IsSubmitted
  <2> QED
    BY <1>2, <1>t, <2>1 DEF SubmitNotifies, LoopsOrGoesOn, MainsJobs
<1>3. CASE Get
  <2>1. /\ main = "awaiting" /\ future[next] = "value" /\ future' = future
        /\ main' = IF next < NumJobs THEN "awaiting" ELSE "stopping"
        /\ next' = IF next < NumJobs THEN next + 1 ELSE 1
    BY <1>3 DEF Get, GetReturns, LoopsOrGoesOn
  <2>2. \A j \in Submitted : IsSubmitted(j) /\ IsSubmitted(j)'
    BY <2>1 DEF IsSubmitted
  <2>3. \A j \in Submitted : j <= next => future[j] = "value"
    BY <1>t, <2>1 DEF MainsJobs
  <2> QED
    BY <1>t, <2>1, <2>2, <2>3 DEF MainsJobs
<1>4. CASE Stop \/ StopNotifies \/ Join
  <2>1. \A j \in Submitted : IsSubmitted(j)' <=> IsSubmitted(j)
    BY <1>4 DEF Stop, StopNotifies, Join, IsSubmitted
  <2> QED
    BY <1>4, <1>t, <2>1 DEF Stop, StopNotifies, Join, MainsJobs
<1>5. ASSUME NEW w \in Workers, StartWorker(w) PROVE MainsJobs'
  <2>1. \A j \in Submitted : IsSubmitted(j)' <=> IsSubmitted(j)
    BY <1>5 DEF StartWorker, IsSubmitted
  <2> QED
    BY <1>5, <1>t, <2>1 DEF StartWorker, MainsJobs
(* A step that leaves main() alone changes the futures of jobs that are    *)
(* pending, and of jobs that are not main()'s.                             *)
<1>6. ASSUME UNCHANGED <<main, next>>, future' \in [Jobs -> FutureState],
             \A j \in Submitted :
               \/ future'[j] = future[j]
               \/ future[j] = "pending" /\ future'[j] \in {"value", "exception"}
      PROVE  MainsJobs'
  <2>1. \A j \in Submitted : IsSubmitted(j)' <=> IsSubmitted(j)
    BY <1>6 DEF IsSubmitted
  <2> QED
    BY <1>6, <1>t, <2>1 DEF MainsJobs
<1>7. future' \in [Jobs -> FutureState]
  BY TypeNext DEF IInv, TypeOK
<1>8. ASSUME NEW w \in Workers, JobReturns(w) PROVE MainsJobs'
  <2>1. job[w] \in Jobs /\ future[job[w]] = "pending"
    BY <1>8, <1>t DEF JobReturns, Runs, IInv, OnePlace
  <2> QED
    BY <1>8, <1>6, <1>7, <1>t, <2>1 DEF JobReturns, Loops
<1>9. ASSUME NEW w \in Workers, JobSubmits(w) PROVE MainsJobs'
  <2>1. Child(job[w]) \notin Submitted
    BY <1>9, JobFacts DEF JobSubmits
  <2> QED
    BY <1>9, <1>6, <1>7, <1>t, <2>1 DEF JobSubmits, Enqueue
<1>10. ASSUME NEW w \in Workers, JobRefused(w) PROVE MainsJobs'
  <2>1. /\ Child(job[w]) \in Jobs \ Submitted
        /\ job[w] \in Jobs /\ future[job[w]] = "pending"
    BY <1>10, SpawnerRuns, JobFacts DEF JobRefused
  <2> QED
    BY <1>10, <1>6, <1>7, <1>t, <2>1 DEF JobRefused, Loops
<1>11. ASSUME UNCHANGED <<future, main, next>> PROVE MainsJobs'
  BY <1>11, <1>6, <1>7
<1> QED
  BY <1>1, <1>2, <1>3, <1>4, <1>5, <1>8, <1>9, <1>10, <1>11
  DEF Next, Main, Worker, WorkerBlocks, WorkerStops, WorkerTakes, JobNotifies,
      SpuriousWakeup, Moves, vars

(* Every step keeps what is said of the jobs the jobs submit.              *)
LEMMA ChildrensJobsNext == IInv /\ [Next]_vars => ChildrensJobs'
<1> SUFFICES ASSUME IInv, [Next]_vars PROVE ChildrensJobs'
  OBVIOUS
<1> DEFINE InSubmit == {"notifying", "finishing"}
<1>t. /\ TypeOK /\ ChildrensJobs
      /\ pc \in [Workers -> WorkerPc] /\ job \in [Workers -> Jobs \cup {NoJob}]
      /\ future \in [Jobs -> FutureState]
  BY DEF IInv, TypeOK
<1>j. /\ NoJob \notin Jobs /\ Spawning \subseteq Submitted /\ Submitted \subseteq Jobs
      /\ \A j \in Spawning : Child(j) \in Jobs /\ Child(j) \notin Submitted
      /\ \A j, k \in Spawning : Child(j) = Child(k) => j = k
  BY JobFacts
(* Steps that change no future and nobody's place in a job's submit().     *)
<1>1. ASSUME UNCHANGED <<job, future>>, stopping => stopping',
             \A w \in Workers : pc'[w] \in InSubmit <=> pc[w] \in InSubmit
      PROVE  ChildrensJobs'
  BY <1>1, <1>t DEF ChildrensJobs
<1>2. CASE Main /\ ~Submit
  <2>1. UNCHANGED <<job, future>> /\ (stopping => stopping')
    BY <1>2, <1>t DEF Main, StartWorker, SubmitNotifies, Get, Stop, StopNotifies, Join
  <2>2. \A w \in Workers : pc'[w] \in InSubmit <=> pc[w] \in InSubmit
    <3>1. CASE SubmitNotifies \/ StopNotifies
      BY <3>1, <1>t, MainNotifiesPc
    <3>2. CASE ~(SubmitNotifies \/ StopNotifies)
      BY <3>2, <1>2, <1>t DEF Main, StartWorker, Get, Stop, Join
    <3> QED
      BY <3>1, <3>2
  <2> QED
    BY <1>1, <2>1, <2>2
<1>3. CASE Submit
  <2>1. /\ next \in Submitted /\ future[next] = "none"
        /\ future'[next] = "pending" /\ \A j \in Jobs \ {next} : future'[j] = future[j]
        /\ UNCHANGED <<pc, job, stopping>>
    <3>1. next \in Submitted /\ next \in Nat
      BY DEF IInv, TypeOK, Submitted
    <3>2. ~IsSubmitted(next)
      BY <1>3, <3>1 DEF Submit, IsSubmitted
    <3>3. future[next] = "none"
      BY <3>1, <3>2 DEF IInv, MainsJobs
    <3> QED
      BY <1>3, <1>t, <1>j, <3>1, <3>3 DEF Submit, Enqueue
  <2>2. \A j \in Spawning : future'[Child(j)] = future[Child(j)]
    BY <2>1, <1>j
  <2> QED
    BY <2>1, <2>2, <1>t, <1>j DEF ChildrensJobs
<1>4. ASSUME NEW w \in Workers, WorkerBlocks(w) \/ WorkerStops(w) \/ SpuriousWakeup(w)
      PROVE  ChildrensJobs'
  BY <1>4, <1>1, <1>t DEF WorkerBlocks, WorkerStops, SpuriousWakeup, InLoop, Moves
<1>5. ASSUME NEW w \in Workers, WorkerTakes(w) PROVE ChildrensJobs'
  <2>1. /\ pc[w] \notin InSubmit /\ pc'[w] \notin InSubmit
        /\ \A v \in Workers \ {w} : pc'[v] = pc[v] /\ job'[v] = job[v]
        /\ UNCHANGED <<future, stopping>>
    BY <1>5, <1>t DEF WorkerTakes, InLoop
  <2> QED
    BY <2>1, <1>t DEF ChildrensJobs
<1>6. ASSUME NEW w \in Workers, JobReturns(w) PROVE ChildrensJobs'
  <2>1. job[w] \in Jobs /\ future[job[w]] = "pending"
    BY <1>6 DEF IInv, TypeOK, OnePlace, JobReturns, Runs
  <2>2. /\ future'[job[w]] = "value"
        /\ \A j \in Jobs \ {job[w]} : future'[j] = future[j]
        /\ pc'[w] \notin InSubmit /\ UNCHANGED stopping
        /\ \A v \in Workers \ {w} : pc'[v] = pc[v] /\ job'[v] = job[v]
    BY <1>6, <1>t, <2>1 DEF JobReturns, Loops
  <2>3. job[w] \in Spawning => future[Child(job[w])] \in {"pending", "value"}
    BY <1>6, <1>t DEF JobReturns, ChildrensJobs
  <2> DEFINE j0 == job[w]
  <2>4. ASSUME NEW v \in Workers, pc'[v] \in InSubmit
        PROVE  job'[v] \in Spawning /\ future'[Child(job'[v])] \in {"pending", "value"}
    <3>1. v # w /\ job[v] \in Spawning /\ future[Child(job[v])] \in {"pending", "value"}
      BY <2>2, <2>4, <1>t DEF ChildrensJobs
    <3> QED
      BY <2>2, <3>1, <1>j
  <2>5. ASSUME NEW j \in Spawning
        PROVE  /\ future'[j] \in {"none", "pending"} =>
                    \/ future'[Child(j)] = "none"
                    \/ \E v \in Workers : job'[v] = j /\ pc'[v] \in InSubmit
               /\ future'[j] = "value" => future'[Child(j)] \in {"pending", "value"}
               /\ future'[j] = "exception" <=> future'[Child(j)] = "refused"
               /\ future'[j] = "exception" => stopping'
    <3>1. j \in Jobs /\ Child(j) \in Jobs /\ Child(j) # j
      BY <1>j
    <3>2. /\ future[j] \in {"none", "pending"} =>
               \/ future[Child(j)] = "none"
               \/ \E v \in Workers : job[v] = j /\ pc[v] \in InSubmit
          /\ future[j] = "value" => future[Child(j)] \in {"pending", "value"}
          /\ future[j] = "exception" <=> future[Child(j)] = "refused"
          /\ future[j] = "exception" => stopping
      BY <1>t DEF ChildrensJobs
    <3>3. CASE j = j0
      BY <3>1, <3>2, <3>3, <2>1, <2>2, <2>3
    <3>4. CASE j # j0
      <4>1. \A v \in Workers : job[v] = j /\ pc[v] \in InSubmit
                                 => job'[v] = j /\ pc'[v] \in InSubmit
        BY <3>4, <2>2
      <4> QED
        BY <3>1, <3>2, <3>4, <4>1, <2>1, <2>2
    <3> QED
      BY <3>3, <3>4
  <2>6. \A j \in Jobs \ Spawning : future'[j] # "exception"
    BY <2>1, <2>2, <1>t DEF ChildrensJobs
  <2> QED
    BY <2>4, <2>5, <2>6 DEF ChildrensJobs
<1>7. ASSUME NEW w \in Workers, JobSubmits(w) PROVE ChildrensJobs'
  <2>1. /\ job[w] \in Spawning /\ future[job[w]] = "pending"
        /\ future[Child(job[w])] = "none"
    BY <1>7, SpawnerRuns DEF JobSubmits
  <2>2. /\ future'[Child(job[w])] = "pending"
        /\ \A j \in Jobs \ {Child(job[w])} : future'[j] = future[j]
        /\ pc'[w] \in InSubmit /\ pc[w] \notin InSubmit /\ UNCHANGED <<job, stopping>>
        /\ \A v \in Workers \ {w} : pc'[v] = pc[v]
    BY <1>7, <1>t, <1>j, <2>1 DEF JobSubmits, Enqueue
  <2>3. ASSUME NEW j \in Spawning PROVE j # Child(job[w])
    BY <1>j, <2>1
  <2>4. ASSUME NEW j \in Spawning, j # job[w]
        PROVE  future'[Child(j)] = future[Child(j)]
    BY <1>j, <2>1, <2>2, <2>4
  <2> QED
    BY <2>1, <2>2, <2>3, <2>4, <1>t, <1>j DEF ChildrensJobs
<1>8. ASSUME NEW w \in Workers, JobNotifies(w) PROVE ChildrensJobs'
  <2>1. \A v \in Workers : pc'[v] \in InSubmit <=> pc[v] \in InSubmit
    BY <1>8, <1>t, JobNotifiesPc
  <2> QED
    BY <1>8, <1>1, <2>1 DEF JobNotifies
<1>9. ASSUME NEW w \in Workers, JobRefused(w) PROVE ChildrensJobs'
  <2>1. /\ job[w] \in Spawning /\ future[job[w]] = "pending"
        /\ future[Child(job[w])] = "none" /\ stopping
    BY <1>9, SpawnerRuns DEF JobRefused
  <2>2. /\ future'[Child(job[w])] = "refused" /\ future'[job[w]] = "exception"
        /\ \A j \in Jobs \ {job[w], Child(job[w])} : future'[j] = future[j]
        /\ pc'[w] \notin InSubmit /\ pc[w] \notin InSubmit /\ UNCHANGED stopping
        /\ \A v \in Workers \ {w} : pc'[v] = pc[v] /\ job'[v] = job[v]
    BY <1>9, <1>t, <1>j, <2>1 DEF JobRefused, Loops
  <2>3. ASSUME NEW j \in Spawning, j # job[w]
        PROVE  future'[Child(j)] = future[Child(j)] /\ future'[j] = future[j]
    BY <1>j, <2>1, <2>2, <2>3
  <2>4. ASSUME NEW v \in Workers, pc'[v] \in InSubmit
        PROVE  job'[v] \in Spawning /\ future'[Child(job'[v])] \in {"pending", "value"}
    <3>1. v # w /\ job[v] \in Spawning /\ future[Child(job[v])] \in {"pending", "value"}
      BY <2>2, <2>4, <1>t DEF ChildrensJobs
    <3>2. job[v] # job[w]
      BY <3>1, <2>1
    <3> QED
      BY <2>2, <2>3, <3>1, <3>2
  <2>5. \A v \in Workers : pc[v] \in InSubmit => pc'[v] = pc[v] /\ job'[v] = job[v]
    BY <2>2
  <2>6. \A j \in Jobs \ Spawning : future'[j] # "exception"
    BY <2>1, <2>2, <1>t DEF ChildrensJobs
  <2>7. ASSUME NEW j \in Spawning
        PROVE  /\ future'[j] \in {"none", "pending"} =>
                    \/ future'[Child(j)] = "none"
                    \/ \E v \in Workers : job'[v] = j /\ pc'[v] \in InSubmit
               /\ future'[j] = "value" => future'[Child(j)] \in {"pending", "value"}
               /\ future'[j] = "exception" <=> future'[Child(j)] = "refused"
               /\ future'[j] = "exception" => stopping'
    BY <2>1, <2>2, <2>3, <2>5, <1>t DEF ChildrensJobs
  <2> QED
    BY <2>4, <2>6, <2>7 DEF ChildrensJobs
<1>10. CASE UNCHANGED vars
  BY <1>10, <1>1 DEF vars
<1> QED
  BY <1>2, <1>3, <1>4, <1>5, <1>6, <1>7, <1>8, <1>9, <1>10 DEF Next, Worker

(* Every step keeps what is said of the workers that have returned.        *)
LEMMA StoppedNext == IInv /\ [Next]_vars => Stopped'
<1> SUFFICES ASSUME IInv, [Next]_vars PROVE Stopped'
  OBVIOUS
<1>t. /\ TypeOK /\ Stopped /\ pc \in [Workers -> WorkerPc]
      /\ stopping = (main \in {"notifyAll", "joining", "exit"})
  BY DEF IInv, TypeOK
<1>1. ASSUME NEW w \in Workers,
             WorkerBlocks(w) \/ WorkerStops(w) \/ WorkerTakes(w) \/ JobReturns(w)
               \/ JobSubmits(w) \/ JobRefused(w) \/ SpuriousWakeup(w)
      PROVE  Stopped'
  BY <1>1, <1>t
  DEF Stopped, InLoop, Moves, WorkerBlocks, WorkerStops, MustStop, WorkerTakes, JobReturns,
      Loops, JobSubmits, Enqueue, JobRefused, SpuriousWakeup
<1>2. ASSUME NEW w \in Workers, JobNotifies(w) PROVE Stopped'
  BY <1>2, <1>t, JobNotifiesPc DEF Stopped, JobNotifies
<1>3. CASE SubmitNotifies \/ StopNotifies
  <2>1. /\ \A w \in Workers : pc'[w] = "stopped" <=> pc[w] = "stopped"
        /\ UNCHANGED <<stopping, queue>> /\ main' # "exit"
    BY <1>3, <1>t, MainNotifiesPc DEF SubmitNotifies, LoopsOrGoesOn, StopNotifies
  <2> QED
    BY <1>t, <2>1 DEF Stopped
<1>4. CASE Main /\ ~(SubmitNotifies \/ StopNotifies)
  BY <1>4, <1>t DEF Stopped, Main, StartWorker, Submit, Enqueue, Get, LoopsOrGoesOn, Stop, Join
<1>5. CASE UNCHANGED vars
  BY <1>5, <1>t DEF vars, Stopped
<1> QED
  BY <1>1, <1>2, <1>3, <1>4, <1>5 DEF Next, Worker

(* The invariant is inductive, hence holds in every reachable state.       *)
LEMMA InductiveInv == Spec => []IInv
<1>1. IInv /\ [Next]_vars => IInv'
  BY TypeNext, OnePlaceNext, MainsJobsNext, ChildrensJobsNext, StoppedNext DEF IInv
<1> QED
  BY InitIInv, <1>1, PTL DEF Spec

-----------------------------------------------------------------------------
(* A set whose elements are all equal has one element if it has any.       *)
LEMMA AtMostOne ==
  ASSUME NEW S, \A x, y \in S : x = y
  PROVE  Cardinality(S) = IF S = {} THEN 0 ELSE 1
<1>1. CASE S = {}
  BY <1>1, FS_EmptySet
<1>2. CASE S # {}
  <2>1. PICK x : S = {x}
    BY <1>2
  <2> QED
    BY <1>2, <2>1, FS_Singleton
<1> QED
  BY <1>1, <1>2

(* An accepted job is at one position of the queue or with one worker,     *)
(* never both and never lost, until its future is ready.                   *)
THEOREM JobsAcceptedOnce == Spec => []AcceptedOnce
<1>1. IInv => AcceptedOnce
  <2> SUFFICES ASSUME IInv, NEW j \in Jobs
               PROVE  Cardinality({i \in DOMAIN queue : queue[i] = j})
                        + Cardinality({w \in Workers : job[w] = j})
                      = IF future[j] = "pending" THEN 1 ELSE 0
    BY DEF AcceptedOnce
  <2> DEFINE At == {i \in DOMAIN queue : queue[i] = j}
             With == {w \in Workers : job[w] = j}
  <2>1. Cardinality(At) = IF At = {} THEN 0 ELSE 1
    <3>1. \A x, y \in At : x = y
      BY DEF IInv, OnePlace
    <3> HIDE DEF At
    <3> QED
      BY <3>1, AtMostOne
  <2>2. Cardinality(With) = IF With = {} THEN 0 ELSE 1
    <3>1. \A x, y \in With : x = y
      BY JobFacts DEF IInv, OnePlace
    <3> HIDE DEF With
    <3> QED
      BY <3>1, AtMostOne
  <2>3. At = {} \/ With = {}
    BY DEF IInv, OnePlace
  <2>4. future[j] = "pending" <=> At # {} \/ With # {}
    BY DEF IInv, OnePlace
  <2> HIDE DEF At, With
  <2>5. Cardinality(At) + Cardinality(With) = IF future[j] = "pending" THEN 1 ELSE 0
    BY <2>1, <2>2, <2>3, <2>4
  <2> QED
    BY <2>5 DEF At, With
<1> QED
  BY <1>1, InductiveInv, PTL

(* The destructor returns with the queue drained and every future ready,   *)
(* and a job has failed exactly when the pool refused the job it           *)
(* submitted.  The workers have all stopped, which they do on an empty     *)
(* queue only, so that no future is left pending.                          *)
THEOREM DestructorDrains == Spec => []DrainedAtExit
<1>1. IInv => DrainedAtExit
  <2> SUFFICES ASSUME IInv, main = "exit" PROVE DrainedAtExit
    BY DEF DrainedAtExit
  <2>1. \A w \in Workers : pc[w] = "stopped" /\ job[w] = NoJob
    BY DEF IInv, Stopped, TypeOK, Runs
  <2>2. queue = <<>>
    BY <2>1, ThreadPoolAssumption DEF IInv, Stopped
  <2>3. \A j \in Jobs : future[j] # "pending"
    BY <2>1, <2>2, JobFacts DEF IInv, OnePlace
  <2>4. \A j \in Submitted : future[j] \notin {"none", "refused"}
    BY DEF IInv, MainsJobs, IsSubmitted
  <2>5. \A j \in Submitted : Ready(j)
    BY <2>3, <2>4, JobFacts DEF Ready, IInv, TypeOK, FutureState
  <2>6. ASSUME NEW j \in Spawning
        PROVE  IF future[j] = "exception" THEN future[Child(j)] = "refused"
                                          ELSE Ready(Child(j))
    <3>1. future[j] = "exception" => future[Child(j)] = "refused"
      BY DEF IInv, ChildrensJobs
    <3>2. future[j] # "exception" => future[Child(j)] = "value"
      <4>1. j \in Submitted /\ Child(j) \in Jobs
        BY JobFacts
      <4>2. future[j] \in {"value", "exception"} /\ future[Child(j)] # "pending"
        BY <4>1, <2>3, <2>5 DEF Ready
      <4>3. future[j] = "value" => future[Child(j)] \in {"pending", "value"}
        BY DEF IInv, ChildrensJobs
      <4> QED
        BY <4>2, <4>3
    <3> QED
      BY <3>1, <3>2 DEF Ready
  <2> QED
    BY <2>2, <2>5, <2>6 DEF DrainedAtExit
<1> QED
  BY <1>1, InductiveInv, PTL

(* When main() reads every future before it destroys the pool, no job is   *)
(* refused: only a stopping pool refuses, and by then every job of main()  *)
(* has returned, so that none is left to submit.                           *)
THEOREM NothingIsRefused == Spec => []NothingRefused
<1>1. IInv => NothingRefused
  <2> SUFFICES ASSUME IInv, AwaitResults, NEW j \in Jobs
               PROVE  future[j] \notin {"refused", "exception"}
    BY DEF NothingRefused
  <2>1. stopping => \A k \in Submitted : future[k] = "value"
    BY DEF IInv, TypeOK, MainsJobs
  <2>2. \A k \in Spawning : future[k] # "exception"
    BY <2>1, JobFacts DEF IInv, ChildrensJobs
  <2>3. \A k \in Spawning : future[Child(k)] # "refused"
    BY <2>2 DEF IInv, ChildrensJobs
  <2>4. future[j] # "exception"
    BY <2>2 DEF IInv, ChildrensJobs
  <2>5. CASE j \in Submitted
    BY <2>4, <2>5 DEF IInv, MainsJobs
  <2>6. CASE j \notin Submitted
    BY <2>3, <2>4, <2>6, JobFacts
  <2> QED
    BY <2>5, <2>6
<1> QED
  BY <1>1, InductiveInv, PTL
=============================================================================
