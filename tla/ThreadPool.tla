----------------------------- MODULE ThreadPool -----------------------------
(***************************************************************************)
(* ThreadPool of examples/thread_pool/main.cpp: the constructor that       *)
(* starts the workers, submit(), worker_loop() and the destructor, with    *)
(* main(), which submits the jobs and may wait for their futures.          *)
(*                                                                         *)
(* queue_ and stopping_ are only touched with mu_ held, so an action is    *)
(* one critical section of mu_ or one step outside it.  The notify_one of  *)
(* submit() and the notify_all of the destructor come after mu_ is         *)
(* released and are actions of their own.                                  *)
(*                                                                         *)
(* The one caller that can meet a stopped pool without using a destroyed   *)
(* object is a job that submits to its own pool while the destructor is    *)
(* joining the workers, so some of main()'s jobs submit one job each.      *)
(***************************************************************************)
EXTENDS Naturals, Sequences, FiniteSets

CONSTANTS
  Workers,       \* the threads of workers_
  NumJobs,       \* main() submits jobs 1 to NumJobs, in order
  Spawning,      \* the jobs of main() that submit a job themselves
  AwaitResults,  \* TRUE: main() calls get() on every future before the pool
                 \* is destroyed, as the example does
  NoJob          \* a worker holds no job

(* The constructor rejects zero threads (it throws invalid_argument).      *)
ASSUME ThreadPoolAssumption ==
  /\ IsFiniteSet(Workers) /\ Workers # {}
  /\ NumJobs \in Nat \ {0}
  /\ Spawning \subseteq 1..NumJobs
  /\ AwaitResults \in BOOLEAN
  /\ NoJob \notin Nat

VARIABLES
  queue,     \* queue_, oldest job first
  stopping,  \* stopping_
  pc,        \* where each worker is, see WorkerPc
  job,       \* worker_loop's local variable job
  future,    \* the shared state of each job's packaged_task
  main,      \* where main() is, see MainPc
  next       \* the job main() submits, or waits for, next

vars == <<queue, stopping, pc, job, future, main, next>>

(* The job that job j submits.                                             *)
Child(j) == NumJobs + j

Submitted == 1..NumJobs

Jobs == Submitted \cup {Child(j) : j \in Spawning}

(* A worker is not started, about to lock mu_ ("entering"), blocked in     *)
(* cv_.wait, woken and about to reacquire mu_ ("notified"), running its    *)
(* job, inside the job's submit() before notify_one ("notifying") or after *)
(* it ("finishing"), or returned.                                          *)
WorkerPc == {"absent", "entering", "waiting", "notified",
             "running", "notifying", "finishing", "stopped"}

Runs == {"running", "notifying", "finishing"}

MainPc == {"starting", "submitting", "notifying", "awaiting",
           "stopping", "notifyAll", "joining", "exit"}

(* A future is not created, pending, holds a value or an exception; the    *)
(* job of a "refused" one never entered the queue.                         *)
FutureState == {"none", "pending", "value", "exception", "refused"}

Ready(j) == future[j] \in {"value", "exception"}

-----------------------------------------------------------------------------
Waiting == {w \in Workers : pc[w] = "waiting"}

Notified == {w \in Workers : pc[w] = "notified"}

(* Variants with one plausible slip each, which take no part in the        *)
(* specification; they serve to show that a property notices the slip.     *)
NotifyNobody(f) == {f}
NotifyOneOfAll ==
  IF Waiting = {} THEN pc
                  ELSE [pc EXCEPT ![CHOOSE w \in Waiting : TRUE] = "notified"]
CanProceedIgnoringStop == queue # <<>>
MustStopAtOnce == stopping
GetReturnsAtOnce(j) == TRUE
WithoutPop == queue
LoopsKeepingJob(w) ==
  /\ pc' = [pc EXCEPT ![w] = "entering"]
  /\ UNCHANGED <<queue, stopping, job, main, next>>

(* cv_.notify_one(), made by a thread whose own step takes pc to f.        *)
NotifyOne(f) ==
  IF Waiting = {}
  THEN {f}
  ELSE {[f EXCEPT ![w] = "notified"] : w \in Waiting}

(* cv_.notify_all().                                                       *)
NotifyAll == [w \in Workers |-> IF w \in Waiting THEN "notified" ELSE pc[w]]

(* The predicate of cv_.wait, and the test made after it.                  *)
CanProceed == stopping \/ queue # <<>>
MustStop == stopping /\ queue = <<>>

-----------------------------------------------------------------------------
Init ==
  /\ queue = <<>>
  /\ stopping = FALSE
  /\ pc = [w \in Workers |-> "absent"]
  /\ job = [w \in Workers |-> NoJob]
  /\ future = [j \in Jobs |-> "none"]
  /\ main = "starting"
  /\ next = 1

(***************************************************************************)
(* main(): construct the pool, submit the jobs, wait for the results       *)
(***************************************************************************)

(* The constructor starts one more worker.                                 *)
StartWorker(w) ==
  /\ main = "starting"
  /\ pc[w] = "absent"
  /\ pc' = [pc EXCEPT ![w] = "entering"]
  /\ main' = IF \A v \in Workers \ {w} : pc[v] # "absent"
             THEN "submitting" ELSE "starting"
  /\ UNCHANGED <<queue, stopping, job, future, next>>

(* submit()'s critical section, on a pool that is not stopping.            *)
Enqueue(j) ==
  /\ ~stopping
  /\ queue' = Append(queue, j)
  /\ future' = [future EXCEPT ![j] = "pending"]

(* main() submits; it owns the pool, so it never meets stopping_.          *)
Submit ==
  /\ main = "submitting"
  /\ Enqueue(next)
  /\ main' = "notifying"
  /\ UNCHANGED <<stopping, pc, job, next>>

(* A for loop over the jobs goes on, or ends and leads to the next phase.  *)
LoopsOrGoesOn(here, beyond) ==
  /\ main' = IF next < NumJobs THEN here ELSE beyond
  /\ next' = IF next < NumJobs THEN next + 1 ELSE 1

(* submit(): cv_.notify_one(), after mu_ is released, and return.          *)
SubmitNotifies ==
  /\ main = "notifying"
  /\ pc' \in NotifyOne(pc)
  /\ LoopsOrGoesOn("submitting", IF AwaitResults THEN "awaiting" ELSE "stopping")
  /\ UNCHANGED <<queue, stopping, job, future>>

(* f.get() returns the value once the future holds it.  Of a future with   *)
(* an exception it would rethrow, which ends main(); but only a job whose  *)
(* submission a stopping pool refuses gets one, and the pool stops after   *)
(* main() has got all it awaits.                                           *)
GetReturns(j) == future[j] = "value"

Get ==
  /\ main = "awaiting"
  /\ GetReturns(next)
  /\ LoopsOrGoesOn("awaiting", "stopping")
  /\ UNCHANGED <<queue, stopping, pc, job, future>>

(***************************************************************************)
(* ~ThreadPool(), when main() returns                                      *)
(***************************************************************************)

(* stopping_ is set under mu_.                                             *)
Stop ==
  /\ main = "stopping"
  /\ stopping' = TRUE
  /\ main' = "notifyAll"
  /\ UNCHANGED <<queue, pc, job, future, next>>

StopNotifies ==
  /\ main = "notifyAll"
  /\ pc' = NotifyAll
  /\ main' = "joining"
  /\ UNCHANGED <<queue, stopping, job, future, next>>

(* Every worker has been joined and the members are destroyed.             *)
Join ==
  /\ main = "joining"
  /\ \A w \in Workers : pc[w] = "stopped"
  /\ main' = "exit"
  /\ UNCHANGED <<queue, stopping, pc, job, future, next>>

Main ==
  \/ \E w \in Workers : StartWorker(w)
  \/ Submit \/ SubmitNotifies \/ Get
  \/ Stop \/ StopNotifies \/ Join

(***************************************************************************)
(* worker_loop()                                                           *)
(***************************************************************************)

InLoop(w) == pc[w] \in {"entering", "notified"}

Moves(w, label) ==
  /\ pc' = [pc EXCEPT ![w] = label]
  /\ UNCHANGED <<queue, stopping, job, future, main, next>>

(* The predicate is false: wait releases mu_ and blocks.                   *)
WorkerBlocks(w) == InLoop(w) /\ ~CanProceed /\ Moves(w, "waiting")

WorkerStops(w) == InLoop(w) /\ CanProceed /\ MustStop /\ Moves(w, "stopped")

(* queue_.pop().                                                           *)
Popped == Tail(queue)

WorkerTakes(w) ==
  /\ InLoop(w)
  /\ CanProceed
  /\ ~MustStop
  /\ job' = [job EXCEPT ![w] = Head(queue)]
  /\ queue' = Popped
  /\ pc' = [pc EXCEPT ![w] = "running"]
  /\ UNCHANGED <<stopping, future, main, next>>

(* The job has ended: job goes out of scope and the worker loops.          *)
Loops(w) ==
  /\ job' = [job EXCEPT ![w] = NoJob]
  /\ pc' = [pc EXCEPT ![w] = "entering"]
  /\ UNCHANGED <<queue, stopping, main, next>>

(* The packaged_task stores the value the job returns.                     *)
JobReturns(w) ==
  /\ \/ pc[w] = "running" /\ job[w] \notin Spawning
     \/ pc[w] = "finishing"
  /\ future' = [future EXCEPT ![job[w]] = "value"]
  /\ Loops(w)

(* The job's own submit() is accepted: the critical section.               *)
JobSubmits(w) ==
  /\ pc[w] = "running"
  /\ job[w] \in Spawning
  /\ Enqueue(Child(job[w]))
  /\ pc' = [pc EXCEPT ![w] = "notifying"]
  /\ UNCHANGED <<stopping, job, main, next>>

(* The notify_one of the job's submit().                                   *)
JobNotifies(w) ==
  /\ pc[w] = "notifying"
  /\ pc' \in NotifyOne([pc EXCEPT ![w] = "finishing"])
  /\ UNCHANGED <<queue, stopping, job, future, main, next>>

(* The job's submit() throws, and the packaged_task stores the exception.  *)
JobRefused(w) ==
  /\ pc[w] = "running"
  /\ job[w] \in Spawning
  /\ stopping
  /\ future' = [future EXCEPT ![Child(job[w])] = "refused", ![job[w]] = "exception"]
  /\ Loops(w)

Worker(w) ==
  \/ WorkerBlocks(w) \/ WorkerStops(w) \/ WorkerTakes(w)
  \/ JobReturns(w) \/ JobSubmits(w) \/ JobNotifies(w) \/ JobRefused(w)

SpuriousWakeup(w) == pc[w] = "waiting" /\ Moves(w, "notified")

-----------------------------------------------------------------------------
Next ==
  \/ Main
  \/ \E w \in Workers : Worker(w) \/ SpuriousWakeup(w)

(* Every thread keeps being scheduled, gets mu_ when it asks for it, and   *)
(* every job terminates.                                                   *)
Fairness == WF_vars(Main) /\ \A w \in Workers : WF_vars(Worker(w))

Spec == Init /\ [][Next]_vars /\ Fairness

-----------------------------------------------------------------------------
(***************************************************************************)
(* Properties                                                              *)
(***************************************************************************)

(* The pool's members and the workers' locals keep their types; a worker   *)
(* holds a job exactly while it runs one.                                  *)
TypeOK ==
  /\ queue \in Seq(Jobs)
  /\ stopping \in BOOLEAN
  /\ pc \in [Workers -> WorkerPc]
  /\ job \in [Workers -> Jobs \cup {NoJob}]
  /\ \A w \in Workers : job[w] # NoJob <=> pc[w] \in Runs
  /\ future \in [Jobs -> FutureState]
  /\ main \in MainPc
  /\ next \in Submitted
  /\ stopping = (main \in {"notifyAll", "joining", "exit"})

(* submit() notifies after releasing mu_, so a worker may take the job     *)
(* before the notification and the notification may find nobody.  Even so, *)
(* while a worker is blocked in an open pool every queued job has a woken  *)
(* worker, or a notification still to be made, on its way to it.           *)
Notifications ==
  Cardinality(Notified)
    + Cardinality({w \in Workers : pc[w] = "notifying"})
    + (IF main = "notifying" THEN 1 ELSE 0)

NoLostWakeup ==
  Waiting # {} /\ ~stopping => Len(queue) <= Notifications

(* Between stopping_ = true and notify_all a worker may still be asleep;   *)
(* once notify_all is made none is, and none falls asleep again, so the    *)
(* joins of the destructor end.                                            *)
StopWakesEveryone == main \in {"joining", "exit"} => Waiting = {}

(* A job submit() accepted is in exactly one place, at one position of the *)
(* queue or with one worker, until its future is ready.                    *)
AcceptedOnce ==
  \A j \in Jobs :
    Cardinality({i \in DOMAIN queue : queue[i] = j})
      + Cardinality({w \in Workers : job[w] = j})
    = IF future[j] = "pending" THEN 1 ELSE 0

(* The destructor drains: when it returns every future main() got is       *)
(* ready, no accepted job is lost, and a job failed exactly when the one   *)
(* it tried to submit was refused.                                         *)
DrainedAtExit ==
  main = "exit" =>
    /\ queue = <<>>
    /\ \A j \in Submitted : Ready(j)
    /\ \A j \in Spawning :
         IF future[j] = "exception" THEN future[Child(j)] = "refused"
                                    ELSE Ready(Child(j))

(* A pool destroyed after every future main() holds was read refuses       *)
(* nothing: no job meets stopping_, not even in its own submit().          *)
NothingRefused ==
  AwaitResults => \A j \in Jobs : future[j] \notin {"refused", "exception"}

(* A job whose future is pending completes, also when the destructor has   *)
(* begun.                                                                  *)
AcceptedJobsComplete == \A j \in Jobs : future[j] = "pending" ~> Ready(j)

(* main() and the destructor return: no get() and no join() waits for ever.*)
DestructorReturns == <>(main = "exit")
=============================================================================
