------------------------------ MODULE JobSystem ------------------------------
(***************************************************************************)
(* The composition: JobQueues that share one ThreadPoolExecutor, a timer   *)
(* that posts to them, and a main thread that serves for a while and then  *)
(* shuts everything down in the order of section 3.2 of the job README.    *)
(* Jobs may post, to their own queue as well, and may stop another queue.  *)
(*                                                                         *)
(* Steps are critical sections. Condition variables are guards here, and   *)
(* cancels, counters and batch statistics are left out: JobQueue, Timer    *)
(* and ThreadPoolExecutor have them. New here are the references: a queue  *)
(* lives as long as main, a closure or a thread inside it refers to it.    *)
(***************************************************************************)
EXTENDS Integers, Sequences, FiniteSets, SequencesExt

CONSTANTS
  Queues, NoQueue,
  Jobs, NoJob,
  Workers,       \* the threads of the pool
  Home,          \* Home[j] : the queue that j is posted to
  Follows,       \* Follows[j] : the job that j posts when it runs, or NoJob
  Stops,         \* Stops[j] : the queue that j stops when it runs, or NoQueue
  MainJobs,      \* the jobs that main posts
  TimerJobs,     \* the jobs that the timer's watcher posts
  Sessions,      \* the queues that main may let go of while it serves
  BatchLimit,    \* JobQueue::CreateOptions::BatchLimit
  PoolCapacity   \* ThreadPoolExecutor::CreateOptions::ReadyQueueCapacity

Callers == {"main", "timer"}
Threads == Workers \cup Callers

ASSUME SystemAssumption ==
  /\ NoQueue \notin Queues /\ NoJob \notin Jobs
  /\ Workers \cap Callers = {}
  /\ Home \in [Jobs -> Queues]
  /\ Follows \in [Jobs -> Jobs \cup {NoJob}]
  /\ Stops \in [Jobs -> Queues \cup {NoQueue}]
  /\ MainJobs \subseteq Jobs /\ TimerJobs \subseteq Jobs
  /\ Sessions \subseteq Queues
  /\ BatchLimit \in Nat \ {0}
  /\ PoolCapacity \in Nat \ {0}

\* A program creates finitely many queues.
ASSUME QueuesAssumption == IsFiniteSet(Queues)

(* A job that stops its own queue, or one that somebody lets go of, would    *)
(* wait for itself or for a closure that the pool has thrown away.           *)
ASSUME StopAssumption == \A j \in Jobs : Stops[j] \notin Sessions \cup {Home[j]}

VARIABLES
  \* the queues
  queueState, running, queue,
  owned,      \* the queues that main refers to
  \* the pool
  poolState,
  ready,      \* ready_ : the queue of each DrainOnce closure
  \* the threads
  at,         \* where a worker is
  drains,     \* the queue whose DrainOnce it has taken
  left, job,
  posting,    \* the queue a thread has pushed to and has yet to schedule
  stopping,   \* the queue a thread waits for in Stop
  phase,      \* of main
  \* history
  posted,     \* the jobs that were passed to Post
  ran         \* the jobs that have run

queueVars  == <<queueState, running, queue>>
poolVars   == <<poolState, ready>>
workerVars == <<at, drains, left, job>>
jobVars    == <<posted, ran>>

systemVars == <<queueVars, owned, poolVars, workerVars, posting, stopping, phase,
                jobVars>>

Waits(t) == stopping[t] # NoQueue
Free(t)  == posting[t] = NoQueue /\ ~Waits(t)

\* Slip: the closures refer to the queue without owning it.
AliveIfOwned(q) ==
  \/ q \in owned
  \/ \E t \in Threads : posting[t] = q \/ stopping[t] = q

\* Somebody holds a shared_ptr to q; else ~JobQueue has run. What was in the
\* queue then has been dropped by it and is left in `queue' to be seen.
AliveQueue(q) ==
  \/ q \in owned
  \/ q \in ToSet(ready)
  \/ \E w \in Workers : drains[w] = q
  \/ \E t \in Threads : posting[t] = q \/ stopping[t] = q

-----------------------------------------------------------------------------
(* Post, called by main, by the watcher, or by a job inside a worker.        *)

\* Slip: every Post schedules a drain of its own.
SchedulesAlways(q) == TRUE

\* The first Post after running_ fell schedules; the others rely on it.
Schedules(q) == ~running[q]

Push(t, j) ==
  LET q == Home[j] IN
  /\ posted' = posted \cup {j}
  /\ IF AliveQueue(q) /\ queueState[q] = "Running"
     THEN /\ queue' = [queue EXCEPT ![q] = Append(@, j)]
          /\ running' = [running EXCEPT ![q] = TRUE]
          /\ posting' = [posting EXCEPT ![t] = IF Schedules(q) THEN q ELSE NoQueue]
     ELSE UNCHANGED <<queue, running, posting>>

\* MarkFailedSchedule
FailSchedule(q) ==
  /\ running' = [running EXCEPT ![q] = FALSE]
  /\ queueState' = [queueState EXCEPT ![q] = "Stopped"]

\* Slip: a closure is refused only for want of a place.
AcceptsWhilePlace == Len(ready) < PoolCapacity

PoolAccepts == poolState = "Running" /\ Len(ready) < PoolCapacity

\* Slip: a closure goes to the front.
ReadyFirst(q) == ready' = <<q>> \o ready

\* ready_.push_back
ReadyLast(q) == ready' = Append(ready, q)

\* executor_->Post outside mtx_, by a caller of Post or by a drain.
Schedule(q) ==
  \/ /\ PoolAccepts
     /\ ReadyLast(q)
     /\ UNCHANGED <<running, queueState>>
  \/ /\ ~PoolAccepts
     /\ FailSchedule(q)
     /\ UNCHANGED ready

PostSchedules(t) ==
  /\ posting[t] # NoQueue
  /\ Schedule(posting[t])
  /\ posting' = [posting EXCEPT ![t] = NoQueue]
  /\ UNCHANGED <<queue, owned, poolState, workerVars, stopping, phase, jobVars>>

MainPosts(j) ==
  /\ phase = "serving" /\ Free("main")
  /\ j \in MainJobs \ posted
  /\ Home[j] \in owned
  /\ Push("main", j)
  /\ UNCHANGED <<queueState, owned, poolVars, workerVars, stopping, phase, ran>>

\* The timer has a weak_ptr to the queue.
TimerPosts(j) ==
  /\ phase = "serving" /\ Free("timer")
  /\ j \in TimerJobs \ posted
  /\ Push("timer", j)
  /\ UNCHANGED <<queueState, owned, poolVars, workerVars, stopping, phase, ran>>

-----------------------------------------------------------------------------
(* JobQueue::Stop(true, 0), called by main or by a job.                      *)

\* Slip: the job in progress is overlooked.
QuietIfEmpty(q) == queue[q] = <<>>

\* pred
Quiet(q) == queue[q] = <<>> /\ ~running[q]

\* Slip: posts are accepted until the queue is empty.
StaysOpen(q) == UNCHANGED queueState

\* From here on Post refuses.
ClosesToPosts(q) == queueState' = [queueState EXCEPT ![q] = "Draining"]

StopQueue(t, q) ==
  IF queueState[q] = "Stopped" THEN UNCHANGED <<queueState, stopping>>
  ELSE ClosesToPosts(q) /\ stopping' = [stopping EXCEPT ![t] = q]

StopQueueReturns(t) ==
  /\ Waits(t)
  /\ Quiet(stopping[t])
  /\ queueState' = [queueState EXCEPT ![stopping[t]] = "Stopped"]
  /\ stopping' = [stopping EXCEPT ![t] = NoQueue]
  /\ UNCHANGED <<running, queue, owned, poolVars, workerVars, posting, phase, jobVars>>

-----------------------------------------------------------------------------
(* WorkerLoop and DrainOnce                                                   *)

TakeClosure(w) ==
  /\ at[w] = "idle"
  /\ ready # <<>>
  /\ drains' = [drains EXCEPT ![w] = Head(ready)]
  /\ ready' = Tail(ready)
  /\ left' = [left EXCEPT ![w] = BatchLimit]
  /\ at' = [at EXCEPT ![w] = "loop"]
  /\ UNCHANGED <<queueVars, owned, poolState, job, posting, stopping, phase, jobVars>>

PopJob(w) ==
  LET q == drains[w] IN
  /\ at[w] = "loop" /\ left[w] > 0
  /\ queue[q] # <<>>
  /\ job' = [job EXCEPT ![w] = Head(queue[q])]
  /\ queue' = [queue EXCEPT ![q] = Tail(@)]
  /\ left' = [left EXCEPT ![w] = @ - 1]
  /\ at' = [at EXCEPT ![w] = "run"]
  /\ UNCHANGED <<queueState, running, owned, poolVars, drains, posting, stopping,
                 phase, jobVars>>

\* What the job calls: a Post, unless the job was posted before (a job that
\* follows itself is posted every time), or a Stop, or nothing.
RunJob(w) ==
  LET j == job[w]
      k == Follows[j] IN
  /\ at[w] = "run"
  /\ at' = [at EXCEPT ![w] = "end"]
  /\ IF k # NoJob /\ (k = j \/ k \notin posted)
     THEN Push(w, k) /\ UNCHANGED <<queueState, stopping>>
     ELSE /\ IF Stops[j] # NoQueue THEN StopQueue(w, Stops[j])
             ELSE UNCHANGED <<queueState, stopping>>
          /\ UNCHANGED <<running, queue, posting, posted>>
  /\ UNCHANGED <<owned, poolVars, drains, left, job, phase, ran>>

FinishJob(w) ==
  /\ at[w] = "end" /\ Free(w)
  /\ ran' = ran \cup {job[w]}
  /\ job' = [job EXCEPT ![w] = NoJob]
  /\ at' = [at EXCEPT ![w] = "loop"]
  /\ UNCHANGED <<queueVars, owned, poolVars, drains, left, posting, stopping, phase,
                 posted>>

\* DrainOnce returns, and WorkerLoop destroys the closure with its reference.
DrainEnds(w) ==
  /\ drains' = [drains EXCEPT ![w] = NoQueue]
  /\ at' = [at EXCEPT ![w] = "idle"]

FoundEmpty(w) ==
  /\ at[w] = "loop" /\ left[w] > 0
  /\ queue[drains[w]] = <<>>
  /\ running' = [running EXCEPT ![drains[w]] = FALSE]
  /\ DrainEnds(w)
  /\ UNCHANGED <<queueState, queue, owned, poolVars, left, job, posting, stopping,
                 phase, jobVars>>

Requeue(w) ==
  /\ at[w] = "loop" /\ left[w] = 0
  /\ Schedule(drains[w])
  /\ DrainEnds(w)
  /\ UNCHANGED <<queue, owned, poolState, left, job, posting, stopping, phase, jobVars>>

WorkerExits(w) ==
  /\ at[w] = "idle"
  /\ ready = <<>> /\ poolState # "Running"
  /\ at' = [at EXCEPT ![w] = "exited"]
  /\ UNCHANGED <<queueVars, owned, poolVars, drains, left, job, posting, stopping,
                 phase, jobVars>>

-----------------------------------------------------------------------------
(* Main lets go of sessions while it serves. Then it stops the timer, which   *)
(* joins the watcher, the queues that it still has, and the pool with a       *)
(* timeout, which ends in joining the workers.                               *)

LetGo(q) ==
  /\ phase = "serving" /\ Free("main")
  /\ q \in owned \cap Sessions
  /\ owned' = owned \ {q}
  /\ UNCHANGED <<queueVars, poolVars, workerVars, posting, stopping, phase, jobVars>>

EndService ==
  /\ phase = "serving" /\ Free("main")
  /\ phase' = "timer"
  /\ UNCHANGED <<queueVars, owned, poolVars, workerVars, posting, stopping, jobVars>>

TimerStopped ==
  /\ phase = "timer" /\ Free("timer")
  /\ phase' = "queues"
  /\ UNCHANGED <<queueVars, owned, poolVars, workerVars, posting, stopping, jobVars>>

MainStops(q) ==
  /\ phase = "queues" /\ Free("main")
  /\ q \in owned /\ queueState[q] # "Stopped"
  /\ StopQueue("main", q)
  /\ UNCHANGED <<running, queue, owned, poolVars, workerVars, posting, phase, jobVars>>

PoolStopCalled ==
  /\ phase = "queues" /\ Free("main")
  /\ \A q \in owned : queueState[q] = "Stopped"
  /\ poolState' = "Draining"
  /\ phase' = "pool"
  /\ UNCHANGED <<queueVars, owned, ready, workerVars, posting, stopping, jobVars>>

\* The deque is empty, or the deadline has passed and it is emptied.
PoolDrained ==
  /\ phase = "pool"
  /\ ready' = <<>>
  /\ phase' = "join"
  /\ UNCHANGED <<queueVars, owned, poolState, workerVars, posting, stopping, jobVars>>

PoolJoined ==
  /\ phase = "join"
  /\ \A w \in Workers : at[w] = "exited"
  /\ poolState' = "Stopped"
  /\ phase' = "done"
  /\ UNCHANGED <<queueVars, owned, ready, workerVars, posting, stopping, jobVars>>

-----------------------------------------------------------------------------
SystemInit ==
  /\ queueState = [q \in Queues |-> "Running"]
  /\ running = [q \in Queues |-> FALSE]
  /\ queue = [q \in Queues |-> <<>>]
  /\ owned = Queues
  /\ poolState = "Running"
  /\ ready = <<>>
  /\ at = [w \in Workers |-> "idle"]
  /\ drains = [w \in Workers |-> NoQueue]
  /\ left = [w \in Workers |-> 0]
  /\ job = [w \in Workers |-> NoJob]
  /\ posting = [t \in Threads |-> NoQueue]
  /\ stopping = [t \in Threads |-> NoQueue]
  /\ phase = "serving"
  /\ posted = {}
  /\ ran = {}

WorkerNext(w) ==
  \/ TakeClosure(w) \/ PopJob(w) \/ RunJob(w) \/ FinishJob(w) \/ FoundEmpty(w)
  \/ Requeue(w) \/ WorkerExits(w) \/ PostSchedules(w) \/ StopQueueReturns(w)

ShutdownNext ==
  \/ TimerStopped
  \/ \E q \in Queues : MainStops(q)
  \/ StopQueueReturns("main")
  \/ PoolStopCalled \/ PoolDrained \/ PoolJoined

SystemNext ==
  \/ \E j \in Jobs : MainPosts(j) \/ TimerPosts(j)
  \/ \E t \in Callers : PostSchedules(t)
  \/ \E w \in Workers : WorkerNext(w)
  \/ \E q \in Queues : LetGo(q)
  \/ EndService
  \/ ShutdownNext

SystemSpec == SystemInit /\ [][SystemNext]_systemVars

(* Workers go on, jobs return, a Post that was begun is completed, and so is  *)
(* a shutdown. Nobody is obliged to post, to let go or to begin the shutdown. *)
SystemFairness ==
  /\ \A w \in Workers : WF_systemVars(WorkerNext(w))
  /\ \A t \in Callers : WF_systemVars(PostSchedules(t))
  /\ WF_systemVars(ShutdownNext)

SystemFairSpec == SystemSpec /\ SystemFairness

-----------------------------------------------------------------------------
\* Every variable has the type of what it stands for.
SystemTypeOK ==
  /\ queueState \in [Queues -> {"Running", "Draining", "Stopped"}]
  /\ running \in [Queues -> BOOLEAN]
  /\ queue \in [Queues -> Seq(Jobs)]
  /\ owned \subseteq Queues
  /\ poolState \in {"Running", "Draining", "Stopped"}
  /\ ready \in Seq(Queues) /\ Len(ready) <= PoolCapacity
  /\ at \in [Workers -> {"idle", "loop", "run", "end", "exited"}]
  /\ drains \in [Workers -> Queues \cup {NoQueue}]
  /\ left \in [Workers -> 0 .. BatchLimit]
  /\ job \in [Workers -> Jobs \cup {NoJob}]
  /\ posting \in [Threads -> Queues \cup {NoQueue}]
  /\ stopping \in [Threads -> Queues \cup {NoQueue}]
  /\ phase \in {"serving", "timer", "queues", "pool", "join", "done"}
  /\ posted \subseteq Jobs
  /\ ran \subseteq Jobs

\* However many threads post, the queues together never need more places in the
\* pool than there are queues: who is about to schedule a drain finds fewer
\* closures than that in the deque. So a pool with a place for each of its
\* queues refuses none of them while it runs, and MarkFailedSchedule, which
\* would stop the queue for good, cannot happen to a healthy system.
PlaceForEveryQueue ==
  (\E t \in Threads : posting[t] # NoQueue) \/ (\E w \in Workers : at[w] = "loop" /\ left[w] = 0)
    => Len(ready) < Cardinality(Queues)

\* The lambda that Post gives to the executor keeps the queue alive ("prolongs
\* the queue's life while it drains", interface specification of the job
\* system): a queue that has been let go of with jobs in it is not destroyed
\* before they have run, unless the pool is stopping.
NoJobDiesWithItsQueue ==
  poolState = "Running" => \A q \in Queues : ~AliveQueue(q) => queue[q] = <<>>

\* After an orderly shutdown of a queue everything that it accepted has run, no
\* worker is inside it, and the pool holds no closure of it that a discarding
\* Stop could lose.
StoppedQueueHasFinished ==
  \A q \in owned : queueState[q] = "Stopped" =>
    /\ queue[q] = <<>>
    /\ q \notin ToSet(ready)
    /\ \A t \in Threads : posting[t] # q
    /\ \A w \in Workers : job[w] # NoJob => Home[job[w]] # q

-----------------------------------------------------------------------------
(* The parts of the composition keep the promises of the parts *)

ActiveJobs(q) == {job[w] : w \in {v \in Workers : drains[v] = q /\ job[v] # NoJob}}

QueueStrand(q) == INSTANCE JobStrand WITH
  open    <- queueState[q] = "Running",
  waiting <- queue[q],
  active  <- ActiveJobs(q)

\* Each queue is a strand, whichever workers drain it, whatever its jobs post
\* and stop, and whoever lets go of it: acceptance order, one job at a time.
QueuesAreStrands ==
  /\ \A q \in Queues : QueueStrand(q)!StrandInit
  /\ [][\A q \in Queues : QueueStrand(q)!StrandNext \/ UNCHANGED QueueStrand(q)!strandVars]_systemVars

Pool == INSTANCE ExecutorContract WITH
  state <- poolState, closures <- Len(ready), Saturates <- TRUE, Stops <- TRUE

\* The pool is an IExecutor as the queues know it, which ThreadPoolExecutor
\* implements too: a closure is taken or refused as a whole, none is taken once
\* the shutdown has reached the pool, and Stopped means that none is held.
PoolIsExecutor == Pool!Spec

\* Both: the promises that JobQueue and ThreadPoolExecutor are shown to keep one
\* by one are kept where queues, jobs, timer and shutdown share one pool.
PartsKeepTheirPromises == QueuesAreStrands /\ PoolIsExecutor

-----------------------------------------------------------------------------
Once(j) == Follows[j] # j

\* "Self-requeue after BatchLimit prevents starvation" (job README, 2.2): an
\* accepted job gets its turn although jobs of other queues keep posting
\* themselves again and there may be fewer workers than queues.
NobodyStarves ==
  \A j \in Jobs : Once(j) =>
    (j \in ToSet(queue[Home[j]]) ~> j \in ran \/ poolState # "Running")

\* The shutdown in the recommended order ends, with jobs that post themselves
\* again, queues that nobody stops and jobs that wait for another queue.
ShutdownEnds == phase = "timer" ~> phase = "done"
=============================================================================
