------------------------ MODULE ThreadPoolExecutor ------------------------
(***************************************************************************)
(* The IExecutor of psh::lib::job (thread_pool_executor.h): WorkerCount    *)
(* threads that take closures from one bounded deque. Everybody who waits, *)
(* workers for closures and Stop for an empty deque, waits on the one      *)
(* condition variable cv_.                                                 *)
(*                                                                         *)
(* Threads take steps of the size of one critical section of mtx_ or one   *)
(* notification. One thread, the owner of the pool, calls Stop and in the  *)
(* end the destructor; overlapping calls would join a std::thread twice,   *)
(* which C++ leaves undefined.                                             *)
(***************************************************************************)
EXTENDS Integers, Sequences, FiniteSets, SequencesExt

CONSTANTS
  Tasks,       \* one element per call of Post: the closure it is given
  NoTask,      \* a worker's local fn before the pop
  Posters,     \* threads that call Post, running closures among them
  Workers,     \* the threads of workers_
  Capacity,    \* CreateOptions::ReadyQueueCapacity, 0 = unbounded
  StopModes    \* subset of {"drain", "timed", "clear"}: Stop(true, 0),
               \* Stop(true, timeout), Stop(false) and the destructor

ASSUME OptionAssumption ==
  Capacity \in Nat /\ StopModes \subseteq {"drain", "timed", "clear"}

ASSUME NoTaskAssumption == NoTask \notin Tasks

\* workers_ is a vector, and a program has finitely many threads.
ASSUME ThreadAssumption == IsFiniteSet(Workers) /\ IsFiniteSet(Posters)

VARIABLES
  execState,   \* state_
  ready,       \* ready_
  count,       \* the statistics counters
  taskState,   \* what has become of each closure
  postPc,      \* callers of Post, between the push and the notification
  workerPc, held,
  stopPc, stopMode

postVars   == <<postPc>>
workerVars == <<workerPc, held>>
stopVars   == <<stopPc, stopMode>>

vars == <<execState, ready, count, taskState, postVars, workerVars, stopVars>>

Bump(c, f, n) == [c EXCEPT ![f] = @ + n]

-----------------------------------------------------------------------------
(* Post *)

\* Slip: a pool that drains still takes closures.
AcceptsUntilStopped ==
  execState # "Stopped" /\ (Capacity > 0 => Len(ready) < Capacity)

\* Slip: one closure too many.
AcceptsOneMore ==
  execState = "Running" /\ (Capacity > 0 => Len(ready) <= Capacity)

Accepts ==
  execState = "Running" /\ (Capacity > 0 => Len(ready) < Capacity)

\* Slip: only the closure that ends an empty deque is worth a notification.
NotifiesIfEmpty == Len(ready) = 0

\* cv_.notify_one() follows every push.
Notifies == TRUE

PostAccepted(p, t) ==
  /\ postPc[p] = "idle"
  /\ taskState[t] = "new"
  /\ Accepts
  /\ ready' = Append(ready, t)
  /\ taskState' = [taskState EXCEPT ![t] = "ready"]
  /\ count' = Bump(count, "submitted", 1)
  /\ postPc' = [postPc EXCEPT ![p] = IF Notifies THEN "notify" ELSE "idle"]
  /\ UNCHANGED <<execState, workerVars, stopVars>>

\* Only the refusal of a full pool is counted.
PostRefused(p, t) ==
  /\ postPc[p] = "idle"
  /\ taskState[t] = "new"
  /\ ~Accepts
  /\ taskState' = [taskState EXCEPT ![t] = "refused"]
  /\ count' = IF execState = "Running" THEN Bump(count, "rejected", 1) ELSE count
  /\ UNCHANGED <<execState, ready, postVars, workerVars, stopVars>>

\* One of the threads that wait on cv_, a worker or the caller of Stop, wakes;
\* nobody does if nobody waits.
NotifyOne(p) ==
  /\ postPc[p] = "notify"
  /\ postPc' = [postPc EXCEPT ![p] = "idle"]
  /\ \/ \E w \in Workers :
          /\ workerPc[w] = "asleep"
          /\ workerPc' = [workerPc EXCEPT ![w] = "check"]
          /\ UNCHANGED stopPc
     \/ /\ stopPc = "asleep"
        /\ stopPc' = "wait"
        /\ UNCHANGED workerPc
     \/ /\ stopPc # "asleep"
        /\ \A w \in Workers : workerPc[w] # "asleep"
        /\ UNCHANGED <<workerPc, stopPc>>
  /\ UNCHANGED <<execState, ready, count, taskState, held, stopMode>>

-----------------------------------------------------------------------------
(* WorkerLoop. In "check" a worker is about to lock mtx_ and evaluate the    *)
(* predicate of its wait.                                                    *)

WorkerSleep(w) ==
  /\ workerPc[w] = "check"
  /\ ready = <<>>
  /\ execState = "Running"
  /\ workerPc' = [workerPc EXCEPT ![w] = "asleep"]
  /\ UNCHANGED <<execState, ready, count, taskState, postVars, held, stopVars>>

\* Slip: a pool that stops leaves what is ready.
LeavesOnStop == execState # "Running"

\* A worker returns once the pool stops and nothing is left to run.
Leaves == execState # "Running" /\ ready = <<>>

WorkerExit(w) ==
  /\ workerPc[w] = "check"
  /\ Leaves
  /\ workerPc' = [workerPc EXCEPT ![w] = "exited"]
  /\ UNCHANGED <<execState, ready, count, taskState, postVars, held, stopVars>>

WorkerTake(w) ==
  /\ workerPc[w] = "check"
  /\ ~Leaves
  /\ ready # <<>>
  /\ held' = [held EXCEPT ![w] = Head(ready)]
  /\ ready' = Tail(ready)
  /\ taskState' = [taskState EXCEPT ![Head(ready)] = "running"]
  /\ workerPc' = [workerPc EXCEPT ![w] = "run"]
  /\ UNCHANGED <<execState, count, postVars, stopVars>>

\* fn returns, or throws: the exception is counted and swallowed.
WorkerRan(w) ==
  /\ workerPc[w] = "run"
  /\ \E f \in {0, 1} : count' = Bump(count, "failed", f)
  /\ taskState' = [taskState EXCEPT ![held[w]] = "ran"]
  /\ workerPc' = [workerPc EXCEPT ![w] = "count"]
  /\ UNCHANGED <<execState, ready, postVars, held, stopVars>>

\* executedCount_, and fn is destroyed at the end of the iteration.
WorkerCount(w) ==
  /\ workerPc[w] = "count"
  /\ count' = Bump(count, "executed", 1)
  /\ held' = [held EXCEPT ![w] = NoTask]
  /\ workerPc' = [workerPc EXCEPT ![w] = "check"]
  /\ UNCHANGED <<execState, ready, taskState, postVars, stopVars>>

WorkerWakeup(w) ==
  /\ workerPc[w] = "asleep"
  /\ workerPc' = [workerPc EXCEPT ![w] = "check"]
  /\ UNCHANGED <<execState, ready, count, taskState, postVars, held, stopVars>>

-----------------------------------------------------------------------------
(* Stop *)

\* Every closure of the deque is destroyed uncalled.
Clear ==
  /\ ready' = <<>>
  /\ taskState' = [t \in Tasks |-> IF t \in ToSet(ready) THEN "dropped" ELSE taskState[t]]

\* Draining, and Stop(false) clears the deque; it counts nothing.
StopCall(m) ==
  /\ stopPc = "idle"
  /\ execState # "Stopped"
  /\ execState' = "Draining"
  /\ stopMode' = m
  /\ stopPc' = "notify"
  /\ IF m = "clear" THEN Clear ELSE UNCHANGED <<ready, taskState>>
  /\ UNCHANGED <<count, postVars, workerVars>>

Asleep == {w \in Workers : workerPc[w] = "asleep"}

\* Slip: notify_one, although every worker has to leave.
WokenByOne == IF Asleep = {} THEN {} ELSE {CHOOSE w \in Asleep : TRUE}

\* cv_.notify_all()
Woken == Asleep

StopNotifyAll ==
  /\ stopPc = "notify"
  /\ workerPc' = [w \in Workers |-> IF w \in Woken THEN "check" ELSE workerPc[w]]
  /\ stopPc' = IF stopMode = "clear" THEN "join" ELSE "wait"
  /\ UNCHANGED <<execState, ready, count, taskState, postVars, held, stopMode>>

\* pred of both waits: the deque is empty.
StopCheck ==
  /\ stopPc = "wait"
  /\ stopPc' = IF ready = <<>> THEN "join" ELSE "asleep"
  /\ UNCHANGED <<execState, ready, count, taskState, postVars, workerVars, stopMode>>

StopWakeup ==
  /\ stopPc = "asleep"
  /\ stopPc' = "wait"
  /\ UNCHANGED <<execState, ready, count, taskState, postVars, workerVars, stopMode>>

\* The deadline passes: what the deque holds is counted and dropped.
StopTimeout ==
  /\ stopPc = "asleep"
  /\ stopMode = "timed"
  /\ Clear
  /\ count' = Bump(count, "dropped", Len(ready))
  /\ stopPc' = "join"
  /\ UNCHANGED <<execState, postVars, workerVars, stopMode>>

\* Slip: the threads are detached instead of joined.
JoinedNobody == TRUE

\* join() returns for every thread of workers_.
Joined == \A w \in Workers : workerPc[w] = "exited"

StopJoin ==
  /\ stopPc = "join"
  /\ Joined
  /\ stopPc' = "close"
  /\ UNCHANGED <<execState, ready, count, taskState, postVars, workerVars, stopMode>>

StopClose ==
  /\ stopPc = "close"
  /\ execState' = "Stopped"
  /\ stopPc' = "returned"
  /\ UNCHANGED <<ready, count, taskState, postVars, workerVars, stopMode>>

\* Another Stop, or the destructor's, returns at once.
StopAgain ==
  /\ stopPc = "returned"
  /\ execState = "Stopped"
  /\ stopPc' = "destroyed"
  /\ UNCHANGED <<execState, ready, count, taskState, postVars, workerVars, stopMode>>

-----------------------------------------------------------------------------
\* The constructor starts the workers: each begins with the predicate.
Init ==
  /\ execState = "Running"
  /\ ready = <<>>
  /\ count = [submitted |-> 0, rejected |-> 0, executed |-> 0, failed |-> 0,
              dropped |-> 0]
  /\ taskState = [t \in Tasks |-> "new"]
  /\ postPc = [p \in Posters |-> "idle"]
  /\ workerPc = [w \in Workers |-> "check"]
  /\ held = [w \in Workers |-> NoTask]
  /\ stopPc = "idle"
  /\ stopMode = "none"

WorkerNext(w) ==
  WorkerSleep(w) \/ WorkerExit(w) \/ WorkerTake(w) \/ WorkerRan(w) \/ WorkerCount(w)

StopStep == StopNotifyAll \/ StopCheck \/ StopJoin \/ StopClose

Next ==
  \/ \E p \in Posters :
       \/ \E t \in Tasks : PostAccepted(p, t) \/ PostRefused(p, t)
       \/ NotifyOne(p)
  \/ \E w \in Workers : WorkerNext(w) \/ WorkerWakeup(w)
  \/ \E m \in StopModes : StopCall(m)
  \/ StopStep \/ StopTimeout \/ StopWakeup \/ StopAgain

Spec == Init /\ [][Next]_vars

(* A thread that is not blocked goes on, closures return, and a deadline     *)
(* passes. Nobody has to call Post or Stop, and no wakeup is spurious by     *)
(* duty.                                                                     *)
Fairness ==
  /\ \A p \in Posters : WF_vars(NotifyOne(p))
  /\ \A w \in Workers : WF_vars(WorkerNext(w))
  /\ WF_vars(StopStep) /\ SF_vars(StopTimeout)

FairSpec == Spec /\ Fairness

-----------------------------------------------------------------------------
\* Every variable has the type of the field or local it stands for, and a
\* bounded deque (ReadyQueueCapacity > 0) never holds more than its capacity.
TypeOK ==
  /\ execState \in {"Running", "Draining", "Stopped"}
  /\ ready \in Seq(Tasks)
  /\ Capacity > 0 => Len(ready) <= Capacity
  /\ count \in [{"submitted", "rejected", "executed", "failed", "dropped"} -> Nat]
  /\ taskState \in [Tasks -> {"new", "ready", "running", "ran", "dropped", "refused"}]
  /\ postPc \in [Posters -> {"idle", "notify"}]
  /\ workerPc \in [Workers -> {"check", "asleep", "run", "count", "exited"}]
  /\ held \in [Workers -> Tasks \cup {NoTask}]
  /\ stopPc \in {"idle", "notify", "wait", "asleep", "join", "close", "returned",
                 "destroyed"}
  /\ stopMode \in {"none"} \cup StopModes

\* No wakeup is lost among the workers: while one of them sleeps, every ready
\* closure has a worker on its way to it or a notification still to come.
NoSleeperIsNeeded ==
  (\E w \in Workers : workerPc[w] = "asleep") =>
    Len(ready) <= Cardinality({w \in Workers : workerPc[w] = "check"})
                    + Cardinality({p \in Posters : postPc[p] = "notify"})

\* A Stopped pool has joined its threads (interface spec 2, invariants): nothing
\* runs, nothing is ready, nothing will be.
StoppedMeansJoined ==
  execState = "Stopped" => ready = <<>> /\ \A w \in Workers : workerPc[w] = "exited"

Contract == INSTANCE ExecutorContract WITH
  state     <- execState,
  closures  <- Len(ready),
  Saturates <- Capacity > 0,
  Stops     <- TRUE

\* The pool is an IExecutor as the job queues know it.
IsExecutor == Contract!Spec

\* A closure that Post accepted is called, or dropped by a Stop; a closure never
\* waits for ever beside idle workers.
AcceptedTaskEnds ==
  \A t \in Tasks : taskState[t] = "ready" ~> taskState[t] \in {"ran", "dropped"}

Returned == stopPc \in {"returned", "destroyed"}

\* Stop(false) and Stop(true, timeout) return once the running closures have.
StopReturns == stopPc # "idle" /\ stopMode \in {"timed", "clear"} ~> Returned

\* "drain = true: waits for the existing queue to run out" (executor.h): Stop
\* without a deadline returns. No worker that empties the deque notifies cv_.
DrainReturns == stopPc # "idle" /\ stopMode = "drain" ~> Returned
=============================================================================
