------------------------------ MODULE JobQueue ------------------------------
(***************************************************************************)
(* The serial job queue of psh::lib::job (job_queue.h) with the entries it *)
(* owns (entry.h), the handles that cancel them (job.h) and the executor   *)
(* it borrows its execution slots from, seen through ExecutorContract.     *)
(*                                                                         *)
(* Threads take steps of the size of one critical section of mtx_, one     *)
(* access to an atomic field of an Entry, or one call to the executor; all *)
(* interleavings of those steps are explored.                              *)
(***************************************************************************)
EXTENDS Integers, Sequences, FiniteSets, SequencesExt

CONSTANTS
  Jobs,               \* one element per call of Post: the Entry it creates
  NoJob,              \* the null shared_ptr<Entry>
  Clients,            \* threads that call Post (a running job may be one)
  Workers,            \* executor threads, which run DrainOnce closures
  Pumpers,            \* threads that call the test hooks Pump and Flush
  Stoppers,           \* threads that call Stop
  Cancelers,          \* threads that call JobHandle::Cancel
  Capacity,           \* CreateOptions::QueueCapacity, 0 = unbounded
  BatchLimit,         \* CreateOptions::BatchLimit
  PumpSizes,          \* arguments of Pump; Flush is any size > Cardinality(Jobs)
  StopModes,          \* subset of {"drain", "timed", "clear"}, see StopCall
  Outcomes,           \* subset of {"Done", "Failed"}: how a job's Fn may end
  ExecutorSaturates,  \* may a running executor refuse a closure?
  ExecutorStops       \* may the executor be stopped?

Drainers == Workers \cup Pumpers

(* The test hooks stand in for the workers (job_queue.h, "test hook"): they *)
(* are called by one thread of a program whose executor runs nothing.       *)
ASSUME HookAssumption ==
  Pumpers = {} \/ (Workers = {} /\ \A p, q \in Pumpers : p = q)

ASSUME ThreadAssumption == Workers \cap Pumpers = {}

ASSUME OptionAssumption ==
  /\ Capacity \in Nat
  /\ BatchLimit \in Nat
  /\ PumpSizes \subseteq Nat
  /\ StopModes \subseteq {"drain", "timed", "clear"}
  /\ Outcomes \subseteq {"Done", "Failed"}
  /\ ExecutorSaturates \in BOOLEAN
  /\ ExecutorStops \in BOOLEAN

ASSUME NoJobAssumption == NoJob \notin Jobs

-----------------------------------------------------------------------------
VARIABLES
  \* the queue
  state,      \* state_ : EnumJobQueueState
  running,    \* running_ : a drain closure is owned by somebody
  queue,      \* queue_ : entries accepted and not popped
  count,      \* the statistics counters
  \* the entries
  jobState,   \* Entry::State, "Fresh" before Post creates the entry
  flagged,    \* the jobs whose Entry::Canceled is set
  \* callers of Post
  clientPc, posting, returned,
  \* threads inside DrainOnce, Pump or Flush
  drainPc, held, left,
  \* callers of Stop
  stopPc, stopMode,
  \* callers of JobHandle::Cancel
  cancelPc, target, verdict,
  \* the executor
  execState,  \* its EnumJobQueueState
  closures    \* number of DrainOnce closures it holds

queueVars  == <<state, running, queue>>
entryVars  == <<jobState, flagged>>
clientVars == <<clientPc, posting, returned>>
drainVars  == <<drainPc, held, left>>
stopVars   == <<stopPc, stopMode>>
cancelVars == <<cancelPc, target, verdict>>
execVars   == <<execState, closures>>

vars == <<queueVars, count, entryVars, clientVars, drainVars, stopVars,
          cancelVars, execVars>>

-----------------------------------------------------------------------------
(* Helpers. Some definitions are followed by slips in the code they stand    *)
(* for that a change could make; each breaks a property below (PROJECT.json).*)

QueueStates == {"Running", "Draining", "Stopped"}

\* The queue still owns a shared_ptr<Entry> to j: in queue_ or in the local of
\* a draining thread.
Owned(j) == j \in ToSet(queue) \/ \E d \in Drainers : held[d] = j

\* A handle's weak_ptr to j can be locked. Cancel's own lock keeps j alive; the
\* one that Post holds is gone before anybody has a handle.
Alive(j) == Owned(j) \/ \E x \in Cancelers : target[x] = j

Bump(c, f, n) == [c EXCEPT ![f] = @ + n]

\* stopCv_.notify_all(): every thread asleep in Stop re-evaluates pred.
NotifyAll(pcs) ==
  [s \in Stoppers |-> IF pcs[s] = "asleep" THEN "wait" ELSE pcs[s]]

\* Slips: the flag stays up; the waiters are not told.
ReleaseKeepsRunning == UNCHANGED running /\ stopPc' = NotifyAll(stopPc)
ReleaseSilently     == running' = FALSE /\ UNCHANGED stopPc

\* The owner of the drain gives it up, under mtx_.
ReleaseDrain ==
  /\ running' = FALSE
  /\ stopPc' = NotifyAll(stopPc)

\* Slip: the queue stays open although nobody drains it.
MarkFailedStaysOpen == ReleaseDrain /\ UNCHANGED <<state, queue, stopMode>>

\* MarkFailedSchedule: the executor refused the drain closure.
MarkFailedSchedule ==
  /\ ReleaseDrain
  /\ state' = "Stopped"
  /\ UNCHANGED <<queue, stopMode>>

\* Slip: running_ is not consulted.
DrainedIfEmpty == queue = <<>>

\* pred of Stop's waits.
Drained == queue = <<>> /\ ~running

\* The loop of Stop that stores State = Canceled in every queued entry.
MarkQueued(js) == [j \in Jobs |-> IF j \in ToSet(queue) THEN "Canceled" ELSE js[j]]

\* Slips: the entries are not told; the size is read after the clear.
DropUnmarked ==
  /\ count' = Bump(count, "canceled", Len(queue))
  /\ queue' = <<>>
  /\ UNCHANGED jobState

DropThenCount ==
  /\ jobState' = MarkQueued(jobState)
  /\ queue' = <<>>
  /\ count' = Bump(count, "canceled", Len(queue'))

\* What Stop does, under mtx_, with the entries it gives up at the deadline.
DropQueued ==
  /\ jobState' = MarkQueued(jobState)
  /\ count' = Bump(count, "canceled", Len(queue))
  /\ queue' = <<>>

-----------------------------------------------------------------------------
(* The executor, of which the queue knows only the contract. A DrainOnce      *)
(* that it refuses or discards is destroyed uncalled.                        *)

Executor == INSTANCE ExecutorContract WITH
  state     <- execState,
  closures  <- closures,
  Saturates <- ExecutorSaturates,
  Stops     <- ExecutorStops

ExecutorStep ==
  /\ Executor!Stop \/ Executor!Discard \/ Executor!Close
  /\ UNCHANGED <<queueVars, count, entryVars, clientVars, drainVars, stopVars,
                 cancelVars>>

-----------------------------------------------------------------------------
(* Post. A job is Fresh until its entry is accepted; `returned' is what the  *)
(* caller gets: no handle yet, an invalid one, or one that was valid or      *)
(* already expired when Post returned. An empty callback is refused before   *)
(* anything is touched and is not modelled.                                  *)

CanPost(c, j) ==
  /\ clientPc[c] = "idle"
  /\ jobState[j] = "Fresh"
  /\ returned[j] = "no"

\* Slip: one entry too many.
FullWhenOver == Capacity > 0 /\ Len(queue) > Capacity

\* queue_.size() >= QueueCapacity, of a bounded queue.
Full == Capacity > 0 /\ Len(queue) >= Capacity

\* Slip: an empty queue_ is taken for an idle queue.
NeedScheduleIfEmpty == queue = <<>>

\* The first Post after running_ fell schedules a drain; the others rely on it.
NeedSchedule == ~running

\* Not Running, or full: an invalid handle; only a full queue is counted.
PostRefused(c, j) ==
  /\ CanPost(c, j)
  /\ \/ /\ state # "Running"
        /\ UNCHANGED count
     \/ /\ state = "Running"
        /\ Full
        /\ count' = Bump(count, "rejected", 1)
  /\ returned' = [returned EXCEPT ![j] = "invalid"]
  /\ UNCHANGED <<queueVars, entryVars, clientPc, posting, drainVars, stopVars,
                 cancelVars, execVars>>

\* Push under mtx_, and take charge of scheduling a drain if none is running.
PostAccepted(c, j) ==
  /\ CanPost(c, j)
  /\ state = "Running"
  /\ ~Full
  /\ queue' = Append(queue, j)
  /\ count' = Bump(count, "submitted", 1)
  /\ jobState' = [jobState EXCEPT ![j] = "Queued"]
  /\ posting' = [posting EXCEPT ![c] = j]
  /\ running' = TRUE
  /\ clientPc' = [clientPc EXCEPT ![c] = IF NeedSchedule THEN "schedule" ELSE "return"]
  /\ UNCHANGED <<state, flagged, returned, drainVars, stopVars, cancelVars,
                 execVars>>

\* executor_->Post after mtx_ is released.
PostSchedule(c) ==
  /\ clientPc[c] = "schedule"
  /\ \/ /\ Executor!Accept
        /\ clientPc' = [clientPc EXCEPT ![c] = "return"]
     \/ /\ Executor!Refuse
        /\ clientPc' = [clientPc EXCEPT ![c] = "failed"]
  /\ UNCHANGED <<queueVars, count, entryVars, posting, returned, drainVars,
                 stopVars, cancelVars>>

\* The refusal stops the queue; the entry stays in queue_ and the caller gets
\* an invalid handle.
PostScheduleFailed(c) ==
  /\ clientPc[c] = "failed"
  /\ MarkFailedSchedule
  /\ returned' = [returned EXCEPT ![posting[c]] = "invalid"]
  /\ clientPc' = [clientPc EXCEPT ![c] = "idle"]
  /\ posting' = [posting EXCEPT ![c] = NoJob]
  /\ UNCHANGED <<count, entryVars, drainVars, cancelVars, execVars>>

\* Post drops its own shared_ptr and returns a handle holding a weak_ptr.
PostReturn(c) ==
  /\ clientPc[c] = "return"
  /\ returned' = [returned EXCEPT ![posting[c]] =
                    IF Owned(posting[c]) THEN "valid" ELSE "expired"]
  /\ clientPc' = [clientPc EXCEPT ![c] = "idle"]
  /\ posting' = [posting EXCEPT ![c] = NoJob]
  /\ UNCHANGED <<queueVars, count, entryVars, drainVars, stopVars, cancelVars,
                 execVars>>

-----------------------------------------------------------------------------
(* DrainOnce, run by a worker, and Pump / Flush, run by their caller. `left'  *)
(* counts the iterations the loop may still make.                            *)

StartDrain(w) ==
  /\ drainPc[w] = "idle"
  /\ Executor!Start
  /\ drainPc' = [drainPc EXCEPT ![w] = "loop"]
  /\ left' = [left EXCEPT ![w] = BatchLimit]
  /\ UNCHANGED <<queueVars, count, entryVars, clientVars, held, stopVars,
                 cancelVars>>

StartPump(p) ==
  /\ drainPc[p] = "idle"
  /\ drainPc' = [drainPc EXCEPT ![p] = "loop"]
  /\ \E n \in PumpSizes : left' = [left EXCEPT ![p] = n]
  /\ UNCHANGED <<queueVars, count, entryVars, clientVars, held, stopVars,
                 cancelVars, execVars>>

PopEntry(d) ==
  /\ drainPc[d] = "loop"
  /\ left[d] > 0
  /\ queue # <<>>
  /\ held' = [held EXCEPT ![d] = Head(queue)]
  /\ queue' = Tail(queue)
  /\ left' = [left EXCEPT ![d] = @ - 1]
  /\ drainPc' = [drainPc EXCEPT ![d] = "check"]
  /\ UNCHANGED <<state, running, count, entryVars, clientVars, stopVars,
                 cancelVars, execVars>>

\* DrainOnce found the queue empty: running_ falls in the same critical section.
DrainEmpty(w) ==
  /\ drainPc[w] = "loop"
  /\ left[w] > 0
  /\ queue = <<>>
  /\ ReleaseDrain
  /\ drainPc' = [drainPc EXCEPT ![w] = "idle"]
  /\ UNCHANGED <<state, queue, count, entryVars, clientVars, held, left,
                 stopMode, cancelVars, execVars>>

\* Pump and Flush return on an empty queue, Pump after maxJobs entries; they
\* leave running_ alone.
PumpEnd(p) ==
  /\ drainPc[p] = "loop"
  /\ left[p] = 0 \/ queue = <<>>
  /\ drainPc' = [drainPc EXCEPT ![p] = "idle"]
  /\ UNCHANGED <<queueVars, count, entryVars, clientVars, held, left, stopVars,
                 cancelVars, execVars>>

\* BatchLimit is used up: post a new DrainOnce, whatever the queue holds.
BatchExhausted(w) ==
  /\ drainPc[w] = "loop"
  /\ left[w] = 0
  /\ \/ /\ Executor!Accept
        /\ drainPc' = [drainPc EXCEPT ![w] = "idle"]
     \/ /\ Executor!Refuse
        /\ drainPc' = [drainPc EXCEPT ![w] = "failed"]
  /\ UNCHANGED <<queueVars, count, entryVars, clientVars, held, left, stopVars,
                 cancelVars>>

RequeueFailed(w) ==
  /\ drainPc[w] = "failed"
  /\ MarkFailedSchedule
  /\ drainPc' = [drainPc EXCEPT ![w] = "idle"]
  /\ UNCHANGED <<count, entryVars, clientVars, held, left, cancelVars, execVars>>

(* ExecuteEntry *)

\* Slip: State is consulted, which only the drain itself sets.
CancelObservedInState(j) == jobState[j] = "Canceled"

\* The lazy cancel that ExecuteEntry observes.
CancelObserved(j) == j \in flagged

\* The flag is read once. A job flagged later still runs.
CheckCanceled(d) ==
  /\ drainPc[d] = "check"
  /\ \/ /\ CancelObserved(held[d])
        /\ jobState' = [jobState EXCEPT ![held[d]] = "Canceled"]
        /\ count' = Bump(count, "canceled", 1)
        /\ held' = [held EXCEPT ![d] = NoJob]
        /\ drainPc' = [drainPc EXCEPT ![d] = "loop"]
     \/ /\ ~CancelObserved(held[d])
        /\ drainPc' = [drainPc EXCEPT ![d] = "start"]
        /\ UNCHANGED <<jobState, count, held>>
  /\ UNCHANGED <<queueVars, flagged, clientVars, left, stopVars, cancelVars,
                 execVars>>

StartJob(d) ==
  /\ drainPc[d] = "start"
  /\ jobState' = [jobState EXCEPT ![held[d]] = "Executing"]
  /\ drainPc' = [drainPc EXCEPT ![d] = "run"]
  /\ UNCHANGED <<queueVars, count, flagged, clientVars, held, left, stopVars,
                 cancelVars, execVars>>

\* Fn returns or throws.
FinishJob(d) ==
  /\ drainPc[d] = "run"
  /\ \E o \in Outcomes :
        /\ jobState' = [jobState EXCEPT ![held[d]] = o]
        /\ count' = Bump(count, "failed", IF o = "Failed" THEN 1 ELSE 0)
  /\ drainPc' = [drainPc EXCEPT ![d] = "count"]
  /\ UNCHANGED <<queueVars, flagged, clientVars, held, left, stopVars,
                 cancelVars, execVars>>

\* The execution is counted and the iteration's shared_ptr<Entry> goes.
CountJob(d) ==
  /\ drainPc[d] = "count"
  /\ count' = Bump(count, "executed", 1)
  /\ held' = [held EXCEPT ![d] = NoJob]
  /\ drainPc' = [drainPc EXCEPT ![d] = "loop"]
  /\ UNCHANGED <<queueVars, entryVars, clientVars, left, stopVars, cancelVars,
                 execVars>>

ExecuteEntry(d) ==
  CheckCanceled(d) \/ StartJob(d) \/ FinishJob(d) \/ CountJob(d)

-----------------------------------------------------------------------------
(* Stop. Mode "drain" is Stop(true, 0), "timed" is Stop(true, t > 0), and     *)
(* "clear" is Stop(false), which the destructor also calls. A call that saw   *)
(* pred hold ends in "quiesced", any other in "returned".                    *)

StopCall(s, m) ==
  /\ stopPc[s] = "idle"
  /\ stopMode' = [stopMode EXCEPT ![s] = m]
  /\ IF state = "Stopped"
     THEN /\ stopPc' = [stopPc EXCEPT ![s] = "returned"]
          /\ UNCHANGED state
     ELSE /\ stopPc' = [stopPc EXCEPT ![s] = IF m = "clear" THEN "mark" ELSE "wait"]
          /\ state' = "Draining"
  /\ UNCHANGED <<running, queue, count, entryVars, clientVars, drainVars,
                 cancelVars, execVars>>

StopCheck(s) ==
  /\ stopPc[s] = "wait"
  /\ stopPc' = [stopPc EXCEPT ![s] = IF Drained THEN "drained" ELSE "asleep"]
  /\ UNCHANGED <<queueVars, count, entryVars, clientVars, drainVars, stopMode,
                 cancelVars, execVars>>

\* A condition variable may wake without being notified.
SpuriousWakeup(s) ==
  /\ stopPc[s] = "asleep"
  /\ stopPc' = [stopPc EXCEPT ![s] = "wait"]
  /\ UNCHANGED <<queueVars, count, entryVars, clientVars, drainVars, stopMode,
                 cancelVars, execVars>>

\* The deadline passes: pred is evaluated once more, and if it is false what
\* is left in the queue is marked, counted and dropped under mtx_.
StopTimeout(s) ==
  /\ stopPc[s] = "asleep"
  /\ stopMode[s] = "timed"
  /\ \/ /\ Drained
        /\ stopPc' = [stopPc EXCEPT ![s] = "drained"]
        /\ UNCHANGED <<queue, jobState, count>>
     \/ /\ ~Drained
        /\ stopPc' = [stopPc EXCEPT ![s] = "close"]
        /\ DropQueued
  /\ UNCHANGED <<state, running, flagged, clientVars, drainVars, stopMode,
                 cancelVars, execVars>>

\* Stop(false) walks, counts and clears queue_ without mtx_: three steps that
\* other threads may come between.
StopMark(s) ==
  /\ stopPc[s] = "mark"
  /\ jobState' = MarkQueued(jobState)
  /\ stopPc' = [stopPc EXCEPT ![s] = "tally"]
  /\ UNCHANGED <<queueVars, count, flagged, clientVars, drainVars, stopMode,
                 cancelVars, execVars>>

StopTally(s) ==
  /\ stopPc[s] = "tally"
  /\ count' = Bump(count, "canceled", Len(queue))
  /\ stopPc' = [stopPc EXCEPT ![s] = "erase"]
  /\ UNCHANGED <<queueVars, entryVars, clientVars, drainVars, stopMode,
                 cancelVars, execVars>>

StopErase(s) ==
  /\ stopPc[s] = "erase"
  /\ queue' = <<>>
  /\ stopPc' = [stopPc EXCEPT ![s] = "close"]
  /\ UNCHANGED <<state, running, count, entryVars, clientVars, drainVars,
                 stopMode, cancelVars, execVars>>

StopClose(s) ==
  /\ stopPc[s] \in {"close", "drained"}
  /\ state' = "Stopped"
  /\ stopPc' = [stopPc EXCEPT ![s] =
                  IF @ = "drained" THEN "quiesced" ELSE "returned"]
  /\ UNCHANGED <<running, queue, count, entryVars, clientVars, drainVars,
                 stopMode, cancelVars, execVars>>

StopStep(s) ==
  StopCheck(s) \/ StopMark(s) \/ StopTally(s) \/ StopErase(s) \/ StopClose(s)

-----------------------------------------------------------------------------
(* JobHandle::Cancel, on a handle that Post returned.                        *)

\* Slip: State is consulted instead of the old flag.
WasCanceledInState(j) == jobState[j] = "Canceled"

\* Entry::Canceled.exchange(true) returns the old value.
WasFlagged(j) == j \in flagged

Verdict(x, j, r) == verdict' = [verdict EXCEPT ![x] = [job |-> j, result |-> r]]

CancelCall(x, j) ==
  /\ cancelPc[x] = "idle"
  /\ returned[j] \in {"valid", "expired"}
  /\ IF Alive(j)
     THEN /\ cancelPc' = [cancelPc EXCEPT ![x] = "exchange"]
          /\ target' = [target EXCEPT ![x] = j]
          /\ UNCHANGED verdict
     ELSE /\ Verdict(x, j, "Expired")
          /\ UNCHANGED <<cancelPc, target>>
  /\ UNCHANGED <<queueVars, count, entryVars, clientVars, drainVars, stopVars,
                 execVars>>

CancelExchange(x) ==
  /\ cancelPc[x] = "exchange"
  /\ flagged' = flagged \cup {target[x]}
  /\ IF WasFlagged(target[x])
     THEN /\ Verdict(x, target[x], "AlreadyCanceled")
          /\ cancelPc' = [cancelPc EXCEPT ![x] = "idle"]
          /\ target' = [target EXCEPT ![x] = NoJob]
     ELSE /\ cancelPc' = [cancelPc EXCEPT ![x] = "load"]
          /\ UNCHANGED <<target, verdict>>
  /\ UNCHANGED <<queueVars, count, jobState, clientVars, drainVars, stopVars,
                 execVars>>

CancelLoad(x) ==
  /\ cancelPc[x] = "load"
  /\ Verdict(x, target[x],
       CASE jobState[target[x]] = "Executing" -> "AlreadyExecuting"
         [] jobState[target[x]] \in {"Done", "Failed"} -> "AlreadyFinished"
         [] OTHER -> "Canceled")
  /\ cancelPc' = [cancelPc EXCEPT ![x] = "idle"]
  /\ target' = [target EXCEPT ![x] = NoJob]
  /\ UNCHANGED <<queueVars, count, entryVars, clientVars, drainVars, stopVars,
                 execVars>>

-----------------------------------------------------------------------------
Init ==
  /\ state = "Running"
  /\ running = FALSE
  /\ queue = <<>>
  /\ count = [submitted |-> 0, rejected |-> 0, executed |-> 0, failed |-> 0,
              canceled |-> 0]
  /\ jobState = [j \in Jobs |-> "Fresh"]
  /\ flagged = {}
  /\ clientPc = [c \in Clients |-> "idle"]
  /\ posting = [c \in Clients |-> NoJob]
  /\ returned = [j \in Jobs |-> "no"]
  /\ drainPc = [d \in Drainers |-> "idle"]
  /\ held = [d \in Drainers |-> NoJob]
  /\ left = [d \in Drainers |-> 0]
  /\ stopPc = [s \in Stoppers |-> "idle"]
  /\ stopMode = [s \in Stoppers |-> "none"]
  /\ cancelPc = [x \in Cancelers |-> "idle"]
  /\ target = [x \in Cancelers |-> NoJob]
  /\ verdict = [x \in Cancelers |-> [job |-> NoJob, result |-> "none"]]
  /\ Executor!Init

PostNext(c) ==
  \/ \E j \in Jobs : PostRefused(c, j) \/ PostAccepted(c, j)
  \/ PostSchedule(c)
  \/ PostScheduleFailed(c)
  \/ PostReturn(c)

WorkerNext(w) ==
  \/ StartDrain(w)
  \/ PopEntry(w)
  \/ DrainEmpty(w)
  \/ BatchExhausted(w)
  \/ RequeueFailed(w)
  \/ ExecuteEntry(w)

PumpNext(p) == StartPump(p) \/ PopEntry(p) \/ PumpEnd(p) \/ ExecuteEntry(p)

StopNext(s) ==
  \/ \E m \in StopModes : StopCall(s, m)
  \/ StopStep(s)
  \/ StopTimeout(s)
  \/ SpuriousWakeup(s)

CancelNext(x) ==
  \/ \E j \in Jobs : CancelCall(x, j)
  \/ CancelExchange(x)
  \/ CancelLoad(x)

Next ==
  \/ \E c \in Clients : PostNext(c)
  \/ \E w \in Workers : WorkerNext(w)
  \/ \E p \in Pumpers : PumpNext(p)
  \/ \E s \in Stoppers : StopNext(s)
  \/ \E x \in Cancelers : CancelNext(x)
  \/ ExecutorStep

Spec == Init /\ [][Next]_vars

(* Threads that have begun a call get to finish it, workers keep running as  *)
(* long as there is something to run (job bodies return), and a deadline     *)
(* passes even if the thread that waits for it keeps waking up before (hence *)
(* strong fairness). Nobody is obliged to call Post, Stop or Cancel, to wake *)
(* spuriously, or to stop the executor.                                      *)
Fairness ==
  /\ \A c \in Clients :
        WF_vars(PostSchedule(c) \/ PostScheduleFailed(c) \/ PostReturn(c))
  /\ \A w \in Workers : WF_vars(WorkerNext(w))
  /\ \A s \in Stoppers : WF_vars(StopStep(s)) /\ SF_vars(StopTimeout(s))

FairSpec == Spec /\ Fairness

-----------------------------------------------------------------------------
(* Type invariant *)

DrainPcs == {"idle", "loop", "check", "start", "run", "count", "failed"}
StopPcs  == {"idle", "wait", "asleep", "drained", "mark", "tally", "erase",
             "close", "returned", "quiesced"}
Results  == {"none", "Canceled", "AlreadyCanceled", "AlreadyExecuting",
             "AlreadyFinished", "Expired"}

\* Every variable has the type of the field or local it stands for, and a
\* bounded queue (QueueCapacity > 0) never holds more than its capacity.
TypeOK ==
  /\ state \in QueueStates
  /\ running \in BOOLEAN
  /\ queue \in Seq(Jobs)
  /\ Capacity > 0 => Len(queue) <= Capacity
  /\ count \in [{"submitted", "rejected", "executed", "failed", "canceled"} -> Nat]
  /\ jobState \in [Jobs -> {"Fresh", "Queued", "Executing", "Done", "Failed",
                             "Canceled"}]
  /\ flagged \subseteq Jobs
  /\ clientPc \in [Clients -> {"idle", "schedule", "failed", "return"}]
  /\ posting \in [Clients -> Jobs \cup {NoJob}]
  /\ returned \in [Jobs -> {"no", "valid", "expired", "invalid"}]
  /\ drainPc \in [Drainers -> DrainPcs]
  /\ held \in [Drainers -> Jobs \cup {NoJob}]
  /\ left \in [Drainers -> Nat]
  /\ stopPc \in [Stoppers -> StopPcs]
  /\ stopMode \in [Stoppers -> {"none", "drain", "timed", "clear"}]
  /\ cancelPc \in [Cancelers -> {"idle", "exchange", "load"}]
  /\ target \in [Cancelers -> Jobs \cup {NoJob}]
  /\ verdict \in [Cancelers -> [job : Jobs \cup {NoJob}, result : Results]]
  /\ execState \in QueueStates
  /\ closures \in Nat

-----------------------------------------------------------------------------
(* Safety *)

Busy(d) == held[d] # NoJob

\* Two jobs of one queue are never in ExecuteEntry at the same time, whichever
\* worker each is on (README 2.2: serial execution by running_ and mtx_).
SerialExecution == \A d, e \in Drainers : Busy(d) /\ Busy(e) => d = e

\* Who has the right to drain: closures in the executor, workers inside
\* DrainOnce, and callers of Post that are about to schedule a drain.
DrainOwners ==
  closures + Cardinality({w \in Workers : drainPc[w] # "idle"})
           + Cardinality({c \in Clients : clientPc[c] \in {"schedule", "failed"}})

\* There is never a second drain, and a drain exists only while running_ is set:
\* whoever clears running_ is its last owner.
AtMostOneDrain == DrainOwners <= (IF running THEN 1 ELSE 0)

\* Conversely running_ is set only while somebody drains or will (job_queue.h,
\* "core invariant": running_ == true means in the executor's queue or running),
\* as long as the executor has not been stopped and may have dropped the drain.
RunningMeansDrain == running /\ execState = "Running" => DrainOwners = 1

\* Both: running_ is the right to drain.
RunningIsOneDrain == AtMostOneDrain /\ RunningMeansDrain

\* A queue that has work and is not stopped has a drain under way: no Post is
\* lost between a drain that found the queue empty and the push.
NoLostWork == queue # <<>> /\ state # "Stopped" => running

\* Every accepted job is in the queue, in a worker's hands, or counted exactly
\* once as executed or canceled, at every step.
Conservation ==
  count.submitted = count.executed + count.canceled + Len(queue)
                      + Cardinality({d \in Drainers : Busy(d)})

\* When Stop(true) returns because its condition held, nothing is queued or
\* executing, and nothing ever will be again.
DrainedStaysDrained ==
  \A s \in Stoppers : stopPc[s] \in {"drained", "quiesced"} =>
    queue = <<>> /\ \A d \in Drainers : ~Busy(d)

\* A job whose Post returned an invalid handle is never executed, even though
\* a failed schedule leaves its entry in the queue.
InvalidHandleNeverRuns ==
  \A j \in Jobs : returned[j] = "invalid" =>
    jobState[j] \notin {"Executing", "Done", "Failed"}

\* Of all Cancel calls on a job, at most one finds it not canceled yet.
OneCancelWins ==
  \A x, y \in Cancelers :
    /\ x # y
    /\ verdict[x].job = verdict[y].job
    /\ verdict[x].result \in {"Canceled", "AlreadyExecuting", "AlreadyFinished"}
    => verdict[y].result \in {"AlreadyCanceled", "Expired"}

\* A job whose Canceled flag is set while it waits in the queue is never
\* executed; only a cancel that races with ExecuteEntry may come too late.
CancelInQueueSticks ==
  \A j \in Jobs :
    [](j \in flagged /\ j \in ToSet(queue) =>
         [](jobState[j] \notin {"Executing", "Done", "Failed"}))

-----------------------------------------------------------------------------
(* Statements of the code's comments and documents that the code does not    *)
(* keep; each is checked by a run that expects a violation.                  *)

\* "running_ and queue_ are modified together under mtx_" (job_queue.h): no
\* thread is about to use queue_ under mtx_ while Stop(false) uses it without.
QueueOnlyUnderLock ==
  \A s \in Stoppers : stopPc[s] \in {"mark", "tally", "erase"} =>
    \A d \in Drainers : ~(drainPc[d] = "loop" /\ left[d] > 0)

-----------------------------------------------------------------------------
(* JobQueue implements SerialQueue                                           *)

Held == {held[d] : d \in {e \in Drainers : Busy(e)}}

FateOf(j) ==
  CASE j \in ToSet(queue) -> "Waiting"
    [] j \in Held -> "Active"
    [] j \notin ToSet(queue) \cup Held /\ jobState[j] = "Fresh" -> "Fresh"
    [] j \notin ToSet(queue) \cup Held /\ jobState[j] \in {"Done", "Failed"} -> "Ran"
    [] OTHER -> "Dropped"

Strand == INSTANCE SerialQueue WITH
  open    <- state = "Running",
  waiting <- queue,
  active  <- Held,
  fate    <- [j \in Jobs |-> FateOf(j)]

\* Seen from outside, the queue is a strand: acceptance order, one job at a
\* time, at most one execution of each, whatever Stop, Cancel and a refusing
\* executor do meanwhile.
IsStrand == Strand!Spec

-----------------------------------------------------------------------------
(* Liveness, under FairSpec *)

Ended(j) == jobState[j] \in {"Done", "Failed", "Canceled"}
Returned(s) == stopPc[s] \in {"returned", "quiesced"}

\* Nobody will drain the queue any more, yet Stop's condition is false. By
\* NoLostWork and RunningMeansDrain that takes an executor that refused a drain,
\* and so stopped the queue, or dropped one when it was itself stopped.
Stranded == DrainOwners = 0 /\ ~Drained

\* An accepted job is executed or canceled unless it is stranded, however the
\* batch limit cuts the drains.
AcceptedJobEnds == \A j \in Jobs : jobState[j] = "Queued" ~> Ended(j) \/ Stranded

\* Stop(true, 0) returns unless work is stranded; and Stop with a timeout
\* returns whatever happens.
StopReturns ==
  \A s \in Stoppers :
    /\ stopPc[s] # "idle" ~> Returned(s) \/ Stranded
    /\ stopPc[s] # "idle" /\ stopMode[s] = "timed" ~> Returned(s)

\* "Waits until the queue is empty" (README of lib/include/job, 3.2): a Stop
\* whose condition has become true for good returns. Another Stop that empties
\* the queue at its deadline notifies nobody.
StopReturnsOnceDrained ==
  \A s \in Stoppers : stopPc[s] = "asleep" /\ Drained ~> Returned(s)
=============================================================================
