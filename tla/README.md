# A verification project for the game server's job system and its neighbours

The repository (`pshpjr/portpolio`) holds a C++ game server and an Unreal client.
This directory models the part of it whose correctness is hardest to see by
reading or testing, the server's job system: its parts one by one, in detail, and
their composition. Beside it stand the smaller stateful parts of the program: the
server's inventory, clocks and draw bag, and the client's item containers, hotbar and
prompts. It contains TLA+ modules translated from
the sources, TLC configurations that check them on small instances, and theorems
that TLAPS proves for every value of the constants. `PROJECT.json` maps each
definition to the lines it stands for and lists runs, mutants, findings, hazards
and theorems.

Paths below are relative to the root of the repository; `job/` stands for
`server/lib/include/job/`. That directory has no tests: until now nothing checks
the job system.

## 1. Inventory

### The job system (`job/`)

| Part | State | Operations | Talks to |
|---|---|---|---|
| `JobQueue` (`job_queue.h`) | `queue_`, `running_`, `state_`, counters; all but the counters under `mtx_`, waiters on `stopCv_` | `Post`, `DrainOnce` (a closure), `ExecuteEntry`, `Stop(drain, timeout)`, test hooks `Pump` and `Flush` | posts `DrainOnce` to an `IExecutor`; the `Timer` posts to it |
| `Entry` (`entry.h`) | atomics `State`, `Canceled`, `Paused`, `PeriodNs`, `Mode` | fields only | owned by a queue or by the timer; handles hold `weak_ptr`s |
| `JobHandle`, `RepeatHandle` (`job.h`) | a `weak_ptr<Entry>` | `Cancel`, `IsValid`, `Pause`, `Resume`, `ChangePeriod`, `ChangeMode` | any thread may use them at any time |
| `ThreadPoolExecutor` (`thread_pool_executor.h`) | bounded `ready_`, `state_`, threads, counters; one `cv_` for all waiters | `Post`, `WorkerLoop`, `Stop` | runs the closures of queues and timer |
| `Timer` (`timer.h`) | `buckets_`, `occupied_`, `stopping_`, the watcher thread | `ScheduleAt/After/Repeat`, `WatcherLoop`, `Start`, `Stop` | hands callbacks to executors and queues |

Together: main creates queues, a pool and a timer, jobs post to queues and stop them, the
timer's watcher posts to queues, queues post their drains to the pool, and at the end
everything is shut down in the order of section 3.2 of `job/README.md`.

What is hard here: every critical section ends before the call into the next
component begins, so other threads come in between a decision and its execution
(push, then schedule; schedule fails, then stop; look, then sleep); flags are
atomics read once; condition variables are shared; a refused closure must not
strand work; `Stop` races with everything.

What makes it correct:

- *JobQueue*: it is a strand. Jobs run in acceptance order, one at a time, at most
  once; exactly one drain exists as long as there is work; no `Post` is lost
  between a drain that found the queue empty and the push; each accepted job is
  counted once as executed or canceled; once `Stop(true)` saw the queue drained,
  nothing runs again; a job whose caller got an invalid handle never runs.
- *Handles*: of several cancels one wins; a cancel that comes before the job is
  popped is never ignored.
- *Executor*: it runs every closure it accepted or drops it in `Stop`; no wakeup is
  lost among its workers; `Stop` returns; a stopped pool is at rest.
- *Timer*: an accepted entry is always in exactly one place, in the bucket of its
  due time; nothing fires a tick too early; a one-shot fires once; the watcher
  never oversleeps; `Stop` leaves nothing behind.
- *The composition*: a pool with a place for each queue refuses none of them; a queue
  that its owner lets go of outlives the jobs it has accepted; a queue that posts to
  itself does not starve the others; a shutdown in the recommended order ends, with
  nothing of a stopped queue left anywhere.

What makes the others correct:

- *Server inventory*: both indexes agree after any insertions and deletions.
- *Client items*: no operation makes or loses a piece, and an item's location and the
  containers tell the same story.
- *Prompts*: an abstract queue of distinct prompts, in spite of listeners that call back.
- *Bag*: every cycle gives each value as often as its weight, saved and restored or not.
- *Clocks*: the deltas add up to the time.

### The rest of the repository

| Part | What it is | Here |
|---|---|---|
| Server inventory (`server/src/item/inventory.*`) | items indexed by entity id and by content id, with swap-and-pop removal; single-threaded | modelled, proved (except item counts, which nothing reads) |
| Clocks (`server/lib/include/clock/`) | `ManualClock`, `SteadyTickClock`, `SteadyClock` with a thread between `Start` and `Stop`; the time since construction and since the last look | modelled (without the idle time) |
| `BagDraw` (`utils/game_random.h`) | weighted draws without replacement; saved as seed, size and index, and restored | modelled |
| Client item containers (`client/Source/client/Private/Inventory/`) | inventory, storage, equipment over shared `ClientItemInstance`s that carry their count and remember their location | modelled (without durability, trade count and binding) |
| Client slots (same directory) | consumable quick slots, skill hotbar | modelled |
| Client prompts (`.../UI/ClientConsentPromptWidget.cpp`, `...AchievementToastWidget.cpp`) | an active prompt and a queue of pending ones, broadcasting to listeners that may call back | modelled |
| Client views (`.../UI/Client*WidgetBase.cpp`) | widgets bound to a container, subscribed to its announcements between `NativeConstruct` and `NativeDestruct` | modelled |
| Party widgets, screens, subsystems | lists for display, single assignments, wiring to the engine | not modelled |
| Server configuration, tracing, telemetry | parsing at start-up, wrappers around Perfetto, records of numbers | not modelled: no behaviour over time |
| Network, user, equipment service, dye | declarations and empty files | not modelled: nothing to model yet |
| String, random, container utilities, `not_null`, `strong_id` | wrappers around the standard library | not modelled |
| ImGui plugin, code generators, `tools/` and agent scripts, content | third-party, build-time or outside the program | not modelled |

## 2. Modules

| Module | Models | Role |
|---|---|---|
| `JobQueue` | `job_queue.h`, `entry.h`, `JobHandle::Cancel` | detailed model, all threads interleaved |
| `JobStrand` | job README 2.2 | an abstract strand: accepted in order, one job at a time |
| `SerialQueue` | job README 2.2 | what a queue promises: a `JobStrand` that accepts, and runs, each job at most once |
| `ExecutorContract` | `executor.h` | what a queue may rely on; an instance of it is part of `JobQueue` |
| `MCJobQueue` | | symmetry sets for the runs of `JobQueue` |
| `ThreadPoolExecutor` | `thread_pool_executor.h` | detailed model; implements `ExecutorContract` |
| `Timer` | `timer.h`, `RepeatHandle` | detailed model; its targets are reduced to what `Dispatch` can observe |
| `JobSystem` | `job_queue.h`, `thread_pool_executor.h`, `timer.h`, job README 3.2 | composition, one step per critical section, with references to queues; each queue implements `JobStrand`, the pool `ExecutorContract` |
| `ServerInventory` | `inventory.cpp`, `inventory.h` | sequential model |
| `ClientItems` | `Client{Inventory,Storage,Equipment,ConsumableQuickSlot,SkillHotbar}Component.cpp`, `ClientItemInstance.cpp` | containers over shared items |
| `ClientPrompts` | `ClientConsentPromptWidget.cpp`, `ClientAchievementToastWidget.cpp` | both widgets, re-entrant listeners |
| `ClientViews` | `Client{Inventory,ConsumableQuickSlot,Equipment,Storage,SkillHotbar}WidgetBase.cpp` | binding and subscription of the five widgets |
| `BagDraw` | `game_random.h` | sequential model |
| `Clocks` | `manual_clock.h`, `steady_tick_clock.h`, `steady_clock.h` | three classes, the thread of the last interleaved with its owner |
| `MCComponents` | | instances of the last seven for one run |
| `JobQueueProofs`, `JobQueueStrandProofs` | | theorems about `JobQueue` and the abstract strand |
| `ThreadPoolProofs`, `TimerProofs`, `JobSystemProofs` | | theorems about `ThreadPoolExecutor`, `Timer`, `JobSystem` |
| `ServerProofs`, `ClientProofs` | | theorems about `ServerInventory`, `Clocks` and `BagDraw`, and about the three client modules |
| `ComponentsProofs` | | what holds of each component holds of `MCComponents` |

The parts of the job system are composed twice. By contract: `JobQueue` contains `ExecutorContract` as its
executor, and `ThreadPoolExecutor` is shown to implement `ExecutorContract`
(`IsExecutor`); `JobQueue` is shown to implement `SerialQueue` (`IsStrand`). The
timer's targets answer a dispatch as the queue model says they can: accepted with
a live handle; accepted, but already run, so that the handle is expired; refused. And in one module: `JobSystem` puts several queues, one pool, the watcher and
main together at the grain of critical sections, for what only shows when queues share a pool. There the
contracts are met again: each of its queues is a `JobStrand` (`QueuesAreStrands`), and its pool is an
`ExecutorContract` (`PoolIsExecutor`), the specifications that `JobQueue` and `ThreadPoolExecutor` implement in
detail. A job may be accepted again there, also while it runs, so the strand is `SerialQueue` without the fate of each job.

`MCComponents` extends seven modules and chooses in its initial state (`component`) which of them a
behaviour is about; the variables of the others keep their initial values. The run is the
disjoint union of the state spaces, so each property speaks about its own component as it
would in a run of its own (`ComponentsAreThemselves` proves it).

### How state and actions correspond to the code

`JobQueue`. The elements of `Jobs` are calls of `Post`; the entry of a job is
`jobState` and `flagged` (its `Canceled`). `held[d]` is the local
`shared_ptr<Entry>` of a thread inside `DrainOnce` or `Pump`, `left[d]` what its
loop may still do, and `closures` the number of `DrainOnce` closures the executor
holds. One action is one critical section of `mtx_`, one access to an atomic of an
`Entry`, or one call to the executor, with everything the code does in it:
`PostAccepted` pushes, counts, and sets `running_`; `PostSchedule` calls the
executor after the lock is released; `PostScheduleFailed` is `MarkFailedSchedule`
under the lock, and so on. `StopTimeout` marks, counts and clears under the lock,
as the code does at the deadline. `Stop(false)` does the same without the lock;
there it takes three steps (`StopMark`, `StopTally`, `StopErase`), between
which other threads run. C++ gives the unlocked access no meaning at all; the
model covers its sequentially consistent interleavings only, which is where the
bookkeeping goes wrong (hence `Conservation` and `IsStrand` are run with different
sets of `StopModes`), and the run `JobQueueUnlockedClear` shows that the race
exists. When a waiter on `stopCv_` is woken it re-reads the condition under the
lock, which is `StopCheck`.

`ThreadPoolExecutor`. A closure is a `Task`. `workerPc = "check"` is a worker about
to evaluate the predicate of its wait; `asleep` is inside it. `NotifyOne` is an
action of its own because the code notifies after releasing `mtx_`, and it may wake
a worker or the caller of `Stop`, which wait on the same `cv_`. One thread owns the
pool: it calls `Stop` and later the destructor; overlapping calls would join a
`std::thread` twice.

`Timer`. An entry is the call of `Schedule*` that makes it. `plan` is the
atomics and constants of the entry, `buckets` and `occupied` the two containers,
`fired[pos]` the entry that the watcher is seeing to, `due` its local `nextBucket`.
The loop of `WatcherLoop` is cut at every lock, clock reading, atomic and
dispatch. Bucket keys are unsigned 64-bit numbers in the code; `KeySpace` stands
for 2^64, so that the bucket of a time before the clock's epoch gets a key larger
than all others, as it does in the code, and `BucketTime` casts it back. `handed` is
a history variable: the entries a target has accepted. `Start` and `Stop`, which share `watcher_`
without a lock (`timer.h:74`), belong to one thread.

`ServerInventory`. `repo1` and `repo2` are the two containers, a pointer to a datum
being its entity id and an index its index plus one. `InsertDuplicate` keeps the
code's side effect, an empty list that `repo2_[contentId]` leaves behind.

`JobSystem`. `queue`, `running`, `queueState` are those of each `JobQueue`; `ready` is the
pool's deque, a closure being the queue it drains. `posting[t]` is a thread between the push
and the call of the executor, `stopping[t]` a thread that waits in `Stop(true, 0)`; a worker
that waits does so in the middle of a job. A `shared_ptr` to a queue is held by main (`owned`), by a
closure in the deque (the `self` of the lambda), by a worker inside `DrainOnce`, and by a
thread inside a member function; `AliveQueue` is their disjunction, and the timer has a
`weak_ptr`, hence the test of `AliveQueue` in `Push`. What jobs do is a constant: `Follows[j]` is
posted, `Stops[j]` is stopped. Condition variables are guards and cancels are left out, for
the detailed modules have them.

`ClientItems`. `count` and `place` are the two fields of an item's runtime data that the
containers write; `place` keeps those fields of the location which its `StorageKind` uses. `Kind`
is what `CanStackWith` compares. A stack that is poured into others goes through `Merged`, which
computes and clamps as `TryStackIntoSlot` and `SetCount` do. The containers do not know of each
other and take any pointer, so the callers are assumed to add only items that no container
holds and of which something is left (`Loose`). Calls that the code refuses change nothing and
are not actions, except `AddItemToTab` without a free slot, which has poured what it could
before it answers false.

`ClientPrompts`. The toast and the consent prompt share `PushPrompt`, `Advance` and
`ClearAllPrompts`. Answering is two actions, before and after the broadcast, and whatever
listeners call comes between; `answering` is the stack of answers under way.

`ClientViews`. `bound` is the pointer to the container, `listeners` the dynamic bindings of the
containers' delegates, `missed` the views whose picture is older than an announcement. The five classes
differ in two ways only: inventory and quick slots drop the pointer in `NativeDestruct` and always
subscribe anew (`Forgetful`), the other three keep it and return early if it is the same.
`RootBinds` is the `Bind...Component` that a Blueprint may call, shown or hidden.

`BagDraw`. `Shuffle` is a constant: what an engine with this seed makes of this list, any permutation.
`Restore` loses the bag and makes one from the saved state. `drawn` is a history of the cycle.

`Clocks`. `now` is the machine's steady clock since the construction. The thread of `SteadyClock` has its
test of `running_`, its sleep and look, and its two stores as separate steps.
Unsigned numbers are taken modulo `Width`.

### Definitions named "Slip"

Some definitions are preceded by variants commented as slips: what a plausible
mistake at that line would look like (a guard dropped, a notification forgotten,
an off-by-one). No module uses them. `PROJECT.json` names for each checked property at least
one such variant that makes TLC find the property violated, so every property is
known to depend on the code it is about.

## 3. Runs

| Run | Instance | Question |
|---|---|---|
| `JobQueueSafety` | 3 jobs, 2 posters, 2 workers, 2 stoppers, capacity 2, batch 2; executor may refuse, stop and discard | the invariants of the queue |
| `JobQueueStrand` | 3 jobs, 1 poster, 2 workers, 1 canceler, `Stop` timed or `Stop(false)`, refusing executor | does `JobQueue` implement `SerialQueue`? |
| `JobQueueHooks` | 2 jobs, `Pump`/`Flush` instead of workers, 2 cancelers, capacity 1, timed `Stop` | cancel semantics; `Conservation` of the counters with pops, cancels and a deadline |
| `JobQueueLive` | 2 jobs, 2 posters, 2 workers, batch 1, jobs may throw, executor may refuse and stop; `FairSpec` | do accepted jobs end, does `Stop` return? |
| `ThreadPoolExecutor` | 3 closures, 2 posters, 2 workers, capacity 2, every kind of `Stop`; `FairSpec` | invariants, progress, implements `ExecutorContract` |
| `Timer` | a one-shot and a repeating entry, 2 units per bucket, clock 0..2, a time before the epoch, pause, resume, cancel, change of mode | the invariants of the timer |
| `TimerLive` | the same entries, 1 unit per bucket, period may become 0; `FairSpec` | cancels stick, due entries fire, `Stop` returns |
| `Components` | see below; `SystemFairness` | the composed job system and the smaller components |
| `JobQueueUnlockedClear` | 1 job, 1 worker, `Stop(false)` | expects a violation, see 6 |
| `JobQueueStopLostWakeup` | 2 jobs, 2 stoppers, refusing executor; `FairSpec` | expects a violation, see 6 |
| `ThreadPoolDrainHangs` | 1 closure, 1 worker, `Stop(true, 0)`; `FairSpec` | expects a violation, see 6 |
| `TimerRepeatDies` | 1 repeating entry aimed at an open `JobQueue` | expects a violation, see 6 |

The instances of `Components`:

- *job system*: three queues, two workers, a pool with three places, batch limit 1. Jobs on two queues
  post themselves for ever; the timer posts a job to the first queue which posts one to the
  third, which stops the second with `Stop(true, 0)`. Main may let go of the first queue at any
  time, and shut down at any time;
- *server inventory*: 4 entities of 2 content ids;
- *items*: three stacks of potions (1, 2 and 2, of at most 2), or two stacks and two rings; tabs with 2
  and 1 slots, one ring slot, one quick slot;
- *hotbar*: a skill that needs a sword, one that needs nothing, an identity skill; three slots;
- *prompts*: 3 ids, answers nested twice; toast, and consent with two kinds of listeners;
- *views*: an inventory view and two equipment views that share their containers, two containers of each type;
- *bag*: one value twice, one once, one with weight 0; three seeds, all saves and restores;
- *clocks*: 6 for 2^64, time up to 4, two starts of the steady clock.

What the properties say is in the comment above each of them. In short, by hazard:

- *push and schedule are two steps*: `SerialExecution`, `RunningIsOneDrain`
  (at most one drain is under way, and `running_` says whether one is), `NoLostWork`, `IsStrand`;
- *a refused drain*: `InvalidHandleNeverRuns`, `NoLostWork`, and in the liveness
  properties the exception `Stranded`, a state without any owner of the drain that
  the invariants confine to a refused drain or a stopped executor;
- *`Stop` against everybody*: `DrainedStaysDrained`, `Conservation`, `StopReturns`,
  `StoppedMeansJoined`, `StoppedIsQuiet`;
- *cancel against execution*: `OneCancelWins`, `CancelInQueueSticks`, `CancelSticks`;
- *sleeping threads*: `NoSleeperIsNeeded`, `NoOversleep`;
- *lists in motion without the lock*: `NoEntryLost`, `LeavesDueAndOnce` (nothing leaves a tick
  before it is due, a one-shot leaves once);
- *progress*: `AcceptedJobEnds`, `AcceptedTaskEnds`, `DueEntryFires`, `StopReturns`;
- *queues that share a pool*: `PlaceForEveryQueue` (with as many places as queues no drain is
  refused, though any number of threads post), `NobodyStarves`;
- *queues on many workers*: `PartsKeepTheirPromises`, that is `QueuesAreStrands` and `PoolIsExecutor`;
- *queues that go*: `NoJobDiesWithItsQueue`, `StoppedQueueHasFinished`, `ShutdownEnds`;
- *two records of one fact*: `IndexesAgree`, `PlacesAgree`, `StacksConserved`, `DeltasAddUp`;
- *subscriptions that come and go*: `ViewsFollowTheirSource`;
- *calls in the middle of a call*: `PromptsLeaveInTurn`;
- *restart from a saved state*: `CyclesAreWhole`.

### Bounds, and why they are enough

- Two workers and two posters are the least with which two drains could overlap or
  two posts both decide to schedule; the theorems cover any number. Three jobs
  let one run, one wait and one be posted, and fill a queue of capacity 2.
- `BatchLimit` 1 and 2 make the batch end before, with and after the last job,
  and give the requeue of a drain over an empty queue. With a limit of 0 no job is
  ever run; the code does not refuse it.
- `Pump` is called with 1 and with a number larger than the number of jobs, which
  is `Flush`.
- Capacity 2 with three closures, and 1 with two jobs, make the bound bite.
- The clock of the timer stops at `MaxTime`; entries due later stay in their bucket.
  Delay 3 with ticks of 2 puts an entry in the next bucket, lateness 1 puts it before
  the epoch, period 1 makes the repetition fall into the bucket the watcher has just
  taken. `TimerLive` uses ticks of 1 so that the last bucket falls due in the run.
- `CHECK_DEADLOCK FALSE` wherever jobs, closures, entries or time are finite: when
  all have been used and the component is stopped, nothing is left to do. That no
  thread is stuck before is what the liveness properties say.
- In `Components` two workers for three queues make a queue wait for another, one in a `Stop`
  included; batch limit 1 makes every drain requeue; a pool with as many places as queues is the
  least for which `PlaceForEveryQueue` claims anything. Two workers are also the least with
  which a job may wait for another queue: with one, `Stop` inside a job hangs (see 5).
- Items: two full stacks and a half one give merges that fit, that overflow and that empty the
  source; the tab of one slot fills up. Three ids make a queue behind a queue; two nested answers
  are enough for one to advance past the other.
- Symmetry is used in runs without liveness properties only.

### Fairness

A thread that has begun a call gets to finish it: weak fairness of each client's
steps after the push, of `Stop`'s steps, of the notification after a post. Workers and
the watcher go on as long as they are not blocked, and jobs return. A deadline
passes even if the waiting thread keeps waking up before it, hence strong fairness of
`StopTimeout`. Time passes (`ClockTick`, up to the bound). These are the guarantees of
`std::thread`, `wait_until` and the assumption the code makes of its jobs. Nobody is
obliged to post, schedule, cancel, pause, stop, or to wake spuriously. In `JobSystem` the same
holds of workers, of a post that has begun and of a shutdown that has begun
(`SystemFairness`); the sequential components have no fairness and claim no progress. A worker's
steps are one fair action, so fairness does not choose between outcomes: a refusal by
the executor, an exception or a lost race can always happen.

## 4. Proofs

Checked by TLAPS with SMT, Zenon and LS4, for every value of the constants that
satisfies the named `ASSUME`s of the module. A hypothesis beside the specification is
about constants only:

| Module | Theorem | States |
|---|---|---|
| `JobQueueProofs` | `TypeCorrect` | `Spec => []TypeOK` of `JobQueue`, with the capacity bound |
| | `SerialSafe` | `Spec => []SerialExecution` |
| | `NoLostWorkSafe` | `Spec => []NoLostWork` |
| | `DrainedSafe` | `NoHooks /\ Spec => []DrainedStaysDrained` |
| | `InvalidHandleSafe` | `NoHooks /\ Spec => []InvalidHandleNeverRuns` |
| `JobQueueStrandProofs` | `RunningIsOneDrainSafe` | `Spec => []RunningIsOneDrain` |
| | `ConservationSafe` | `LockedStops /\ Spec => []Conservation` |
| | `OneCancelWinsSafe` | `Spec => []OneCancelWins` |
| | `CancelInQueueSafe` | `Spec => CancelInQueueSticks` |
| | `ImplementsStrand` | `Spec => IsStrand`, the refinement of `SerialQueue` |
| `ThreadPoolProofs` | `PoolTypeCorrect` | `Spec => []TypeOK` of `ThreadPoolExecutor` |
| | `StoppedMeansJoinedSafe` | `Spec => []StoppedMeansJoined` |
| | `NoSleeperIsNeededSafe` | `Spec => []NoSleeperIsNeeded` |
| | `ImplementsContract` | `Spec => IsExecutor`, the refinement of `ExecutorContract` |
| `TimerProofs` | `TimerTypeCorrect` | `Spec => []TypeOK` of `Timer` |
| | `NoOversleepSafe` | `Spec => []NoOversleep` |
| | `LeavesDueAndOnceSafe` | `Spec => []LeavesDueAndOnce` |
| | `StoppedIsQuietSafe` | `Spec => []StoppedIsQuiet` |
| | `NoEntryLostSafe` | `Spec => []NoEntryLost` |
| | `CancelSticksSafe` | `Spec => CancelSticks` |
| `JobSystemProofs` | `SystemTypeCorrect` | `SystemSpec => []SystemTypeOK` |
| | `PlaceForEveryQueueSafe` | `SystemSpec => []PlaceForEveryQueue` |
| | `NoJobDiesSafe` | `PlacesForAll /\ SystemSpec => []NoJobDiesWithItsQueue` |
| | `StoppedQueueSafe` | `PlacesForAll /\ SystemSpec => []StoppedQueueHasFinished` |
| | `QueuesAreStrandsSafe` | `SystemSpec => QueuesAreStrands`: each queue refines `JobStrand` |
| | `PoolIsExecutorSafe` | `SystemSpec => PoolIsExecutor`: the pool refines `ExecutorContract` |
| | `PartsKeepTheirPromisesSafe` | `SystemSpec => PartsKeepTheirPromises`, both at once, as the run checks them |
| `ServerProofs` | `InventoryTyped`, `IndexesStayInverse` | types and `IndexesAgree` of `ServerInventory` |
| | `ClockTypeCorrect`, `DeltasAddUpSafe` | types and `DeltasAddUp` of `Clocks` |
| | `BagTypeCorrect`, `CyclesAreWholeSafe` | types and `CyclesAreWhole` of `BagDraw` |
| `ClientProofs` | `ItemsTypeCorrect`, `PlacesAgreeSafe` | `ItemsSpec /\ HotbarSpec => []ItemsTypeOK`, `=> []PlacesAgree` |
| | `StacksConservedSafe` | `ItemsSpec => StacksConserved` |
| | `PromptsTypeCorrect`, `PromptsLeaveInTurnSafe` | `PromptsSpec => []PromptsTypeOK`, `=> PromptsLeaveInTurn` |
| | `ViewsTypeCorrect`, `ViewsFollowSafe` | `ViewsSpec => []ViewsTypeOK`, `=> []ViewsFollowTheirSource` |
| `ComponentsProofs` | `ComponentsAreThemselves` | `ComponentsFairSpec =>` the specification of each component |
| | `ComponentsTypeCorrect` | `ComponentsFairSpec => []ComponentsTypeOK` |
| | `ComponentsSafe` | `PlacesForAll /\ ComponentsFairSpec =>` every safety property of the run |

### What the proofs assume

- Threads, jobs, entries, queues and items are finitely many (`ThreadAssumption`, `QueuesAssumption`,
  `UseAssumption`, `ItemsAssumption`), so that they can be counted; of the times that a timer is given one is the largest
  (`TimeAssumption`), which bounds the arithmetic of its keys.
- `BagAssumption`: the weights, which may be zero or less, fill at least one place (the constructors refuse an empty bag),
  and shuffling permutes the places.
- `NoHooks`: the test hooks are not used. `Pump` takes no account of `running_` or `state_`, and runs
  what a failed schedule left in the queue.
- `LockedStops`: no `Stop(false)`. It counts and clears `queue_` without the lock, and the bookkeeping goes wrong
  (6). `RunningIsOneDrain`, the cancel properties and the refinement need no such hypothesis.
- `PlacesForAll`: the pool has a place for each queue, or no bound, as by default. With fewer a refused drain
  stops a healthy queue, and what it held dies with it.

### The arguments

*The job queue.* `SerialExecution` is not inductive: that no two workers hold a
job says nothing of a closure in the executor, which would become a second worker. The
strengthening `TokenInv` treats the right to drain as a token that is a closure in the
executor, or a worker inside `DrainOnce`, or a client between setting `running_` and
the answer of the executor. Each excludes the others, and each implies `running_`. The
token is created only where `running_` rises, so a `Post` that finds it set makes
none; it is passed on by an accepted schedule or batch requeue, and destroyed where
`running_` falls (`DrainEmpty`, `MarkFailedSchedule`) or by an executor that drops
closures. `HeldInv` ties the token to `held`. The proofs of `TypeCorrect` and
`TokenStep` go action by action; steps that touch nothing the invariant reads are
settled by frame lemmas.

`NoLostWork` needs no more than the actions: whoever lowers `running_` has either seen
the queue empty in the same critical section, or stops the queue in it.

`DrainedStaysDrained` adds `StopInv`: a `Stop` that has begun has closed the queue to
posts, and once one has seen the condition hold, the queue is empty and
`running_` is down; with the token invariant nobody is left who could run anything.

`InvalidHandleNeverRuns` adds that a client about to schedule holds a job that has not
been started (`ScheduledInv`), and that a job with an invalid handle was refused, or is in
a queue stopped for good with `running_` down (`RefusedInv`), so that no worker will
come for it.

*The strand.* `RunningIsOneDrain` turns the token into a number: the sets of holders have at
most one element each and exclude one another. `Conservation` follows the sum through each action, a
drain taking a job from the queue into its hands before it counts it. `ImplementsStrand` shows of
every action which step of `SerialQueue` it is under the mapping; its
invariant `EntryInv` says that the jobs in the queue are distinct and not started, and that a job in a
thread's hands is not in the queue. That it is inductive is shown of six effects (push, pop, end, run, give
up, close), one of which every action has. `CancelInv` keeps the flag of a job and the callers who found it down in
step; a job that is flagged in the queue stays `Caught`, for `ExecuteEntry` has the test of the flag still before it.

*The pool.* `StoppedMeansJoined` goes by the phases of `Stop`: a worker that has left its loop has seen
the pool stopping, and after the join nobody else takes a closure. `NoSleeperIsNeeded` is
inductive beside it: a post adds one closure and one notification, a notification becomes a worker on its way. A notification
could also wake the caller of `Stop`, who waits on the same `cv_`; but once he does no worker sleeps any more (`AwakeInv`).

*The timer.* `PlaceInv` says which of callers, buckets and watcher has an entry in each state of its call, `TimeInv` that an entry is
filed under the key of its due time and that the bucket in the watcher's hands has fallen due, `KeepInv` that no accepted
entry falls between, `ControlInv` what `Stop` and the watcher know of each other. The arithmetic is in lemmas of its own:
keys are due times divided downwards by the tick and taken modulo `KeySpace`, and a time lies in the bucket of its key whether
or not the key was wrapped around (`KeyOfTime`, `TimeOfKey`, `BucketHoldsTime`).

*The composition.* `OneDrain` is `TokenInv` for every queue, over the deque and all threads. As a queue has at most one closure in the deque,
and none while somebody is about to post it, `FewerClosuresThanQueues` counts (a pigeonhole over the finite set of queues) and
`PlaceForEveryQueue` follows; with `PlacesForAll` no drain is refused, so work always has a drain (`WorkInv`), which
keeps the queue alive, and a `Stop` that saw the queue empty and `running_` down leaves nothing behind (`StopInv`).
`OneDrain` is also what makes the queues strands: only one worker can be inside a queue, so the jobs in the hands of its
workers are at most one (`ActiveOfDrain`), a pop finds none, and a `Push` of any thread is an `Enter` or nothing to the strand.
For the pool, `PoolInv` adds what the phases of main's shutdown mean: from the moment main has emptied the deque
nothing is accepted any more, so the join finds it still empty.

*The inventory.* The two properties are proved together (`IndexInv`): a deletion goes by
the place a datum remembers, so a wrong place would take the wrong pointer out of the
list and leave a dangling one.

*The bag.* The values drawn in a cycle are the first so many of the shuffled bag (`BagInv`), and a saved index is a prefix
of the same shuffle, which is why a restored bag goes on as the old one. When the last has been drawn, the cycle is the whole
bag, and counting it comes down to two lemmas: a permutation of a list has each value as often (`PermutedCounts`, a bijection between the
places), and the filled list has each value as often as the sum of its weights (`FilledHoldsWeights`). The second
compares two folds over the weighted list; as no induction rule can be used, the functions behind the folds are shown to exist, and
the claim to hold, by the least number at which they would fail (`LeastNumber`, `FoldsExist`).

*Clocks.* The sum of the deltas is where the last look was (`SumInv`), and no look is before the last (`ThreadInv`), so that
no difference of a tick is negative; that of a manual clock may be, and `DeltaLeadsTo` shows that adding it comes out right modulo
`Width`.

*The client.* `PlacesAgree` is inductive once it is split by container (`ItemsInv`); an item that is replaced in a quick slot
keeps its location, hence the implication for those. `Merging` shows that a merge takes only from its source and never lets
`SetCount` cut anything; `Pouring` carries this over all slots of a tab: that the recursive function in `Poured` exists,
and what it returns, is shown by the least slot at which it would fail, for the library's induction rules take an
operator and are out of the provers' reach. In the same way `SumFollows` shows that the fold in `Total` changes by as much as one
count does, so that the two counts of a merge cancel out and `StacksConserved` holds. For the prompts, `PromptsInv` says that nothing waits
behind no active prompt and that a consent prompt is answered while it is the active one.

## 5. What is only model-checked, and what is not modelled

Only model-checked is liveness (`AcceptedJobEnds`, `AcceptedTaskEnds`, `DueEntryFires`, `StopReturns`, `NobodyStarves`,
`ShutdownEnds`): TLAPS does not do fairness or `ENABLED`. Every other property of the passing runs is a theorem.

The only recursion in the project is the recursive function in `Poured`, and the folds of the community modules.

Assumptions that the code does not enforce:

- *No job stops its own queue, or one that somebody lets go of* (`StopAssumption`). The first waits for a drain
  it is itself part of. The second waits for a closure which a discarding pool may have
  thrown away.
- *A job that stops a queue needs another worker* to drain it: in a pool of one it waits for itself.
- *The last reference to the pool* is not dropped inside a closure of it: its
  destructor would join the thread it runs on.
- *A pool has a place for each of its queues.* With fewer, a full deque stops a healthy queue
  for good (`MarkFailedSchedule`).
- *An item is in one container at a time* (`Loose`); *one thread owns a clock*.

Left out of the models:

- *JobQueue*: entry ids, the counters of batch limits hit and drains rescheduled, which
  nothing reads, empty callbacks (refused before anything is touched), snapshot readers. A
  job does not call its own queue's `Stop`; what jobs call on other queues is in `JobSystem`. `Pumpers` are a single thread of a program
  without workers (`HookAssumption`), which is what the hooks are documented for.
- *ThreadPoolExecutor*: the slow-job warning (a TODO), `drainOnStop_` (never read).
- *Timer*: one clock serves `Now()` and `wait_until`; an injected `NowProvider` that
  differs from the steady clock is not covered. `ChangePeriod` with a negative period is
  omitted, 0 is not. `PeriodNs`, `Mode` and the clock are read in one step in
  `ComputeNext`. `timer.h:363` asks `Period.has_value()` of a plain duration, which does not
  compile when instantiated; the model takes it for "the entry has a period". That an
  entry before the epoch fires promptly is not claimed: its key sorts last.
- *JobSystem*: cancels, counters, timed or discarding Stops of queues, buckets of the timer: see the modules of
  the parts. Queues have no capacity.
- *ClientItems*: `SetDurability`, `SetRemainingTradeCount` and `SetAccountBound` of an item, which
  nothing calls yet and which would change `Kind`; the order of the inventory list.
- *ClientViews*: which piece of a picture is repainted, and changes that containers do not announce (see 6).
- *ClientPrompts*: texts; a push of a known id replaces them in place.
- *Clocks*: the idle time. *Server inventory*: `Item::AddCount`, whose counts nothing reads (it clamps with
  `std::max` where `std::min` is meant, `item.cpp:12`).
- *The rest of the repository*: see the inventory. Most of its lines, about nine in ten, are
  vendored code (ImGui, ImPlot, NetImgui and the stb headers), which are outside this project. Of what is
  left, the party widgets, screens and subsystems assign single fields or forward calls to the
  engine; network, user, equipment service and dye have no behaviour yet.
- *Memory*: a data race is represented by interleavings, not by corrupted containers.

## 6. Where code and documentation part

Shown by runs that expect a violation:

- `Stop(false)` works on `queue_` without `mtx_` while a worker may pop from it
  (`job_queue.h:163`), against the invariant of `job_queue.h:25` that `running_` and `queue_` are
  observed and modified together under `mtx_`. Run `JobQueueUnlockedClear`.
- A `Stop` that empties the queue at its deadline does not notify `stopCv_`
  (`job_queue.h:157`); another `Stop(true, 0)` whose condition thereby became true sleeps
  on. Run `JobQueueStopLostWakeup`.
- `ThreadPoolExecutor::Stop(true, 0)` waits for an empty deque, but no worker that empties it
  notifies `cv_` (`thread_pool_executor.h:112` and 169): a `Stop` that found the deque
  nonempty never returns. Run `ThreadPoolDrainHangs`.
- `Dispatch` to a `JobQueue` answers with `IsValid()` of the handle (`timer.h:219`), false
  if a worker was quick enough to have run the job: the timer then cancels the
  repetition for good, though the queue accepted it. Run `TimerRepeatDies`.

Noticed while modelling, without a run:

- `job_queue.h:54` says a successful `Post` returns a valid handle; it may have expired by
  then, which the model has as `returned = "expired"`.
- `job.h:52` calls the `Canceled` case of `Cancel`'s switch impossible; it is reached when the drain, or
  a `Stop`, stores `Canceled` before the cancel's load.
- The interface specification (`server/docs/exec-plans/active/20260413-job-system-interface-spec.md:396`)
  has `Cancel` after completion answer `AlreadyFinished`; once the entry is gone it is `Expired`.
- `job_queue.h:24`: an executor that drops a closure in `Stop` leaves `running_` set for good, with nobody
  to drain. `RunningMeansDrain` excepts a stopped executor for that reason.
- `job_queue.h:296`: the batch requeue happens with an empty queue too.
- Specification line 404 counts rejections; a post to a stopped queue is rejected uncounted.
- `thread_pool_executor.h:217`: the comment of `droppedOnStopCount_` covers both clears, but
  `Stop(false)` (lines 95-96) does not count.
- The specification (about line 639) drops the rounds of a paused entry until `Resume` files it again;
  the code files it every round (`timer.h:33` says so).
- `timer.h:412` takes `begin()` of the ordered keys for the next expiry; not for keys of times before the epoch.
- An entry's `State` stays `Queued` after its first repetition.
- `game_random.h:47` refuses the state that `save_state` gives of a bag whose last value has been drawn (index =
  bag size). The plan `server/lib/docs/exec-plans/active/20260317-utility-functions.md:104` has a restart continue
  exactly, and at line 112 an index of at most the size less one.
- `server/lib/tests/clock/clock_test.cpp:25-28` advances a `ManualClock` by 1.5 and expects 1.5, and lines 51-52
  set an idle time of 0.3; `manual_clock.h` takes and keeps `uint64_t`, so both are truncated.
- `steady_clock.h:53`: a `SteadyClock` that is stopped and started again reports in its first delta the whole
  time since its construction, part of which earlier deltas have reported. `DeltasAddUp` excepts it.
- `ClientStorageComponent.cpp:73`: `AddItemToTab` answers false without a free slot although part of
  the stack may have gone into others, and announces nothing.
- `ClientEquipmentComponent.cpp:37` and `ClientConsumableQuickSlotComponent.cpp:28`: `EquipItem` and
  `AssignConsumable` drop the item that was in the slot; the latter, and `ConsumeFromSlot` of the last
  piece, leave its location naming the slot.
- `ClientConsentPromptWidget.cpp:87`: when a listener of an answer answers or clears prompts itself,
  `AdvanceToNextPrompt` takes away a prompt that nobody has answered; a listener that pushes
  the id being answered again only replaces the text of the prompt about to go.
- `ClientEquipmentWidgetBase.cpp:21` (and the storage and hotbar widgets): `NativeDestruct` unsubscribes but keeps the
  pointer, so the next `NativeConstruct` finds the same container, repaints once and does not subscribe. After
  `HideHUD` and `ShowHUD` these views show no change any more, against `client/docs/client-hud-widget-guidelines.md:76-77`
  (a widget subscribes to the component's delegate and repaints when the state changes). `ViewsFollowTheirSource` excepts
  these views once they have been hidden; without the exception TLC finds the sequence.
- `ClientInventoryComponent.cpp:31`: when only part of a stack went into an existing one, the announcement names the rest;
  the stack that grew is not announced, though `ClientInventoryWidgetBase.h:26` has every changed count announced with its item.
- `ClientInventoryComponent.cpp:19` looks the merged stack up by the key of the item that was merged into it.

## 7. Plan

Done, in this order: `JobQueue` with its proofs; `SerialQueue` and the refinement;
`ExecutorContract` and `ThreadPoolExecutor`; `Timer`; `ServerInventory` with its proofs;
`JobSystem`; `ClientItems`; `ClientPrompts`; `BagDraw`; `Clocks`; `ClientViews`.

Next, if the code grows: the network and user layers once they have behaviour, above all the life of
a session from accept to close on top of `JobSystem`; discarding and timed Stops in the
composition; durability and binding of items once something sets them.

Proofs done: every safety invariant that a run checks, the action and cancel properties, the refinements of
`SerialQueue` and `ExecutorContract` by the detailed modules and of `JobStrand` and `ExecutorContract` by the composition, and
that the combined run says of each component what its own specification says. Left to TLC is liveness, which
the proof system does not reach.
