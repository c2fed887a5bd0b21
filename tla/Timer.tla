-------------------------------- MODULE Timer --------------------------------
(***************************************************************************)
(* The timer of psh::lib::job (timer.h) with the entries it owns and the   *)
(* handles that control them (job.h). A watcher thread sleeps until the    *)
(* bucket with the smallest key is due, takes the whole bucket and hands   *)
(* each entry's callback to its target, an executor or a JobQueue.         *)
(*                                                                         *)
(* Time is counted in units, Tick units to a bucket. Steps are one         *)
(* critical section of mtx_, one notification, one access to an atomic     *)
(* field, one reading of the clock or one call to a target. Start and Stop *)
(* are called by one thread, the timer's owner: watcher_ has no lock.      *)
(***************************************************************************)
EXTENDS Integers, Sequences, FiniteSets, SequencesExt, FiniteSetsExt

CONSTANTS
  Entries,      \* one per call of Schedule*, which is a thread of its own
  Repeats,      \* those scheduled by ScheduleRepeat; the others fire once
  Tick,         \* tickResolution_
  MaxTime,      \* bound: the clock stops there
  Delays,       \* arguments of ScheduleAfter, ScheduleAt(Now() + d)
  Lates,        \* ScheduleAt(Now() - d): times in the past
  Periods,      \* arguments of ScheduleRepeat and ChangePeriod
  HandleOps,    \* the operations of handles that are used
  Targets,      \* the executors and queues that callbacks are handed to
  Queues,       \* those of them that are JobQueues
  Saturates     \* may an open target refuse a callback?

Spans == {0} \cup Delays \cup Lates \cup Periods

ASSUME TimeAssumption ==
  /\ Tick \in Nat \ {0}
  /\ MaxTime \in Nat
  /\ Delays \subseteq Nat
  /\ Lates \subseteq Nat
  /\ Periods \subseteq Nat \ {0}
  /\ \E n \in Spans : \A m \in Spans : n >= m    \* 64-bit numbers have a largest

ASSUME UseAssumption ==
  /\ IsFiniteSet(Entries)
  /\ Repeats \subseteq Entries
  /\ HandleOps \subseteq {"Cancel", "Pause", "Resume", "ChangePeriod", "ChangeMode"}

ASSUME TargetAssumption ==
  Queues \subseteq Targets /\ Targets # {} /\ Saturates \in BOOLEAN

Modes == {"FixedRate", "FixedDelay"}

VARIABLES
  now,         \* what Now() returns
  open,        \* the targets that exist and take callbacks
  \* the timer
  stopping,    \* stopping_
  buckets,     \* buckets_, a missing key being an empty list
  occupied,    \* occupied_
  \* the entries
  plan,        \* Entry::ScheduledAt, Period, PeriodNs, Mode and Dispatch
  jobState,    \* Entry::State
  canceled,    \* the entries whose Canceled flag is set
  paused,      \* the entries whose Paused flag is set
  callPc,      \* the call of Schedule* that made the entry
  \* the threads
  watcherPc, due, fired, pos,   \* due is nextBucket; fired[pos] is `entry'
  ownerPc,
  \* history
  handed       \* the entries whose callback a target has accepted

timerVars   == <<stopping, buckets, occupied>>
entryVars   == <<plan, jobState, canceled, paused>>
watcherVars == <<watcherPc, due, fired, pos>>

vars == <<now, open, timerVars, entryVars, callPc, watcherVars, ownerPc, handed>>

-----------------------------------------------------------------------------
(* Buckets. Keys are 64-bit and unsigned: the bucket of a time before the    *)
(* clock's epoch gets a key above that of every later time, KeySpace         *)
(* standing for 2^64.                                                        *)

Horizon  == MaxTime + Max(Spans)
KeySpace == 2 * (Horizon + Tick)
Keys     == 0 .. KeySpace - 1

\* Floor division, cast to unsigned.
BucketOf(t) == (t \div Tick) % KeySpace

\* The key cast back to signed, times the tick.
BucketTime(b) == (IF b < KeySpace \div 2 THEN b ELSE b - KeySpace) * Tick

\* Slip: the new key is compared after it went into occupied_.
NewMinInserted(b) == \A k \in occupied \cup {b} : b < k

\* Slip: the first entry of an empty timer brings nothing forward.
NewMinOfMany(b) == occupied # {} /\ \A k \in occupied : b < k

\* What Insert returns: the watcher must not sleep as long as it meant to.
NewMin(b) == \A k \in occupied : b < k

\* Slip: the bucket is replaced where it should grow.
FileAlone(list, e) == <<e>>

\* push_back
File(list, e) == Append(list, e)

Insert(e, t) ==
  /\ buckets' = [buckets EXCEPT ![BucketOf(t)] = File(@, e)]
  /\ occupied' = occupied \cup {BucketOf(t)}

\* cv_ wakes the watcher, the only thread that waits on it.
Wakes(pc) ==
  CASE pc = "asleep" -> "peek"
    [] pc = "dozing" -> "until"
    [] OTHER -> pc

-----------------------------------------------------------------------------
(* Schedule*. "compute" reads the clock and builds the entry, "insert" files  *)
(* it under mtx_, "notify" follows if the smallest key has changed. A null    *)
(* callback or a period that is not positive is refused before anything.      *)

ScheduleAt(e) ==
  /\ callPc[e] = "new" /\ e \notin Repeats
  /\ \E t \in {now + d : d \in Delays} \cup {now - d : d \in Lates}, g \in Targets :
        plan' = [plan EXCEPT ![e] = [at |-> t, period |-> 0, mode |-> "FixedDelay",
                                     target |-> g]]
  /\ callPc' = [callPc EXCEPT ![e] = "insert"]
  /\ UNCHANGED <<now, open, timerVars, jobState, canceled, paused, watcherVars,
                 ownerPc, handed>>

ScheduleRepeat(e) ==
  /\ callPc[e] = "new" /\ e \in Repeats
  /\ \E p \in Periods, m \in Modes, g \in Targets, executeNow \in BOOLEAN :
        plan' = [plan EXCEPT ![e] = [at |-> IF executeNow THEN now ELSE now + p,
                                     period |-> p, mode |-> m, target |-> g]]
  /\ callPc' = [callPc EXCEPT ![e] = "insert"]
  /\ UNCHANGED <<now, open, timerVars, jobState, canceled, paused, watcherVars,
                 ownerPc, handed>>

\* Slip: stopping_ is read before the lock is taken, so that it may be stale.
ScheduleRefusedLate == stopping /\ ownerPc = "new"

\* A timer that was not started, or that stops, takes no entry.
ScheduleRefused == stopping

ScheduleInsert(e) ==
  /\ callPc[e] = "insert"
  /\ IF ScheduleRefused
     THEN /\ callPc' = [callPc EXCEPT ![e] = "refused"]
          /\ UNCHANGED <<buckets, occupied>>
     ELSE /\ Insert(e, plan[e].at)
          /\ callPc' = [callPc EXCEPT ![e] =
                          IF NewMin(BucketOf(plan[e].at)) THEN "notify" ELSE "done"]
  /\ UNCHANGED <<now, open, stopping, entryVars, watcherVars, ownerPc, handed>>

ScheduleNotify(e) ==
  /\ callPc[e] = "notify"
  /\ watcherPc' = Wakes(watcherPc)
  /\ callPc' = [callPc EXCEPT ![e] = "done"]
  /\ UNCHANGED <<now, open, timerVars, entryVars, due, fired, pos, ownerPc, handed>>

-----------------------------------------------------------------------------
(* Handles: JobHandle::Cancel, and what RepeatHandle adds. A handle does      *)
(* nothing once the timer has given up the entry, which it does with one-shot *)
(* entries when the whole bucket has been seen to. What Cancel answers is     *)
(* modelled in JobQueue; testing Canceled and storing a field make one step,  *)
(* since no thread can tell such a store from one that came before a cancel.  *)

Filed(e) == \E k \in occupied : e \in ToSet(buckets[k])

Alive(e) == callPc[e] = "done" /\ (Filed(e) \/ e \in ToSet(fired))

Cancel(e) ==
  /\ "Cancel" \in HandleOps
  /\ Alive(e)
  /\ canceled' = canceled \cup {e}
  /\ UNCHANGED <<now, open, timerVars, plan, jobState, paused, callPc,
                 watcherVars, ownerPc, handed>>

Pause(e) ==
  /\ "Pause" \in HandleOps
  /\ Alive(e) /\ e \in Repeats /\ e \notin canceled
  /\ paused' = paused \cup {e}
  /\ UNCHANGED <<now, open, timerVars, plan, jobState, canceled, callPc,
                 watcherVars, ownerPc, handed>>

Resume(e) ==
  /\ "Resume" \in HandleOps
  /\ Alive(e) /\ e \in Repeats /\ e \notin canceled
  /\ paused' = paused \ {e}
  /\ UNCHANGED <<now, open, timerVars, plan, jobState, canceled, callPc,
                 watcherVars, ownerPc, handed>>

\* Unlike ScheduleRepeat it takes a period of 0.
ChangePeriod(e) ==
  /\ "ChangePeriod" \in HandleOps
  /\ Alive(e) /\ e \in Repeats /\ e \notin canceled
  /\ \E p \in Periods \cup {0} : plan' = [plan EXCEPT ![e].period = p]
  /\ UNCHANGED <<now, open, timerVars, jobState, canceled, paused, callPc,
                 watcherVars, ownerPc, handed>>

ChangeMode(e) ==
  /\ "ChangeMode" \in HandleOps
  /\ Alive(e) /\ e \in Repeats /\ e \notin canceled
  /\ \E m \in Modes : plan' = [plan EXCEPT ![e].mode = m]
  /\ UNCHANGED <<now, open, timerVars, jobState, canceled, paused, callPc,
                 watcherVars, ownerPc, handed>>

-----------------------------------------------------------------------------
(* WatcherLoop. Control is at "peek" at the top of the loop, at "look" when   *)
(* the clock is compared, at "until" and "dozing" in wait_until, at "take"    *)
(* before the bucket is spliced.                                             *)

WatcherPeek ==
  /\ watcherPc = "peek"
  /\ \/ /\ stopping
        /\ watcherPc' = "exited"
        /\ UNCHANGED due
     \/ /\ ~stopping
        /\ occupied # {}
        /\ due' = Min(occupied)
        /\ watcherPc' = "look"
     \/ /\ ~stopping
        /\ occupied = {}
        /\ watcherPc' = "asleep"
        /\ UNCHANGED due
  /\ UNCHANGED <<now, open, timerVars, entryVars, callPc, fired, pos, ownerPc, handed>>

WatcherLook ==
  /\ watcherPc = "look"
  /\ watcherPc' = IF now < BucketTime(due) THEN "until" ELSE "take"
  /\ UNCHANGED <<now, open, timerVars, entryVars, callPc, due, fired, pos, ownerPc,
                 handed>>

\* Slip: whatever ended the wait, the bucket is taken.
AfterWaitTake == "take"

\* The wait over, everything is looked at again (continue).
AfterWait == "peek"

WatcherUntil ==
  /\ watcherPc = "until"
  /\ watcherPc' = IF stopping \/ now >= BucketTime(due) \/ (\E k \in occupied : k < due)
                  THEN AfterWait ELSE "dozing"
  /\ UNCHANGED <<now, open, timerVars, entryVars, callPc, due, fired, pos, ownerPc,
                 handed>>

\* The deadline of wait_until.
WatcherDeadline ==
  /\ watcherPc = "dozing"
  /\ now >= BucketTime(due)
  /\ watcherPc' = AfterWait
  /\ UNCHANGED <<now, open, timerVars, entryVars, callPc, due, fired, pos, ownerPc,
                 handed>>

\* A condition variable may wake without being notified.
SpuriousWakeup ==
  /\ watcherPc \in {"asleep", "dozing"}
  /\ watcherPc' = Wakes(watcherPc)
  /\ UNCHANGED <<now, open, timerVars, entryVars, callPc, due, fired, pos, ownerPc,
                 handed>>

\* Slip: the key is left in occupied_.
TakenKeyStays == UNCHANGED occupied

\* The key goes with its list.
TakenKeyGoes == occupied' = occupied \ {due}

WatcherTake ==
  /\ watcherPc = "take"
  /\ fired' = buckets[due]
  /\ pos' = 1
  /\ buckets' = [buckets EXCEPT ![due] = <<>>]
  /\ TakenKeyGoes
  /\ watcherPc' = IF fired' = <<>> THEN "peek" ELSE "check"
  /\ UNCHANGED <<now, open, stopping, entryVars, callPc, due, ownerPc, handed>>

Current == fired[pos]

\* On to the next entry; after the last one the list `fired' is destroyed.
NextEntry ==
  IF pos < Len(fired)
  THEN pos' = pos + 1 /\ watcherPc' = "check" /\ UNCHANGED fired
  ELSE pos' = 0 /\ watcherPc' = "peek" /\ fired' = <<>>

\* Slip: the handle's Cancel is looked for in State.
SkipsByState(e) == jobState[e] = "Canceled"

\* The lazy cancel.
Skips(e) == e \in canceled

WatcherCheck ==
  /\ watcherPc = "check"
  /\ IF Skips(Current)
     THEN /\ jobState' = [jobState EXCEPT ![Current] = "Canceled"]
          /\ NextEntry
     ELSE /\ watcherPc' = "pause"
          /\ UNCHANGED <<jobState, fired, pos>>
  /\ UNCHANGED <<now, open, timerVars, plan, canceled, paused, callPc, due, ownerPc,
                 handed>>

\* A paused entry skips the dispatch, not the next round.
WatcherPause ==
  /\ watcherPc = "pause"
  /\ watcherPc' = IF Current \in paused THEN "rearm" ELSE "dispatch"
  /\ UNCHANGED <<now, open, timerVars, entryVars, callPc, due, fired, pos, ownerPc,
                 handed>>

\* The target takes the callback. A JobQueue answers with a handle, and Dispatch
\* with whether that is valid: it is not if the job has already been run and
\* its entry destroyed. A target that has gone or refuses answers false.
WatcherDispatch ==
  /\ watcherPc = "dispatch"
  /\ LET e == Current
         g == plan[e].target IN
     \/ /\ g \in open
        /\ handed' = handed \cup {e}
        /\ jobState' = [jobState EXCEPT ![e] = "Queued"]
        /\ watcherPc' = "rearm"
        /\ UNCHANGED <<canceled, fired, pos>>
     \/ /\ \/ /\ g \notin open \/ Saturates
              /\ UNCHANGED handed
           \/ /\ g \in open \cap Queues
              /\ handed' = handed \cup {e}
        /\ jobState' = [jobState EXCEPT ![e] = "Canceled"]
        /\ canceled' = canceled \cup {e}
        /\ NextEntry
  /\ UNCHANGED <<now, open, timerVars, plan, paused, callPc, due, ownerPc>>

\* ComputeNext: FixedDelay counts from now, FixedRate from the last due time and
\* skips what it missed.
ComputeNext(e) ==
  LET next == plan[e].at + plan[e].period IN
  IF plan[e].mode = "FixedDelay" THEN now + plan[e].period
  ELSE IF next <= now THEN now ELSE next

\* Slip: every entry has a period.
RearmsEvery(e) == e \notin canceled

\* Period is set by ScheduleRepeat alone.
Rearms(e) == e \in Repeats /\ e \notin canceled

WatcherRearm ==
  /\ watcherPc = "rearm"
  /\ IF Rearms(Current)
     THEN /\ plan' = [plan EXCEPT ![Current].at = ComputeNext(Current)]
          /\ watcherPc' = "insert"
          /\ UNCHANGED <<fired, pos>>
     ELSE /\ NextEntry
          /\ UNCHANGED plan
  /\ UNCHANGED <<now, open, timerVars, jobState, canceled, paused, callPc, due,
                 ownerPc, handed>>

\* Filed again, whether or not the timer stops. The notification that follows
\* wakes nobody: the only thread that waits on cv_ is the watcher.
WatcherInsert ==
  /\ watcherPc = "insert"
  /\ Insert(Current, plan[Current].at)
  /\ NextEntry
  /\ UNCHANGED <<now, open, stopping, entryVars, callPc, due, ownerPc, handed>>

WatcherNext ==
  \/ WatcherPeek \/ WatcherLook \/ WatcherUntil \/ WatcherDeadline
  \/ WatcherTake \/ WatcherCheck \/ WatcherPause \/ WatcherDispatch
  \/ WatcherRearm \/ WatcherInsert

-----------------------------------------------------------------------------
(* The owner. A second Start finds started_ set and a Stop that finds         *)
(* stopping_ set returns: neither changes anything.                          *)

Start ==
  /\ ownerPc = "new"
  /\ stopping' = FALSE
  /\ watcherPc' = "peek"
  /\ ownerPc' = "started"
  /\ UNCHANGED <<now, open, buckets, occupied, entryVars, callPc, due, fired, pos,
                 handed>>

StopCall ==
  /\ ownerPc = "started"
  /\ stopping' = TRUE
  /\ ownerPc' = "notify"
  /\ UNCHANGED <<now, open, buckets, occupied, entryVars, callPc, watcherVars, handed>>

\* Slip: the watcher is not told.
StopTellsNobody == UNCHANGED watcherPc

\* cv_.notify_all()
StopTells == watcherPc' = Wakes(watcherPc)

StopNotify ==
  /\ ownerPc = "notify"
  /\ StopTells
  /\ ownerPc' = "join"
  /\ UNCHANGED <<now, open, timerVars, entryVars, callPc, due, fired, pos, handed>>

\* Once the watcher has been joined, what is left in the buckets is canceled.
StopClear ==
  /\ ownerPc = "join"
  /\ watcherPc = "exited"
  /\ LET rest == {e \in Entries : Filed(e)} IN
     /\ canceled' = canceled \cup rest
     /\ jobState' = [e \in Entries |-> IF e \in rest THEN "Canceled" ELSE jobState[e]]
  /\ buckets' = [k \in Keys |-> <<>>]
  /\ occupied' = {}
  /\ ownerPc' = "stopped"
  /\ UNCHANGED <<now, open, stopping, plan, paused, callPc, watcherVars, handed>>

-----------------------------------------------------------------------------
(* The environment *)

ClockTick ==
  /\ now < MaxTime
  /\ now' = now + 1
  /\ UNCHANGED <<open, timerVars, entryVars, callPc, watcherVars, ownerPc, handed>>

\* A target stops or is destroyed.
CloseTarget(g) ==
  /\ g \in open
  /\ open' = open \ {g}
  /\ UNCHANGED <<now, timerVars, entryVars, callPc, watcherVars, ownerPc, handed>>

-----------------------------------------------------------------------------
NoPlan == [at |-> 0, period |-> 0, mode |-> "FixedDelay",
           target |-> CHOOSE g \in Targets : TRUE]

Init ==
  /\ now = 0
  /\ open = Targets
  /\ stopping = TRUE
  /\ buckets = [k \in Keys |-> <<>>]
  /\ occupied = {}
  /\ plan = [e \in Entries |-> NoPlan]
  /\ jobState = [e \in Entries |-> "WaitingTimer"]
  /\ canceled = {}
  /\ paused = {}
  /\ callPc = [e \in Entries |-> "new"]
  /\ watcherPc = "none"
  /\ due = 0
  /\ fired = <<>>
  /\ pos = 0
  /\ ownerPc = "new"
  /\ handed = {}

ScheduleNext(e) ==
  ScheduleAt(e) \/ ScheduleRepeat(e) \/ ScheduleInsert(e) \/ ScheduleNotify(e)

HandleNext(e) ==
  Cancel(e) \/ Pause(e) \/ Resume(e) \/ ChangePeriod(e) \/ ChangeMode(e)

OwnerNext == Start \/ StopCall \/ StopNotify \/ StopClear

Next ==
  \/ \E e \in Entries : ScheduleNext(e) \/ HandleNext(e)
  \/ WatcherNext
  \/ SpuriousWakeup
  \/ OwnerNext
  \/ ClockTick
  \/ \E g \in Targets : CloseTarget(g)

Spec == Init /\ [][Next]_vars

(* Time passes, the watcher and whoever has begun a call get to go on. Nobody *)
(* is obliged to schedule, cancel, pause, start or stop.                     *)
Fairness ==
  /\ WF_vars(ClockTick)
  /\ WF_vars(WatcherNext)
  /\ \A e \in Entries : WF_vars(ScheduleInsert(e) \/ ScheduleNotify(e))
  /\ WF_vars(StopNotify \/ StopClear)

FairSpec == Spec /\ Fairness

-----------------------------------------------------------------------------
(* Type invariant *)

WatcherPcs == {"none", "peek", "asleep", "look", "until", "dozing", "take",
               "check", "pause", "dispatch", "rearm", "insert", "exited"}

Plans == [at : Int, period : Nat, mode : Modes, target : Targets]

\* Every variable has the type of what it stands for, and occupied_ holds
\* exactly the keys of the buckets that are not empty.
TypeOK ==
  /\ now \in 0 .. MaxTime
  /\ open \subseteq Targets
  /\ stopping \in BOOLEAN
  /\ buckets \in [Keys -> Seq(Entries)]
  /\ occupied = {k \in Keys : buckets[k] # <<>>}
  /\ plan \in [Entries -> Plans]
  /\ jobState \in [Entries -> {"WaitingTimer", "Queued", "Canceled"}]
  /\ canceled \subseteq Entries
  /\ paused \subseteq Entries
  /\ callPc \in [Entries -> {"new", "insert", "notify", "done", "refused"}]
  /\ watcherPc \in WatcherPcs
  /\ due \in Keys
  /\ fired \in Seq(Entries)
  /\ pos \in 0 .. Len(fired)
  /\ ownerPc \in {"new", "started", "notify", "join", "stopped"}
  /\ handed \subseteq Entries

-----------------------------------------------------------------------------
(* Safety *)

\* The places of e: in the buckets, and in what the watcher has yet to see to.
Filings(e) == {f \in Keys \X (1 .. Cardinality(Entries)) :
                 /\ f[1] \in occupied /\ f[2] <= Len(buckets[f[1]])
                 /\ buckets[f[1]][f[2]] = e}
Firings(e) == {i \in DOMAIN fired : i >= pos /\ fired[i] = e}

Accepted(e) == callPc[e] \in {"notify", "done"}

\* An entry is in one place at most, and if in a bucket in the one its due time
\* belongs to; a repeating entry that nobody has canceled, paused or not, is
\* somewhere as long as the timer is not stopped, and so is a one-shot entry
\* until it is handed over. The bucket and the list `fired' change hands
\* without the lock in between.
NoEntryLost ==
  \A e \in Entries :
    /\ Cardinality(Filings(e)) + Cardinality(Firings(e)) <= 1
    /\ \A f \in Filings(e) : f[1] = BucketOf(plan[e].at)
    /\ Accepted(e) /\ e \notin canceled /\ ownerPc # "stopped"
         /\ (e \in Repeats \/ e \notin handed)
       => Filings(e) # {} \/ Firings(e) # {}

\* No callback leaves early by a tick or more, whatever was inserted while the
\* watcher slept ("precision = tickResolution", design document of the timer).
NotEarly == watcherPc = "dispatch" => plan[Current].at - now < Tick

\* A one-shot callback leaves at most once ("0 or 1 execution", same document).
OneShotOnce ==
  watcherPc = "dispatch" /\ Current \notin Repeats => Current \notin handed

\* Both: what the watcher hands over is due, and has not been handed over.
LeavesDueAndOnce == NotEarly /\ OneShotOnce

\* While the watcher sleeps too long, be it for an empty timer, for a bucket
\* that is no longer the next, or through Stop, somebody is about to notify it.
NoOversleep ==
  /\ watcherPc = "asleep" /\ occupied # {}
       => ownerPc = "notify" \/ \E e \in Entries : callPc[e] = "notify"
  /\ watcherPc = "dozing" /\ (\E k \in occupied : k < due)
       => ownerPc = "notify" \/ \E e \in Entries : callPc[e] = "notify"
  /\ watcherPc \in {"asleep", "dozing"} /\ stopping => ownerPc = "notify"

\* When Stop has returned the watcher is gone and no entry is left, not even one
\* that a racing Schedule or the watcher itself filed; every entry that was
\* accepted has been canceled, or was a one-shot that was handed over.
StoppedIsQuiet ==
  ownerPc = "stopped" =>
    /\ watcherPc = "exited"
    /\ occupied = {}
    /\ \A e \in Entries : Accepted(e) =>
         e \in canceled \/ (e \notin Repeats /\ e \in handed)

\* An entry that is canceled while it waits in a bucket is never handed over;
\* only a cancel that races with the loop over the bucket may come too late.
CancelSticks ==
  \A e \in Entries :
    [](e \in canceled /\ Filed(e) =>
         [](~(watcherPc = "dispatch" /\ Current = e)))

-----------------------------------------------------------------------------
(* Liveness, under FairSpec *)

Falls(e) == Filed(e) /\ BucketTime(BucketOf(plan[e].at)) <= MaxTime

\* An entry that falls due is handed over, unless it is canceled or paused or
\* the timer stops: no other entry, however short its period, keeps the watcher
\* from it.
DueEntryFires ==
  \A e \in Entries :
    Falls(e) ~> e \in handed \cup canceled \cup paused \/ stopping

\* Stop returns, whatever the watcher was doing or waiting for.
StopReturns == ownerPc = "notify" ~> ownerPc = "stopped"

-----------------------------------------------------------------------------
(* Statements of comments and documents that the code does not keep; each is  *)
(* checked by a run that expects a violation.                                *)

\* A repeating entry goes on "every 100ms" (README of lib/include/job, 2.3)
\* until its handle cancels it, the timer stops or its target is gone.
RepeatGoesOn ==
  [][WatcherNext => \A e \in canceled' \ canceled : plan[e].target \notin open]_vars
=============================================================================
