--------------------------------- MODULE Clocks ---------------------------------
(***************************************************************************)
(* The clocks of server/lib (clock/): ManualClock, which is told the time, *)
(* SteadyTickClock, which is told when to look, and SteadyClock, whose own *)
(* thread looks once per interval between Start and Stop. Each keeps the   *)
(* time since its construction and the time since the last look.           *)
(*                                                                         *)
(* One thread owns a clock: Start and Stop share thread_ without a lock.   *)
(***************************************************************************)
EXTENDS Integers

CONSTANTS
  Width,       \* of the unsigned numbers; 2^64
  MaxTime,     \* bound on the steady clock of the machine
  MaxStarts    \* bound on the calls of Start that make a thread

ASSUME ClocksAssumption ==
  /\ Width \in Nat \ {0} /\ MaxTime \in 0 .. Width - 1
  /\ MaxStarts \in Nat

ClockKinds == {"manual", "tick", "steady"}

VARIABLES
  clock,       \* which class it is
  now,         \* steady_clock::now() - start_
  currentTime, deltaTime,
  lastTick,    \* lastTick_, and last_tick of the thread
  ticking,     \* running_
  ticker,      \* where the thread is; "none" if thread_ is not joinable
  looked,      \* the thread's local now
  joining,     \* the owner waits in thread_.join()
  starts,      \* history: how many threads were made
  summed       \* history: the sum of the deltas

threadVars == <<ticking, ticker, looked, joining, starts>>
clockVars  == <<clock, now, currentTime, deltaTime, lastTick, threadVars, summed>>

Publish(time, delta) ==
  /\ currentTime' = time
  /\ deltaTime' = delta
  /\ summed' = (summed + delta) % Width

\* Slip: the delta is taken from the start.
LastIsStart(time) == lastTick

LastIs(time) == time

TimePasses ==
  /\ now < MaxTime
  /\ now' = now + 1
  /\ UNCHANGED <<clock, currentTime, deltaTime, lastTick, threadVars, summed>>

-----------------------------------------------------------------------------
(* ManualClock and SteadyTickClock                                           *)

\* A time before the current one makes the unsigned difference wrap around.
SetCurrentTime(time) ==
  /\ clock = "manual"
  /\ Publish(time, (time - currentTime) % Width)
  /\ UNCHANGED <<clock, now, lastTick, threadVars>>

AdvanceBy(time) ==
  /\ clock = "manual"
  /\ Publish((currentTime + time) % Width, time)
  /\ UNCHANGED <<clock, now, lastTick, threadVars>>

Tick ==
  /\ clock = "tick"
  /\ Publish(now, now - lastTick)
  /\ lastTick' = LastIs(now)
  /\ UNCHANGED <<clock, now, threadVars>>

-----------------------------------------------------------------------------
(* SteadyClock                                                               *)

\* The compare-exchange fails while the clock runs. The new thread begins with
\* start_ as its last tick, whenever it is made.
StartClock ==
  /\ clock = "steady" /\ ~joining /\ ~ticking
  /\ starts < MaxStarts
  /\ ticking' = TRUE
  /\ ticker' = "test" /\ lastTick' = 0
  /\ starts' = starts + 1
  /\ UNCHANGED <<clock, now, currentTime, deltaTime, looked, joining, summed>>

StopClock ==
  /\ clock = "steady" /\ ~joining
  /\ ticking' = FALSE
  /\ joining' = (ticker # "none")
  /\ UNCHANGED <<clock, now, currentTime, deltaTime, lastTick, ticker, looked, starts, summed>>

ClockJoined ==
  /\ joining /\ ticker = "ended"
  /\ ticker' = "none"
  /\ joining' = FALSE
  /\ UNCHANGED <<clock, now, currentTime, deltaTime, lastTick, ticking, looked, starts, summed>>

TestRunning ==
  /\ ticker = "test"
  /\ ticker' = IF ticking THEN "asleep" ELSE "ended"
  /\ looked' = now
  /\ UNCHANGED <<clock, now, currentTime, deltaTime, lastTick, ticking, joining, starts, summed>>

\* After at least the interval; Stop does not keep the thread from a last look.
StoreCurrent ==
  /\ ticker = "asleep"
  /\ now > looked
  /\ looked' = now
  /\ currentTime' = now
  /\ ticker' = "half"
  /\ UNCHANGED <<clock, now, deltaTime, lastTick, ticking, joining, starts, summed>>

StoreDelta ==
  /\ ticker = "half"
  /\ Publish(currentTime, looked - lastTick)
  /\ lastTick' = LastIs(looked)
  /\ ticker' = "test"
  /\ UNCHANGED <<clock, now, ticking, looked, joining, starts>>

-----------------------------------------------------------------------------
ClocksInit ==
  /\ clock \in ClockKinds
  /\ now = 0
  /\ currentTime = 0 /\ deltaTime = 0 /\ lastTick = 0
  /\ ticking = FALSE /\ ticker = "none" /\ looked = 0 /\ joining = FALSE
  /\ starts = 0 /\ summed = 0

ClocksNext ==
  \/ TimePasses
  \/ \E time \in 0 .. Width - 1 : SetCurrentTime(time) \/ AdvanceBy(time)
  \/ Tick
  \/ StartClock \/ StopClock \/ ClockJoined
  \/ TestRunning \/ StoreCurrent \/ StoreDelta

ClocksSpec == ClocksInit /\ [][ClocksNext]_clockVars

-----------------------------------------------------------------------------
ClocksTypeOK ==
  /\ clock \in ClockKinds
  /\ now \in 0 .. MaxTime
  /\ currentTime \in 0 .. Width - 1 /\ deltaTime \in 0 .. Width - 1
  /\ lastTick \in 0 .. MaxTime /\ looked \in 0 .. MaxTime
  /\ ticking \in BOOLEAN /\ joining \in BOOLEAN
  /\ ticker \in {"none", "test", "asleep", "half", "ended"}
  /\ starts \in 0 .. MaxStarts
  /\ summed \in 0 .. Width - 1

\* Who adds up the deltas knows the time: no look is counted twice or left out,
\* not by a manual clock that is set back either, in unsigned arithmetic. Except
\* between the two stores of the thread, and except for a steady clock that was
\* stopped and started again, whose first delta reaches back to the
\* construction. And a stopped clock has no thread that could still move it.
DeltasAddUp ==
  /\ ticker # "half" /\ starts <= 1 => summed = currentTime
  /\ ~ticking /\ ~joining => ticker = "none"
=============================================================================
