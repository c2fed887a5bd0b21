\* A one-shot and a repeating entry on a timer with buckets of two units, a time
\* before the clock's epoch included; the repetition is paused, resumed, canceled
\* or given another mode.
CONSTANTS
  Entries = {e1, e2}
  Repeats = {e2}
  HandleOps = {"Cancel", "Pause", "Resume", "ChangeMode"}
  Tick = 2
  MaxTime = 2
  Delays = {3}
  Lates = {1}
  Periods = {1}
  Targets = {q}
  Queues = {q}
  Saturates = FALSE
SPECIFICATION Spec
CHECK_DEADLOCK FALSE
INVARIANTS
  TypeOK
  NoEntryLost
  LeavesDueAndOnce
  NoOversleep
  StoppedIsQuiet
