\* Progress of the same two entries, the repeating one with a period that may be
\* changed to 0, so that the watcher finds it due for ever.
CONSTANTS
  Entries = {e1, e2}
  Repeats = {e2}
  HandleOps = {"Cancel", "ChangePeriod"}
  Tick = 1
  MaxTime = 1
  Delays = {1}
  Lates = {}
  Periods = {1}
  Targets = {q}
  Queues = {q}
  Saturates = FALSE
SPECIFICATION FairSpec
CHECK_DEADLOCK FALSE
PROPERTIES
  CancelSticks
  DueEntryFires
  StopReturns
