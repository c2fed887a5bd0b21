\* One repeating entry aimed at a JobQueue that stays open.
CONSTANTS
  Entries = {e1}
  Repeats = {e1}
  HandleOps = {}
  Tick = 1
  MaxTime = 1
  Delays = {}
  Lates = {}
  Periods = {1}
  Targets = {q}
  Queues = {q}
  Saturates = FALSE
SPECIFICATION Spec
CHECK_DEADLOCK FALSE
PROPERTY RepeatGoesOn
