\* Stop(false) while a worker drains.
CONSTANTS
  NoJob = NoJob
  Jobs = {j1}
  Clients = {c1}
  Workers = {w1}
  Pumpers = {}
  Stoppers = {s1}
  Cancelers = {}
  Capacity = 0
  BatchLimit = 1
  PumpSizes = {}
  StopModes = {"clear"}
  Outcomes = {"Done"}
  ExecutorSaturates = FALSE
  ExecutorStops = FALSE
SPECIFICATION Spec
CHECK_DEADLOCK FALSE
SYMMETRY Symmetry
INVARIANTS
  QueueOnlyUnderLock
