\* Pump and Flush in place of the workers, with two threads that cancel.
CONSTANTS
  NoJob = NoJob
  Jobs = {j1, j2}
  Clients = {c1}
  Workers = {}
  Pumpers = {p1}
  Stoppers = {s1}
  Cancelers = {x1, x2}
  Capacity = 1
  BatchLimit = 1
  PumpSizes = {1, 3}
  StopModes = {"timed"}
  Outcomes = {"Done"}
  ExecutorSaturates = FALSE
  ExecutorStops = FALSE
SPECIFICATION Spec
CHECK_DEADLOCK FALSE
INVARIANTS
  Conservation
  OneCancelWins
PROPERTIES
  CancelInQueueSticks
