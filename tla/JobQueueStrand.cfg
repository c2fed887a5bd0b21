\* Every way to stop the queue, with cancels and an executor that refuses.
CONSTANTS
  NoJob = NoJob
  Jobs = {j1, j2, j3}
  Clients = {c1}
  Workers = {w1, w2}
  Pumpers = {}
  Stoppers = {s1}
  Cancelers = {x1}
  Capacity = 0
  BatchLimit = 2
  PumpSizes = {}
  StopModes = {"timed", "clear"}
  Outcomes = {"Done"}
  ExecutorSaturates = TRUE
  ExecutorStops = FALSE
SPECIFICATION Spec
CHECK_DEADLOCK FALSE
SYMMETRY Symmetry
PROPERTIES
  IsStrand
