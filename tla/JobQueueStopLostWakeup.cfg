\* Two calls of Stop on a queue whose drain was refused.
CONSTANTS
  NoJob = NoJob
  Jobs = {j1, j2}
  Clients = {c1, c2}
  Workers = {w1}
  Pumpers = {}
  Stoppers = {s1, s2}
  Cancelers = {}
  Capacity = 0
  BatchLimit = 2
  PumpSizes = {}
  StopModes = {"drain", "timed"}
  Outcomes = {"Done"}
  ExecutorSaturates = TRUE
  ExecutorStops = FALSE
SPECIFICATION FairSpec
CHECK_DEADLOCK FALSE
PROPERTIES
  StopReturnsOnceDrained
