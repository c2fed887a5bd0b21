\* Fair threads over an executor that may refuse, stop and discard.
CONSTANTS
  NoJob = NoJob
  Jobs = {j1, j2}
  Clients = {c1, c2}
  Workers = {w1, w2}
  Pumpers = {}
  Stoppers = {s1}
  Cancelers = {}
  Capacity = 0
  BatchLimit = 1
  PumpSizes = {}
  StopModes = {"drain", "timed"}
  Outcomes = {"Done", "Failed"}
  ExecutorSaturates = TRUE
  ExecutorStops = TRUE
SPECIFICATION FairSpec
CHECK_DEADLOCK FALSE
PROPERTIES
  AcceptedJobEnds
  StopReturns
