\* Two callers of Post, two workers, timed and unbounded Stops, and an executor
\* that may refuse closures, stop, and discard what it holds.
CONSTANTS
  NoJob = NoJob
  Jobs = {j1, j2, j3}
  Clients = {c1, c2}
  Workers = {w1, w2}
  Pumpers = {}
  Stoppers = {s1, s2}
  Cancelers = {}
  Capacity = 2
  BatchLimit = 2
  PumpSizes = {}
  StopModes = {"drain", "timed"}
  Outcomes = {"Done"}
  ExecutorSaturates = TRUE
  ExecutorStops = TRUE
SPECIFICATION Spec
CHECK_DEADLOCK FALSE
SYMMETRY Symmetry
INVARIANTS
  TypeOK
  SerialExecution
  RunningIsOneDrain
  NoLostWork
  DrainedStaysDrained
  InvalidHandleNeverRuns
