\* A bounded pool of two workers under two posting threads and every kind of Stop.
CONSTANTS
  NoTask = NoTask
  Tasks = {t1, t2, t3}
  Posters = {p1, p2}
  Workers = {w1, w2}
  Capacity = 2
  StopModes = {"drain", "timed", "clear"}
SPECIFICATION FairSpec
CHECK_DEADLOCK FALSE
INVARIANTS
  TypeOK
  NoSleeperIsNeeded
  StoppedMeansJoined
PROPERTIES
  IsExecutor
  AcceptedTaskEnds
  StopReturns
