\* Stop(true, 0) while a closure is still in the deque.
CONSTANTS
  NoTask = NoTask
  Tasks = {t1}
  Posters = {p1}
  Workers = {w1}
  Capacity = 0
  StopModes = {"drain"}
SPECIFICATION FairSpec
CHECK_DEADLOCK FALSE
PROPERTIES
  DrainReturns
