\* Instances of the composed job system and of the sequential components.
CONSTANTS
  Queues = {"q1", "q2", "q3"}
  NoQueue = NoQueue
  Jobs = {"loop1", "loop2", "ask", "quit"}
  NoJob = NoJob
  Workers = {"w1", "w2"}
  Home <- MCHome
  Follows <- MCFollows
  Stops <- MCStops
  MainJobs = {"loop1", "loop2"}
  TimerJobs = {"ask"}
  Sessions = {"q1"}
  BatchLimit = 1
  PoolCapacity = 3
  EntityIds = {a, b, c, d}
  ContentIds = {x, y}
  Items = {"p1", "p2", "p3", "r1", "r2"}
  NoItem = NoItem
  Kind <- MCKind
  MaxStack <- MCMaxStack
  InitialCounts <- MCInitialCounts
  Shareable = {"potion", "ring"}
  EquipSlot <- MCEquipSlot
  QuickKinds = {"potion"}
  Capacities <- MCCapacities
  EquipSlots = {"RingLeft"}
  QuickSlots = {"Slot1"}
  NoSlot = NoSlot
  Skills = {"slash", "roll", "rage"}
  NoSkill = NoSkill
  Weapons = {"sword", "bow"}
  NoWeapon = NoWeapon
  Required <- MCRequired
  IdentitySkills = {"rage"}
  ActiveSlots = {"Active1", "Active2"}
  IdentitySlot = "Identity"
  Ids = {"i1", "i2", "i3"}
  NoPrompt = NoPrompt
  MaxNesting = 2
  Views = {"bag", "doll1", "doll2"}
  Forgetful = {"bag"}
  Sources = {"items1", "items2", "worn1", "worn2"}
  NoSource = NoSource
  SourcesOf <- MCSourcesOf
  OwnSource <- MCOwnSource
  WeightedItems <- MCWeightedItems
  Seeds = {1, 2, 3}
  Shuffle <- MCShuffle
  NotSaved = NotSaved
  Width = 6
  MaxTime = 4
  MaxStarts = 2
SPECIFICATION ComponentsFairSpec
CHECK_DEADLOCK FALSE
INVARIANTS
  ComponentsTypeOK
  PlaceForEveryQueue
  NoJobDiesWithItsQueue
  StoppedQueueHasFinished
  IndexesAgree
  PlacesAgree
  ViewsFollowTheirSource
  CyclesAreWhole
  DeltasAddUp
PROPERTIES
  PartsKeepTheirPromises
  StacksConserved
  PromptsLeaveInTurn
  NobodyStarves
  ShutdownEnds
