CONSTANTS
  Status = Status
  Can = Can
  Ultra = Ultra
  Idle = Idle
  Timer = Timer
  End = End
  AppTasks <- TheAppTasks
  CreateOrder <- TheOrder
  Priority <- ThePriority
  Delay <- TheDelay
  TickRange = 5
  MaxPended = 1
  HeapSizes <- TheHeaps
  StackBytes = 1024
  TcbBytes = 112
  QueueBytes = 160
  Watched = Status
SPECIFICATION WaitSpec
INVARIANTS
  TypeOK
  EveryTaskListed
  HighestRuns
  MaskIsPrivate
  WaitIsBounded
PROPERTIES
  DelaysExactly
  EveryTaskRuns
