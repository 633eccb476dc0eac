SPECIFICATION Spec
CONSTANTS
  SensorCount = 2
  EchoTimeout = 3
  SensorSlot = 4
  StmRange = 9
  PollGap = 2
  NoEchoConfirm = 1
  NoEchoLimit = 1
  CaptureMhz = 100
  Captures <- Boundaries
INVARIANTS
  TypeOK
  DecidedInTime
  ElapsedExact
  CaptureIsFresh
PROPERTIES
  SlotSpacing
  NoEarlyMiss
