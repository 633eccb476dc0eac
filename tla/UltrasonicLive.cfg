SPECIFICATION Spec
CONSTANTS
  SensorCount = 2
  EchoTimeout = 2
  SensorSlot = 3
  StmRange = 6
  PollGap = 1
  NoEchoConfirm = 2
  NoEchoLimit = 3
  CaptureMhz = 100
  Captures <- NearOnly
INVARIANTS
  BoardShowsResults
PROPERTIES
  EverySensorMeasured
  GoneIsReported
  ImplementsBoard
