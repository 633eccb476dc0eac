SPECIFICATION Spec
CONSTANTS
  QueueSize = 1
  MaxConnects = 2
  MaxFrames = 2
  MaxStatus = 1
INVARIANTS
  TypeOK
  OneLiveReader
  OnlyCurrentReceives
  NewestKept
PROPERTIES
  ShownInOrder
  StoppedReaderEnds
  NewestShown
  FailureReported
CHECK_DEADLOCK FALSE
