SPECIFICATION Spec
CONSTANTS
  FieldCount = 3
  MaxRetry = 2
  UpdatesPerCopy = 1
  MaxVersion = 1
  FifoSize = 2
  SharedElements <- NoneShared
  ForeignTraffic = TRUE
  Foreign = Foreign
  Empty = Empty
INVARIANTS
  TypeOK
  SnapshotIsAtomic
PROPERTIES
  SendTerminates
  BoardReachesBus
