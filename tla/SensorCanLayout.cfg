SPECIFICATION Spec
CONSTANTS
  FieldCount = 2
  MaxRetry = 2
  UpdatesPerCopy = 1
  MaxVersion = 1
  FifoSize <- RealFifoSize
  SharedElements <- RealShared
  ForeignTraffic = TRUE
  Foreign = Foreign
  Empty = Empty
INVARIANTS
  RequestedIsSent
