SPECIFICATION Spec
CONSTANTS
  Cores <- ThreeCores
  Timeout = 2
  StmRange = 5
  PollGap = 1
INVARIANTS
  TypeOK
  ReleasedOrTimedOut
PROPERTIES
  Core0Starts
