SPECIFICATION Spec
CONSTANTS
  Ultrasonic = Ultrasonic
  AutoParking = AutoParking
  Other = Other
  Commands <- OneCommand
  Others <- OtherFrames
  FifoSize = 2
  Words = 2
  Repeats = FALSE
  Paced = TRUE
  MaxSent = 3
INVARIANTS
  RecvIsWhole
CHECK_DEADLOCK FALSE
