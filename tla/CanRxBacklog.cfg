SPECIFICATION Spec
CONSTANTS
  Ultrasonic = Ultrasonic
  AutoParking = AutoParking
  Other = Other
  Commands <- OneCommand
  Others <- OtherFrames
  FifoSize = 3
  Words = 2
  Repeats = TRUE
  Paced = FALSE
  MaxSent = 4
INVARIANTS
  NothingLeftBehind
CHECK_DEADLOCK FALSE
