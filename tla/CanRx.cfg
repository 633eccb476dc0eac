SPECIFICATION Spec
CONSTANTS
  Ultrasonic = Ultrasonic
  AutoParking = AutoParking
  Other = Other
  Commands <- TwoCommands
  Others <- OtherFrames
  FifoSize = 3
  Words = 2
  Repeats = TRUE
  Paced = FALSE
  MaxSent = 5
INVARIANTS
  TypeOK
  ReadsStored
  ReadyIsUnread
  NeverStuck
PROPERTIES
  OnlyNewer
  TornOnlyIfOvertaken
  ReadsMailbox
CHECK_DEADLOCK FALSE
