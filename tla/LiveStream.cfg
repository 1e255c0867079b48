SPECIFICATION LSpec
CONSTANTS
  s1 = s1
  Sockets <- mc_Sockets
  MaxFrames = 4
  MaxInFlight = 2
CHECK_DEADLOCK FALSE
INVARIANTS
  TypeOK
  NoGhostSession
  MetricsCountEmitted
  AnswersInOrder
  RowsAccounted
  CreditsOnTheWire
PROPERTIES
  SendingResumes
  FrameAnswered
  CallReleased
