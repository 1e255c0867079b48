SPECIFICATION Spec
CONSTANTS
  t1 = t1
  person = person
  TrackIds <- mc_TrackIds
  Labels <- mc_Labels
  Confidences <- mc_Confidences
  MinFrames = 2
  MinDurationMs = 0
  LeaveGraceMs = 1
  MinConfidence = 35
  StartMs = 4
  ClockSteps <- mc_ClockSteps
  MaxFrames = 5
  VlmMinIntervalMs = 2
  AmbientIntervalMs = 4
CHECK_DEADLOCK FALSE
INVARIANTS
  TypeOK
  OneCallAtATime
  CallsSpaced
  DeliveredInOrder
PROPERTIES
  NeverSilent
  SessionIsAScene
