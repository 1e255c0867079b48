SPECIFICATION HSpec
CONSTANTS
  t1 = t1
  t2 = t2
  person = person
  dog = dog
  TrackIds <- mc_TrackIds
  Labels <- mc_Labels
  Confidences <- mc_Confidences
  MinFrames = 2
  MinDurationMs = 2
  LeaveGraceMs = 3
  MinConfidence = 35
  StartMs = 10
  ClockSteps <- mc_ClockSteps
  MaxFrames = 5
SYMMETRY Symmetry
CHECK_DEADLOCK FALSE
INVARIANTS
  TypeOK
  CountMatches
  NoStaleTrack
  EventsMatchReference
PROPERTIES
  SceneSpec
