SPECIFICATION Spec
CONSTANTS
  s1 = s1
  s2 = s2
  Sockets <- mc_Sockets
  MaxFrames = 2
SYMMETRY Symmetry
CHECK_DEADLOCK FALSE
INVARIANTS
  SessionHasStream
