SPECIFICATION Spec
CONSTANTS
  s1 = s1
  s2 = s2
  w1 = w1
  w2 = w2
  Streams <- mc_Streams
  Workers <- mc_Workers
  Vlms <- mc_Vlms
CHECK_DEADLOCK FALSE
INVARIANTS
  OneLlm
