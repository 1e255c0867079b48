SPECIFICATION Spec
CONSTANTS
  Peers = {1, 2}
  MaxFrames <- FramesOfPeer
  MaxStarts = 2
  MaxTicks = 2
CHECK_DEADLOCK FALSE
INVARIANTS
  TypeOK
  ActivePeersKept
  ResultsInOrder
  CleanStop
PROPERTIES
  PeerReleased
