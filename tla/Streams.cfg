SPECIFICATION HFairSpec
CONSTANTS
  Calls = {c1, c2}
  Sources = {s1, s2}
  None = None
  MaxOperations = 2
  PeerMayEnd = TRUE
INVARIANT PTypeOK
INVARIANT LivePeerIsEntry
INVARIANT CancelledStartHoldsNothing
PROPERTY EveryStartSettles
PROPERTY EveryStopReturns
PROPERTY ImplementsStationLock
