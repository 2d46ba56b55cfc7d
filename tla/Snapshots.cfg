SPECIFICATION FairSpec
CONSTANTS
  Cameras = {k1}
  Readers = {r1}
  MaxWrites = 4
INVARIANT STypeOK
INVARIANT ReadNotOlder
INVARIANT ReturnedRevisionsAreUnique
INVARIANT EventShelfHoldsEvents
PROPERTY DurableLiveKept
PROPERTY EveryWriteSettles
