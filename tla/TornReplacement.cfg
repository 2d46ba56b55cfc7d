SPECIFICATION Spec
CONSTANTS
  Cameras = {k1}
  Readers = {r1}
  MaxWrites = 3
INVARIANT ReplacementIsAtomic
