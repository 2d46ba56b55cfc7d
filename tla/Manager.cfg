SPECIFICATION Spec
CONSTANTS
  Viewers = {v1}
  Tasks = {t1, t2}
  Kinds <- AllKinds
  Calls = {c1, c2}
  Sources = {s1}
  None = None
SYMMETRY Symmetry
INVARIANT TypeOK
INVARIANT StopTimerOnlyWhenUnused
INVARIANT StopExcludesStart
INVARIANT NoOrphanWaiter
INVARIANT PendingStartIsOwned
INVARIANT PrivateIsolation
INVARIANT PrivateVideoNotRetained
