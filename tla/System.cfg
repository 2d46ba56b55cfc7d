SPECIFICATION SysSpec
CONSTANTS
  Viewers = {v1, v2}
  Tasks = {t1}
  Kinds <- ViewedKinds
  Calls = {c1, c2}
  Sources = {s1, s2}
  None = None
  PeerMayEnd = FALSE
SYMMETRY Symmetry
INVARIANT NoOrphanSource
PROPERTY StopReportSparesNewViewers
