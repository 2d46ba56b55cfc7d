SPECIFICATION SysSpec
CONSTANTS
  Viewers = {v1}
  Tasks = {t1}
  Kinds <- Captures
  Calls = {c1, c2}
  Sources = {s1, s2}
  None = None
  PeerMayEnd = TRUE
SYMMETRY Symmetry
PROPERTY StopReportSparesNewViewers
