SPECIFICATION SysSpec
CONSTANTS
  Viewers = {v1}
  Tasks = {t1}
  Kinds <- ViewedKinds
  Calls = {c1, c2}
  Sources = {s1, s2}
  None = None
  PeerMayEnd = TRUE
SYMMETRY Symmetry
INVARIANT AttachedSourceIsCurrent
INVARIANT NoLostUser
