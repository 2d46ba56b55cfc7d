SPECIFICATION FairSpec
CONSTANTS
  Viewers = {v1}
  Tasks = {t1}
  Kinds <- AllKinds
  Calls = {c1, c2}
  Sources = {s1}
  None = None
PROPERTY EveryTaskReturns
PROPERTY IsolationEnds
PROPERTY GateOpens
