CONSTANTS
  None = None
  Sockets = {s1, s2}
  Messages = {m1, m2}
  Identities = {i1}
  Window = 1
  Retries = 1
SPECIFICATION FairRSpec
INVARIANT RTypeOK
INVARIANT OneRecoveryPath
INVARIANT ReportedState
INVARIANT OneAttempt
INVARIANT HandedOnOnce
INVARIANT NoSecondIdentity
PROPERTY OutageEnds
PROPERTY RegistrationResumes
