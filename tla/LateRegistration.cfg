CONSTANTS
  None = None
  Sockets = {s1}
  Messages = {m1}
  Identities = {i1}
  Window = 1
  Retries = 1
SPECIFICATION RSpec
PROPERTY ReadyByRegistration
