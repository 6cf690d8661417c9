SPECIFICATION Spec
CONSTANTS
  NClients = 3
  ClientHosts = {9, 10, 111}
  ServerHosts = {1, 25}
  Ports = {4080}
  Uninitialised = {0}
INVARIANTS
  WholeTextOnly
  ReadsBack
  OwnUnlessOvertaken
CHECK_DEADLOCK FALSE
