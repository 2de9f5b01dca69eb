SPECIFICATION Spec
CONSTANTS
  N = 2
  SocketWait = 2
  QpWait = 1
  Faulty = {0, 1}
INVARIANTS
  TypeOK
  ReadyMeansConnected
PROPERTIES
  StartupReturns
  EveryoneConnects
