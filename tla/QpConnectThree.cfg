SPECIFICATION Spec
CONSTANTS
  N = 3
  SocketWait = 2
  QpWait = 1
  Faulty = {}
INVARIANT ReadyMeansConnected
