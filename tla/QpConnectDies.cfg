SPECIFICATION Spec
CONSTANTS
  N = 2
  SocketWait = 2
  QpWait = 1
  Faulty = {0}
INVARIANT NobodyCrashes
