SPECIFICATION FairSpec
CONSTANTS
  main = main
  w1 = w1
  w2 = w2
  Main = main
  Workers = {w1, w2}
  Receivers = {main, w1, w2}
  NoOwner = NoOwner
  MaxLines = 2
CHECK_DEADLOCK FALSE
INVARIANTS TypeOK WholeLines ShutdownLineLast
PROPERTIES OnlyOwnMutexStops
