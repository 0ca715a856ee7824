SPECIFICATION FairSpec
CONSTANTS
  main = main
  w1 = w1
  w2 = w2
  Main = main
  Workers = {w1}
  Receivers = {main}
  NoOwner = NoOwner
  MaxLines = 1
CHECK_DEADLOCK FALSE
PROPERTIES LogLetsGo
