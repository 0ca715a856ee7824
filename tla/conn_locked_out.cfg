SPECIFICATION FairSpec
CONSTANTS
  listener = listener
  x = x
  localhost = localhost
  Threads = {listener}
  Listener = listener
  Localhost = localhost
  Keys <- OneAddress
  Vals <- Counts
  NoVal = NoVal
  NoEntry = NoEntry
  NoOwner = NoOwner
  Pending = Pending
  ReqPeriod = 2
  ReqCount = 2
  MayFail = {}
PROPERTIES NeverLockedOut
