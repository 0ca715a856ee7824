SPECIFICATION Spec
CONSTANTS
  t1 = t1
  t2 = t2
  a = a
  b = b
  hello = hello
  world = world
  Threads = {t1, t2}
  Keys <- Keys1
  Vals <- MCVals
  NoVal = NoVal
  NoEntry = NoEntry
  NoOwner = NoOwner
  Pending = Pending
  NoReq = NoReq
  NotHex = "NotHex"
  Nodes <- MCNodes
  HashLen <- MCHashLen
  Urls <- Urls1
  UrlLen <- UrlLen1
  ConvertHash <- ConvertHash1
  Bodies <- MCBodies
  DataLen <- MCDataLen
  IsZ85 <- MCIsZ85
  Settings <- FaultySettings
  MayFail = {"break", "crash", "refuse"}
SYMMETRY Symmetry
INVARIANTS TypeOK IInv RereadOnlyIfSpared
PROPERTIES ImmutableStable ImplementsStore
