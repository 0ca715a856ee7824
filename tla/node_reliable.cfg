SPECIFICATION Spec
CONSTANTS
  t1 = t1
  t2 = t2
  a = a
  b = b
  hello = hello
  world = world
  Threads = {t1, t2}
  Keys <- Keys2
  Vals <- MCVals
  NoVal = NoVal
  NoEntry = NoEntry
  NoOwner = NoOwner
  Pending = Pending
  NoReq = NoReq
  NotHex = "NotHex"
  Nodes <- MCNodes
  HashLen <- MCHashLen
  Urls <- Urls2
  UrlLen <- UrlLen2
  ConvertHash <- ConvertHash2
  Bodies <- MCBodies
  DataLen <- MCDataLen
  IsZ85 <- MCIsZ85
  Settings <- AllSettings
  MayFail = {}
SYMMETRY Symmetry
INVARIANTS OwnReply
PROPERTIES ImplementsStore
