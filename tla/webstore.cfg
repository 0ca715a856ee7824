SPECIFICATION FairSpec
CONSTANTS
  t1 = t1
  listener = listener
  a = a
  x = x
  localhost = localhost
  hello = hello
  Handlers = {t1}
  Listener = listener
  Tokens = {a}
  Messages = {hello}
  Addresses = {x, localhost}
  Localhost = localhost
  ReqPeriod = 1
  ReqCount = 1
  NoVal = NoVal
  NoEntry = NoEntry
  NoOwner = NoOwner
  Pending = Pending
  NoReq = NoReq
  NotHex = "NotHex"
  Nodes = {"store128"}
  HashLen <- MCHashLen
  Urls <- MCUrls
  UrlLen <- MCUrlLen
  ConvertHash <- MCConvertHash
  Bodies = {hello}
  DataLen <- MCDataLen
  IsZ85 <- MCIsZ85
  Settings <- MCSettings
  MayFail = {"break", "crash"}
INVARIANTS OwnReply QuietAtDisconnect RereadOnlyIfSpared
PROPERTIES ShutdownCompletes RedisLossStops ImplementsStore
