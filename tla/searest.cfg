SPECIFICATION FairSpec
CONSTANTS
  c1 = c1
  c2 = c2
  Conns = {c1, c2}
  Requests <- MCRequests
  Urls = {"token128", "token512", "long", "bar", "root", "short", "other"}
  UrlLen <- Length
  WithRoot <- MCWithRoot
  WellFormed <- MCWellFormed
  NoNode = "none"
  Methods = {"GET", "POST", "PUT", "DELETE", "OPTIONS"}
  Bytes = {1, 2, 3, 4, 5, 6}
  NoHeader = NoHeader
  NoRequest = NoRequest
  NoRi = NoRi
  NoWs = NoWs
  None = None
  Codes = {200, 404}
  Starts <- MCStarts
  Files = {"log", "mytpc", "cert.pem", "key.pem"}
CHECK_DEADLOCK FALSE
INVARIANTS TypeOK HandlerSeesUpload UploadFits NodesOutliveHandlers ServedAsAsked RefusedForCause
PROPERTIES RequestsEnd StopsWhenTold
