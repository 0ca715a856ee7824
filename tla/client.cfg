SPECIFICATION Spec
CHECK_DEADLOCK FALSE
CONSTANTS
  post1 = post1
  post2 = post2
  get = get
  Run = {post1, post2, get}
  ByteSize = 5
  Base = 5
  Magic = 205
  Shift = 1024
  Scenarios <- Scenes
  Contents <- Texts
  HashLen <- Lengths
  Squash <- Packs
  ZlibHeader <- Zlib
  RestoreFactor = 2
  PieceSize = 6
  MinPost = 5
  MaxPost = 16
  Settings <- Flags
INVARIANTS TypeOK BuffersHold OnlyKnownLosses  ServedWhole
