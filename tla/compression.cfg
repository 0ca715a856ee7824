\* One bound per branch: see MCCompression and the README.
CONSTANTS
  DictSize = 512
  CodeBufSize = 128
  FlushAt = 64
  FarAway = 24
  StaticBelow = 48
  LitLimit = 5
  SizeLimit = 4
  RestoreFactor = 10
  Probes <- MCProbes
  Messages <- MCMessages
  Fragile <- MCFragile

SPECIFICATION Spec
CHECK_DEADLOCK FALSE

INVARIANTS TypeOK CodesSpellMessage Restored DamageNoticed BuffersHold PacksAreRecognised
