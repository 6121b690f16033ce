SPECIFICATION Spec
CONSTANTS
  LongBytes = 2
  SignatureLength = 2
  Inflate <- MCInflate
  NullId <- MCNullId
  NullSignature <- MCNullSignature
  Repeaters = {"r1", "r2", "r3"}
  Phones = {"phone"}
  Links <- MCLinks
  Opened <- MCOpened
  NoLink = "none"
  Originals <- MCOriginals
  Mtus = {12, 99}
INVARIANT PassedAlongUnchanged
CHECK_DEADLOCK FALSE
