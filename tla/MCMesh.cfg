SPECIFICATION FairSpec
CONSTANTS
  LongBytes = 2
  SignatureLength = 2
  Inflate <- MCInflate
  NullId <- MCNullId
  NullSignature <- MCNullSignature
  Repeaters = {"r1", "r2", "r3"}
  Phones = {"phone"}
  Links <- MCLinks
  Opened <- MCOpened
  NoLink = "none"
  Originals <- MCOriginals
  Mtus = {12, 99}
INVARIANTS TypeOK HopLimit Intact HeldOnce
PROPERTY FloodEnds
CHECK_DEADLOCK FALSE
