SPECIFICATION FairSpec
CONSTANTS
  Handles = {1}
  Peers = {1, 2, 3}
  Repeaters = {1}
  Randoms = {3}
  MaxDrops = 1
INVARIANTS
  TypeOK
  FlagsHaveWork
PROPERTIES
  EventuallyUsable
  GateReopens
  FirstIsTried
