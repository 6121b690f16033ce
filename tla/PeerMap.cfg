SPECIFICATION FairSpec
CONSTANTS
  Handles = {4, 5, 6}
  Devices = {a, b}
  MaxTtl = 2
  MaxLinks = 3
INVARIANTS
  TypeOK
  MapOnlyLive
PROPERTY
  EventuallyOneLink
