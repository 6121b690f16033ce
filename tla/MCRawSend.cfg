SPECIFICATION FairSpec
CONSTANTS
  Handles = {3, 4}
  Roles = {"slave", "master"}
  RolesOf <- MCEitherRole
  MaxPackets = 2
  MaxLinks = 2
INVARIANTS
  TypeOK
  InOrder
  WaitsForTurn
PROPERTY
  EventuallyGiven
CHECK_DEADLOCK FALSE
