SPECIFICATION Spec
CONSTANTS
  Handles = {1, 2}
  Roles = {"slave", "master"}
  RolesOf <- MCAllSlaves
  MaxPackets = 2
  MaxLinks = 2
INVARIANT
  RightConnection
CHECK_DEADLOCK FALSE
