CONSTANTS
  Clients = {1, 2}
  Login <- TwoRoles
  Leaves = {}
  MaxMessages = 1
  Commands = {"exit"}
  MaxCommands = 0
SPECIFICATION FairSpec
PROPERTY ShutdownEnds
CHECK_DEADLOCK FALSE
