CONSTANTS
  Clients = {1, 2, 3}
  Login <- ThreeRoles
  Leaves = {3}
  MaxMessages = 2
  Commands = {}
  MaxCommands = 0
SPECIFICATION Spec
PROPERTY NamesReachAudio
CHECK_DEADLOCK FALSE
