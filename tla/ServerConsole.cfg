CONSTANTS
  Clients = {1, 2}
  Login <- TwoRoles
  Leaves = {1, 2}
  MaxMessages = 1
  Commands = {"show", "stop", "focus", "exit"}
  MaxCommands = 2
SPECIFICATION Spec
INVARIANTS TypeOK NamesGoToAudio DanglingOnlyAfterEnd
CHECK_DEADLOCK FALSE
