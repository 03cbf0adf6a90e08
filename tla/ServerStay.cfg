CONSTANTS
  Clients = {1, 2, 3}
  Login <- UnknownRole
  Leaves = {2}
  MaxMessages = 1
  Commands = {}
  MaxCommands = 0
SPECIFICATION FairSpec
PROPERTIES NamesReachAudio LoginShows EndedDestroyed
CHECK_DEADLOCK FALSE
