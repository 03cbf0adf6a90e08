SPECIFICATION Spec
CONSTANTS
  Clients = {c1, c2}
  None = None
  Cameras = {c1}
  MaxOwning = 2
  MaxTasks = 2
  MaxCalls = 2
  MaxAsked = 2
  MaxMessages = 2
  MaxCommands = 2
  Room = 3
INVARIANTS SessionsKept HandlersKept
PROPERTY OldProgramsEnd
CHECK_DEADLOCK FALSE
