CONSTANTS
  Room = 2
  MaxOrders = 3
  MaxStarts = 3
  PeopleDB <- TwoPeople
  MaxClicks = 2
  MaxLists = 2
  SinkRoom = 3
SPECIFICATION ProgramsSpec
INVARIANTS TypeOK PumpsBounded EmptyHasCause ChainAlive PassSpeaksAll
PROPERTIES VideoSeen ProgramsEnd PauseUpdateSpoken ClickLogsIn
CHECK_DEADLOCK FALSE
