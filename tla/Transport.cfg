CONSTANTS
  Messages <- AllMessages
  MaxSent = 3
SPECIFICATION TransportSpec
INVARIANTS
  TypeOK DispatchedInOrder AnswersMatchRequests QuietWhenStopped
PROPERTIES EverythingDispatched InOrder ResponseLeadsToCall
CHECK_DEADLOCK FALSE
