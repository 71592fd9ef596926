SPECIFICATION LiveSpec
CONSTANTS
  Command = {c1, c2}
  CommandMs = 2
  OperationMs = 3
  DisconnectMs = 1
  Horizon = 6
INVARIANTS
  NothingPendingAfterStop
  OutcomeIsTheCallbacks
PROPERTIES
  AnswersInTime
  Settles
  ImplementsConnection
CHECK_DEADLOCK FALSE
