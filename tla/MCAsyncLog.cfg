CONSTANTS
  c1 = c1
  c2 = c2
  Client <- MCClient
  Worker = Worker
  Item <- MCItem
  NoItem = NoItem
  Size = 2
  MaxCalls <- MCMaxCalls
  NumSinks = 2
  Policies = {"block_retry", "discard_log_msg"}
  SinksFail = TRUE
  Flush = Flush
  Terminate = Terminate
SPECIFICATION Spec
INVARIANTS
  OneThreadPerCell
  SinksFollow
  NothingLeftBehind
PROPERTIES
  ImplementsQueue
  DestructorReturns
CHECK_DEADLOCK FALSE
