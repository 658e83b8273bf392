SPECIFICATION FairSpec
CONSTANTS
  MaxPdus = 4
  Kinds = {"init", "strayinit", "search", "unsupported", "trigger", "close", "malformed", "http", "httpclose", "strayhttp", "strayclose", "badhttp"}
  AsksAlive = TRUE
  VirtualHosts = TRUE
  Habits = {}
CHECK_DEADLOCK FALSE
INVARIANT NeverSleeps
INVARIANT AnswersInOrder
INVARIANT CloseIsLast
INVARIANT BackendsClosed
PROPERTY DeadIsDestroyed
