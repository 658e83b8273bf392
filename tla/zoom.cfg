SPECIFICATION Spec
CONSTANTS
  r1 = r1
  r2 = r2
  NoSet = NoSet
  ResultSet = {r1}
  MaxHits = 2
  Step = 1
  Protocols = {"z3950", "http"}
  Ops = {"connect", "search", "records", "sort", "scan", "package", "destroy"}
  Careless = {}
  Habits = {}
  MaxRedirects = 2
  MaxTasks = 2
  MaxCalls = 4
CHECK_DEADLOCK FALSE
INVARIANT NoAbort
INVARIANT AnswersMatch
INVARIANT InitFirst
INVARIANT DoneWhenZero
INVARIANT OneOrder
PROPERTY RecordsDelivered
PROPERTY ErrorStays
