SPECIFICATION Spec
CONSTANTS
  r1 = r1
  r2 = r2
  NoSet = NoSet
  ResultSet = {r1}
  MaxHits = 2
  Step = 1
  Protocols = {"http"}
  Ops = {"connect", "search"}
  Careless = {}
  Habits = {"redirect"}
  MaxRedirects = 2
  MaxTasks = 2
  MaxCalls = 2
CHECK_DEADLOCK FALSE
INVARIANT DoneWhenZero
