SPECIFICATION FairSpec
CONSTANTS
  r1 = r1
  r2 = r2
  NoSet = NoSet
  ResultSet = {r1}
  MaxHits = 1
  Step = 1
  Protocols = {"z3950", "http"}
  Ops = {"connect", "search", "records", "sort"}
  Careless = {}
  Habits = {}
  MaxRedirects = 2
  MaxTasks = 2
  MaxCalls = 3
CHECK_DEADLOCK FALSE
PROPERTY TasksEnd
