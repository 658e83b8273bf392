SPECIFICATION Spec
CONSTANTS
  r1 = r1
  r2 = r2
  NoSet = NoSet
  ResultSet = {r1, r2}
  MaxHits = 1
  Step = 0
  Protocols = {"z3950"}
  Ops = {"connect", "search", "records", "sort", "scan", "package", "destroy"}
  Careless = {}
  Habits = {}
  MaxRedirects = 2
  MaxTasks = 3
  MaxCalls = 4
SYMMETRY Symmetric
CHECK_DEADLOCK FALSE
INVARIANT RefCounts
INVARIANT RecordsFromOwnQuery
