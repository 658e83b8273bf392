SPECIFICATION FairSpec
CONSTANTS
  f1 = f1
  f2 = f2
  f3 = f3
  f4 = f4
  Folder = {f1, f2}
  InitialFolder = {f1, f2}
  Work = {w1}
  Session = {s1, s2}
  Ops = {"edit", "move", "merge", "delete"}
  MayCrash = FALSE
  PicksSelf = TRUE
  NoFolder = NoFolder
  NotRead = NotRead
  NoWork = NoWork
CHECK_DEADLOCK FALSE
PROPERTY RequestsComplete
INVARIANT TypeOK
