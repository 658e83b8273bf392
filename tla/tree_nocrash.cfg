SPECIFICATION Spec
CONSTANTS
  f1 = f1
  f2 = f2
  f3 = f3
  f4 = f4
  Folder = {f1, f2, f3}
  InitialFolder = {f1, f2}
  Work = {w1}
  Session = {s1}
  Ops = {"add", "merge", "refs"}
  MayCrash = FALSE
  PicksSelf = FALSE
  NoFolder = NoFolder
  NotRead = NotRead
  NoWork = NoWork
SYMMETRY Symmetric
CHECK_DEADLOCK FALSE
INVARIANT HistoryIsFunction
PROPERTY MergeRunsToEnd
