SPECIFICATION Spec
CONSTANTS
  n1 = n1
  n2 = n2
  n3 = n3
  t1 = t1
  t2 = t2
  l1 = l1
  l2 = l2
  l3 = l3
  Publisher = {1, 2, 3}
  InitialPublisher = {1, 2}
  Location = {l1, l2, l3}
  InitialLocation = {l1, l2}
  Row = {1, 2, 3}
  InitialRow = {1, 2}
  Work = {w1}
  Name = {n1, n2, n3}
  Town = {t1}
  Session = {s1}
  Ops = {"merge", "places", "delete", "place", "name", "tab"}
  MaxLines = 2
  MayCrash = FALSE
  None = None
SYMMETRY Symmetric
CHECK_DEADLOCK FALSE
INVARIANT Coherent
INVARIANT SoloInv
PROPERTY MergesKeepPublishings
INVARIANT TabSavesForm
