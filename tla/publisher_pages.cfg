SPECIFICATION Spec
CONSTANTS
  n1 = n1
  n2 = n2
  n3 = n3
  t1 = t1
  t2 = t2
  l1 = l1
  l2 = l2
  l3 = l3
  Publisher = {1, 2}
  InitialPublisher = {1, 2}
  Location = {l1, l2}
  InitialLocation = {l1}
  Row = {1}
  InitialRow = {1}
  Work = {w1}
  Name = {n1, n2}
  Town = {t1}
  Session = {s1, s2}
  Ops = {"places", "delete", "place", "tab", "name"}
  MaxLines = 1
  MayCrash = TRUE
  None = None
SYMMETRY Symmetric
CHECK_DEADLOCK FALSE
INVARIANT TypeOK
INVARIANT PagesInv
