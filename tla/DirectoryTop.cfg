SPECIFICATION Spec
CONSTANTS
  None = None
  t1 = t1  t2 = t2  t3 = t3
  n1 = n1  n2 = n2  n3 = n3
  p1 = p1  p2 = p2  p3 = p3
  f1 = f1  f2 = f2
  Requests = {t1, t2, t3}
  Needs = {n1, n2, n3}
  Providers = {p1, p2}
  Filters = {f1}
  SeededKey <- Keys
INVARIANTS NoPersistentTop
CHECK_DEADLOCK FALSE
