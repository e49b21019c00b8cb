SPECIFICATION Races
CONSTANTS
  None = None
  t1 = t1  t2 = t2  t3 = t3  t4 = t4  t5 = t5
  n1 = n1  n2 = n2
  p1 = p1  p2 = p2
  r1 = r1
  Requests = {t1, t2, t3}
  Needs = {n1, n2}
  Providers = {p1, p2}
  Rosters = {r1}
  Members <- MCMembers
  Capacity <- OneEach
  PaidNeeds = {n1}
  Surfaced <- AllSurfaced
  Dates = {0, 3, 9}
SYMMETRY RequestSymmetry
INVARIANTS IInv
PROPERTIES Serializable
CHECK_DEADLOCK FALSE
