\* Two instances, see RowsAndStatements in MCAllocationLifecycle.
SPECIFICATION RowsAndStatements
CONSTANTS
  None = None
  a1 = a1  a2 = a2  a3 = a3
  n1 = n1  n2 = n2
  p1 = p1  p2 = p2
  r1 = r1  r2 = r2
  Allocations = {a1, a2, a3}
  Needs = {n1, n2}
  Providers = {p1, p2}
  Rosters = {r1, r2}
  Members <- MCMembers
  Capacity <- MCCapacity
  PaidNeeds = {n1}
  Surfaced <- MCSurfaced
  Dates = {0, 9}
INVARIANTS
  TypeOK
  CapacityConserved
  OneActivePerNeed
  RowsAgree
  SignalsMatchDeclines
PROPERTIES EveryRequestEnds
CHECK_DEADLOCK FALSE
