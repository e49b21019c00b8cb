SPECIFICATION OneOfTheServices
CONSTANTS
  None = None
  t1 = t1  t2 = t2  t3 = t3
  n1 = n1  n2 = n2  n3 = n3
  p1 = p1  p2 = p2  p3 = p3
  f1 = f1  f2 = f2
  Requests = {t1, t2}
  Needs = {n1, n2}
  Providers = {p1, p2}
  Filters = {f1, f2}
  SeededKey <- Keys
  Users = {u1, u2}  SeededUsers = {u2}  AccountCalls = {c1, c2}  Codes = {code1, code2}
  AuthorityRequests = {r1, r2}  Earlier = {d1}  Consents = {w1}  Grants = {g1}
  From <- WindowStart  Until <- WindowEnd  Matters = {m1, m2}  Paid = {m1}
  MaxClock = 2  MaxAmount = 2  DevelopmentFloor = 2
  Instances = {i1, i2, s1}  Setup = {s1}  Files = 2  MaxStarts = 2  BatchSize = 1  MaxExpiries = 2
  ClientCalls = {call1, call2}  ClientNeeds = {need1, need2}  Types = {class1, class2}
  Bookings = {b1, b2}  FirstBooking = b1  MaxTotal = 1
  u1 = u1  u2 = u2  c1 = c1  c2 = c2  code1 = code1  code2 = code2
  r1 = r1  r2 = r2  d1 = d1  w1 = w1  g1 = g1  m1 = m1  m2 = m2
  i1 = i1  i2 = i2  s1 = s1
  call1 = call1  call2 = call2  need1 = need1  need2 = need2
  class1 = class1  class2 = class2  b1 = b1  b2 = b2
INVARIANTS
  RepliesReplay
  OrderReproducible
  CountersMatch
  ServicesTypeOK
  ToldOnce
  AccountsAgree
  NothingAfterTheEnd
  RulesAgree
  AppliedOnce
  ServesComplete
  OneAtATime
  ShownStands
PROPERTIES
  QuotesOnOpenMatters
  DecisionsSurvive
  BatchesGoOn
  EverythingEnds
CHECK_DEADLOCK FALSE
