SPECIFICATION FairSpec
CONSTANTS
  None = None
  Genesis = Genesis
  t1 = t1  t2 = t2  t3 = t3
  p1 = p1  p2 = p2
  Requests = {t1, t2, t3}
  Providers = {p1, p2}
  Credits = {2}
  MaxAttempts = 2
INVARIANTS
  TamperEvident
  BalanceReconciles
  OncePerRequest
  ExportsStayPrefixes
PROPERTIES EveryCallEnds
CHECK_DEADLOCK FALSE
