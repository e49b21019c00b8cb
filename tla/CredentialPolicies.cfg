\* Two concurrent calls on one case while the active policy changes.
SPECIFICATION FairSpec
CONSTANTS
    NoDate = NoDate
    None = None
    t1 = t1  t2 = t2  t3 = t3
    p1 = p1  p2 = p2
    c1 = c1  c2 = c2
    v1 = v1  v2 = v2
    Calls = {t1, t2}
    Providers = {p1}
    Cases = {c1}
    Versions = {v1, v2}
    PolicyOf <- MCPolicyOf
    Reviews <- AllReviews
    Outages <- NoOutage
    Answers <- Answer
    Window = 1
    BatchSize = 1
    MaxChecks = 3
    MaxClock = 2
INVARIANTS
    PreflightHolds
    DecisionReproducible
PROPERTIES EveryCallEnds
CHECK_DEADLOCK FALSE
