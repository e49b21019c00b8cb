\* Two providers whose tiers expire together, and batches of one row.
SPECIFICATION FairSpec
CONSTANTS
    NoDate = NoDate
    None = None
    t1 = t1  t2 = t2  t3 = t3
    p1 = p1  p2 = p2
    c1 = c1  c2 = c2
    v1 = v1  v2 = v2
    Calls = {t1}
    Providers = {p1, p2}
    Cases = {c1, c2}
    Versions = {v1}
    PolicyOf <- MCPolicyOf
    Reviews <- OneReview
    Outages <- NoOutage
    Answers <- Answer
    Window = 1
    BatchSize = 1
    MaxChecks = 4
    MaxClock = 2
PROPERTY
    ExpiredTiersDegrade
CHECK_DEADLOCK FALSE
