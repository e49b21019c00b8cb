\* Two concurrent calls on one provider, two cases, three checks; and a case
\* of up to four checks, decided at the dates 1 to 3.
SPECIFICATION RailOrCase
CONSTANTS
    NoDate = NoDate
    None = None
    t1 = t1  t2 = t2  t3 = t3
    p1 = p1  p2 = p2
    c1 = c1  c2 = c2
    v1 = v1  v2 = v2
    Calls = {t1, t2}
    Providers = {p1}
    Cases = {c1, c2}
    Versions = {v1}
    PolicyOf <- MCPolicyOf
    Reviews <- OneReview
    Outages <- Outage
    Answers <- Answer
    Window = 1
    BatchSize = 1
    MaxChecks = 3
    MaxClock = 3
    CasePolicies <- TwoPolicies
    CaseAnswers <- AnswersOfCase
    CaseDates = {1, 2, 3}
    MaxCaseChecks = 4
SYMMETRY Symmetric
INVARIANTS
    PreflightAgrees
    ExpiryIsSafe
    OthersNeverCount
    CreationNeverRefused
    ShownTierEarned
    TierFollowsDecisions
PROPERTIES
    DecisionsStand
CHECK_DEADLOCK FALSE
