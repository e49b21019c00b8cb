--------------------------- MODULE MCCredentialRail ---------------------------
EXTENDS CredentialRail, TLC

CONSTANTS t1, t2, t3, p1, p2, c1, c2, v1, v2

Symmetric == Permutations(Calls) \cup Permutations(Cases)

Policy(freshness, identity) ==
    [sources |-> ("MANUAL" :> "MANUAL_DOCUMENT") @@ ("ISSUER" :> "ISSUER") @@ ("BAR" :> "AUTHORITY"),
     documents |-> [t \in {"LICENCE"} |-> {"MANUAL", "ISSUER"}],
     identity |-> [type |-> "LICENCE", allowed |-> identity],
     authority |-> [t \in {"STANDING"} |-> {"BAR"}],
     freshness |-> freshness]

MCPolicyOf == [v \in Versions |->
    IF v = v1 THEN Policy(1, {"MANUAL"}) ELSE Policy(2, {"MANUAL", "ISSUER"})]

In(t, s, m, r, v) == [type |-> t, source |-> s, mode |-> m, result |-> r, validUntil |-> v]

OneReview == {In("LICENCE", "MANUAL", "LIVE", "PASS", NoDate)}
AllReviews == {In("LICENCE", "MANUAL", "LIVE", "PASS", NoDate),
               In("LICENCE", "MANUAL", "LIVE", "MISMATCH", NoDate)}
NoOutage == {}
Outage == {In("STANDING", "BAR", "OFF", "UNAVAILABLE", NoDate)}
Answer == {In("STANDING", "BAR", "LIVE", "PASS", NoDate)}
==============================================================================
