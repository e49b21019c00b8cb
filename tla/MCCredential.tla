---------------------------- MODULE MCCredential ----------------------------
(* The rail under races, and one case with every list of checks; each       *)
(* behaviour is of one of the two, for they share nothing but the decision. *)
EXTENDS MCCredentialRail, CredentialCase

Sources == ("MANUAL" :> "MANUAL_DOCUMENT") @@ ("ISSUER" :> "ISSUER")
           @@ ("BAR" :> "AUTHORITY") @@ ("LLM" :> "LLM_ADVISORY")
PolicyOfCase(freshness, documents, identity) ==
    [sources |-> Sources, freshness |-> freshness,
     documents |-> [t \in {"LICENCE"} |-> documents],
     identity |-> [type |-> "LICENCE", allowed |-> identity],
     authority |-> [t \in {"STANDING"} |-> {"BAR"}]]
FirstPolicy == PolicyOfCase(2, {"MANUAL", "ISSUER"}, {"MANUAL"})
TwoPolicies == {FirstPolicy, PolicyOfCase(3, {"MANUAL", "BAR"}, {"MANUAL", "BAR"})}

From(t, s, m, r, c, v) ==
    [type |-> t, source |-> s, mode |-> m, result |-> r, checkedAt |-> c, validUntil |-> v]
AnswersOfCase ==
    {From(l[1], l[2], "LIVE", "PASS", d[1], d[2]) :
        l \in {<<"LICENCE", "MANUAL">>, <<"LICENCE", "ISSUER">>, <<"STANDING", "BAR">>},
        d \in {<<1, NoDate>>, <<1, 4>>, <<2, NoDate>>, <<2, 3>>}}
    \cup {From(l[1], l[2], "LIVE", "CONFLICT", 1, NoDate) :
        l \in {<<"LICENCE", "ISSUER">>, <<"STANDING", "BAR">>}}
    \cup {From("LICENCE", "BAR", "LIVE", "PASS", 1, 3),
          From("LICENCE", "LLM", "LIVE", "PASS", 1, NoDate),
          From("LICENCE", "LLM", "LIVE", "MISMATCH", 2, NoDate),
          From("STANDING", "BAR", "MOCK", "PASS", 2, NoDate)}

RailNext == Next /\ caseChecks = {} /\ casePolicy = FirstPolicy /\ UNCHANGED caseVars
OneCase == Init /\ NextCase /\ UNCHANGED vars

RailOrCase == Init /\ InitCase /\ [][RailNext \/ OneCase]_<<vars, caseVars>>
=============================================================================
