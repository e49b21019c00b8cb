--------------------------- MODULE AuthorityProofs ---------------------------
(***************************************************************************)
(* Proofs about Authority, for every set of requests, delegations, windows *)
(* and matters: nothing is written or disclosed under an authority that    *)
(* was over, a delegation is closed once, quotes are on open matters.      *)
(***************************************************************************)
EXTENDS Authority, TLAPS

\* What the constants have to satisfy.
Setting ==
    /\ MaxClock \in Nat /\ From \in [Windows -> Nat] /\ Until \in [Windows -> Nat]
    /\ None \notin Requests
    /\ MaxAmount \in Nat /\ DevelopmentFloor \in Nat /\ None \notin Nat
    /\ Delegations \cap Windows = {} /\ Delegations \cap Matters = {} /\ Windows \cap Matters = {}

----------------------------------------------------------------------------
(* The inductive invariant. *)

\* A delegation exists once the request that opens it has committed.
Opened == \A r \in Requests : delegation[r] # "NONE" => step[r] = "done"

\* What a request is about, and which step belongs to which operation.
Targets ==
    \A r \in Requests :
        /\ op[r] = "open" => on[r] = r
        /\ op[r] \in Delegated \cup {"referral", "close"} =>
             on[r] \in Delegations /\ delegation[on[r]] # "NONE"
        /\ op[r] \in Consented => on[r] \in Consents
        /\ op[r] = "roster" => on[r] \in Grants
        /\ op[r] = "quote" => on[r] \in Matters
Matching ==
    \A r \in Requests :
        /\ step[r] \in {"begin", "commit"} =>
             op[r] \in Delegated \cup Consented \cup {"open", "close", "quote"}
        /\ step[r] = "check" => op[r] \in Delegated \cup Consented \cup Pooled
        /\ step[r] = "read" => op[r] = "roster"
        /\ step[r] = "close" => op[r] = "close"
        /\ step[r] \in {"judge", "quote"} => op[r] = "quote"
        /\ step[r] = "route" => op[r] = "need"
        /\ step[r] # "done" => answer[r] = "none"
        /\ began[r] <= clock

\* An authority that was over when the request began is over when it is
\* checked: what ended or was revoked stays so, and the clock that judges a
\* window does not lag behind the one that recorded it.
Recorded ==
    \A r \in Requests :
        step[r] = "check" /\ on[r] \in over[r] =>
            \/ on[r] \in Delegations /\ delegation[on[r]] = "ENDED"
            \/ on[r] \in revoked
            \/ on[r] \in Windows /\ Until[on[r]] <= IF op[r] \in Pooled THEN clock ELSE began[r]

\* A request that has passed its check began under an authority not over.
Cleared ==
    \A r \in Requests :
        \/ step[r] = "read"
        \/ step[r] = "commit" /\ op[r] \in Delegated \cup Consented
        \/ answer[r] \in Effective
        => on[r] \notin over[r]

\* Until its commit a request keeps the row it has judged as it was.
Locked ==
    \A r \in Requests :
        /\ step[r] = "commit" /\ op[r] = "close" => owner[on[r]] = r /\ delegation[on[r]] = "OPEN"
        /\ step[r] = "commit" /\ op[r] = "quote" => owner[on[r]] = r /\ Quotable(on[r])

\* What a request has closed stays closed, and was opened before.
Closed ==
    \A r \in Requests :
        /\ answer[r] = "close" => op[r] = "close" /\ delegation[on[r]] = "ENDED"
        /\ (step[r] \in {"close", "commit"} \/ answer[r] = "close") /\ op[r] = "close" =>
             (on[r] \in Requests => began[on[r]] <= began[r])

\* A need is judged by the floor it met, and only a need that is admitted goes on.
FloorFor(body) == FloorOf(body.floors, body.development)
Admits(body) == Admitted(body.category, body.ceiling, FloorFor(body))
RouteOf(body) == Decide(body.category, body.ceiling, FloorFor(body))
Routed ==
    \A r \in Requests :
        /\ step[r] \in {"idle", "route"} => routed[r] = None
        /\ routed[r] # None =>
             IF Admits(routed[r].body)
             THEN /\ routed[r].route = RouteOf(routed[r].body)
                  /\ answer[r] # "ELIGIBILITY_POLICY_NOT_CONFIGURED"
             ELSE answer[r] = "ELIGIBILITY_POLICY_NOT_CONFIGURED" /\ step[r] = "done"

IInv ==
    /\ TypeOK /\ Opened /\ Targets /\ Matching
    /\ Recorded /\ Cleared /\ Locked /\ Closed /\ ClosedOnce /\ Routed

----------------------------------------------------------------------------
(* The ways a step can end. *)

\* A request is refused, or lost: nothing is written and its locks are gone.
Refusals ==
    {"FORBIDDEN", "ACTIVE_DELEGATION_NOT_FOUND", "NOT_QUOTABLE", "PAYMENT_QUOTE_REJECTED", "lost"}
Refusal(r) == step[r] \notin {"idle", "done"} /\ Local /\ \E what \in Refusals : Finish(r, what)
Passes(r) ==
    /\ step[r] = "check" /\ Authorised(r) /\ op[r] # "referral" /\ Local
    /\ Go(r, IF op[r] = "roster" THEN "read" ELSE "commit")
Discloses(r) ==
    /\ step[r] = "check" /\ Authorised(r) /\ op[r] = "referral"
    /\ Finish(r, "disclosed") /\ Local
TakesDelegation(r) ==
    /\ step[r] = "close" /\ Free(on[r]) /\ StillOpen(r) /\ Take(r, on[r])
    /\ Goto(r, "commit") /\ Local /\ UNCHANGED <<rows, answer>>
JudgesOpen(r) == step[r] = "judge" /\ Go(r, "quote") /\ Local
TakesMatter(r) ==
    /\ step[r] = "quote" /\ Free(on[r]) /\ JudgedByWriter(r) /\ Take(r, on[r])
    /\ Goto(r, "commit") /\ Local /\ UNCHANGED <<rows, answer>>

Acts(r) ==
    \/ AskDelegation(r) \/ AskDelegated(r) \/ AskInstitution(r) \/ AskQuote(r)
    \/ RouteNeed(r) \/ Begin(r) \/ Refusal(r) \/ Passes(r) \/ Discloses(r) \/ ReadRoster(r)
    \/ TakesDelegation(r) \/ JudgesOpen(r) \/ TakesMatter(r) \/ Commit(r)

LEMMA NextCases ==
    ASSUME Next
    PROVE  \/ \E r \in Requests : Acts(r)
           \/ \E m \in Matters : CloseMatter(m)
           \/ \E w \in Windows : Revoke(w)
           \/ Tick
<1>1. ASSUME NEW r \in Requests, Check(r) PROVE Refusal(r) \/ Passes(r) \/ Discloses(r)
  BY <1>1 DEF Check, Refusal, Refusals, Passes, Discloses
<1>2. ASSUME NEW r \in Requests, CloseDelegation(r) PROVE Refusal(r) \/ TakesDelegation(r)
  BY <1>2 DEF CloseDelegation, Refusal, Refusals, TakesDelegation
<1>3. ASSUME NEW r \in Requests, JudgeMatter(r) PROVE Refusal(r) \/ JudgesOpen(r)
  BY <1>3 DEF JudgeMatter, Refusal, Refusals, JudgesOpen
<1>4. ASSUME NEW r \in Requests, WriteQuote(r) PROVE Refusal(r) \/ TakesMatter(r)
  BY <1>4 DEF WriteQuote, Refusal, Refusals, TakesMatter
<1>5. ASSUME NEW r \in Requests, Lost(r) PROVE Refusal(r)
  BY <1>5 DEF Lost, Refusal, Refusals
<1> QED BY <1>1, <1>2, <1>3, <1>4, <1>5 DEF Next, Step, Acts

\* What a need that is routed changes but for its route, and what it is then.
Routing(r) ==
    /\ step[r] = "route" /\ UNCHANGED <<clock, op, on, expires, began, over>>
    /\ Go(r, "begin") \/ Finish(r, "ELIGIBILITY_POLICY_NOT_CONFIGURED")
LEMMA NeedRouting ==
    ASSUME NEW r \in Requests, RouteNeed(r)
    PROVE  /\ Routing(r)
           /\ \E body \in Bodies :
                /\ routed' = [routed EXCEPT ![r] =
                     [body |-> body, route |-> IF Admits(body) THEN RouteOf(body) ELSE "none"]]
                /\ \/ Admits(body) /\ Go(r, "begin")
                   \/ ~Admits(body) /\ Finish(r, "ELIGIBILITY_POLICY_NOT_CONFIGURED")
BY DEF RouteNeed, Routing, Admits, RouteOf, FloorFor

----------------------------------------------------------------------------
(* Every part of the invariant is preserved. *)

\* Types, and a row is locked by a request about to commit about it.
LEMMA TypeOKStep == ASSUME Setting, IInv, Next PROVE TypeOK'
<1> USE DEF IInv, rows, Setting, TypeOK, Targets, Matching, Over, Windows, Delegations,
         Delegated, Consented, Pooled, Effective, Verdicts
<1>1. ASSUME NEW r \in Requests, AskDelegation(r) PROVE TypeOK'
  BY <1>1 DEF AskDelegation, Arrive, Goto
<1>2. ASSUME NEW r \in Requests, AskDelegated(r) PROVE TypeOK'
  BY <1>2 DEF AskDelegated, Arrive, Goto
<1>3. ASSUME NEW r \in Requests, AskInstitution(r) PROVE TypeOK'
  <2>1. CASE \E o \in Consented, w \in Consents : Arrive(r, o, w)
    BY <1>3, <2>1 DEF AskInstitution, Arrive, Goto
  <2>2. CASE \E w \in Grants : Arrive(r, "roster", w)
    BY <1>3, <2>2 DEF AskInstitution, Arrive, Goto
  <2> QED BY <1>3, <2>1, <2>2 DEF AskInstitution
<1>4. ASSUME NEW r \in Requests, AskQuote(r) PROVE TypeOK'
  BY <1>4 DEF AskQuote, Arrive, Goto
<1>5. ASSUME NEW r \in Requests, Begin(r) PROVE TypeOK'
  BY <1>5 DEF Begin, Go, Goto
<1>6. ASSUME NEW r \in Requests, Refusal(r) PROVE TypeOK'
  BY <1>6 DEF Refusal, Refusals, Finish, Answer, Goto, Local
<1>7. ASSUME NEW r \in Requests, Passes(r) PROVE TypeOK'
  BY <1>7 DEF Passes, Go, Goto, Local
<1>8. ASSUME NEW r \in Requests, Discloses(r) PROVE TypeOK'
  BY <1>8 DEF Discloses, Finish, Answer, Goto, Local
<1>9. ASSUME NEW r \in Requests, ReadRoster(r) PROVE TypeOK'
  BY <1>9 DEF ReadRoster, Finish, Answer, Goto, Local
<1>10. ASSUME NEW r \in Requests, TakesDelegation(r) PROVE TypeOK'
  BY <1>10 DEF TakesDelegation, Take, Free, StillOpen, Goto, Local
<1>11. ASSUME NEW r \in Requests, JudgesOpen(r) PROVE TypeOK'
  BY <1>11 DEF JudgesOpen, Go, Goto, Local
<1>12. ASSUME NEW r \in Requests, TakesMatter(r) PROVE TypeOK'
  BY <1>12 DEF TakesMatter, Take, Free, JudgedByWriter, Goto, Local
<1>13. ASSUME NEW r \in Requests, Commit(r) PROVE TypeOK'
  <2>1. Outcome(op[r]) \in Verdicts
    BY <1>13 DEF Commit, Outcome
  <2>2. /\ step' = [step EXCEPT ![r] = "done"] /\ answer' = [answer EXCEPT ![r] = Outcome(op[r])]
        /\ owner' = [x \in DOMAIN owner |-> IF owner[x] = r THEN None ELSE owner[x]]
    BY <1>13 DEF Commit, Answer, Goto
  <2>3. delegation' \in [Delegations -> {"NONE", "OPEN", "ENDED"}]
    BY <1>13 DEF Commit
  <2> HIDE DEF Verdicts
  <2>4. answer' \in [Requests -> Verdicts]
    BY <2>1, <2>2
  <2>5. UNCHANGED <<clock, revoked, matter, op, on, expires, routed, began, over>>
    BY <1>13 DEF Commit, Local
  <2> QED BY <2>2, <2>3, <2>4, <2>5
<1>14. ASSUME NEW m \in Matters, CloseMatter(m) PROVE TypeOK'
  BY <1>14 DEF CloseMatter, Free
<1>15. ASSUME NEW w \in Windows, Revoke(w) PROVE TypeOK'
  BY <1>15 DEF Revoke
<1>16. ASSUME Tick PROVE TypeOK'
  BY <1>16 DEF Tick
<1>17. ASSUME NEW r \in Requests, RouteNeed(r) PROVE TypeOK'
  <2>1. PICK body \in Bodies : routed' = [routed EXCEPT ![r] =
          [body |-> body, route |-> IF Admits(body) THEN RouteOf(body) ELSE "none"]]
    BY <1>17, NeedRouting
  <2>2. RouteOf(body) \in Routes /\ "none" \in Routes
    BY DEF RouteOf, Decide, Routes
  <2>3. routed' \in [Requests -> {None} \cup [body : Bodies, route : Routes]]
    BY <2>1, <2>2
  <2>4. Routing(r)
    BY <1>17, NeedRouting
  <2>5. CASE Go(r, "begin")
    BY <2>3, <2>4, <2>5 DEF Routing, Go, Goto
  <2>6. CASE Finish(r, "ELIGIBILITY_POLICY_NOT_CONFIGURED")
    BY <2>3, <2>4, <2>6 DEF Routing, Finish, Answer, Goto
  <2> QED BY <2>4, <2>5, <2>6 DEF Routing
<1> QED BY <1>1, <1>2, <1>3, <1>4, <1>5, <1>6, <1>7, <1>8, <1>9, <1>10, <1>11, <1>12,
     <1>13, <1>14, <1>15, <1>16, <1>17, NextCases DEF Acts

\* A delegation appears with the commit of its request.
LEMMA OpenedStep == ASSUME Setting, IInv, Next PROVE Opened'
<1> USE DEF IInv, rows, TypeOK, Opened, Targets, Matching, Delegations
<1>1. ASSUME NEW r \in Requests, AskDelegation(r) PROVE Opened'
  BY <1>1 DEF AskDelegation, Arrive, Goto
<1>2. ASSUME NEW r \in Requests, AskDelegated(r) PROVE Opened'
  BY <1>2 DEF AskDelegated, Arrive, Goto, Delegated, Pooled
<1>3. ASSUME NEW r \in Requests, AskInstitution(r) PROVE Opened'
  BY <1>3 DEF AskInstitution, Arrive, Goto, Consented, Pooled
<1>4. ASSUME NEW r \in Requests, AskQuote(r) PROVE Opened'
  BY <1>4 DEF AskQuote, Arrive, Goto, Pooled
<1>5. ASSUME NEW r \in Requests, Begin(r) PROVE Opened'
  BY <1>5 DEF Begin, Go, Goto
<1>6. ASSUME NEW r \in Requests, Refusal(r) PROVE Opened'
  BY <1>6 DEF Refusal, Refusals, Finish, Answer, Goto, Local
<1>7. ASSUME NEW r \in Requests, Passes(r) PROVE Opened'
  BY <1>7 DEF Passes, Go, Goto, Local
<1>8. ASSUME NEW r \in Requests, Discloses(r) PROVE Opened'
  BY <1>8 DEF Discloses, Finish, Answer, Goto, Local
<1>9. ASSUME NEW r \in Requests, ReadRoster(r) PROVE Opened'
  BY <1>9 DEF ReadRoster, Finish, Answer, Goto, Local
<1>10. ASSUME NEW r \in Requests, TakesDelegation(r) PROVE Opened'
  BY <1>10 DEF TakesDelegation, Take, Free, StillOpen, Goto, Local
<1>11. ASSUME NEW r \in Requests, JudgesOpen(r) PROVE Opened'
  BY <1>11 DEF JudgesOpen, Go, Goto, Local
<1>12. ASSUME NEW r \in Requests, TakesMatter(r) PROVE Opened'
  BY <1>12 DEF TakesMatter, Take, Free, JudgedByWriter, Goto, Local
<1>13. ASSUME NEW r \in Requests, Commit(r) PROVE Opened'
  BY <1>13 DEF Commit, Outcome, Answer, Goto, Local
<1>14. ASSUME NEW m \in Matters, CloseMatter(m) PROVE Opened'
  BY <1>14 DEF CloseMatter, Free
<1>15. ASSUME NEW w \in Windows, Revoke(w) PROVE Opened'
  BY <1>15 DEF Revoke
<1>16. ASSUME Tick PROVE Opened'
  BY <1>16 DEF Tick
<1>17. ASSUME NEW r \in Requests, RouteNeed(r) PROVE Opened'
  BY <1>17, NeedRouting DEF Routing, Go, Finish, Answer, Goto
<1> QED BY <1>1, <1>2, <1>3, <1>4, <1>5, <1>6, <1>7, <1>8, <1>9, <1>10, <1>11, <1>12,
     <1>13, <1>14, <1>15, <1>16, <1>17, NextCases DEF Acts

\* A request keeps its target, and a delegation never disappears.
LEMMA TargetsStep == ASSUME Setting, IInv, Next PROVE Targets'
<1> USE DEF IInv, rows, Setting, TypeOK, Opened, Targets, Matching, Delegated, Consented,
         Delegations, Windows, Pooled
<1>1. ASSUME NEW r \in Requests, AskDelegation(r) PROVE Targets'
  BY <1>1 DEF AskDelegation, Arrive, Goto
<1>2. ASSUME NEW r \in Requests, AskDelegated(r) PROVE Targets'
  BY <1>2 DEF AskDelegated, Arrive, Goto
<1>3. ASSUME NEW r \in Requests, AskInstitution(r) PROVE Targets'
  BY <1>3 DEF AskInstitution, Arrive, Goto
<1>4. ASSUME NEW r \in Requests, AskQuote(r) PROVE Targets'
  BY <1>4 DEF AskQuote, Arrive, Goto
<1>5. ASSUME NEW r \in Requests, Begin(r) PROVE Targets'
  BY <1>5 DEF Begin, Go, Goto
<1>6. ASSUME NEW r \in Requests, Refusal(r) PROVE Targets'
  BY <1>6 DEF Refusal, Refusals, Finish, Answer, Goto, Local
<1>7. ASSUME NEW r \in Requests, Passes(r) PROVE Targets'
  BY <1>7 DEF Passes, Go, Goto, Local
<1>8. ASSUME NEW r \in Requests, Discloses(r) PROVE Targets'
  BY <1>8 DEF Discloses, Finish, Answer, Goto, Local
<1>9. ASSUME NEW r \in Requests, ReadRoster(r) PROVE Targets'
  BY <1>9 DEF ReadRoster, Finish, Answer, Goto, Local
<1>10. ASSUME NEW r \in Requests, TakesDelegation(r) PROVE Targets'
  BY <1>10 DEF TakesDelegation, Take, Free, StillOpen, Goto, Local
<1>11. ASSUME NEW r \in Requests, JudgesOpen(r) PROVE Targets'
  BY <1>11 DEF JudgesOpen, Go, Goto, Local
<1>12. ASSUME NEW r \in Requests, TakesMatter(r) PROVE Targets'
  BY <1>12 DEF TakesMatter, Take, Free, JudgedByWriter, Goto, Local
<1>13. ASSUME NEW r \in Requests, Commit(r) PROVE Targets'
  BY <1>13 DEF Commit, Outcome, Answer, Goto, Local
<1>14. ASSUME NEW m \in Matters, CloseMatter(m) PROVE Targets'
  BY <1>14 DEF CloseMatter, Free
<1>15. ASSUME NEW w \in Windows, Revoke(w) PROVE Targets'
  BY <1>15 DEF Revoke
<1>16. ASSUME Tick PROVE Targets'
  BY <1>16 DEF Tick
<1>17. ASSUME NEW r \in Requests, RouteNeed(r) PROVE Targets'
  BY <1>17, NeedRouting DEF Routing, Go, Finish, Answer, Goto
<1> QED BY <1>1, <1>2, <1>3, <1>4, <1>5, <1>6, <1>7, <1>8, <1>9, <1>10, <1>11, <1>12,
     <1>13, <1>14, <1>15, <1>16, <1>17, NextCases DEF Acts

\* Every step belongs to its operation.
LEMMA MatchingStep == ASSUME Setting, IInv, Next PROVE Matching'
<1> USE DEF IInv, rows, Setting, TypeOK, Targets, Matching, Delegated, Consented, Pooled
<1>1. ASSUME NEW r \in Requests, AskDelegation(r) PROVE Matching'
  BY <1>1 DEF AskDelegation, Arrive, Goto
<1>2. ASSUME NEW r \in Requests, AskDelegated(r) PROVE Matching'
  BY <1>2 DEF AskDelegated, Arrive, Goto, Delegations
<1>3. ASSUME NEW r \in Requests, AskInstitution(r) PROVE Matching'
  BY <1>3 DEF AskInstitution, Arrive, Goto
<1>4. ASSUME NEW r \in Requests, AskQuote(r) PROVE Matching'
  BY <1>4 DEF AskQuote, Arrive, Goto
<1>5. ASSUME NEW r \in Requests, Begin(r) PROVE Matching'
  BY <1>5 DEF Begin, Go, Goto
<1>6. ASSUME NEW r \in Requests, Refusal(r) PROVE Matching'
  BY <1>6 DEF Refusal, Refusals, Finish, Answer, Goto, Local
<1>7. ASSUME NEW r \in Requests, Passes(r) PROVE Matching'
  BY <1>7 DEF Passes, Go, Goto, Local
<1>8. ASSUME NEW r \in Requests, Discloses(r) PROVE Matching'
  BY <1>8 DEF Discloses, Finish, Answer, Goto, Local
<1>9. ASSUME NEW r \in Requests, ReadRoster(r) PROVE Matching'
  BY <1>9 DEF ReadRoster, Finish, Answer, Goto, Local
<1>10. ASSUME NEW r \in Requests, TakesDelegation(r) PROVE Matching'
  BY <1>10 DEF TakesDelegation, Take, Free, StillOpen, Goto, Local
<1>11. ASSUME NEW r \in Requests, JudgesOpen(r) PROVE Matching'
  BY <1>11 DEF JudgesOpen, Go, Goto, Local
<1>12. ASSUME NEW r \in Requests, TakesMatter(r) PROVE Matching'
  BY <1>12 DEF TakesMatter, Take, Free, JudgedByWriter, Goto, Local
<1>13. ASSUME NEW r \in Requests, Commit(r) PROVE Matching'
  BY <1>13 DEF Commit, Outcome, Answer, Goto, Local
<1>14. ASSUME NEW m \in Matters, CloseMatter(m) PROVE Matching'
  BY <1>14 DEF CloseMatter, Free
<1>15. ASSUME NEW w \in Windows, Revoke(w) PROVE Matching'
  BY <1>15 DEF Revoke
<1>16. ASSUME Tick PROVE Matching'
  BY <1>16 DEF Tick
<1>17. ASSUME NEW r \in Requests, RouteNeed(r) PROVE Matching'
  <2>1. Routing(r)
    BY <1>17, NeedRouting
  <2>2. CASE Go(r, "begin")
    BY <2>1, <2>2 DEF Routing, Go, Goto
  <2>3. CASE Finish(r, "ELIGIBILITY_POLICY_NOT_CONFIGURED")
    BY <2>1, <2>3 DEF Routing, Finish, Answer, Goto
  <2> QED BY <2>1, <2>2, <2>3 DEF Routing
<1> QED BY <1>1, <1>2, <1>3, <1>4, <1>5, <1>6, <1>7, <1>8, <1>9, <1>10, <1>11, <1>12,
     <1>13, <1>14, <1>15, <1>16, <1>17, NextCases DEF Acts

\* Ends and revocations are final, and time does not go back.
LEMMA RecordedStep == ASSUME Setting, IInv, Next PROVE Recorded'
<1> USE DEF IInv, rows, Setting, TypeOK, Opened, Targets, Matching, Recorded, Over,
         Delegated, Consented, Pooled, Delegations, Windows
<1>1. ASSUME NEW r \in Requests, AskDelegation(r) PROVE Recorded'
  BY <1>1 DEF AskDelegation, Arrive, Goto
<1>2. ASSUME NEW r \in Requests, AskDelegated(r) PROVE Recorded'
  BY <1>2 DEF AskDelegated, Arrive, Goto
<1>3. ASSUME NEW r \in Requests, AskInstitution(r) PROVE Recorded'
  BY <1>3 DEF AskInstitution, Arrive, Goto
<1>4. ASSUME NEW r \in Requests, AskQuote(r) PROVE Recorded'
  BY <1>4 DEF AskQuote, Arrive, Goto
<1>5. ASSUME NEW r \in Requests, Begin(r) PROVE Recorded'
  BY <1>5 DEF Begin, Go, Goto
<1>6. ASSUME NEW r \in Requests, Refusal(r) PROVE Recorded'
  BY <1>6 DEF Refusal, Refusals, Finish, Answer, Goto, Local
<1>7. ASSUME NEW r \in Requests, Passes(r) PROVE Recorded'
  BY <1>7 DEF Passes, Go, Goto, Local
<1>8. ASSUME NEW r \in Requests, Discloses(r) PROVE Recorded'
  BY <1>8 DEF Discloses, Finish, Answer, Goto, Local
<1>9. ASSUME NEW r \in Requests, ReadRoster(r) PROVE Recorded'
  BY <1>9 DEF ReadRoster, Finish, Answer, Goto, Local
<1>10. ASSUME NEW r \in Requests, TakesDelegation(r) PROVE Recorded'
  BY <1>10 DEF TakesDelegation, Take, Free, StillOpen, Goto, Local
<1>11. ASSUME NEW r \in Requests, JudgesOpen(r) PROVE Recorded'
  BY <1>11 DEF JudgesOpen, Go, Goto, Local
<1>12. ASSUME NEW r \in Requests, TakesMatter(r) PROVE Recorded'
  BY <1>12 DEF TakesMatter, Take, Free, JudgedByWriter, Goto, Local
<1>13. ASSUME NEW r \in Requests, Commit(r) PROVE Recorded'
  BY <1>13 DEF Commit, Outcome, Answer, Goto, Local
<1>14. ASSUME NEW m \in Matters, CloseMatter(m) PROVE Recorded'
  BY <1>14 DEF CloseMatter, Free
<1>15. ASSUME NEW w \in Windows, Revoke(w) PROVE Recorded'
  BY <1>15 DEF Revoke
<1>16. ASSUME Tick PROVE Recorded'
  BY <1>16 DEF Tick
<1>17. ASSUME NEW r \in Requests, RouteNeed(r) PROVE Recorded'
  BY <1>17, NeedRouting DEF Routing, Go, Finish, Answer, Goto
<1> QED BY <1>1, <1>2, <1>3, <1>4, <1>5, <1>6, <1>7, <1>8, <1>9, <1>10, <1>11, <1>12,
     <1>13, <1>14, <1>15, <1>16, <1>17, NextCases DEF Acts

\* The check refuses what was over: Recorded says it still is.
LEMMA ClearedStep == ASSUME Setting, IInv, Next PROVE Cleared'
<1> USE DEF IInv, rows, Setting, TypeOK, Targets, Matching, Recorded, Cleared, Authorised,
         CitizenAuthority, WindowAuthority, InWindow, Windows, Delegations, Delegated,
         Consented, Pooled, Effective
<1>1. ASSUME NEW r \in Requests, AskDelegation(r) PROVE Cleared'
  BY <1>1 DEF AskDelegation, Arrive, Goto
<1>2. ASSUME NEW r \in Requests, AskDelegated(r) PROVE Cleared'
  BY <1>2 DEF AskDelegated, Arrive, Goto
<1>3. ASSUME NEW r \in Requests, AskInstitution(r) PROVE Cleared'
  BY <1>3 DEF AskInstitution, Arrive, Goto
<1>4. ASSUME NEW r \in Requests, AskQuote(r) PROVE Cleared'
  BY <1>4 DEF AskQuote, Arrive, Goto
<1>5. ASSUME NEW r \in Requests, Begin(r) PROVE Cleared'
  BY <1>5 DEF Begin, Go, Goto
<1>6. ASSUME NEW r \in Requests, Refusal(r) PROVE Cleared'
  BY <1>6 DEF Refusal, Refusals, Finish, Answer, Goto, Local
<1>7. ASSUME NEW r \in Requests, Passes(r) PROVE Cleared'
  BY <1>7 DEF Passes, Go, Goto, Local
<1>8. ASSUME NEW r \in Requests, Discloses(r) PROVE Cleared'
  BY <1>8 DEF Discloses, Finish, Answer, Goto, Local
<1>9. ASSUME NEW r \in Requests, ReadRoster(r) PROVE Cleared'
  BY <1>9 DEF ReadRoster, Finish, Answer, Goto, Local
<1>10. ASSUME NEW r \in Requests, TakesDelegation(r) PROVE Cleared'
  BY <1>10 DEF TakesDelegation, Take, Free, StillOpen, Goto, Local
<1>11. ASSUME NEW r \in Requests, JudgesOpen(r) PROVE Cleared'
  BY <1>11 DEF JudgesOpen, Go, Goto, Local
<1>12. ASSUME NEW r \in Requests, TakesMatter(r) PROVE Cleared'
  BY <1>12 DEF TakesMatter, Take, Free, JudgedByWriter, Goto, Local
<1>13. ASSUME NEW r \in Requests, Commit(r) PROVE Cleared'
  BY <1>13 DEF Commit, Outcome, Answer, Goto, Local
<1>14. ASSUME NEW m \in Matters, CloseMatter(m) PROVE Cleared'
  BY <1>14 DEF CloseMatter, Free
<1>15. ASSUME NEW w \in Windows, Revoke(w) PROVE Cleared'
  BY <1>15 DEF Revoke
<1>16. ASSUME Tick PROVE Cleared'
  BY <1>16 DEF Tick
<1>17. ASSUME NEW r \in Requests, RouteNeed(r) PROVE Cleared'
  <2>1. Routing(r)
    BY <1>17, NeedRouting
  <2>2. CASE Go(r, "begin")
    BY <2>1, <2>2 DEF Routing, Go, Goto
  <2>3. CASE Finish(r, "ELIGIBILITY_POLICY_NOT_CONFIGURED")
    BY <2>1, <2>3 DEF Routing, Finish, Answer, Goto
  <2> QED BY <2>1, <2>2, <2>3 DEF Routing
<1> QED BY <1>1, <1>2, <1>3, <1>4, <1>5, <1>6, <1>7, <1>8, <1>9, <1>10, <1>11, <1>12,
     <1>13, <1>14, <1>15, <1>16, <1>17, NextCases DEF Acts

\* Nobody else writes a locked row.
LEMMA LockedStep == ASSUME Setting, IInv, Next PROVE Locked'
<1> USE DEF IInv, rows, Setting, TypeOK, Targets, Matching, Locked, Quotable, Delegated,
         Consented, Delegations
<1>1. ASSUME NEW r \in Requests, AskDelegation(r) PROVE Locked'
  BY <1>1 DEF AskDelegation, Arrive, Goto
<1>2. ASSUME NEW r \in Requests, AskDelegated(r) PROVE Locked'
  BY <1>2 DEF AskDelegated, Arrive, Goto, Pooled
<1>3. ASSUME NEW r \in Requests, AskInstitution(r) PROVE Locked'
  BY <1>3 DEF AskInstitution, Arrive, Goto, Pooled
<1>4. ASSUME NEW r \in Requests, AskQuote(r) PROVE Locked'
  BY <1>4 DEF AskQuote, Arrive, Goto, Pooled
<1>5. ASSUME NEW r \in Requests, Begin(r) PROVE Locked'
  BY <1>5 DEF Begin, Go, Goto
<1>6. ASSUME NEW r \in Requests, Refusal(r) PROVE Locked'
  BY <1>6 DEF Refusal, Refusals, Finish, Answer, Goto, Local
<1>7. ASSUME NEW r \in Requests, Passes(r) PROVE Locked'
  <2>1. op[r] \notin {"close", "quote"}
    <3>1. step[r] = "check"
      BY <1>7 DEF Passes
    <3>2. op[r] \in Delegated \cup Consented \cup Pooled
      BY <3>1
    <3> QED BY <3>2 DEF Pooled
  <2>2. UNCHANGED <<op, on, owner, delegation, matter>>
    BY <1>7 DEF Passes, Go, Local
  <2>3. \A q \in Requests \ {r} : step'[q] = step[q]
    BY <1>7 DEF Passes, Go, Goto
  <2> QED BY <2>1, <2>2, <2>3
<1>8. ASSUME NEW r \in Requests, Discloses(r) PROVE Locked'
  BY <1>8 DEF Discloses, Finish, Answer, Goto, Local
<1>9. ASSUME NEW r \in Requests, ReadRoster(r) PROVE Locked'
  BY <1>9 DEF ReadRoster, Finish, Answer, Goto, Local
<1>10. ASSUME NEW r \in Requests, TakesDelegation(r) PROVE Locked'
  BY <1>10 DEF TakesDelegation, Take, Free, StillOpen, Goto, Local
<1>11. ASSUME NEW r \in Requests, JudgesOpen(r) PROVE Locked'
  BY <1>11 DEF JudgesOpen, Go, Goto, Local
<1>12. ASSUME NEW r \in Requests, TakesMatter(r) PROVE Locked'
  BY <1>12 DEF TakesMatter, Take, Free, JudgedByWriter, Goto, Local
<1>13. ASSUME NEW r \in Requests, Commit(r) PROVE Locked'
  BY <1>13 DEF Commit, Outcome, Answer, Goto, Local
<1>14. ASSUME NEW m \in Matters, CloseMatter(m) PROVE Locked'
  BY <1>14 DEF CloseMatter, Free
<1>15. ASSUME NEW w \in Windows, Revoke(w) PROVE Locked'
  BY <1>15 DEF Revoke
<1>16. ASSUME Tick PROVE Locked'
  BY <1>16 DEF Tick
<1>17. ASSUME NEW r \in Requests, RouteNeed(r) PROVE Locked'
  BY <1>17, NeedRouting DEF Routing, Go, Finish, Answer, Goto
<1> QED BY <1>1, <1>2, <1>3, <1>4, <1>5, <1>6, <1>7, <1>8, <1>9, <1>10, <1>11, <1>12,
     <1>13, <1>14, <1>15, <1>16, <1>17, NextCases DEF Acts

\* A delegation that was closed is not opened again.
LEMMA ClosedStep == ASSUME Setting, IInv, Next PROVE Closed'
<1> USE DEF IInv, rows, Setting, TypeOK, Opened, Targets, Matching, Closed, Locked,
         Delegated, Consented, Delegations, Windows, Pooled
<1>1. ASSUME NEW r \in Requests, AskDelegation(r) PROVE Closed'
  BY <1>1 DEF AskDelegation, Arrive, Goto
<1>2. ASSUME NEW r \in Requests, AskDelegated(r) PROVE Closed'
  BY <1>2 DEF AskDelegated, Arrive, Goto
<1>3. ASSUME NEW r \in Requests, AskInstitution(r) PROVE Closed'
  <2>1. CASE \E o \in Consented, w \in Consents : Arrive(r, o, w)
    BY <1>3, <2>1 DEF AskInstitution, Arrive, Goto
  <2>2. CASE \E w \in Grants : Arrive(r, "roster", w)
    BY <1>3, <2>2 DEF AskInstitution, Arrive, Goto
  <2> QED BY <1>3, <2>1, <2>2 DEF AskInstitution
<1>4. ASSUME NEW r \in Requests, AskQuote(r) PROVE Closed'
  BY <1>4 DEF AskQuote, Arrive, Goto
<1>5. ASSUME NEW r \in Requests, Begin(r) PROVE Closed'
  BY <1>5 DEF Begin, Go, Goto
<1>6. ASSUME NEW r \in Requests, Refusal(r) PROVE Closed'
  BY <1>6 DEF Refusal, Refusals, Finish, Answer, Goto, Local
<1>7. ASSUME NEW r \in Requests, Passes(r) PROVE Closed'
  BY <1>7 DEF Passes, Go, Goto, Local
<1>8. ASSUME NEW r \in Requests, Discloses(r) PROVE Closed'
  BY <1>8 DEF Discloses, Finish, Answer, Goto, Local
<1>9. ASSUME NEW r \in Requests, ReadRoster(r) PROVE Closed'
  BY <1>9 DEF ReadRoster, Finish, Answer, Goto, Local
<1>10. ASSUME NEW r \in Requests, TakesDelegation(r) PROVE Closed'
  BY <1>10 DEF TakesDelegation, Take, Free, StillOpen, Goto, Local
<1>11. ASSUME NEW r \in Requests, JudgesOpen(r) PROVE Closed'
  BY <1>11 DEF JudgesOpen, Go, Goto, Local
<1>12. ASSUME NEW r \in Requests, TakesMatter(r) PROVE Closed'
  BY <1>12 DEF TakesMatter, Take, Free, JudgedByWriter, Goto, Local
<1>13. ASSUME NEW r \in Requests, Commit(r) PROVE Closed'
  BY <1>13 DEF Commit, Outcome, Answer, Goto, Local
<1>14. ASSUME NEW m \in Matters, CloseMatter(m) PROVE Closed'
  BY <1>14 DEF CloseMatter, Free
<1>15. ASSUME NEW w \in Windows, Revoke(w) PROVE Closed'
  BY <1>15 DEF Revoke
<1>16. ASSUME Tick PROVE Closed'
  BY <1>16 DEF Tick
<1>17. ASSUME NEW r \in Requests, RouteNeed(r) PROVE Closed'
  <2>1. Routing(r)
    BY <1>17, NeedRouting
  <2>2. CASE Go(r, "begin")
    BY <2>1, <2>2 DEF Routing, Go, Goto
  <2>3. CASE Finish(r, "ELIGIBILITY_POLICY_NOT_CONFIGURED")
    BY <2>1, <2>3 DEF Routing, Finish, Answer, Goto
  <2> QED BY <2>1, <2>2, <2>3 DEF Routing
<1> QED BY <1>1, <1>2, <1>3, <1>4, <1>5, <1>6, <1>7, <1>8, <1>9, <1>10, <1>11, <1>12,
     <1>13, <1>14, <1>15, <1>16, <1>17, NextCases DEF Acts

\* A request that closes a delegation has found it open.
LEMMA ClosedOnceStep == ASSUME Setting, IInv, Next PROVE ClosedOnce'
<1> USE DEF IInv, rows, Setting, TypeOK, Opened, Targets, Matching, Closed, Locked,
         ClosedOnce, Delegated, Consented, Delegations
<1>1. ASSUME NEW r \in Requests, AskDelegation(r) PROVE ClosedOnce'
  BY <1>1 DEF AskDelegation, Arrive, Goto
<1>2. ASSUME NEW r \in Requests, AskDelegated(r) PROVE ClosedOnce'
  BY <1>2 DEF AskDelegated, Arrive, Goto, Pooled
<1>3. ASSUME NEW r \in Requests, AskInstitution(r) PROVE ClosedOnce'
  <2>1. CASE \E o \in Consented, w \in Consents : Arrive(r, o, w)
    <3>1. PICK o \in Consented, w \in Consents : Arrive(r, o, w)
      BY <2>1
    <3>2. answer' = answer /\ began' = began /\ answer[r] = "none"
          /\ \A q \in Requests \ {r} : on'[q] = on[q]
      BY <3>1 DEF Arrive
    <3> QED BY <3>2
  <2>2. CASE \E w \in Grants : Arrive(r, "roster", w)
    BY <1>3, <2>2 DEF AskInstitution, Arrive, Goto
  <2> QED BY <1>3, <2>1, <2>2 DEF AskInstitution
<1>4. ASSUME NEW r \in Requests, AskQuote(r) PROVE ClosedOnce'
  BY <1>4 DEF AskQuote, Arrive, Goto, Pooled
<1>5. ASSUME NEW r \in Requests, Begin(r) PROVE ClosedOnce'
  BY <1>5 DEF Begin, Go, Goto
<1>6. ASSUME NEW r \in Requests, Refusal(r) PROVE ClosedOnce'
  BY <1>6 DEF Refusal, Refusals, Finish, Answer, Goto, Local
<1>7. ASSUME NEW r \in Requests, Passes(r) PROVE ClosedOnce'
  BY <1>7 DEF Passes, Go, Goto, Local
<1>8. ASSUME NEW r \in Requests, Discloses(r) PROVE ClosedOnce'
  BY <1>8 DEF Discloses, Finish, Answer, Goto, Local
<1>9. ASSUME NEW r \in Requests, ReadRoster(r) PROVE ClosedOnce'
  BY <1>9 DEF ReadRoster, Finish, Answer, Goto, Local
<1>10. ASSUME NEW r \in Requests, TakesDelegation(r) PROVE ClosedOnce'
  BY <1>10 DEF TakesDelegation, Take, Free, StillOpen, Goto, Local
<1>11. ASSUME NEW r \in Requests, JudgesOpen(r) PROVE ClosedOnce'
  BY <1>11 DEF JudgesOpen, Go, Goto, Local
<1>12. ASSUME NEW r \in Requests, TakesMatter(r) PROVE ClosedOnce'
  BY <1>12 DEF TakesMatter, Take, Free, JudgedByWriter, Goto, Local
<1>13. ASSUME NEW r \in Requests, Commit(r) PROVE ClosedOnce'
  BY <1>13 DEF Commit, Outcome, Answer, Goto, Local
<1>14. ASSUME NEW m \in Matters, CloseMatter(m) PROVE ClosedOnce'
  BY <1>14 DEF CloseMatter, Free
<1>15. ASSUME NEW w \in Windows, Revoke(w) PROVE ClosedOnce'
  BY <1>15 DEF Revoke
<1>16. ASSUME Tick PROVE ClosedOnce'
  BY <1>16 DEF Tick
<1>17. ASSUME NEW r \in Requests, RouteNeed(r) PROVE ClosedOnce'
  <2>1. Routing(r)
    BY <1>17, NeedRouting
  <2>2. CASE Go(r, "begin")
    BY <2>1, <2>2 DEF Routing, Go, Goto
  <2>3. CASE Finish(r, "ELIGIBILITY_POLICY_NOT_CONFIGURED")
    BY <2>1, <2>3 DEF Routing, Finish, Answer, Goto
  <2> QED BY <2>1, <2>2, <2>3 DEF Routing
<1> QED BY <1>1, <1>2, <1>3, <1>4, <1>5, <1>6, <1>7, <1>8, <1>9, <1>10, <1>11, <1>12,
     <1>13, <1>14, <1>15, <1>16, <1>17, NextCases DEF Acts

\* A request keeps what it says and its route, and a refusal for want of a floor
\* is an end.
LEMMA RoutedStep == ASSUME Setting, IInv, Next PROVE Routed'
<1> USE DEF IInv, rows, TypeOK, Matching, Routed
<1>1. ASSUME NEW r \in Requests, AskDelegation(r) PROVE Routed'
  BY <1>1 DEF AskDelegation, Arrive, Goto
<1>2. ASSUME NEW r \in Requests, AskDelegated(r) PROVE Routed'
  BY <1>2 DEF AskDelegated, Arrive, Goto
<1>3. ASSUME NEW r \in Requests, AskInstitution(r) PROVE Routed'
  BY <1>3 DEF AskInstitution, Arrive, Goto
<1>4. ASSUME NEW r \in Requests, AskQuote(r) PROVE Routed'
  BY <1>4 DEF AskQuote, Arrive, Goto
<1>5. ASSUME NEW r \in Requests, Begin(r) PROVE Routed'
  <2>1. UNCHANGED <<routed, answer>> /\ \A q \in Requests \ {r} : step'[q] = step[q]
    BY <1>5 DEF Begin, Go, Goto
  <2>2. step[r] = "begin" /\ op[r] # "none"
    BY <1>5 DEF Begin, Delegated, Consented
  <2>3. step'[r] \notin {"idle", "route"}
    <3>1. op[r] \in {"need", "grievance", "record", "verification", "open", "close", "quote"}
      BY <2>2 DEF Delegated, Consented
    <3>2. step'[r] = [need |-> "check", grievance |-> "check", record |-> "check",
              verification |-> "check", open |-> "commit", close |-> "close", quote |-> "judge"][op[r]]
      BY <1>5 DEF Begin, Go, Goto
    <3> QED BY <3>1, <3>2
  <2>4. routed[r] # None => Admits(routed[r].body)
    BY <2>2
  <2> QED BY <2>1, <2>2, <2>3, <2>4
<1>6. ASSUME NEW r \in Requests, Refusal(r) PROVE Routed'
  BY <1>6 DEF Refusal, Refusals, Finish, Answer, Goto, Local
<1>7. ASSUME NEW r \in Requests, Passes(r) PROVE Routed'
  BY <1>7 DEF Passes, Go, Goto, Local
<1>8. ASSUME NEW r \in Requests, Discloses(r) PROVE Routed'
  BY <1>8 DEF Discloses, Finish, Answer, Goto, Local
<1>9. ASSUME NEW r \in Requests, ReadRoster(r) PROVE Routed'
  BY <1>9 DEF ReadRoster, Finish, Answer, Goto, Local
<1>10. ASSUME NEW r \in Requests, TakesDelegation(r) PROVE Routed'
  BY <1>10 DEF TakesDelegation, Goto, Local
<1>11. ASSUME NEW r \in Requests, JudgesOpen(r) PROVE Routed'
  BY <1>11 DEF JudgesOpen, Go, Goto, Local
<1>12. ASSUME NEW r \in Requests, TakesMatter(r) PROVE Routed'
  BY <1>12 DEF TakesMatter, Goto, Local
<1>13. ASSUME NEW r \in Requests, Commit(r) PROVE Routed'
  BY <1>13 DEF Commit, Outcome, Answer, Goto, Local
<1>14. ASSUME NEW m \in Matters, CloseMatter(m) PROVE Routed'
  BY <1>14 DEF CloseMatter
<1>15. ASSUME NEW w \in Windows, Revoke(w) PROVE Routed'
  BY <1>15 DEF Revoke
<1>16. ASSUME Tick PROVE Routed'
  BY <1>16 DEF Tick
<1>17. ASSUME NEW r \in Requests, RouteNeed(r) PROVE Routed'
  <2>1. PICK body \in Bodies :
          /\ routed' = [routed EXCEPT ![r] =
               [body |-> body, route |-> IF Admits(body) THEN RouteOf(body) ELSE "none"]]
          /\ \/ Admits(body) /\ Go(r, "begin")
             \/ ~Admits(body) /\ Finish(r, "ELIGIBILITY_POLICY_NOT_CONFIGURED")
    BY <1>17, NeedRouting
  <2>2. routed'[r].body = body /\ (Admits(body) => routed'[r].route = RouteOf(body))
    BY <2>1
  <2>3. ASSUME NEW q \in Requests, q # r
        PROVE  routed'[q] = routed[q] /\ step'[q] = step[q] /\ answer'[q] = answer[q]
    <3>1. CASE Go(r, "begin")
      BY <2>1, <2>3, <3>1 DEF Go, Goto
    <3>2. CASE Finish(r, "ELIGIBILITY_POLICY_NOT_CONFIGURED")
      BY <2>1, <2>3, <3>2 DEF Finish, Answer, Goto
    <3> QED BY <2>1, <3>1, <3>2
  <2>4. CASE Admits(body)
    <3>1. step'[r] = "begin" /\ answer'[r] = "none"
      BY <1>17, <2>1, <2>4 DEF RouteNeed, Go, Goto
    <3> QED BY <2>2, <2>3, <2>4, <3>1
  <2>5. CASE ~Admits(body)
    <3>1. step'[r] = "done" /\ answer'[r] = "ELIGIBILITY_POLICY_NOT_CONFIGURED"
      <4>1. step' = [step EXCEPT ![r] = "done"]
            /\ answer' = [answer EXCEPT ![r] = "ELIGIBILITY_POLICY_NOT_CONFIGURED"]
        BY <2>1, <2>5 DEF Finish, Answer, Goto
      <4> QED BY <4>1
    <3> QED BY <2>2, <2>3, <2>5, <3>1
  <2> QED BY <2>4, <2>5
<1> QED BY <1>1, <1>2, <1>3, <1>4, <1>5, <1>6, <1>7, <1>8, <1>9, <1>10, <1>11, <1>12,
     <1>13, <1>14, <1>15, <1>16, <1>17, NextCases DEF Acts

----------------------------------------------------------------------------
(* The theorems. *)

LEMMA Initially == ASSUME Setting, Init PROVE IInv
<1> USE DEF Init, Setting, Windows, Delegations
<1>1. TypeOK
  BY DEF TypeOK, Verdicts
<1>2. Opened /\ Targets /\ Matching
  BY DEF Opened, Targets, Matching, Delegated, Consented
<1>3. Recorded /\ Cleared /\ Locked
  BY DEF Recorded, Cleared, Locked, Effective
<1>4. Closed /\ ClosedOnce
  BY DEF Closed, ClosedOnce
<1>5. Routed
  BY DEF Routed
<1> QED BY <1>1, <1>2, <1>3, <1>4, <1>5 DEF IInv

LEMMA Stuttering == ASSUME IInv, UNCHANGED vars PROVE IInv'
<1>1. /\ UNCHANGED <<clock, delegation, revoked, matter, owner, op, on, expires, routed>>
      /\ UNCHANGED <<step, began, over, answer>>
  BY DEF vars, rows
<1>2. TypeOK' /\ Opened' /\ Targets' /\ Matching'
  BY <1>1 DEF IInv, TypeOK, Opened, Targets, Matching
<1>3. Recorded' /\ Cleared' /\ Locked'
  BY <1>1 DEF IInv, Recorded, Cleared, Locked, Quotable
<1>4. Closed' /\ ClosedOnce'
  BY <1>1 DEF IInv, Closed, ClosedOnce
<1>5. Routed'
  BY <1>1 DEF IInv, Routed
<1> QED BY <1>2, <1>3, <1>4, <1>5 DEF IInv

\* The invariant is inductive, for every value of the constants.
THEOREM AuthorityInvariant == ASSUME Setting PROVE Spec => []IInv
<1>1. Init => IInv
  BY Initially
<1>2. IInv /\ [Next]_vars => IInv'
  <2>1. ASSUME IInv, Next PROVE IInv'
    BY <2>1, TypeOKStep, OpenedStep, TargetsStep, MatchingStep, RecordedStep,
       ClearedStep, LockedStep, ClosedStep, ClosedOnceStep, RoutedStep DEF IInv
  <2> QED BY <2>1, Stuttering
<1> QED BY <1>1, <1>2, PTL DEF Spec

\* Every variable keeps its type, for any number of requests and any windows.
THEOREM AuthorityTypeCorrect == ASSUME Setting PROVE Spec => []TypeOK
<1>1. IInv => TypeOK
  BY DEF IInv
<1> QED BY <1>1, AuthorityInvariant, PTL

\* However many requests, delegations, consents and grants there are, nothing
\* is written or disclosed (assertCitizenAuthority, assertInstitutionalConsent,
\* assertInstitutionalRosterGrant) under an authority that was over.
THEOREM NoLateAuthority == ASSUME Setting PROVE Spec => []NothingAfterTheEnd
<1>1. IInv => NothingAfterTheEnd
  BY DEF IInv, Cleared, NothingAfterTheEnd
<1> QED BY <1>1, AuthorityInvariant, PTL

\* One request closes a delegation, after it was opened (close-delegation route).
THEOREM DelegationsClosedOnce == ASSUME Setting PROVE Spec => []ClosedOnce
<1>1. IInv => ClosedOnce
  BY DEF IInv
<1> QED BY <1>1, AuthorityInvariant, PTL

\* create_payment_quote commits on a matter that is open and paid, whatever
\* happened since the route judged it.
THEOREM QuotesAreOnOpenMatters == ASSUME Setting PROVE Spec => QuotesOnOpenMatters
<1>1. ASSUME IInv, Next, NEW r \in Requests, answer[r] # "quote", answer'[r] = "quote"
      PROVE  Quotable(on[r])
  <2>1. TypeOK /\ Matching /\ Locked
    BY <1>1 DEF IInv
  <2>2. PICK q \in Requests : Acts(q)
    BY <1>1, NextCases DEF CloseMatter, Revoke, Tick
  <2>3. q = r /\ step[r] = "commit" /\ op[r] = "quote"
    <3>1. CASE Commit(q)
      BY <3>1, <1>1, <2>1 DEF TypeOK, Matching, Commit, Outcome, Answer, Delegated, Consented
    <3>2. CASE AskDelegation(q) \/ AskDelegated(q) \/ AskInstitution(q) \/ AskQuote(q) \/ Begin(q)
      BY <3>2, <1>1 DEF AskDelegation, AskDelegated, AskInstitution, AskQuote, Arrive, Begin, Go
    <3>3. CASE Refusal(q)
      BY <3>3, <1>1, <2>1 DEF TypeOK, Refusal, Refusals, Finish, Answer
    <3>4. CASE Discloses(q) \/ ReadRoster(q)
      <4>1. answer' = [answer EXCEPT ![q] = "disclosed"]
        BY <3>4 DEF Discloses, ReadRoster, Finish, Answer
      <4> QED BY <4>1, <1>1, <2>1 DEF TypeOK
    <3>5. CASE Passes(q) \/ TakesDelegation(q) \/ JudgesOpen(q) \/ TakesMatter(q)
      BY <3>5, <1>1 DEF Passes, TakesDelegation, JudgesOpen, TakesMatter, Go
    <3>6. CASE RouteNeed(q)
      BY <3>6, <1>1, <2>1, NeedRouting DEF TypeOK, Routing, Go, Finish, Answer
    <3> QED BY <2>2, <3>1, <3>2, <3>3, <3>4, <3>5, <3>6 DEF Acts
  <2> QED BY <2>1, <2>3 DEF Locked
<1>2. IInv /\ [Next]_vars =>
        [\A r \in Requests : answer[r] # "quote" /\ answer'[r] = "quote" => Quotable(on[r])]_vars
  BY <1>1
<1> QED BY <1>2, AuthorityInvariant, PTL DEF Spec, QuotesOnOpenMatters


\* FloorOf finds the floor that is meant, or none.
LEMMA FloorIsMeant ==
    ASSUME Setting, NEW body \in Bodies
    PROVE  FloorsMeant(body) = IF FloorFor(body) = None THEN {} ELSE {FloorFor(body)}
<1> DEFINE f == body.floors
<1>1. f \in [FloorKeys -> Amounts] /\ body.development \in BOOLEAN
  BY DEF Bodies
<1>2. DevelopmentFloor # None
  BY DEF Setting
<1>3. /\ MoreSpecific["code"] = {} /\ MoreSpecific["district"] = {"code"}
      /\ MoreSpecific["DEFAULT"] = {"code", "district"}
  BY DEF MoreSpecific
<1>4. FloorFor(body) =
        IF f["code"] # None THEN f["code"] ELSE IF f["district"] # None THEN f["district"]
        ELSE IF f["DEFAULT"] # None THEN f["DEFAULT"]
        ELSE IF body.development THEN DevelopmentFloor ELSE None
  BY DEF FloorFor, FloorOf
<1> HIDE DEF f
<1>5. ASSUME NEW a
      PROVE  a \in FloorsMeant(body) <=> a # None /\ a = FloorFor(body)
  <2>1. a \in FloorsMeant(body) <=>
          \/ \E k \in FloorKeys : a = f[k] /\ f[k] # None /\ \A j \in MoreSpecific[k] : f[j] = None
          \/ a = DevelopmentFloor /\ body.development /\ \A j \in FloorKeys : f[j] = None
    BY DEF FloorsMeant, f
  <2>2. a \in FloorsMeant(body) <=>
          \/ a = f["code"] /\ a # None
          \/ a = f["district"] /\ a # None /\ f["code"] = None
          \/ a = f["DEFAULT"] /\ a # None /\ f["code"] = None /\ f["district"] = None
          \/ /\ a = DevelopmentFloor /\ body.development
             /\ f["code"] = None /\ f["district"] = None /\ f["DEFAULT"] = None
    BY <1>3, <2>1 DEF FloorKeys
  <2> QED BY <1>2, <1>4, <2>2
<1> QED BY <1>5

\* Whatever amounts are configured and named, a need that is stored has the route
\* that is meant for it, and is refused only for want of a floor (POST /v1/needs
\* and decideEligibility); the rules of the grievance service and of its trigger
\* allow the same changes (canTransition).
THEOREM AuthorityRulesAgree == ASSUME Setting PROVE Spec => []RulesAgree
<1>1. ASSUME IInv, NEW r \in Requests, routed[r] # None, op[r] = "need"
      PROVE  RoutedAsMeant(r, routed[r].body, routed[r].route)
  <2> DEFINE body == routed[r].body
  <2>1. body \in Bodies
    BY <1>1 DEF IInv, TypeOK
  <2>2. /\ body.category \in Categories
        /\ FloorsMeant(body) = IF FloorFor(body) = None THEN {} ELSE {FloorFor(body)}
    BY <2>1, FloorIsMeant DEF Bodies
  <2>3. /\ answer[r] = "ELIGIBILITY_POLICY_NOT_CONFIGURED" => ~Admits(body)
        /\ answer[r] = "written" => Admits(body) /\ routed[r].route = RouteOf(body)
    BY <1>1 DEF IInv, Routed
  <2> HIDE DEF body
  <2>4. Admits(body) <=> body.category # "none" \/ body.ceiling = None \/ FloorFor(body) # None
    BY DEF Admits, Admitted
  <2>5. /\ RouteOf(body) = "LEGAL_AID_REFERRAL" <=> body.category # "none"
        /\ RouteOf(body) = "PRO_BONO_ROTATION" <=>
             /\ body.category = "none" /\ body.ceiling # None
             /\ FloorFor(body) # None /\ body.ceiling < FloorFor(body)
    BY DEF RouteOf, Decide
  <2>6. RoutedAsMeant(r, body, routed[r].route)
    BY <2>2, <2>3, <2>4, <2>5 DEF RoutedAsMeant, Categories
  <2> QED BY <2>6 DEF body
<1>2. ASSUME NEW from \in GrievanceStatuses, NEW to \in GrievanceStatuses, from # to
      PROVE  CanTransition(from, to) <=> TriggerAllows(from, to)
  BY <1>2 DEF CanTransition, TriggerAllows, GrievanceStatuses, Outcomes
<1>3. IInv => RulesAgree
  BY <1>1, <1>2 DEF RulesAgree
<1> QED BY <1>3, AuthorityInvariant, PTL
=============================================================================
