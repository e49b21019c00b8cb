----------------------------- MODULE Authority -----------------------------
(***************************************************************************)
(* Writes and disclosures that need somebody's permission: an operator's   *)
(* delegation by a citizen, an institution's consent by a provider, its    *)
(* grant on a roster; payment quotes on a matter that can be closed; and   *)
(* how a need is routed from the floors that are configured.               *)
(*                                                                         *)
(* now() is the start of a transaction, and a query of the pool is a       *)
(* transaction of its own.  A request that opens a delegation names it.    *)
(***************************************************************************)
EXTENDS Naturals

CONSTANTS Requests,
          Earlier,            \* delegations opened before
          Consents, Grants,   \* institutional_consent and institutional_roster_grant rows
          From, Until,        \* their valid_from (0 for a grant) and expires_at
          Matters, Paid,      \* matter rows, those of them with eligibility route PAID
          None, MaxClock,     \* MaxClock bounds the clock
          MaxAmount, DevelopmentFloor   \* MaxAmount bounds the amounts of the rules

Delegations == Requests \cup Earlier

VARIABLES clock,
          delegation,     \* [Delegations -> {"NONE", "OPEN", "ENDED"}], committed
          revoked,        \* consents and grants with revoked_at
          matter,         \* [Matters -> {"OPEN", "CLOSED"}], committed
          owner,          \* [Delegations \cup Matters -> Requests \cup {None}], row locks
          op, on,         \* what a request does, and to what
          expires,        \* expiresAt of a quote
          routed,         \* of a need: what it says, the floors it met and its route
          step, began,    \* began: now() of the request's transaction
          over,           \* authorities that were over when the request began
          answer

rows == <<delegation, revoked, matter>>
vars == <<clock, rows, owner, op, on, expires, routed, step, began, over, answer>>

Windows == Consents \cup Grants
\* Operations of one transaction, and those of two queries of the pool.
Delegated == {"need", "grievance"}
Consented == {"record", "verification"}
Pooled == {"roster", "referral"}
Effective == {"written", "disclosed"}

Init ==
    /\ clock = 0 /\ revoked = {} /\ matter = [m \in Matters |-> "OPEN"]
    /\ delegation = [d \in Delegations |-> IF d \in Requests THEN "NONE" ELSE "OPEN"]
    /\ owner = [x \in Delegations \cup Matters |-> None]
    /\ op = [r \in Requests |-> "none"] /\ on = [r \in Requests |-> None]
    /\ expires = [r \in Requests |-> 0] /\ began = [r \in Requests |-> 0]
    /\ routed = [r \in Requests |-> None]
    /\ step = [r \in Requests |-> "idle"] /\ over = [r \in Requests |-> {}]
    /\ answer = [r \in Requests |-> "none"]

----------------------------------------------------------------------------
(* The authorities and the checks that read them. *)

InWindow(w, now) == From[w] <= now /\ now < Until[w]

\* Authorities nobody may act under any more, seen from outside.
Over == {d \in Delegations : delegation[d] = "ENDED"} \cup revoked
        \cup {w \in Windows : Until[w] <= clock}

\* assertCitizenAuthority, for an operator.
CitizenAuthority(d) == delegation[d] = "OPEN"
\* assertInstitutionalConsent and assertInstitutionalRosterGrant.
FaultyWindowAuthority(w, now) == InWindow(w, now)   \* without revoked_at IS NULL
WindowAuthority(w, now) == w \notin revoked /\ InWindow(w, now)

Authorised(r) ==
    IF on[r] \in Windows
    THEN WindowAuthority(on[r], IF op[r] \in Pooled THEN clock ELSE began[r])
    ELSE CitizenAuthority(on[r])

----------------------------------------------------------------------------
(* How POST /v1/needs routes a need, before its transaction. *)

Categories == {"none", "declared"}
Amounts == {None} \cup 0 .. MaxAmount   \* a fee ceiling or a floor, None when absent
FloorKeys == {"code", "district", "DEFAULT"}
Bodies == [category : Categories, ceiling : Amounts,
           floors : [FloorKeys -> Amounts], development : BOOLEAN]

\* The floor: of district and code, of the district, DEFAULT (joined by ??, which
\* takes 0 for a floor), and DevelopmentFloor (500) in development only.
FaultyFloorOf(floors, development) ==   \* joined by ||
    IF floors["code"] \notin {None, 0} THEN floors["code"]
    ELSE IF floors["district"] \notin {None, 0} THEN floors["district"]
    ELSE IF floors["DEFAULT"] \notin {None, 0} THEN floors["DEFAULT"]
    ELSE IF development THEN DevelopmentFloor ELSE None
FloorOf(floors, development) ==
    IF floors["code"] # None THEN floors["code"]
    ELSE IF floors["district"] # None THEN floors["district"]
    ELSE IF floors["DEFAULT"] # None THEN floors["DEFAULT"]
    ELSE IF development THEN DevelopmentFloor ELSE None

\* A need whose fee cannot be judged is refused; decideEligibility for the others.
Admitted(category, ceiling, floor) == category # "none" \/ ceiling = None \/ floor # None
Decide(category, ceiling, floor) ==
    IF category # "none" THEN "LEGAL_AID_REFERRAL"
    ELSE IF ceiling # None /\ floor # None /\ ceiling < floor THEN "PRO_BONO_ROTATION" ELSE "PAID"

----------------------------------------------------------------------------
(* Steps of a request. *)

Goto(r, next) == step' = [step EXCEPT ![r] = next]
\* The transaction ends with its locks.
Answer(r, what) ==
    /\ Goto(r, "done") /\ answer' = [answer EXCEPT ![r] = what]
    /\ owner' = [x \in DOMAIN owner |-> IF owner[x] = r THEN None ELSE owner[x]]
Finish(r, what) == Answer(r, what) /\ UNCHANGED rows
Go(r, next) == Goto(r, next) /\ UNCHANGED <<rows, owner, answer>>
Local == UNCHANGED <<clock, op, on, expires, routed, began, over>>

Arrive(r, o, x) ==
    /\ step[r] = "idle" /\ UNCHANGED <<clock, rows, owner, routed, began, answer>>
    /\ op' = [op EXCEPT ![r] = o] /\ on' = [on EXCEPT ![r] = x]
    /\ over' = [over EXCEPT ![r] = Over]
    /\ Goto(r, IF o \in Pooled THEN "check" ELSE IF o = "need" THEN "route" ELSE "begin")

AskDelegated(r) ==
    \E o \in Delegated \cup {"referral", "close"}, d \in Delegations :
        delegation[d] # "NONE" /\ Arrive(r, o, d) /\ UNCHANGED expires
AskInstitution(r) ==
    /\ \/ \E o \in Consented, w \in Consents : Arrive(r, o, w)
       \/ \E w \in Grants : Arrive(r, "roster", w)
    /\ UNCHANGED expires
AskDelegation(r) == Arrive(r, "open", r) /\ UNCHANGED expires
\* A quote whose expiry is in the future when the request is judged.
AskQuote(r) ==
    \E m \in Matters, e \in clock + 1 .. MaxClock + 1 :
        Arrive(r, "quote", m) /\ expires' = [expires EXCEPT ![r] = e]

RouteNeed(r) ==
    /\ step[r] = "route" /\ UNCHANGED <<clock, op, on, expires, began, over>>
    /\ \E body \in Bodies :
        LET floor == FloorOf(body.floors, body.development)
            admitted == Admitted(body.category, body.ceiling, floor)
        IN  /\ routed' = [routed EXCEPT ![r] =
                 [body |-> body,
                  route |-> IF admitted THEN Decide(body.category, body.ceiling, floor) ELSE "none"]]
            /\ \/ admitted /\ Go(r, "begin")
               \/ ~admitted /\ Finish(r, "ELIGIBILITY_POLICY_NOT_CONFIGURED")

Begin(r) ==
    /\ step[r] = "begin"
    /\ began' = [began EXCEPT ![r] = clock] /\ over' = [over EXCEPT ![r] = Over]
    /\ Go(r, [need |-> "check", grievance |-> "check", record |-> "check", verification |-> "check",
              open |-> "commit", close |-> "close", quote |-> "judge"][op[r]])
    /\ UNCHANGED <<clock, op, on, expires, routed>>

\* After the check the rows are written or read; the pooled operations have
\* no transaction to commit, and the referral has read its need before.
Check(r) ==
    /\ step[r] = "check" /\ Local
    /\ \/ ~Authorised(r) /\ Finish(r, "FORBIDDEN")
       \/ Authorised(r) /\ op[r] # "referral" /\ Go(r, IF op[r] = "roster" THEN "read" ELSE "commit")
       \/ Authorised(r) /\ op[r] = "referral" /\ Finish(r, "disclosed")
ReadRoster(r) == step[r] = "read" /\ Finish(r, "disclosed") /\ Local

\* A row lock is taken by an UPDATE or a SELECT ... FOR UPDATE.
Take(r, x) == owner' = [owner EXCEPT ![x] = r]

\* UPDATE operator_delegation ... WHERE ended_at IS NULL: the row is judged
\* once its lock is held.
Free(x) == owner[x] = None
StillOpen(r) == delegation[on[r]] = "OPEN"
CloseDelegation(r) ==
    /\ step[r] = "close" /\ Free(on[r]) /\ Local
    /\ \/ /\ StillOpen(r) /\ Take(r, on[r])
          /\ Goto(r, "commit") /\ UNCHANGED <<rows, answer>>
       \/ ~StillOpen(r) /\ Finish(r, "ACTIVE_DELEGATION_NOT_FOUND")

\* The route judges the matter without a lock, create_payment_quote again
\* on locked rows, and the table its expiry against now().
Quotable(m) == matter[m] = "OPEN" /\ m \in Paid
JudgeMatter(r) ==
    /\ step[r] = "judge" /\ Local
    /\ IF Quotable(on[r]) THEN Go(r, "quote") ELSE Finish(r, "NOT_QUOTABLE")
FaultyJudgedByWriter(r) == expires[r] > began[r]   \* trusting the route
JudgedByWriter(r) == Quotable(on[r]) /\ expires[r] > began[r]
WriteQuote(r) ==
    /\ step[r] = "quote" /\ Free(on[r]) /\ Local
    /\ \/ JudgedByWriter(r) /\ Take(r, on[r]) /\ Goto(r, "commit") /\ UNCHANGED <<rows, answer>>
       \/ ~JudgedByWriter(r) /\ Finish(r, "PAYMENT_QUOTE_REJECTED")

\* What the caller is told.
Outcome(o) == CASE o \in Delegated -> "written" [] o \in Consented -> "disclosed" [] OTHER -> o

Commit(r) ==
    /\ step[r] = "commit" /\ Answer(r, Outcome(op[r])) /\ Local /\ UNCHANGED <<revoked, matter>>
    /\ \/ op[r] = "open" /\ delegation' = [delegation EXCEPT ![r] = "OPEN"]
       \/ op[r] = "close" /\ delegation' = [delegation EXCEPT ![on[r]] = "ENDED"]
       \/ op[r] \notin {"open", "close"} /\ UNCHANGED delegation

Step(r) ==
    \/ RouteNeed(r) \/ Begin(r) \/ Check(r) \/ ReadRoster(r) \/ CloseDelegation(r)
    \/ JudgeMatter(r) \/ WriteQuote(r) \/ Commit(r)
Lost(r) == step[r] \notin {"idle", "done"} /\ Finish(r, "lost") /\ Local

----------------------------------------------------------------------------
(* The database owner, outside the API, and time. *)

CloseMatter(m) ==
    /\ Free(m) /\ matter' = [matter EXCEPT ![m] = "CLOSED"]
    /\ UNCHANGED <<clock, delegation, revoked, owner, op, on, expires, routed, step, began, over, answer>>
Revoke(w) ==
    /\ revoked' = revoked \cup {w}
    /\ UNCHANGED <<clock, delegation, matter, owner, op, on, expires, routed, step, began, over, answer>>
Tick ==
    /\ clock < MaxClock /\ clock' = clock + 1
    /\ UNCHANGED <<rows, owner, op, on, expires, routed, step, began, over, answer>>

Next ==
    \/ \E r \in Requests :
         \/ AskDelegation(r) \/ AskDelegated(r) \/ AskInstitution(r) \/ AskQuote(r)
         \/ Step(r) \/ Lost(r)
    \/ \E m \in Matters : CloseMatter(m)
    \/ \E w \in Windows : Revoke(w)
    \/ Tick

Spec == Init /\ [][Next]_vars

----------------------------------------------------------------------------
(* The changes of a grievance's status. *)

\* ALLOWED_TRANSITIONS, and the trigger of 003_grievance_state_machine.sql.
Outcomes == {"PLATFORM_RESOLVED", "REFERRED_TO_BAR_COUNCIL", "REFERRED_TO_DLSA"}
GrievanceStatuses == {"OPEN", "TRIAGED"} \cup Outcomes
CanTransition(from, to) ==
    to \in (CASE from = "OPEN" -> {"TRIAGED"} [] from = "TRIAGED" -> Outcomes [] OTHER -> {})
TriggerAllows(from, to) ==
    from = to \/ (from = "OPEN" /\ to = "TRIAGED") \/ (from = "TRIAGED" /\ to \in Outcomes)

----------------------------------------------------------------------------
(* Correctness. *)

Routes == {"none", "LEGAL_AID_REFERRAL", "PRO_BONO_ROTATION", "PAID"}

Verdicts == {"none", "lost", "FORBIDDEN", "ELIGIBILITY_POLICY_NOT_CONFIGURED", "written", "disclosed",
             "ACTIVE_DELEGATION_NOT_FOUND", "NOT_QUOTABLE", "PAYMENT_QUOTE_REJECTED",
             "open", "close", "quote"}

TypeOK ==
    /\ clock \in 0 .. MaxClock /\ revoked \subseteq Windows
    /\ delegation \in [Delegations -> {"NONE", "OPEN", "ENDED"}]
    /\ matter \in [Matters -> {"OPEN", "CLOSED"}]
    /\ owner \in [Delegations \cup Matters -> Requests \cup {None}]
    /\ op \in [Requests -> Delegated \cup Consented \cup Pooled \cup {"none", "open", "close", "quote"}]
    /\ on \in [Requests -> Delegations \cup Windows \cup Matters \cup {None}]
    /\ expires \in [Requests -> 0 .. MaxClock + 1] /\ began \in [Requests -> 0 .. MaxClock]
    /\ routed \in [Requests -> {None} \cup [body : Bodies, route : Routes]]
    /\ step \in [Requests -> {"idle", "route", "begin", "check", "read", "close", "judge", "quote", "commit", "done"}]
    /\ answer \in [Requests -> Verdicts]
    /\ over \in [Requests -> SUBSET (Delegations \cup Windows)]
    /\ \A x \in DOMAIN owner : owner[x] # None => step[owner[x]] = "commit" /\ on[owner[x]] = x

\* Nothing is written for a citizen, and no record, roster or referral is
\* disclosed, under an authority that was over when the transaction (for the
\* operations without one: the request) began.
NothingAfterTheEnd == \A r \in Requests : answer[r] \in Effective => on[r] \notin over[r]

\* A quote is created on a matter that is open and paid at that moment, also
\* when the matter was closed after the route had judged it.
QuotesOnOpenMatters ==
    [][\A r \in Requests : answer[r] # "quote" /\ answer'[r] = "quote" => Quotable(on[r])]_vars

\* A delegation is closed by one request only, and not before it was opened
\* (the table requires ended_at >= started_at, both starts of transactions).
ClosedOnce ==
    \A r \in Requests : answer[r] = "close" =>
        /\ on[r] \in Requests => began[on[r]] <= began[r]
        /\ \A q \in Requests \ {r} : answer[q] = "close" => on[q] # on[r]

\* The floor that is meant for a need: the amount at the most specific key that
\* has one, 0 included, and in development 500 when no key has one.
MoreSpecific == [code |-> {}, district |-> {"code"}, DEFAULT |-> {"code", "district"}]
FloorsMeant(body) ==
    {body.floors[k] : k \in {k \in FloorKeys :
        body.floors[k] # None /\ \A j \in MoreSpecific[k] : body.floors[j] = None}}
    \cup {f \in {DevelopmentFloor} : body.development /\ \A j \in FloorKeys : body.floors[j] = None}
RoutedAsMeant(r, body, route) ==
    LET judged == body.category = "none" /\ body.ceiling # None
    IN  /\ answer[r] = "ELIGIBILITY_POLICY_NOT_CONFIGURED" => judged /\ FloorsMeant(body) = {}
        /\ answer[r] = "written" => ~judged \/ FloorsMeant(body) # {}
        /\ answer[r] = "written" =>
             /\ route = "LEGAL_AID_REFERRAL" <=> body.category = "declared"
             /\ route = "PRO_BONO_ROTATION" <=>
                  judged /\ \E floor \in FloorsMeant(body) : body.ceiling < floor

\* Every need that is stored has the route that is meant for what it says: a
\* referral with a self-declared category whatever fee it names, the pro bono
\* rotation with a ceiling below the floor of its district and code; and one
\* that names a ceiling is refused exactly when no floor is configured for it.
\* Whatever becomes of a grievance that is filed: the service allows the
\* changes of its status that the trigger allows, and no other.
RulesAgree ==
    \A r \in Requests :
        /\ op[r] = "need" /\ routed[r] # None => RoutedAsMeant(r, routed[r].body, routed[r].route)
        /\ op[r] = "grievance" =>
             \A from, to \in GrievanceStatuses :
                from # to => (CanTransition(from, to) <=> TriggerAllows(from, to))
=============================================================================
