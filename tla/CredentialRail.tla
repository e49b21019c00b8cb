---------------------------- MODULE CredentialRail ----------------------------
(***************************************************************************)
(* The credential rail: source checks that open review cases, manual       *)
(* reviews, tier decisions, the policy registry and the worker that        *)
(* degrades expired tiers.  READ COMMITTED transactions, one action per    *)
(* statement that can wait; what a transaction does once it holds all its  *)
(* locks is one action with its COMMIT.  One clock serves the application  *)
(* and the database; all providers have one provider type.                 *)
(***************************************************************************)
EXTENDS CredentialDecision, FiniteSets

CONSTANTS
    Calls,      \* concurrent calls, each of which makes one call after another
    Providers,  \* provider rows
    Cases,      \* identities of verification_case rows
    Versions,   \* credential_policy rows of the provider type
    PolicyOf,   \* the immutable snapshot of each version
    Reviews,    \* manual reviews: [type, source, mode, result, validUntil]
    Outages,    \* unavailable sources: the same, mode MOCK or OFF
    Answers,    \* answers of a live authority adapter: the same, mode LIVE
    Window,     \* the trusted request window, 5 minutes
    BatchSize,  \* rows one worker run degrades at most
    MaxChecks, MaxClock,  \* bounds on the rows and on time
    None

ASSUME RailAssumption ==
    /\ BatchSize \in Nat \ {0} /\ Window \in Nat /\ MaxChecks \in Nat /\ MaxClock \in Nat
    /\ IsFiniteSet(Providers) /\ IsFiniteSet(Cases)
    /\ \A r \in Reviews \cup Outages \cup Answers : r.validUntil \in Nat \cup {NoDate}
    /\ None \notin Calls \cup Cases \cup Providers

VARIABLES
    clock,          \* now(), Date.now()
    active,         \* the active policy version
    provider,       \* tier, tier_decided_at, tier_expires_at of a provider
    case,           \* verification_case rows
    checks,         \* the verification_check rows of a case
    recorded,       \* the recorded_sequence identity column
    providerOwner,  \* provider FOR UPDATE
    caseOwner,      \* verification_case FOR UPDATE
    advisoryOwner,  \* pg_advisory_xact_lock on the provider id
    pc,             \* next statement of each call
    call            \* arguments and local variables of each call

rowVars == <<active, provider, case, checks, recorded>>
lockVars == <<providerOwner, caseOwner, advisoryOwner>>
vars == <<clock, rowVars, lockVars, pc, call>>

Tiers == {"SELF_DECLARED", "DOCUMENT_VERIFIED", "FULLY_VERIFIED"}
Dates == Nat \cup {NoDate}
Input == Reviews \cup Outages \cup Answers
Running == {"begin", "lockProvider", "recordReview", "preflight", "finalize",
            "lockAdvisory", "findCase", "createCase"}
NoDecision == NotFull("SELF_DECLARED", "NOT_DECIDED")
Unborn == [provider |-> None, status |-> "NONE", decision |-> NoDecision,
           decidedAt |-> NoDate, version |-> None]
Idle == [provider |-> None, case |-> None, input |-> None, at |-> NoDate,
         begun |-> NoDate, version |-> None, preflight |-> NoDecision]

TypeOK ==
    /\ clock \in Nat /\ active \in Versions /\ recorded \in Nat
    /\ provider \in [Providers -> [tier : Tiers, decidedAt : Dates, expiresAt : Dates]]
    /\ \A p \in Providers : provider[p].tier = "FULLY_VERIFIED" =>
          provider[p].expiresAt \in Nat /\ provider[p].expiresAt > provider[p].decidedAt
    /\ \A c \in Cases :
          /\ case[c].provider \in Providers \cup {None}
          /\ case[c].status \in {"NONE", "REVIEW_REQUIRED", "DECIDED"}
          /\ case[c].decidedAt \in Dates /\ case[c].version \in Versions \cup {None}
          /\ \A k \in checks[c] : k.seq \in 1 .. recorded
    /\ providerOwner \in [Providers -> Calls \cup {None}]
    /\ caseOwner \in [Cases -> Calls \cup {None}]
    /\ advisoryOwner \in [Providers -> Calls \cup {None}]
    /\ pc \in [Calls -> Running \cup {"idle"}]
    /\ \A t \in Calls :
          /\ call[t].provider \in Providers \cup {None}
          /\ call[t].case \in Cases \cup {None}
          /\ call[t].input \in Input \cup {None}

Init ==
    /\ clock = 1 /\ active \in Versions /\ recorded = 0
    /\ provider = [p \in Providers |->
          [tier |-> "SELF_DECLARED", decidedAt |-> NoDate, expiresAt |-> NoDate]]
    /\ case = [c \in Cases |-> Unborn]
    /\ checks = [c \in Cases |-> {}]
    /\ providerOwner = [p \in Providers |-> None]
    /\ caseOwner = [c \in Cases |-> None]
    /\ advisoryOwner = [p \in Providers |-> None]
    /\ pc = [t \in Calls |-> "idle"]
    /\ call = [t \in Calls |-> Idle]

(***************************************************************************)
(* Transactions                                                            *)
(***************************************************************************)
Goto(t, statement) == pc' = [pc EXCEPT ![t] = statement]

\* Definitions named Faulty... are mutations of the definition that follows
\* them, used by no other definition.  Row locks outlive the transaction.
FaultyReleased(t, owner) == owner

Released(t, owner) == [row \in DOMAIN owner |-> IF owner[row] = t THEN None ELSE owner[row]]

\* COMMIT or ROLLBACK: the locks go, and the slot is free for another call.
EndCall(t) ==
    /\ providerOwner' = Released(t, providerOwner)
    /\ caseOwner' = Released(t, caseOwner)
    /\ advisoryOwner' = Released(t, advisoryOwner)
    /\ Goto(t, "idle") /\ call' = [call EXCEPT ![t] = Idle]
    /\ UNCHANGED clock

Rollback(t) == EndCall(t) /\ UNCHANGED rowVars

Abort(t) == pc[t] \in Running /\ Rollback(t)

\* The status of the case is not asked for.
FaultyActiveCase(c, p) == case[c].provider = p

\* WHERE provider_id = $1 AND status = 'REVIEW_REQUIRED' AND decided_at IS NULL
ActiveCase(c, p) == case[c].provider = p /\ case[c].status = "REVIEW_REQUIRED"

\* The case is read without FOR UPDATE.
FaultyCaseFree(c) == TRUE

CaseFree(c) == caseOwner[c] = None

Check(t) ==
    LET i == call[t].input
    IN  [seq |-> recorded + 1, type |-> i.type, source |-> i.source, mode |-> i.mode,
         result |-> i.result, checkedAt |-> call[t].at, validUntil |-> i.validUntil]

InsertCheck(t, c) ==
    /\ recorded' = recorded + 1
    /\ checks' = [checks EXCEPT ![c] = @ \cup {Check(t)}]

\* The bound on checks: a call that inserts one starts while a row is left.
RowsLeft == recorded + Cardinality({t \in Calls : call[t].input # None}) < MaxChecks

StartCall(t, statement, arguments) ==
    /\ pc[t] = "idle"
    /\ Goto(t, statement)
    /\ call' = [call EXCEPT ![t] = arguments]
    /\ UNCHANGED <<clock, rowVars, lockVars>>

(***************************************************************************)
(* recordManualCredentialCheck and finalizeCredentialDecision              *)
(***************************************************************************)
\* reviewedAt = new Date() is taken when the call starts.
Review(t, p, c, r) ==
    /\ case[c].status # "NONE" /\ RowsLeft
    /\ StartCall(t, "lockProvider",
          [Idle EXCEPT !.provider = p, !.case = c, !.input = r, !.at = clock])

\* now = new Date() is taken when the call starts, before it has a connection.
Decide(t, p, c) ==
    /\ case[c].status # "NONE"
    /\ StartCall(t, "begin", [Idle EXCEPT !.provider = p, !.case = c, !.at = clock])

Begin(t) ==
    /\ pc[t] = "begin"
    /\ call' = [call EXCEPT ![t].begun = clock]
    /\ Goto(t, "lockProvider")
    /\ UNCHANGED <<clock, rowVars, lockVars>>

ManualReviewPermitted(p, r) ==
    /\ r.source \in DOMAIN p.sources /\ p.sources[r.source] = "MANUAL_DOCUMENT"
    /\ \/ r.type \in DOMAIN p.documents /\ r.source \in p.documents[r.type]
       \/ r.type = p.identity.type /\ r.source \in p.identity.allowed

\* SELECT ... FROM provider FOR UPDATE, then loadActiveCredentialPolicy, which
\* does not lock the policy.
LockProvider(t) ==
    /\ pc[t] = "lockProvider" /\ providerOwner[call[t].provider] = None
    /\ LET policy == PolicyOf[active]
           permitted == call[t].input = None \/ ManualReviewPermitted(policy, call[t].input)
       IN  IF ValidPolicy(policy) /\ permitted
           THEN /\ providerOwner' = [providerOwner EXCEPT ![call[t].provider] = t]
                /\ call' = [call EXCEPT ![t].version = active]
                /\ Goto(t, IF call[t].input = None THEN "preflight" ELSE "recordReview")
                /\ UNCHANGED <<clock, rowVars, caseOwner, advisoryOwner>>
           ELSE Rollback(t)

RecordReview(t) ==
    /\ pc[t] = "recordReview"
    /\ IF ActiveCase(call[t].case, call[t].provider)
       THEN /\ CaseFree(call[t].case)
            /\ InsertCheck(t, call[t].case)
            /\ EndCall(t) /\ UNCHANGED <<active, provider, case>>
       ELSE Rollback(t)

Preflight(t) ==
    /\ pc[t] = "preflight"
    /\ LET c == call[t].case
       IN  IF ActiveCase(c, call[t].provider)
           THEN /\ CaseFree(c)
                /\ caseOwner' = [caseOwner EXCEPT ![c] = t]
                /\ call' = [call EXCEPT ![t].preflight =
                      decideTierFromRecordedChecks(PolicyOf[call[t].version], checks[c], call[t].at)]
                /\ Goto(t, "finalize")
                /\ UNCHANGED <<clock, rowVars, providerOwner, advisoryOwner>>
           ELSE Rollback(t)

\* p_decided_at within five minutes of transaction_timestamp(), the BEGIN.
InWindow(t) == call[t].begun <= call[t].at + Window

\* The date of the decision is that of the statement, not p_decided_at.
FaultyDecidedTier(t, d) == [tier |-> d.tier, decidedAt |-> clock, expiresAt |-> d.expiry]

\* The freshness is counted from the statement, not from p_decided_at.
FaultyExpiry(t, d) ==
    [tier |-> d.tier, decidedAt |-> call[t].at,
     expiresAt |-> IF d.expiry = NoDate THEN NoDate ELSE clock + PolicyOf[active].freshness]

DecidedTier(t, d) == [tier |-> d.tier, decidedAt |-> call[t].at, expiresAt |-> d.expiry]

\* finalize_verification_case: the active policy is read FOR SHARE, and must
\* still be the version of the preflight; a decision that differs is thrown
\* away by the caller.
Finalize(t) ==
    /\ pc[t] = "finalize"
    /\ LET c == call[t].case
           d == finalizeOutcome(PolicyOf[active], checks[c], call[t].at)
       IN  IF /\ InWindow(t) /\ active = call[t].version
              /\ ActiveCase(c, call[t].provider) /\ d = call[t].preflight
           THEN /\ case' = [case EXCEPT ![c] =
                      [@ EXCEPT !.status = "DECIDED", !.decision = d,
                                !.decidedAt = call[t].at, !.version = active]]
                /\ provider' = [provider EXCEPT ![call[t].provider] = DecidedTier(t, d)]
                /\ EndCall(t) /\ UNCHANGED <<active, checks, recorded>>
           ELSE Rollback(t)

(***************************************************************************)
(* recordUnavailableSourceCheck                                            *)
(***************************************************************************)
SourceUnavailable(t, p, o) ==
    /\ RowsLeft
    /\ StartCall(t, "lockAdvisory", [Idle EXCEPT !.provider = p, !.input = o, !.at = clock])

\* A live current-authority adapter: none ships with the repository; it is
\* taken to record its answer the way an unavailable source is recorded.
AuthorityAnswers(t, p, a) ==
    /\ RowsLeft
    /\ StartCall(t, "lockAdvisory", [Idle EXCEPT !.provider = p, !.input = a, !.at = clock])

\* pg_advisory_xact_lock is not called.
FaultyAdvisoryFree(p) == TRUE

AdvisoryFree(p) == advisoryOwner[p] = None

LockAdvisory(t) ==
    /\ pc[t] = "lockAdvisory" /\ AdvisoryFree(call[t].provider)
    /\ advisoryOwner' = [advisoryOwner EXCEPT ![call[t].provider] = t]
    /\ Goto(t, "findCase")
    /\ UNCHANGED <<clock, rowVars, providerOwner, caseOwner, call>>

\* SELECT ... LIMIT 1 FOR UPDATE waits for the owner of an active case and then
\* looks at its status again.
FindCase(t) ==
    /\ pc[t] = "findCase"
    /\ IF \E c \in Cases : ActiveCase(c, call[t].provider)
       THEN \E c \in Cases :
              /\ ActiveCase(c, call[t].provider) /\ CaseFree(c)
              /\ InsertCheck(t, c)
              /\ EndCall(t) /\ UNCHANGED <<active, provider, case>>
       ELSE /\ Goto(t, "createCase")
            /\ UNCHANGED <<clock, rowVars, lockVars, call>>

\* INSERT INTO verification_case: its foreign key waits for provider FOR UPDATE;
\* verification_case_one_active_review refuses a second active case.  The bound
\* on cases: without an identity left the call is aborted, as Abort may do.
CreateCase(t) ==
    /\ pc[t] = "createCase" /\ providerOwner[call[t].provider] = None
    /\ IF \/ \E c \in Cases : ActiveCase(c, call[t].provider)
          \/ \A c \in Cases : case[c].status # "NONE"
       THEN Rollback(t)
       ELSE \E c \in Cases :
              /\ case[c].status = "NONE"
              /\ case' = [case EXCEPT ![c] =
                    [@ EXCEPT !.provider = call[t].provider, !.status = "REVIEW_REQUIRED"]]
              /\ InsertCheck(t, c)
              /\ EndCall(t) /\ UNCHANGED <<active, provider>>

(***************************************************************************)
(* The worker, the owner of the registry, and time                         *)
(***************************************************************************)
\* A tier that expires this very moment is left alone.
FaultyExpired(p) == provider[p].tier = "FULLY_VERIFIED" /\ provider[p].expiresAt < clock

Expired(p) == provider[p].tier = "FULLY_VERIFIED" /\ provider[p].expiresAt <= clock

\* degrade_expired_provider_tiers: ORDER BY tier_expires_at FOR UPDATE SKIP
\* LOCKED LIMIT p_batch_size.
Revalidate ==
    LET due == {p \in Providers : Expired(p) /\ providerOwner[p] = None}
    IN  \E batch \in SUBSET due :
          /\ batch # {} /\ Cardinality(batch) <= BatchSize
          /\ \A p \in batch, q \in due \ batch : provider[p].expiresAt <= provider[q].expiresAt
          /\ batch # due => Cardinality(batch) = BatchSize
          /\ provider' = [p \in Providers |-> IF p \in batch
                THEN [tier |-> "DOCUMENT_VERIFIED", decidedAt |-> clock, expiresAt |-> NoDate]
                ELSE provider[p]]
          /\ UNCHANGED <<clock, active, case, checks, recorded, lockVars, pc, call>>

\* The owner activates another reviewed version.
ActivatePolicy(v) ==
    /\ v # active /\ active' = v
    /\ UNCHANGED <<clock, provider, case, checks, recorded, lockVars, pc, call>>

Tick ==
    /\ clock < MaxClock /\ clock' = clock + 1
    /\ UNCHANGED <<rowVars, lockVars, pc, call>>

Start(t) ==
    \E p \in Providers :
        \/ \E c \in Cases : Decide(t, p, c) \/ \E r \in Reviews : Review(t, p, c, r)
        \/ \E o \in Outages : SourceUnavailable(t, p, o)
        \/ \E a \in Answers : AuthorityAnswers(t, p, a)

Statement(t) ==
    \/ Begin(t) \/ LockProvider(t) \/ RecordReview(t) \/ Preflight(t) \/ Finalize(t)
    \/ LockAdvisory(t) \/ FindCase(t) \/ CreateCase(t)

Next ==
    \/ \E t \in Calls : Start(t) \/ Statement(t) \/ Abort(t)
    \/ Revalidate \/ Tick
    \/ \E v \in Versions : ActivatePolicy(v)

Spec == Init /\ [][Next]_vars

(***************************************************************************)
(* Properties                                                              *)
(***************************************************************************)
(* The advisory lock makes find-or-create atomic: a call that found no case *)
(* in review inserts the only one, and never fails on the unique index      *)
(* (find-or-create-review-case.ts:7).                                       *)
CreationNeverRefused ==
    \A t \in Calls : pc[t] = "createCase" =>
        ~ \E c \in Cases : ActiveCase(c, call[t].provider)

(* Between the preflight and the database decision no check arrives: unless *)
(* the active policy changed, the database still decides what the preflight *)
(* decided (recompute-provider-tier.ts:204, 254).                           *)
PreflightHolds ==
    \A t \in Calls : pc[t] = "finalize" =>
        /\ ActiveCase(call[t].case, call[t].provider)
        /\ call[t].preflight =
              finalizeOutcome(PolicyOf[call[t].version], checks[call[t].case], call[t].at)

(* The evidence stored with a decision is the evidence it was made on: its  *)
(* checks, under its policy version and at its date, decide the same again  *)
(* (migration 004:126-147, decided cases and checks are immutable).         *)
DecisionReproducible ==
    \A c \in Cases : case[c].status = "DECIDED" =>
        case[c].decision = finalizeOutcome(PolicyOf[case[c].version], checks[c], case[c].decidedAt)

(* No later review, answer or decision changes a decided case or the checks *)
(* it was decided on.                                                       *)
DecisionsStand ==
    [][\A c \in Cases : case[c].status = "DECIDED" =>
          case'[c] = case[c] /\ checks'[c] = checks[c]]_vars

DecidedCases(p) == {c \in Cases : case[c].provider = p /\ case[c].status = "DECIDED"}

(* The full tier a directory shows now (tier_expires_at > now()) is one a   *)
(* decision on the same evidence would give now (intake-allocation.ts:272). *)
ShownTierEarned ==
    \A p \in Providers :
        provider[p].tier = "FULLY_VERIFIED" /\ provider[p].expiresAt > clock =>
            \E c \in DecidedCases(p) :
                decideTierFromRecordedChecks(PolicyOf[case[c].version],
                    Live(checks[c], case[c].decidedAt), clock).tier = "FULLY_VERIFIED"

(* The tier of a provider is that of its newest decision, or what the       *)
(* worker left when that decision expired; without a decision it is the     *)
(* tier it registered with.                                                 *)
TierFollowsDecisions ==
    \A p \in Providers :
        IF DecidedCases(p) = {}
        THEN provider[p].tier = "SELF_DECLARED"
        ELSE \E c \in DecidedCases(p) :
                /\ \A e \in DecidedCases(p) : case[e].decidedAt <= case[c].decidedAt
                /\ \/ /\ provider[p].tier = case[c].decision.tier
                      /\ provider[p].decidedAt = case[c].decidedAt
                      /\ provider[p].expiresAt = case[c].decision.expiry
                   \/ /\ case[c].decision.tier = "FULLY_VERIFIED"
                      /\ provider[p].tier = "DOCUMENT_VERIFIED"
                      /\ case[c].decision.expiry <= provider[p].decidedAt

(* The calls are served: PostgreSQL queues lock requests in their order, so *)
(* a lock that is free again and again is granted; connections may be lost. *)
(* The worker asks every minute for rows that are locked for milliseconds.  *)
FairSpec ==
    /\ Spec
    /\ \A t \in Calls : SF_vars(Statement(t))
    /\ SF_vars(Revalidate)

(* Every call commits or rolls back: the provider, case and advisory locks  *)
(* are taken in orders that cannot wait for each other.                     *)
EveryCallEnds == \A t \in Calls : pc[t] # "idle" ~> pc[t] = "idle"

(* Every full tier that expires is taken away or earned again, however long *)
(* the worker's batches are behind (docs/architecture.md).                  *)
ExpiredTiersDegrade ==
    \A p \in Providers :
        (provider[p].tier = "FULLY_VERIFIED" /\ ~(provider[p].expiresAt > clock))
            ~> (provider[p].tier = "FULLY_VERIFIED" => provider[p].expiresAt > clock)
==============================================================================
