------------------------------ MODULE Services ------------------------------
(***************************************************************************)
(* The directory of a need, accounts, authorities, deployment and the web  *)
(* client beside each other: a step is a step of one of them, and leaves   *)
(* the others as they are.  (A lock of one can delay a statement of        *)
(* another, but no circle of them forms.)  The variables of two components *)
(* that have one name are told apart here.                                 *)
(***************************************************************************)
EXTENDS Directory

CONSTANTS Users, AccountCalls, SeededUsers, Codes,
          AuthorityRequests, Earlier, Consents, Grants, From, Until, Matters, Paid,
          MaxClock, MaxAmount, DevelopmentFloor,
          Instances, Setup, Files, MaxStarts, BatchSize, MaxExpiries,
          ClientCalls, ClientNeeds, Types, Bookings, FirstBooking, MaxTotal

\* Rows of different tables have different names, and no row is called None.
ASSUME ServicesAssumption ==
    /\ Users \cap AccountCalls = {} /\ "none" \notin Users \cup AccountCalls
    /\ MaxClock \in Nat /\ MaxAmount \in Nat /\ DevelopmentFloor \in Nat
    /\ From \in [Consents \cup Grants -> Nat] /\ Until \in [Consents \cup Grants -> Nat]
    /\ None \notin Nat \cup AuthorityRequests \cup ClientNeeds \cup Types \cup Bookings
    /\ (AuthorityRequests \cup Earlier) \cap (Consents \cup Grants) = {}
    /\ (AuthorityRequests \cup Earlier) \cap Matters = {}
    /\ (Consents \cup Grants) \cap Matters = {}
    /\ FirstBooking \in Bookings
    /\ Files \in Nat \ {0} /\ Setup \subseteq Instances

VARIABLES account, roles, profile, provider, session, locks, request, step, seen, answer,
          clock, delegation, revoked, matter, holder, deed, target, expires, routed, stage,
          began, over, verdict,
          effects, record, validated, granted, legacy, demo, phase, version, file, starts,
          plan, running, batch, stale, expiries,
          portal, loading, needResult, directory, selected, allocation, chosen, message, notice,
          total, calls, created, surfaced, assigned, booking, published, ledger

directoryVars == <<filterOf, surface, surfacedCount, passes, needOwner, counterOwner,
                   pc, need, filter, ordered, reply>>
accountVars == <<account, roles, profile, provider, session, locks, request, step, seen, answer>>
authorityVars == <<clock, delegation, revoked, matter, holder, deed, target, expires,
                   routed, stage, began, over, verdict>>
deploymentVars == <<effects, record, validated, granted, legacy, demo, phase, version, file,
                    starts, plan, running, batch, stale, expiries>>
clientVars == <<portal, loading, needResult, directory, selected, allocation, chosen, message,
                notice, total, calls, created, surfaced, assigned, booking, published, ledger>>
all == <<directoryVars, accountVars, authorityVars, deploymentVars, clientVars>>

Acc == INSTANCE Accounts WITH Calls <- AccountCalls
Aut == INSTANCE Authority WITH
           Requests <- AuthorityRequests, owner <- holder, op <- deed, on <- target,
           step <- stage, answer <- verdict
Dep == INSTANCE Deployment WITH step <- phase
Web == INSTANCE WebClient WITH Calls <- ClientCalls, Needs <- ClientNeeds, need <- needResult

StartServices == Init /\ Acc!Init /\ Aut!Init /\ Dep!Init /\ Web!Init

DirectoryStep == Next /\ UNCHANGED <<accountVars, authorityVars, deploymentVars, clientVars>>
AccountsStep == Acc!Next /\ UNCHANGED <<directoryVars, authorityVars, deploymentVars, clientVars>>
AuthorityStep == Aut!Next /\ UNCHANGED <<directoryVars, accountVars, deploymentVars, clientVars>>
DeploymentStep == Dep!Next /\ UNCHANGED <<directoryVars, accountVars, authorityVars, clientVars>>
ClientStep == Web!Next /\ UNCHANGED <<directoryVars, accountVars, authorityVars, deploymentVars>>
ServicesNext == DirectoryStep \/ AccountsStep \/ AuthorityStep \/ DeploymentStep \/ ClientStep

ServicesFairness ==
    /\ \A t \in Requests : WF_vars(Step(t)) /\ WF_vars(AbortDeadlocked(t))
    /\ Acc!Fairness /\ Dep!Fairness /\ Web!Fairness

Services == StartServices /\ [][ServicesNext]_all /\ ServicesFairness

----------------------------------------------------------------------------
(* The properties of the components.                                        *)

\* Each module's type invariant (of Directory: what holds while a list is
\* generated under the row lock of its need).
ServicesTypeOK == IInv /\ Acc!TypeOK /\ Aut!TypeOK /\ Dep!TypeOK

\* What can happen once is claimed by one caller: "your account was created",
\* "your session was revoked", "the delegation was closed".
ToldOnce == Acc!CreatedOnce /\ Acc!RevokedOnce /\ Aut!ClosedOnce

\* The rows of an account agree, whatever requests of one user interleave: one
\* provider row, of a user with the role; and for all but seeded accounts, a
\* provider has a citizen profile and ACTIVE goes with a profile, also in the
\* answer of GET /v1/me, put together from four reads.
AccountsAgree == Acc!OneProvider /\ Acc!ProfileGate

\* No disclosure and no write under an authority that was over before it began.
NothingAfterTheEnd == Aut!NothingAfterTheEnd
\* The route of every need that is stored, and the two writings of the
\* grievance rules.
RulesAgree == Aut!RulesAgree
\* A quote is created on a matter that is open and paid at that moment.
QuotesOnOpenMatters == Aut!QuotesOnOpenMatters

\* Every migration, and every set of demonstration rows, is applied once,
\* through crashes and beside other instances.
AppliedOnce == Dep!MigrationsAtomic /\ Dep!SeededOnce
\* deploy-setup lets no instance serve an incomplete schema.
ServesComplete == Dep!ServesComplete
\* A restart does not offer a decided booking again.
DecisionsSurvive == Dep!DecisionsSurvive
\* An expired tier does not wait for ever although batches fail.
BatchesGoOn == Dep!BatchesGoOn

\* One call at a time behind the buttons of the portal that is mounted.
OneAtATime == Web!OneAtATime
\* What a portal reports as done, late answers included, the server has done:
\* the confirmed consultation of the need on the screen, a booking that was
\* accepted or declined, a profile that was registered.
ShownStands == Web!ShownAllocationStands /\ Web!MessageStands

\* Nobody waits for ever: not the requests of a directory for the counters
\* of each other, not two updates of a provider for its services, and no
\* portal for an answer that is late or lost.
EverythingEnds == EveryRequestEnds /\ Acc!EveryCallAnswered /\ Web!LoadingEnds
=============================================================================
