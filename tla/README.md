# NyayaSetu backend: a TLA+ verification development

The backend is a Fastify service over PostgreSQL with a React client. Its
processes keep almost no state of their own: what matters is rows, and what can
go wrong is the order in which concurrent transactions read, lock and write
them, the order in which containers migrate, seed and start, and the order in
which late answers reach the browser. The modules here model those steps, TLC
checks them on small instances, and TLAPS proves the most important results for
every instance.

## The system

| Component | State | Operations | Interacts with |
|---|---|---|---|
| Intake (`routes/intake-allocation.ts`, `eligibility/domain/route.ts`) | `need_request`, `eligibility_decision` | `POST /v1/needs` computes and stores the route | allocation reads the route |
| Citizen directory (same file, `directory-order.ts`) | `need_request.directory_*`, `directory_surface`, `provider_surface_counter` | `GET /v1/needs/:id/directory` generates or replays | reads provider tier and status; selection reads the rows |
| Allocation (same file) | `allocation`, `roster_membership` | select, rotate | locks need, provider and roster rows |
| Scheduling and matters (`scheduling-matter.ts`, `locked-booking.ts`, migration 005) | `booking`, `matter`, `conduct_signal` | accept, decline, cancel; closing is 503; the triggers guard the owner | releases roster capacity, ends allocations |
| Ledger (`append-credit-event.ts`, `hash-chain.ts`, `append_credit_event`) | `credit_event`, `credit_balance` | append with serializable retry; exports | read by redemptions and institutional reports |
| Credential rail (`modules/credential`, migration 004, the worker) | `verification_case`, `verification_check`, `credential_policy`, `provider.tier` | record checks, finalise, degrade | decides who passes the filters of directory and roster |
| Accounts (`actor-context.ts`, `google-auth.ts`, `me.ts`, `citizen-profile.ts`, `identity-provider.ts`) | `account`, `role_grant`, `citizen_profile`, `auth_session`, `provider`, `provider_service` | sign-in, sign-out, profile, provider profile, services, `GET /v1/me` | the actor of every handler |
| Authority (`assert-*.ts`, `conduct-institutional.ts`) | `operator_delegation`, `institutional_consent`, `institutional_roster_grant` | open and close a delegation; needs, grievances, referrals, records and rosters under one | judged inside the transaction that relies on it |
| Settlement (`ledger-settlement.ts`, migration 006) | `payment_quote` | quotes; intents, webhooks and acknowledgements are 503 | reads matter and route |
| Conduct (`grievance-state.ts`, migration 003) | `grievance` | the state machine, written in TypeScript and as a trigger; no route makes a transition yet | filed under authority |
| Deployment (`migrate.ts`, `seed-dev.ts`, `deploy-setup.ts`, `start-production.js`, `bin/*.ts`) | schema, `schema_migration`, demonstration rows, processes | migrate, seed, validate, grant, verify, start; the worker's loop | everything runs on its result |
| Runtime role (`db/roles/runtime.sql`) | privileges | `REVOKE`, `GRANT` | every statement of the API |
| Web client (`frontend/src`) | the state of the mounted portal, calls in flight | buttons, fetches, answers, tabs | the API |

Hard behaviours: READ COMMITTED statements that wait and then see newer rows;
`SKIP LOCKED`; partial unique indexes as the last line of defence; foreign
keys that lock parents; deadlocks, which nothing retries; rollbacks at any
statement; one SERIALIZABLE writer with a bounded retry loop; `now()` fixed at
the start of a transaction; containers that seed again on every start and swallow
failures; answers that are late, lost or about something no longer shown.
`PROJECT.json` lists the hazards line by line.

What makes the components correct:

* allocation and scheduling: one active allocation per need, capacity taken and
  given back exactly once, booking, matter and allocation rows that agree, a
  conduct signal for each declined rotation, checks on locked rows that still hold
  at commit;
* directory: one generation per need, identical replays, a reproducible order,
  counters that equal the rows;
* ledger: a verifying, tamper-evident chain per provider, a balance that
  reconciles, at most one event per call, exports that stay true;
* credential rail: one active case per provider, decisions on the policy and
  checks that are current at commit, expiry that is honoured and degraded;
* accounts: one account per mailbox and one provider per user, rows that agree,
  what can happen once told to one caller;
* authority, settlement, conduct: nothing is written or disclosed under an
  authority that was over when the transaction began; a delegation closed once;
  quotes only for open paid matters; one grievance rule, not two;
* deployment: files applied once and recorded, demonstration rows once, decided
  bookings left alone, no incomplete schema served after `deploy-setup`, a worker
  that goes on after a failed batch;
* web client: one guarded request of the mounted portal at a time, a portal that
  is never left disabled, and consultations shown as confirmed that are. The
  provider portal shows more than was done: credits of a claim (`PortalClaims`),
  the reference of another booking and "Saved & Active" (see below).

## Modules

| Module | Models | State and actions |
|---|---|---|
| `AllocationLifecycle` | what selection, rotation, booking transitions and the owner's edits commit | columns of `allocation`, `booking`, `matter`, `roster_membership`, the signals; one action per operation |
| `AllocationTransactions` | the same endpoints statement by statement | adds row locks, unique-index waits, transactions with a program counter, crashes, the deadlock detector; implements `AllocationLifecycle` |
| `AllocationLifecycleProofs`, `AllocationTransactionsProofs` | theorems about the two | |
| `CreditLedger` | `appendCreditEvent`, its retry loop, `append_credit_event`, the exports | events, balance, id sequence, snapshots, attempts |
| `Directory` | the directory endpoint | persisted rows, counters, locks, transactions |
| `CredentialDecision` | the tier decision, in TypeScript and in SQL | constant-level operators named after the functions and their variables |
| `CredentialCase` | one case and its append-only checks | every list of answers, decided at every date |
| `CredentialRail` | `recordUnavailableSourceCheck`, `recordManualCredentialCheck`, `finalizeCredentialDecision`, the degradation worker | provider tier, cases, checks, active policy, clock, row and advisory locks, calls; extends `CredentialDecision` |
| `CredentialProofs` | theorems about the decision, the case and the rail | |
| `Accounts` | sign-in and sign-out, `/v1/me`, citizen and provider profiles, services | rows, row and key locks, calls with a program counter |
| `AccountsProofs` | theorems about accounts | |
| `Authority` | delegations, consents, roster grants, referrals, payment quotes; the route of a need with its fee floor; the grievance rules as operators | rows, windows, clock, row locks, requests |
| `AuthorityProofs` | theorems about authority | |
| `Deployment` | migration script, seed, deploy setup, server start, worker loop | schema, demonstration rows, instances, the worker |
| `DeploymentProofs` | theorems about deployment | |
| `RuntimeRole` | what the login of the API may execute | the statements of a request, one after the other |
| `WebClient` | the portals, their buttons and the calls in flight | React state, calls, a server that answers |
| `CreditLedgerProofs` | theorems about the ledger | |
| `Services` | directory, accounts, authority, deployment and web client beside each other | the variables of the five; a step is a step of one of them |
| `ServicesProofs` | theorems about the directory, the web client and `Services` | |
| `MC...` | instances for TLC | model values, symmetry, restricted specifications; `MCServices` and `MCCredential` put components that share no state into one run, one of them in each behaviour |

Conventions. A statement is one action when it can wait, and is merged into
its neighbours when it cannot. Uncommitted writes are kept with the
transaction and become visible in the commit action, except where another
statement can notice them (a unique index that waits, a counter row that is
locked). `FOR UPDATE` is an owner per row; the `FOR KEY SHARE` of a foreign key
is a set of holders, modelled where it takes part in a wait. A rollback is one
action; `Crash` and `Fail` apply it at any statement. The definitions named
`Faulty...` are mutations of the definition below them and occur in no action.

### Allocation and scheduling

`AllocationLifecycle` is the abstract specification: each committed operation
is one step whose guard is what the database must satisfy at the commit.
`AllocationTransactions` follows `POST /select`, `/rotate`, `/accept`,
`/decline` and `/cancel`. An allocation is named by the request that inserts
it, so both modules share the columns and the refinement mapping is the
identity on them. The rotation query takes two actions: `QueryRoster` sorts a
snapshot, `ScanRoster` walks it under `SKIP LOCKED`, locking the membership
before the provider and judging the locked row by its latest version.
`InsertAllocation` waits in `allocation_one_active_per_need` for a decline or a
cancellation that has updated the row and not committed.

No endpoint writes a booking (`POST /v1/bookings` is 503), closes a matter or
completes an allocation: `HoldBooking`, `CloseMatter` and `Complete` are what
the seed or the database owner may do under the triggers of migration 005.
Slots and their exclusion constraint are left out, which allows more bookings
than the code does.

What makes a provider eligible lies in three places, and they are kept apart
because the locks do not cover them alike. `passesUntil` is the provider row: the
filters on its own columns pass for a transaction that starts before that time
(`tier_expires_at` of a full tier, which both queries compare with `now()`; 0 for a
row that passes for none). `serves` is its `provider_service` rows: the needs whose
filter of fee and pro bono they pass. The third is time. `FOR UPDATE OF p` and
`OF rm, p` lock the provider (and the membership) only, and nothing a service
update does changes their version. So `QueryProvider` and `QueryRoster` judge
both rows in the statement's snapshot, and after a wait `LockProvider` and
`ScanRoster` recheck the locked rows alone (`RowPasses`): a service row that has
changed since, or a tier that expires while the transaction runs, does not stop the
assignment. `ChangeProvider` (a tier decision, a degradation, an edit) waits for the
row; `ChangeService` (`POST /v1/providers/:id/services`, the seed) does not.
`IInv` says what does hold at the commit: the locked rows pass for the time the request
started. The abstract specification asks no more either: its `eligible` is that
the provider row passes for some time (`passesUntil > 0`), and says nothing of fees.

### Ledger

An append takes its snapshot, waits for the balance row, fails with 40001 if
the row changed since the snapshot, draws an id, inserts and commits. `seen` is
the `last_event_id` of the snapshot; it stands for the version of the row
because every update changes it. Other serialization failures may strike any
attempt. A hash is the record of what it covers, so it has no collisions;
units, weight version and evidence reference are not covered by the code's
hash and are left out of it. Migration 002 gives every provider a zero balance
row with its profile, so the missing-head error is left out. `period_credits`
is updated exactly like `total_credits`; one variable stands for both.

### Directory

`LockNeed` refuses other filters, replays, or starts a generation;
`QueryCandidates` reads providers and counters without locks and orders them by
count, then by the seeded key (a constant that ranks the providers differently
for each need); `Surface` locks one counter row at a time in the order of the
list; `Commit` publishes everything. Locks other endpoints hold on provider
rows only delay the foreign keys of `directory_surface` and are left out.

### Credential rail

A decision is computed twice. `decideTierFromRecordedChecks` works on the rows
it read; `finalize_verification_case` queries them again, and the caller throws
the transaction away when the two differ in tier, reason or expiry.
`CredentialDecision` writes both down from their own source, side by side, and
states what they owe each other (`Agree`) and the reader (`FullUntilExpiry`,
`OnlyPolicyEvidence`). Dates are numbers. Lists whose order no code reads are
sets, and a policy is a record of functions from legs to allowed sources, which
cannot hold the duplicates that the parser and the database both refuse.

`CredentialRail` runs the calls against each other. A call takes its date when
it starts (`new Date()` in the argument list), gets its connection in `Begin`,
and then waits for the provider, for the case, or for the advisory lock and the
case. `Preflight` merges the lock on the case with the query of its checks:
nobody inserts a check without that lock, so nothing happens between the two.
`Finalize` is the database function, the comparison and the commit.
`Revalidate` is one run of the worker on at least one row.

Abstractions: one clock for the application and the database; one provider
type, so one active policy; actors are authorised, and a call that is refused
for its actor, its reference or a missing row is an `Abort`. The policy registry
is written by its owner alone (`config/credential-policy/README.md`), and the
repository ships no live adapter: `ActivatePolicy` and `AuthorityAnswers` are
external, and without the second no tier above `DOCUMENT_VERIFIED` is ever
reached. No route calls `recordManualCredentialCheck` and
`finalizeCredentialDecision` yet; they are modelled as the operations an
administrator may call at any time. Both accept a date from their caller; the
model uses the default.

### Accounts

A call is a program over one user: `SignInArrives` starts the OAuth callback,
`ActorArrives` judges session, role and the profile gate of the `onRequest` hook,
`AdminArrives` is the administrator on behalf of a user. Every statement that
can wait is an action; a transaction's writes are applied by `Commit`, and until
then others meet its locks: the key of an inserted row (`account.email`,
`role_grant`, `provider.user_id`, a service), a row locked `FOR UPDATE`, and the
KEY SHARE lock of a foreign key. `GET /v1/me` takes its status on arrival and
runs three queries on other connections, in any order. `Exchange` is the
identity provider, whose answers are an input. `Lost` is a connection that
breaks at any statement.

The actor is resolved when a request arrives; a session revoked afterwards does
not stop it, and no code promises that it would. A session carries no expiry
here (its end is one of the reasons for which no session is found), and
`IDENTITY_MODE=header` is left out.

Not every row comes from an endpoint. On every start `seed-dev.ts` creates users
that are `ACTIVE` with one role and no `citizen_profile` (lines 78-92) and providers
of such users (224-249), and the database owner may grant roles by hand.
`SeededUsers` are the users with such rows, and `Init` lets them start in any
combination of status, roles, profile and provider that the tables allow; for the
others it is what the endpoints leave behind. `POST /v1/providers` accepts any
`PROVIDER` grant, so a seeded user becomes a provider without a citizen profile.
`OneProvider` therefore promises one row, with the role, to everybody, and the citizen
profile only to users that are not seeded; `ProfileGate` promises that a
profile makes its account `ACTIVE` to everybody, and the converse to users that are not
seeded.

### Authority and settlement

One module, because one question is asked of all: is an authority that is over
still acted on? `Begin` fixes `now()`; an operation of the pool (`roster`,
`referral`) is a transaction per query. `over` is a history variable, the
authorities that had ended when the transaction (without one: the request)
began. A grant or consent is a row with a window, a `Revoke` of the database
owner may come at any time. A quote is judged twice: by the route on an unlocked
matter (`JudgeMatter`), and by `create_payment_quote` on a locked one
(`WriteQuote`).

`RouteNeed` is what `POST /v1/needs` does before its transaction, for any body: the
floor is that of district and code, of the district, or `DEFAULT`, joined by `??`,
and `DevelopmentFloor` in development (`FloorOf`); a need that names a ceiling and
meets no floor is refused (`Admitted`); the others get their route (`Decide`).
`routed` remembers the body and the route. `RulesAgree` compares them with what is
meant, written another way: the floor of the most specific key that has one, 0
included (`FloorsMeant`). `CanTransition` and `TriggerAllows` are the grievance
rules of the service and of the database. Amounts go up to `MaxAmount`.

### Deployment

An instance is a container (`start-production.js`: migrate, seed, start, whatever
fails) or an instance of `render.yaml` (`deploy-setup.ts`, then start). `Execute`
and `CommitFile` are one migration: the SQL and its `schema_migration` row in one
transaction, the search for it before and outside. The seed is one transaction
whose first updates make a second seed wait; what it will insert is kept in `plan`
until its commit. Users decide the pending booking, change services, suspend the
account, complete the sample and correct the credits at any time. The worker's
`running` is the flag that drops a tick while a batch runs.

### Runtime role

The statements of each request in their order, against the privileges that
`runtime.sql` leaves. Functions that are `SECURITY DEFINER` run as their owner.

### Web client

A call keeps the arguments it was started with and whether its portal is still
mounted. A button that `loading` disables is a `Press`; the directory, the
credits and an inspection are fetched without it. `Settle` is the rest of the
handler when its answer arrives; for a portal that is gone it sets nothing. The
server of this module is as small as the client can tell: needs, surfaced
helpers, one assignment per need, bookings, one provider profile, credits booked by
an administrator.

`loading` belongs to the portal that is mounted. Leaving the tab forgets it while the
call is still on its way, so after coming back the same request can be sent again;
the model does that, and `OneAtATime` is a promise about the mounted portal only.
`chosen` is the booking selected in the provider portal, from a list that is
never disabled, and `message` is the title of the last decision: the screen puts
the reference of the booking selected *now* beside it, so after a change of the
selection it names a booking that nothing was done to. `notice` is the
message of a profile: "Registered" when it was, and "Saved & Active" after a
`CONFLICT` or a thrown error too, when nothing was saved. `ShownStands` promises what the
code does: an allocation on the screen is the server's, a title means that some
booking was decided so, and "Registered" that the profile is there.

## Runs

| Run | Question | Bounds and why they suffice |
|---|---|---|
| `AllocationLifecycle` | do the committed operations keep the rows consistent? does every request end? | rows: two needs (one paid), two members with capacity one and two, three allocation rows, so a member is filled, released and filled again while the other need is served. Statements: three requests, one need, one member, the smallest instance with the waits between unique index, roster row and provider row |
| `AllocationRaces` | do checks survive to the commit, and do the statements implement the lifecycle? | three requests over a paid and a pro bono need, two members with one place: any two operations overlap with a third changing what they rely on. Times 0, 3 and 9 for the end of a tier: for a provider that never passes, whose tier ends among the requests (each takes a tick to start), or passes throughout; the rows of one provider change, the other always passes |
| `RotationBurst` (violated) | does a burst assign each member at most once? | two rotations, two idle members |
| `RotationDeclines` (violated) | do declines reduce priority? | five requests one after the other |
| `LedgerAppends` | chain, balance, single write, exports; does every call end? | three calls, two providers, two attempts: calls of one provider serialise and retry while another provider draws ids from the same sequence |
| `DirectoryTop` (violated) | does the seed decide who is on top? | three needs, two providers, one of which joins after the first directory |
| `CredentialRaces` | do the two decisions agree, and is the expiry safe? one case in review, decisions that stand, a tier that is earned when shown? | one case: every list of four checks from 18 answers (two dates each side of every boundary, conflicts, mock and advisory answers) under two policies with freshness 2 and 3, decided at dates 1 to 3. The rail: two calls that start again and again, one provider, two cases, three checks, three dates: a case is decided, expires, is degraded and a second one is opened under the first call's eyes |
| `CredentialPolicies` | is a decision made on the policy and checks of its commit? does every call end? | two calls on one case, two policies that decide differently, three checks. There are two kinds of transactions, those that lock the provider and then the case and those that lock the advisory key and then wait for the case or the provider, so two calls form every circle of waits there could be |
| `CredentialExpiry` | is every expired tier degraded? | two providers expiring together, batches of one row |
| `Services` | replay, order and counters of the directory; accounts, authority, deployment and web client; does everything end? | see below |
| `PortalClaims` (violated) | are credits shown only when they are booked? | one call, one opportunity |
| `SourceChecks` (violated) | is a source check answered as unavailable under the runtime role? | every request, both roles |

`Services.cfg` checks `OneOfTheServices` of `MCServices`: the actions of `Services`,
of one component in each behaviour, under the properties `Services` states. Where a statement of one meets a
lock of another (a foreign key on a provider whose services are being edited), it
is delayed and no circle can form, because the holder waits for nothing the
waiter has; a product would multiply the states and show nothing more.

* `Directory`: two requests, two needs, two providers, two filters, providers
  changing throughout: two requests replay or refuse each other on one need, and
  count the same providers in opposite orders on two.
* `Accounts`: two calls of one user over two taxonomy codes, from every state the
  endpoints leave (`routes`), and of a seeded user that is `ACTIVE` without a
  profile or has the `PROVIDER` role without a provider (`seeded`; services and
  sign-out, which do not look at that, are left to `routes`). All conflicts are
  between calls of one user, and a circle of waits needs two calls and two rows.
* `Authority`: two requests, one earlier delegation, a consent with a window in
  the middle of the history and a grant from its start, one paid and one other
  matter, three dates. Delegations, institutions and quotes are aspects: a
  request under one kind of authority never touches the rows of another. A fourth
  (`rules`) submits a need with every category, ceiling and table of floors; the
  others submit one plain need, since the route plays no part in them.
* `Deployment`: two migrations; two containers, one of which starts twice; or a
  container beside an instance with setup; or the worker with two expiries and
  batches of one. Users have changed at most two kinds of demonstration rows at once.
* `WebClient`: two calls, two needs, two classifications, two bookings. Aspects:
  lists and selections of the citizen, changes of tab, the provider and institution
  portals with one booking, decisions on either of two bookings, a provider profile;
  a total of at most two. Two calls are a guarded one beside a fetch, or
  two lists that arrive in either order; a third list adds another late answer.

`CredentialExpiry` is a run of its own because the liveness graph of its union
with `CredentialPolicies` is too large. Requests that never return to idle, and
components that have nothing left to do, end in states without a successor, so
the runs do not check deadlock; that nobody is stuck before is what the liveness
properties `EveryRequestEnds`, `EveryCallEnds` and `EverythingEnds` show.

The violated runs state a sentence of a document, or of the screen, and show that
the code does something else; `PROJECT.json` quotes the sentences. `RotationBurst`
and `RotationDeclines` are about the fairness of the roster, `DirectoryTop` about
the seed, `PortalClaims` about a claim whose answer is not looked at (not the only
place where that portal shows what was not done, see the web client above), and
`SourceChecks` about `SELECT ... FOR UPDATE` on a table whose `UPDATE` the runtime
role does not have, which the tests, running as the owner, do not meet.

Fairness. `WF` on the steps of each request: PostgreSQL runs a statement that
is not waiting, and Node answers its result. `WF` on the abort of a transaction
in a cycle of waits: the deadlock detector runs after `deadlock_timeout`.
Nothing else is fair: no client must call, no process must crash, no provider
must change. Weak fairness is enough because requests are finite, so a lock is
passed on finitely often.

Calls of the credential rail start again for ever, so `FairSpec` asks for `SF`
on the statements of a call and on `Revalidate`. PostgreSQL queues the waiters
of a lock, so a lock that is free again and again is granted to each of them;
the worker asks every 60 seconds (`bin/worker.ts`) for rows that are locked for
the milliseconds of a review, so it does not miss a row for ever. A worker
without its automation identity never runs; the promise is made for one that has
it.

`Accounts` asks for `WF` on the steps of each call. `Deployment` asks for `WF` on
`StartWorker` (its host starts it again) and `Interval` (`setInterval`), and for
`SF` on `Succeed`: a batch that is tried every minute does not fail for ever.
Containers need not start. `WebClient` asks for `WF` on `Serve` (which includes
the failure of `fetch`) and on `Settle`; nobody must press a button.

## Theorems

`AllocationLifecycleProofs` proves, for any finite set of allocation rows and
any sets of needs, providers and rosters, that the type invariant, one active
allocation per need, the agreement of the rows, the capacity equation and the
signal equation always hold. The type invariant comes first and is cited by
the others; each of the others is inductive relative to it, with the
cardinalities handled by the library's facts on finite sets.

`AllocationTransactionsProofs` proves `ChecksStayValid` (`IInv`: what a request
has checked of the rows it has locked stays true until it commits) and `Implements` (every step of the
transactions is a step of the lifecycle or leaves its rows alone). `IInv` is
inductive: it records for every program counter which locks the request holds
and which facts those locks protect. It is what lets the commit actions, which
test nothing, satisfy the guards of the abstract operations. Together with the
first module this gives the lifecycle's invariants for every interleaving. The
assumptions are the finiteness of the sets of requests and providers and the
typing of the constants, stated in the modules and evaluated by TLC.

`CredentialProofs` proves for every valid policy, every set of checks
with distinct sequence numbers and every date that the preflight and the
database function agree (`PreflightAgreement`), that a full tier stays earned
until it expires (`ExpirySafety`) and that mock, unconfigured and advisory
checks decide nothing (`OthersIgnored`), and derives the three invariants of
`CredentialCase`. The argument follows a decision: `ORDER BY
... LIMIT 1` and `sort()[0]` pick the same check because the sequence number
breaks every tie, the legs filter the same rows because a valid policy allows
only declared sources of the right kind, and a minimum over the same dates is
the same date. The assumptions are `ValidPolicy`, natural dates and a null that
is not one.

It also proves every safety property the runs of `CredentialRail` check, for any number of calls, providers, cases, checks and policy versions.
Its `IInv` has two halves. `RowInv` is about the rows: one case in review per
provider, distinct sequence numbers, decisions that are reproducible and not
in the future, tiers that follow them. `CallInv` says what each call knows
because of its locks: the preflight's outcome is that of the checks as they are
(`Holds`, from the lock on the case), the creator of a case found none in review
(from the advisory lock), and a call on a case in review is not older than any
decision of the provider (`NotOlder`, because the earlier cases were decided
before this one was opened). The last one is why a late commit cannot put an
older decision over a newer one, although dates are taken before locks.
`ShownTiersEarned` then combines the rows with `PreflightAgreement` and
`ExpirySafety`. The invariant needs no bound on time, checks or cases.

`ServicesProofs` first proves the four invariants of the directory together, as one
inductive invariant: `IInv` says which locks a generating request holds and that
no counter runs behind the snapshot its list was ordered by; the commit then
increments exactly the counters of its list, each of which that snapshot bounds.
`CountersMatch` needs the number of needs that list a provider to be finite,
which `CountsFinite` adds; the sets of needs and requests may be infinite. The
seeded keys are assumed to be injective per need.

`CreditLedgerProofs` proves single writes, exports that stay prefixes and, under
`GenuineHashes` (SHA-256 yields neither the genesis hash nor null), the chain
(`ChainIsTamperEvident`), and that the balance is the sum (`BalanceIsSum`).
`LedgerInv` carries what the head lock protects: a writer in `write` or `commit` saw the head as it is, and the row it inserted has
an id above all ids of its provider and carries the hash of the last. For the
hard direction of tamper evidence, take a verifying subset that misses a row:
the first row of the subset behind the gap would have to carry the hash of the
row before the gap and of the missing part at once, and a hash covers its id.

`AuthorityProofs` proves, for any sets of requests, delegations, windows and
matters, that the types hold (`AuthorityInvariant`), that nothing is written or
disclosed under an authority that was over when it began (`NoLateAuthority`),
that a delegation is closed once and after it was opened
(`DelegationsClosedOnce`) and that quotes are on open paid matters
(`QuotesAreOnOpenMatters`). The assumptions are `Setting`: a natural bound of the
clock, windows with natural ends, a null that is not a request, and kinds of rows
that do not overlap. `IInv` follows a request to its commit: `Targets` and
`Matching` say which step works on which row, `Recorded` that `over` was judged
by now() at the latest, `Cleared` that a request past its check holds an
authority that was not over when it began, `Locked` that the row it has judged is
locked and therefore still as it was, and `Opened` and `Closed` date a delegation's
ends. `Cleared` is the crux: the check may read rows committed after `Begin`, but
an authority that has ended never starts again. `AuthorityRulesAgree` proves
`RulesAgree` for all natural amounts: a need that is stored was admitted by `RouteNeed`
with the route of its floor, and only one without a floor was refused there.

The sum of `BalanceIsSum` is a fold that takes rows in the order `CHOOSE` gives
them. The lemmas before the theorem show what it computes, each by taking a
subset of least cardinality for which it would fail: the recursive function
exists (`SumExists`), its values are integers, any row may be taken first
(`AnyFirst`), and it does not depend on the set it is restricted from
(`SumsAgree`), so a new row adds its amount (`SumAdds`). The invariant `Totals`
then only needs that the committed row is new and carries the amount of its call,
which `LedgerInv` has; `Heads` in `LedgerInv` is the other half of
`BalanceReconciles`.

`AccountsProofs` proves that one call is told it created an account
(`AccountsCreateOnce`), that one reports a revoked session (`AccountsRevokeOnce`),
one provider per user, behind the gate but for seeded users (`AccountsOneProvider`),
and a status that agrees with the profile, also as `GET /v1/me` puts it together
(`AccountsProfileGate`, the converse again but for seeded users), for any number of
users and calls, any set of seeded ones and any codes. `IInv`
says of each call what its step still relies on: `Flow` which steps belong to
which operation, `Met` that the rows it has met are there (no action deletes one),
`Holds` which keys it has inserted or locked; of two calls that they do not hold
one key (`Sole`) and were not told the same (`Apart`); and of each user that the
rows agree (`Agree`). A unique key
held by an uncommitted insert is why the second of two sign-ins waits, and why
what the first one found absent still is when it commits. The only assumption is
that users and calls have different names.

`DeploymentProofs` proves that `schema_migration` lists what was applied, each
file after the ones before it (`DeploymentMigratesInOrder`), that demonstration
rows are inserted once (`DeploymentSeedsOnce`), that an instance with setup serves
a complete schema only (`DeploymentServesComplete`) and that no step undoes a
decided booking (`DeploymentDecisionsSurvive`), for any number of instances,
files and starts. The invariant needs `Alone`: one seed at a time is between its
first update and its commit, because that update locks the accounts; so what it
has looked up and plans to insert (`Planned`) is still absent when it inserts.
`Process` ties an instance to the schema: what lies before its file is recorded,
and an instance with setup gets past the verification of a complete schema only.

The rest of `ServicesProofs` is about the components together, under
`ServicesAssumption` (names of different tables differ, bounds are natural
numbers, windows have natural ends; TLC evaluates it for the run). `ClientInv` is
the invariant of the web client: `loading` is TRUE exactly while one live call is
`Busy`, and it is the only one; a live selection is about the need on the screen,
and while a need is being submitted no allocation is shown (`Current`); an answer
on its way says what the server has decided (`Decided`), and no step of the server
takes a decision back (`Keeps`). Hence what a late answer puts on the screen was
decided: `ServicesOneAtATime`, `ServicesShownStands`. The lemmas `AccountsPart`,
`AuthorityPart`, `DeploymentPart`, `ClientPart` and `DirectoryPart` show that a
behaviour of `Services` is one of each component, with the variables `Services`
gives it; so the theorems of the components carry over, and each safety property
of the run `Services` is a theorem about `Services`, where all five run at once.

Of liveness the safety half is proved where locks are waited for in order:
`RailNeverDeadlocks` says that among any calls of the rail that wait for each other
one waits for none of them, and that a call that has ended holds no lock;
`AppendsNeverDeadlock` says that who is waited for in the ledger does not wait, and
`AccountsNeverDeadlock` that calls that change accounts never wait in a circle. There
inserts wait for keys as well as rows: a call that holds one has a single insert
left at most, and that waits only for calls that have reached their last step.
Services are upserted one by one in any order, which could close a circle if the row
of their provider were not locked first (`Fits`, `Upserting`). The
argument for the rail is a rank: a case is waited for last, a provider before it, the
advisory lock first, and every wait goes to a call of lower rank (`WaitsGoDown`).

Every invariant and every action property that a passing run checks is a theorem.
Only model-checked: liveness under fairness (`EveryRequestEnds`, `EveryCallEnds`,
`ExpiredTiersDegrade`, `BatchesGoOn`, `EverythingEnds`), which the prover does not
handle. `RuntimeRole` has one run, which finds a violation.

## Plan

1. Allocation and scheduling: done, with proofs.
2. Directory and ledger: done, with proofs.
3. Credential rail: done, with proofs.
4. Accounts and authority, with intake, settlement and conduct: done, with proofs.
   The directory's run was folded into `Services`, the liveness of allocation into
   `AllocationLifecycle`, the single case into `CredentialRaces`.
5. Deployment and web client: done, with proofs. Runtime role: done, model-checked.
6. Nobody waits in a circle in the ledger, the rail and the accounts: proved.
   (Selections and directories can, and PostgreSQL aborts one of the circle: the
   models have that step.) Left: a session that is revoked between
   the arrival of a request and its commit, once the code says what should happen then.

## Not modelled

* `scripts/release-gate.ts`, `check-citizen-dto-boundary.ts` and the tests are
  checks of the repository; they keep no state of the service.
* Response schemas, validation, redaction, logging, layout, the health poll of
  the navigation bar and the public statistics are reads and wording. Endpoints
  that answer 503 change nothing.
* The audit trail appears as a privilege and as part of each commit; the content
  of its rows is not modelled. `verify-database.ts` compares the catalog column
  by column; `Deployment` keeps whether what it asks for is there.
* Google's OAuth service is outside; its outcomes are the alternatives of
  `Exchange`. The change of persona in the client is
  presentation, and the closed matters the seed inserts are rows nobody changes.
* Hazards without a property: a request repeated after its answer was lost, or
  after the tab was left and entered again,
  creates a second need or books a second credit, and no code promises otherwise;
  an assignment may rest on a service row that has changed since the snapshot or on a
  tier that has expired since the transaction began (`AllocationTransactions` has both);
  the provider portal shows the reference of the booking selected now;
  a decision takes its date before its connection, so a mismatch committed in
  between lies in its future (`CredentialRail` has the interleaving, and the
  invariants hold through it).
* Met while modelling, and stated by no code: an actor is judged on arrival and
  may lose its session before the commit; `last_assigned_at` is the start of a
  transaction and can run behind a later one; `SKIP LOCKED` may refuse a rotation
  although capacity is about to be free; the seed rewrites services without the
  lock on the provider that `POST /v1/providers/:id/services` takes.
