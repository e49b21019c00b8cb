----------------------- MODULE AllocationTransactions -----------------------
(***************************************************************************)
(* The transactions behind POST /v1/needs/:id/select, /rotate and          *)
(* POST /v1/bookings/:id/accept, /decline, /cancel, one action per SQL     *)
(* statement that can wait, under PostgreSQL READ COMMITTED:               *)
(*  - a statement that locks a row (FOR UPDATE, UPDATE, or the FOR KEY     *)
(*    SHARE of a foreign key) waits until no other transaction holds it;   *)
(*  - FOR UPDATE SKIP LOCKED passes over a locked row, and a row it does   *)
(*    lock is judged by its latest version while the ORDER BY, and every   *)
(*    joined row that is not locked, keep the statement's snapshot;        *)
(*  - now() is the start of the transaction, whenever it is evaluated;     *)
(*  - an INSERT that meets an entry of a unique index waits while the      *)
(*    transaction changing that entry is in flight, then fails if the      *)
(*    entry survived;                                                      *)
(*  - writes become visible at commit, a rollback leaves none;             *)
(*  - a cycle of waiting transactions is broken by aborting one of them.   *)
(* An allocation is named by the request that inserted it.                 *)
(***************************************************************************)
EXTENDS Naturals, Sequences, FiniteSets

CONSTANTS
    Requests,    \* HTTP requests, each served by one transaction
    Needs, Providers, Rosters, Members, Capacity, PaidNeeds, Surfaced, None,
    Dates        \* values of passesUntil that the program writes

ASSUME RequestsAssumption == IsFiniteSet(Requests) /\ IsFiniteSet(Providers)

ASSUME RowsAssumption ==
    /\ Members \subseteq Rosters \X Providers
    /\ Capacity \in [Members -> Nat]
    /\ PaidNeeds \subseteq Needs
    /\ Surfaced \in [Needs -> SUBSET Providers]
    /\ Dates \subseteq Nat
    /\ None \notin Needs \cup Providers \cup Rosters \cup Requests

VARIABLES
    \* committed rows, as in AllocationLifecycle
    status, needOf, providerOf, rosterOf, booking, matter,
    activeMatters, declineSignals,
    lastAssigned,  \* roster_membership.last_assigned_at, 0 is NULL
    passesUntil,   \* the provider row passes the filters on its own columns for a
                   \* transaction that starts before this time: tier_expires_at of
                   \* a FULLY_VERIFIED tier, 0 for a row that passes for none
    serves,        \* the needs whose filter its provider_service row passes: the
                   \* fee of a PAID need, pro_bono_available of any other
    \* row locks
    needOwner,     \* need_request FOR UPDATE
    memberOwner,   \* roster_membership FOR UPDATE or UPDATE
    providerOwner, \* provider FOR UPDATE
    providerShare, \* provider FOR KEY SHARE, taken by foreign keys
    bookingOwner,  \* booking and its allocation, FOR UPDATE OF b, a
    \* transactions
    pc,            \* next statement of each request
    op,            \* what the request asks for
    chosen,        \* the provider it will assign
    queue,         \* members the rotation query still has to visit, in order
    startedAt,     \* now(), the start of its transaction
    clock

rowVars == <<status, needOf, providerOf, rosterOf, booking, matter,
             activeMatters, declineSignals, lastAssigned, passesUntil, serves>>
lockVars == <<needOwner, memberOwner, providerOwner, providerShare, bookingOwner>>
txVars == <<pc, op, chosen, queue, startedAt, clock>>
vars == <<rowVars, lockVars, txVars>>

\* AllocationLifecycle sees of a provider what stays locked with its row: that
\* it passes for some date.
L == INSTANCE AllocationLifecycle
       WITH Allocations <- Requests, eligible <- [p \in Providers |-> passesUntil[p] > 0]

Operation ==
    [kind : {"select"}, need : Needs, provider : Providers, roster : {None}, on : {None}]
    \cup [kind : {"rotate"}, need : Needs, provider : {None}, roster : Rosters, on : {None}]
    \cup [kind : {"accept", "decline", "cancel"},
          need : {None}, provider : {None}, roster : {None}, on : Requests]
NoOperation == [kind |-> "none", need |-> None, provider |-> None, roster |-> None, on |-> None]

Statement == {"lockNeed", "queryProvider", "lockProvider", "queryRoster", "scanRoster",
              "insertAllocation", "commitAllocation", "lockBooking", "updateBooking", "updateMember",
              "insertSignal", "insertMatter", "commitBooking"}
Finished == {"committed", "rolledBack"}

RowsTyped ==
    /\ L!TypeOK
    /\ lastAssigned \in [Members -> Nat]
    /\ passesUntil \in [Providers -> Dates]
    /\ serves \in [Providers -> SUBSET Needs]

LocksTyped ==
    /\ needOwner \in [Needs -> Requests \cup {None}]
    /\ memberOwner \in [Members -> Requests \cup {None}]
    /\ providerOwner \in [Providers -> Requests \cup {None}]
    /\ providerShare \in [Providers -> SUBSET Requests]
    /\ bookingOwner \in [Requests -> Requests \cup {None}]

TransactionsTyped ==
    /\ pc \in [Requests -> Statement \cup Finished \cup {"idle"}]
    /\ op \in [Requests -> Operation \cup {NoOperation}]
    /\ chosen \in [Requests -> Providers \cup {None}]
    /\ queue \in [Requests -> Seq(Providers)]
    /\ startedAt \in [Requests -> Nat]
    /\ clock \in Nat

TypeOK == RowsTyped /\ LocksTyped /\ TransactionsTyped

Init ==
    /\ passesUntil \in [Providers -> Dates]
    /\ serves \in [Providers -> SUBSET Needs]
    /\ L!Init
    /\ lastAssigned = [m \in Members |-> 0]
    /\ needOwner = [n \in Needs |-> None]
    /\ memberOwner = [m \in Members |-> None]
    /\ providerOwner = [p \in Providers |-> None]
    /\ providerShare = [p \in Providers |-> {}]
    /\ bookingOwner = [a \in Requests |-> None]
    /\ pc = [t \in Requests |-> "idle"]
    /\ op = [t \in Requests |-> NoOperation]
    /\ chosen = [t \in Requests |-> None]
    /\ queue = [t \in Requests |-> <<>>]
    /\ startedAt = [t \in Requests |-> 0]
    /\ clock = 0

-----------------------------------------------------------------------------
(* Locks, waiting and the end of a transaction *)

FreeFor(t, owner, row) == owner[row] \in {None, t}

\* FOR UPDATE conflicts with every other lock on the row, FOR KEY SHARE only
\* with FOR UPDATE.
ProviderFreeFor(t, p) == FreeFor(t, providerOwner, p) /\ providerShare[p] \subseteq {t}

\* The row that request t ends, accepts or creates, and its membership.
MemberFor(t) == <<op[t].roster, chosen[t]>>
MemberOf(a) == <<rosterOf[a], providerOf[a]>>

\* Definitions named Faulty... are mutations of the definition that follows
\* them; they occur in no action.  withTransaction forgets the ROLLBACK before
\* it gives the connection back to the pool.
FaultyReleased(t, owner) == owner

Released(t, owner) == [row \in DOMAIN owner |-> IF owner[row] = t THEN None ELSE owner[row]]

\* COMMIT or ROLLBACK: every row lock goes.
EndTransaction(t, outcome) ==
    /\ needOwner' = Released(t, needOwner)
    /\ memberOwner' = Released(t, memberOwner)
    /\ providerOwner' = Released(t, providerOwner)
    /\ providerShare' = [p \in Providers |-> providerShare[p] \ {t}]
    /\ bookingOwner' = Released(t, bookingOwner)
    /\ pc' = [pc EXCEPT ![t] = outcome]
    /\ op' = [op EXCEPT ![t] = NoOperation]
    /\ chosen' = [chosen EXCEPT ![t] = None]
    /\ queue' = [queue EXCEPT ![t] = <<>>]
    /\ startedAt' = [startedAt EXCEPT ![t] = 0]
    /\ UNCHANGED clock

Rollback(t) == EndTransaction(t, "rolledBack") /\ UNCHANGED rowVars

Goto(t, statement) == pc' = [pc EXCEPT ![t] = statement]

\* A request arrives and its transaction starts.  The clock is read, and need
\* advance, only for the requests that compare a date with now().
Begin(t) ==
    /\ pc[t] = "idle"
    /\ \E o \in Operation :
         /\ op' = [op EXCEPT ![t] = o]
         /\ chosen' = [chosen EXCEPT ![t] = o.provider]
         /\ IF o.kind \in {"select", "rotate"}
              THEN /\ Goto(t, "lockNeed")
                   /\ clock' = clock + 1
                   /\ startedAt' = [startedAt EXCEPT ![t] = clock + 1]
              ELSE /\ status[o.on] # "NONE"
                   /\ Goto(t, "lockBooking")
                   /\ UNCHANGED <<clock, startedAt>>
    /\ UNCHANGED <<rowVars, lockVars, queue>>

-----------------------------------------------------------------------------
(* Selection and rotation *)

\* SELECT ... need_request JOIN eligibility_decision ... FOR UPDATE, then the
\* checks of POST /select on the route and on the persisted directory.
LockNeedForSelect(t) ==
    /\ pc[t] = "lockNeed" /\ op[t].kind = "select"
    /\ FreeFor(t, needOwner, op[t].need)
    /\ IF op[t].need \in PaidNeeds /\ op[t].provider \in Surfaced[op[t].need]
         THEN /\ needOwner' = [needOwner EXCEPT ![op[t].need] = t]
              /\ Goto(t, "queryProvider")
              /\ UNCHANGED <<rowVars, memberOwner, providerOwner, providerShare,
                             bookingOwner, op, chosen, queue, startedAt, clock>>
         ELSE Rollback(t)

\* The same lock in POST /rotate: only an operator may rotate a PAID need.
LockNeedForRotate(t) ==
    /\ pc[t] = "lockNeed" /\ op[t].kind = "rotate"
    /\ FreeFor(t, needOwner, op[t].need)
    /\ \E actor \in {"CITIZEN", "OPERATOR", "INSTITUTION"} :
         IF op[t].need \in PaidNeeds /\ actor # "OPERATOR"
           THEN Rollback(t)
           ELSE /\ needOwner' = [needOwner EXCEPT ![op[t].need] = t]
                /\ Goto(t, "queryRoster")
                /\ UNCHANGED <<rowVars, memberOwner, providerOwner, providerShare,
                               bookingOwner, op, chosen, queue, startedAt, clock>>

\* The filters on the columns of the provider row, its expiry among them, in
\* the transaction of request t.
RowPasses(t, p) == startedAt[t] < passesUntil[p]

\* The filters on the provider_service row joined to it.  The rotation of a PAID
\* need asks of that row only that it exists.
ServicePasses(t, p) ==
    \/ op[t].kind = "rotate" /\ op[t].need \in PaidNeeds
    \/ op[t].need \in serves[p]

\* The filters of the persisted directory again, on the statement's snapshot of
\* both rows: a provider that no longer passes is refused.
QueryProvider(t) ==
    /\ pc[t] = "queryProvider"
    /\ IF RowPasses(t, chosen[t]) /\ ServicePasses(t, chosen[t])
         THEN /\ Goto(t, "lockProvider")
              /\ UNCHANGED <<rowVars, lockVars, op, chosen, queue, startedAt, clock>>
         ELSE Rollback(t)

\* FOR UPDATE OF p: once nobody else holds the provider its latest version is
\* judged again, beside the service row that the snapshot saw.
LockProvider(t) ==
    /\ pc[t] = "lockProvider"
    /\ ProviderFreeFor(t, chosen[t])
    /\ IF RowPasses(t, chosen[t])
         THEN /\ providerOwner' = [providerOwner EXCEPT ![chosen[t]] = t]
              /\ Goto(t, "insertAllocation")
              /\ UNCHANGED <<rowVars, needOwner, memberOwner, providerShare,
                             bookingOwner, op, chosen, queue, startedAt, clock>>
         ELSE Rollback(t)

\* The WHERE clause of the rotation query, on the statement's snapshot.
CanTake(t, m) ==
    /\ activeMatters[m] < Capacity[m]
    /\ RowPasses(t, m[2]) /\ ServicePasses(t, m[2])

\* The rows are taken as the snapshot saw them.
FaultyStillTakes(t, m) == TRUE

\* The same clause on the latest version of the two rows that FOR UPDATE OF
\* rm, p has locked; the service row is still the one of the snapshot.
StillTakes(t, m) == activeMatters[m] < Capacity[m] /\ RowPasses(t, m[2])

\* ORDER BY active_matters ASC, last_assigned_at ASC NULLS FIRST
NotAfter(m, k) ==
    \/ activeMatters[m] < activeMatters[k]
    \/ activeMatters[m] = activeMatters[k] /\ lastAssigned[m] <= lastAssigned[k]

Orderings(S, r) ==
    {q \in [1 .. Cardinality(S) -> S] :
        \A i, j \in DOMAIN q :
            i < j => q[i] # q[j] /\ NotAfter(<<r, q[i]>>, <<r, q[j]>>)}

\* The rotation query reads its snapshot and sorts it.
QueryRoster(t) ==
    /\ pc[t] = "queryRoster"
    /\ LET r == op[t].roster
           candidates == {p \in Providers : <<r, p>> \in Members /\ CanTake(t, <<r, p>>)}
       IN \E q \in Orderings(candidates, r) : queue' = [queue EXCEPT ![t] = q]
    /\ Goto(t, "scanRoster")
    /\ UNCHANGED <<rowVars, lockVars, op, chosen, startedAt, clock>>

\* FOR UPDATE OF rm, p SKIP LOCKED LIMIT 1, one candidate at a time.  The
\* membership is locked first and stays locked when its provider is not free
\* or the recheck on the latest rows fails.
ScanRoster(t) ==
    /\ pc[t] = "scanRoster"
    /\ IF queue[t] = <<>>
         THEN Rollback(t)
         ELSE LET p == Head(queue[t])
                  m == <<op[t].roster, p>>
                  locksMember == FreeFor(t, memberOwner, m)
                  locksProvider == locksMember /\ ProviderFreeFor(t, p)
                  takes == locksProvider /\ StillTakes(t, m)
              IN /\ memberOwner' = IF locksMember
                                     THEN [memberOwner EXCEPT ![m] = t] ELSE memberOwner
                 /\ providerOwner' = IF locksProvider
                                       THEN [providerOwner EXCEPT ![p] = t] ELSE providerOwner
                 /\ IF takes
                      THEN /\ chosen' = [chosen EXCEPT ![t] = p]
                           /\ queue' = [queue EXCEPT ![t] = <<>>]
                           /\ Goto(t, "insertAllocation")
                      ELSE /\ queue' = [queue EXCEPT ![t] = Tail(@)]
                           /\ UNCHANGED <<chosen, pc>>
                 /\ UNCHANGED <<rowVars, needOwner, providerShare, bookingOwner,
                                op, startedAt, clock>>

\* The entries of allocation_one_active_per_need that the new row meets.
ActiveAllocations(n) == {a \in Requests : status[a] = "ASSIGNED" /\ needOf[a] = n}

\* Request u has updated allocation a to an ended status and not committed.
Ending(u, a) ==
    /\ op[u].kind \in {"decline", "cancel"} /\ op[u].on = a
    /\ pc[u] \in {"updateMember", "insertSignal", "commitBooking"}

\* INSERT INTO allocation: 23505 becomes 409 when an active row stays.
InsertAllocation(t) ==
    /\ pc[t] = "insertAllocation"
    /\ LET conflicts == ActiveAllocations(op[t].need)
       IN /\ ~\E u \in Requests, a \in conflicts : Ending(u, a)
          /\ IF conflicts = {}
               THEN /\ Goto(t, "commitAllocation")
                    /\ UNCHANGED <<rowVars, lockVars, op, chosen, queue, startedAt, clock>>
               ELSE Rollback(t)

\* UPDATE roster_membership on the row already locked, audit, COMMIT.
CommitAllocation(t) ==
    /\ pc[t] = "commitAllocation"
    /\ status' = [status EXCEPT ![t] = "ASSIGNED"]
    /\ needOf' = [needOf EXCEPT ![t] = op[t].need]
    /\ providerOf' = [providerOf EXCEPT ![t] = chosen[t]]
    /\ rosterOf' = [rosterOf EXCEPT ![t] = op[t].roster]
    /\ IF op[t].kind = "rotate"
         THEN /\ activeMatters' = [activeMatters EXCEPT ![MemberFor(t)] = @ + 1]
              /\ lastAssigned' = [lastAssigned EXCEPT ![MemberFor(t)] = startedAt[t]]
         ELSE UNCHANGED <<activeMatters, lastAssigned>>
    /\ EndTransaction(t, "committed")
    /\ UNCHANGED <<booking, matter, declineSignals, passesUntil, serves>>

-----------------------------------------------------------------------------
(* Acceptance, decline and cancellation *)

\* The booking is read and judged before its lock is granted.
FaultyMayMove(a) == status[a] # "NONE" /\ booking[a] # "NONE"

\* The allocation is still ASSIGNED and the booking may still move.
MayMove(a) == status[a] = "ASSIGNED" /\ booking[a] = "HELD"

\* lockBooking, then the checks on the rows it returned.
LockBooking(t) ==
    /\ pc[t] = "lockBooking"
    /\ FreeFor(t, bookingOwner, op[t].on)
    /\ IF MayMove(op[t].on)
         THEN /\ bookingOwner' = [bookingOwner EXCEPT ![op[t].on] = t]
              /\ Goto(t, "updateBooking")
              /\ UNCHANGED <<rowVars, needOwner, memberOwner, providerOwner,
                             providerShare, op, chosen, queue, startedAt, clock>>
         ELSE Rollback(t)

\* UPDATE booking, and for a decline or a cancellation UPDATE allocation: the
\* new versions are in flight until the commit.
UpdateBooking(t) ==
    /\ pc[t] = "updateBooking"
    /\ Goto(t, IF op[t].kind = "accept" THEN "insertMatter"
               ELSE IF rosterOf[op[t].on] # None THEN "updateMember"
               ELSE "commitBooking")
    /\ UNCHANGED <<rowVars, lockVars, op, chosen, queue, startedAt, clock>>

\* UPDATE roster_membership ... WHERE active_matters > 0 must hit one row.
UpdateMember(t) ==
    /\ pc[t] = "updateMember"
    /\ LET m == MemberOf(op[t].on)
       IN /\ FreeFor(t, memberOwner, m)
          /\ IF activeMatters[m] > 0
               THEN /\ memberOwner' = [memberOwner EXCEPT ![m] = t]
                    /\ Goto(t, IF op[t].kind = "decline" THEN "insertSignal"
                                                         ELSE "commitBooking")
                    /\ UNCHANGED <<rowVars, needOwner, providerOwner, providerShare,
                                   bookingOwner, op, chosen, queue, startedAt, clock>>
               ELSE Rollback(t)

\* INSERT INTO conduct_signal or matter: the foreign key locks the provider.
ShareProvider(t, statement) ==
    LET p == providerOf[op[t].on]
    IN /\ FreeFor(t, providerOwner, p)
       /\ providerShare' = [providerShare EXCEPT ![p] = @ \cup {t}]
       /\ Goto(t, statement)
       /\ UNCHANGED <<rowVars, needOwner, memberOwner, providerOwner, bookingOwner,
                      op, chosen, queue, startedAt, clock>>

InsertSignal(t) == pc[t] = "insertSignal" /\ ShareProvider(t, "commitBooking")

\* A second matter of the allocation is a 23505, answered 409.
InsertMatter(t) ==
    /\ pc[t] = "insertMatter"
    /\ IF matter[op[t].on] = "NONE" THEN ShareProvider(t, "commitBooking") ELSE Rollback(t)

\* What the committed transaction makes of allocation a.
CommitAccept(a) ==
    /\ booking' = [booking EXCEPT ![a] = "CONFIRMED"]
    /\ matter' = [matter EXCEPT ![a] = "OPEN"]
    /\ UNCHANGED <<status, activeMatters, declineSignals>>

CommitEnd(a, outcome) ==
    /\ status' = [status EXCEPT ![a] = outcome]
    /\ booking' = [booking EXCEPT ![a] = outcome]
    /\ IF rosterOf[a] = None
         THEN UNCHANGED <<activeMatters, declineSignals>>
         ELSE /\ activeMatters' = [activeMatters EXCEPT ![MemberOf(a)] = @ - 1]
              /\ declineSignals' =
                   IF outcome = "DECLINED"
                     THEN [declineSignals EXCEPT ![providerOf[a]] = @ + 1]
                     ELSE declineSignals
    /\ UNCHANGED matter

CommitBooking(t) ==
    /\ pc[t] = "commitBooking"
    /\ \/ op[t].kind = "accept" /\ CommitAccept(op[t].on)
       \/ op[t].kind = "decline" /\ CommitEnd(op[t].on, "DECLINED")
       \/ op[t].kind = "cancel" /\ CommitEnd(op[t].on, "CANCELLED")
    /\ EndTransaction(t, "committed")
    /\ UNCHANGED <<needOf, providerOf, rosterOf, lastAssigned, passesUntil, serves>>

-----------------------------------------------------------------------------
(* Other writers, failures and the next-state relation *)

\* The seed or the owner inserts a HELD booking: the trigger locks the
\* allocation, the foreign keys lock the need and the provider.
HoldBooking(a) ==
    /\ status[a] = "ASSIGNED" /\ booking[a] = "NONE"
    /\ bookingOwner[a] = None
    /\ needOwner[needOf[a]] = None
    /\ providerOwner[providerOf[a]] = None
    /\ booking' = [booking EXCEPT ![a] = "HELD"]
    /\ UNCHANGED <<status, needOf, providerOf, rosterOf, matter, activeMatters,
                   declineSignals, lastAssigned, passesUntil, serves, lockVars, txVars>>

\* The owner closes a matter; a closed one is never reopened.
CloseMatter(a) ==
    /\ matter[a] = "OPEN"
    /\ matter' = [matter EXCEPT ![a] = "CLOSED"]
    /\ UNCHANGED <<status, needOf, providerOf, rosterOf, booking, activeMatters,
                   declineSignals, lastAssigned, passesUntil, serves, lockVars, txVars>>

\* The owner completes an allocation: the trigger lets an allocation with an
\* active booking leave ASSIGNED only this way.
Complete(a) ==
    /\ status[a] = "ASSIGNED"
    /\ bookingOwner[a] = None
    /\ booking[a] = "CONFIRMED" /\ matter[a] = "CLOSED"
    /\ status' = [status EXCEPT ![a] = "COMPLETED"]
    /\ UNCHANGED <<needOf, providerOf, rosterOf, booking, matter, activeMatters,
                   declineSignals, lastAssigned, passesUntil, serves, lockVars, txVars>>

\* A tier decision, a degradation or an edit updates the provider row.
ChangeProvider(p) ==
    /\ providerOwner[p] = None
    /\ \E date \in Dates : passesUntil' = [passesUntil EXCEPT ![p] = date]
    /\ UNCHANGED <<status, needOf, providerOf, rosterOf, booking, matter, activeMatters,
                   declineSignals, lastAssigned, serves, lockVars, txVars>>

\* POST /services or the seed writes a provider_service row: no new version of
\* the provider row, and the seed takes no lock on it.
ChangeService(p, n) ==
    /\ serves' = [serves EXCEPT ![p] = IF n \in @ THEN @ \ {n} ELSE @ \cup {n}]
    /\ UNCHANGED <<status, needOf, providerOf, rosterOf, booking, matter, activeMatters,
                   declineSignals, lastAssigned, passesUntil, lockVars, txVars>>

\* The connection or the process is lost, or a statement fails: ROLLBACK.
Crash(t) == pc[t] \in Statement /\ Rollback(t)

WaitsFor(t, u) ==
    /\ t # u
    /\ \/ pc[t] = "lockNeed" /\ needOwner[op[t].need] = u
       \/ /\ pc[t] = "lockProvider"
          /\ u = providerOwner[chosen[t]] \/ u \in providerShare[chosen[t]]
       \/ /\ pc[t] = "insertAllocation"
          /\ \E a \in ActiveAllocations(op[t].need) : Ending(u, a)
       \/ pc[t] = "lockBooking" /\ bookingOwner[op[t].on] = u
       \/ pc[t] = "updateMember" /\ memberOwner[MemberOf(op[t].on)] = u
       \/ /\ pc[t] \in {"insertSignal", "insertMatter"}
          /\ providerOwner[providerOf[op[t].on]] = u

\* A smallest set of transactions that wait for each other is a cycle.
Waiting(S) == S # {} /\ \A u \in S : \E v \in S : WaitsFor(u, v)
Deadlocked(t) ==
    \E S \in SUBSET Requests :
        t \in S /\ Waiting(S) /\ \A R \in SUBSET S : Waiting(R) => R = S

\* The deadlock detector fails the waiting statement with 40P01.
AbortDeadlocked(t) == Deadlocked(t) /\ Rollback(t)

Step(t) ==
    \/ LockNeedForSelect(t) \/ LockNeedForRotate(t)
    \/ QueryProvider(t) \/ LockProvider(t) \/ QueryRoster(t) \/ ScanRoster(t)
    \/ InsertAllocation(t) \/ CommitAllocation(t)
    \/ LockBooking(t) \/ UpdateBooking(t) \/ UpdateMember(t)
    \/ InsertSignal(t) \/ InsertMatter(t) \/ CommitBooking(t)

Next ==
    \/ \E t \in Requests : Begin(t) \/ Step(t) \/ Crash(t) \/ AbortDeadlocked(t)
    \/ \E a \in Requests : HoldBooking(a) \/ CloseMatter(a) \/ Complete(a)
    \/ \E p \in Providers : ChangeProvider(p) \/ \E n \in Needs : ChangeService(p, n)

Spec == Init /\ [][Next]_vars

\* The database runs every statement that can run and breaks every cycle.
\* Nobody is obliged to send a request, crash, or edit a provider.
Fairness ==
    \A t \in Requests : WF_vars(Step(t)) /\ WF_vars(AbortDeadlocked(t))

FairSpec == Spec /\ Fairness

-----------------------------------------------------------------------------
(* Properties *)

Choosing == {"queryProvider", "lockProvider", "queryRoster", "scanRoster",
             "insertAllocation", "commitAllocation"}
Inserting == {"insertAllocation", "commitAllocation"}
Moving == {"updateBooking", "updateMember", "insertSignal", "insertMatter", "commitBooking"}

\* Every statement runs for the kind of request that issues it.
KindFits(t) ==
    /\ pc[t] \in {"lockNeed"} \cup Choosing => op[t].kind \in {"select", "rotate"}
    /\ pc[t] \in {"lockBooking"} \cup Moving =>
          op[t].kind \in {"accept", "decline", "cancel"} /\ status[op[t].on] # "NONE"
    /\ pc[t] \in {"queryProvider", "lockProvider"} => op[t].kind = "select"
    /\ pc[t] \in {"queryRoster", "scanRoster"} => op[t].kind = "rotate"
    /\ pc[t] = "updateMember" => op[t].kind # "accept"
    /\ pc[t] = "insertSignal" => op[t].kind = "decline"
    /\ pc[t] = "insertMatter" => op[t].kind = "accept"
    /\ op[t].kind = "select" => chosen[t] = op[t].provider

\* An allocation exists once the request of its name has committed, and its
\* foreign keys hold.
RowFits(a) ==
    /\ pc[a] # "committed" => status[a] = "NONE"
    /\ status[a] # "NONE" =>
          /\ needOf[a] \in Needs /\ providerOf[a] \in Providers
          /\ rosterOf[a] # None => MemberOf(a) \in Members

\* What a request that assigns a provider has checked stays true until it
\* commits: it holds the need and the provider row, whose columns still pass for
\* the time the request started, the directory or the roster still offers the
\* provider, and at the commit no other allocation of the need is active.  Two
\* checks are not in the list because the code lets them go stale: the service
\* row is joined and not locked, so it may have changed since the snapshot, and
\* a tier that was valid at the start may have expired by the clock.
AssignmentStillValid(t) ==
    /\ pc[t] \in Choosing => needOwner[op[t].need] = t
    /\ pc[t] \in Choosing /\ op[t].kind = "select" =>
          op[t].need \in PaidNeeds /\ chosen[t] \in Surfaced[op[t].need]
    /\ pc[t] = "scanRoster" =>
          \A i \in DOMAIN queue[t] : <<op[t].roster, queue[t][i]>> \in Members
    /\ pc[t] \in Inserting =>
          /\ chosen[t] \in Providers
          /\ providerOwner[chosen[t]] = t /\ RowPasses(t, chosen[t])
    /\ pc[t] \in Inserting /\ op[t].kind = "rotate" =>
          /\ MemberFor(t) \in Members
          /\ memberOwner[MemberFor(t)] = t
          /\ activeMatters[MemberFor(t)] < Capacity[MemberFor(t)]
    /\ pc[t] = "commitAllocation" => ActiveAllocations(op[t].need) = {}

\* What a request that accepts, declines or cancels a booking has checked
\* stays true until it commits: the booking is held, its allocation is
\* assigned, and the capacity it will give back is there to give.
BookingStillHeld(t) ==
    LET a == op[t].on IN
    /\ pc[t] \in Moving =>
          bookingOwner[a] = t /\ status[a] = "ASSIGNED" /\ booking[a] = "HELD"
    /\ pc[t] = "commitBooking" /\ op[t].kind = "accept" => matter[a] = "NONE"
    /\ pc[t] = "updateMember" => rosterOf[a] # None
    /\ pc[t] \in {"insertSignal", "commitBooking"}
          /\ op[t].kind # "accept" /\ rosterOf[a] # None =>
            memberOwner[MemberOf(a)] = t /\ activeMatters[MemberOf(a)] > 0

Valid(t) == KindFits(t) /\ RowFits(t) /\ AssignmentStillValid(t) /\ BookingStillHeld(t)

\* Everything a request relies on, from the check to the commit.
IInv == TypeOK /\ \A t \in Requests : Valid(t)

\* Interleaved statement by statement, the five endpoints implement the
\* atomic operations of AllocationLifecycle: what that module asks of the rows
\* at the commit still holds there, though it was checked before the last wait.
\* It asks nothing of the service row and of the date, see AssignmentStillValid.
Serializable == L!Spec

\* A request that has started ends, committed or rolled back: no schedule of
\* lock waits, unique-index waits and aborts leaves it hanging.
EveryRequestEnds == \A t \in Requests : pc[t] \in Statement ~> pc[t] \in Finished


\* "Repeated declines reduce roster priority": a rotation never takes a
\* member when another one that is free, can take the need and carries the
\* same load has declined less often.
DeclinesReducePriority ==
    [][\A t \in Requests :
         pc[t] = "scanRoster" /\ pc'[t] = "insertAllocation" =>
           \A p \in Providers :
             LET m == <<op[t].roster, p>> IN
             /\ m \in Members /\ CanTake(t, m)
             /\ FreeFor(t, memberOwner, m) /\ ProviderFreeFor(t, p)
             /\ activeMatters[m] = activeMatters[MemberFor(t)']
             => declineSignals[chosen'[t]] <= declineSignals[p]]_vars
=============================================================================
