-------------------- MODULE AllocationTransactionsProofs --------------------
(***************************************************************************)
(* AllocationTransactions keeps its invariant and implements               *)
(* AllocationLifecycle, for every set of requests, needs and providers.    *)
(***************************************************************************)
EXTENDS AllocationTransactions, FiniteSetTheorems, SequenceTheorems, TLAPS

(* Type correctness *)

\* COMMIT and ROLLBACK keep the types of locks and transactions.
LEMMA EndTyped ==
  ASSUME TypeOK, NEW t \in Requests, NEW outcome \in Finished, EndTransaction(t, outcome)
  PROVE  LocksTyped' /\ TransactionsTyped'
<1> USE RowsAssumption DEF TypeOK, LocksTyped, TransactionsTyped, EndTransaction, Released
<1>1. LocksTyped'
  OBVIOUS
<1>2. TransactionsTyped'
  <2>1. <<>> \in Seq(Providers)
    OBVIOUS
  <2>2. QED
    BY <2>1
<1>3. QED
  BY <1>1, <1>2

\* A rollback keeps every type.
LEMMA RollbackTyped ==
  ASSUME TypeOK, NEW t \in Requests, Rollback(t)
  PROVE  TypeOK'
<1>1. LocksTyped' /\ TransactionsTyped'
  BY EndTyped DEF Rollback, Finished
<1>2. RowsTyped'
  BY DEF Rollback, rowVars, TypeOK, RowsTyped, L!TypeOK
<1>3. QED
  BY <1>1, <1>2 DEF TypeOK

\* The orderings of a finite set of providers are sequences of providers.
LEMMA OrderingsAreSequences ==
  ASSUME NEW S \in SUBSET Providers, NEW r, NEW q \in Orderings(S, r)
  PROVE  q \in Seq(Providers)
<1>1. Cardinality(S) \in Nat
  BY RequestsAssumption, FS_Subset, FS_CardinalityType
<1>2. q \in [1 .. Cardinality(S) -> Providers]
  BY DEF Orderings
<1>3. QED
  BY <1>1, <1>2

\* A request that arrives keeps every type.
LEMMA BeginTyped ==
  ASSUME TypeOK, NEW t \in Requests, Begin(t)
  PROVE  TypeOK'
<1>1. PICK o \in Operation :
        /\ op' = [op EXCEPT ![t] = o]
        /\ chosen' = [chosen EXCEPT ![t] = o.provider]
        /\ IF o.kind \in {"select", "rotate"}
             THEN /\ Goto(t, "lockNeed")
                  /\ clock' = clock + 1
                  /\ startedAt' = [startedAt EXCEPT ![t] = clock + 1]
             ELSE /\ status[o.on] # "NONE"
                  /\ Goto(t, "lockBooking")
                  /\ UNCHANGED <<clock, startedAt>>
  BY DEF Begin
<1>2. o.provider \in Providers \cup {None}
  BY DEF Operation
<1>3. op' \in [Requests -> Operation \cup {NoOperation}]
  BY <1>1 DEF TypeOK, TransactionsTyped
<1>4. chosen' \in [Requests -> Providers \cup {None}]
  BY <1>1, <1>2 DEF TypeOK, TransactionsTyped
<1>5. pc' \in [Requests -> Statement \cup Finished \cup {"idle"}]
  BY <1>1 DEF Goto, Statement, TypeOK, TransactionsTyped
<1>6. clock' \in Nat /\ startedAt' \in [Requests -> Nat]
  <2>1. clock \in Nat /\ startedAt \in [Requests -> Nat]
    BY DEF TypeOK, TransactionsTyped
  <2>2. CASE o.kind \in {"select", "rotate"}
    <3>1. clock' = clock + 1 /\ startedAt' = [startedAt EXCEPT ![t] = clock + 1]
      BY <1>1, <2>2
    <3>2. QED
      BY <2>1, <3>1
  <2>3. CASE o.kind \notin {"select", "rotate"}
    BY <1>1, <2>1, <2>3
  <2>4. QED
    BY <2>2, <2>3
<1>7. queue' = queue /\ RowsTyped' /\ LocksTyped'
  BY DEF Begin, rowVars, lockVars, TypeOK, RowsTyped, L!TypeOK, LocksTyped
<1>8. QED
  BY <1>3, <1>4, <1>5, <1>6, <1>7 DEF TypeOK, TransactionsTyped

\* The rotation query leaves a sequence of providers to visit.
LEMMA QueryRosterTyped ==
  ASSUME TypeOK, NEW t \in Requests, QueryRoster(t)
  PROVE  TypeOK'
<1> DEFINE r == op[t].roster
           candidates == {p \in Providers : <<r, p>> \in Members /\ CanTake(t, <<r, p>>)}
<1>1. PICK q \in Orderings(candidates, r) : queue' = [queue EXCEPT ![t] = q]
  BY DEF QueryRoster
<1>2. q \in Seq(Providers)
  BY OrderingsAreSequences
<1>3. queue' \in [Requests -> Seq(Providers)]
  BY <1>1, <1>2 DEF TypeOK, TransactionsTyped
<1>4. QED
  BY <1>3 DEF QueryRoster, Goto, Statement, rowVars, lockVars, TypeOK, RowsTyped,
              L!TypeOK, LocksTyped, TransactionsTyped

\* One step of SKIP LOCKED keeps every type.
LEMMA ScanRosterTyped ==
  ASSUME TypeOK, NEW t \in Requests, ScanRoster(t)
  PROVE  TypeOK'
<1>1. CASE queue[t] = <<>>
  BY <1>1, RollbackTyped DEF ScanRoster
<1>2. CASE queue[t] # <<>>
  <2>1. queue[t] \in Seq(Providers)
    BY DEF TypeOK, TransactionsTyped
  <2>2. Head(queue[t]) \in Providers /\ Tail(queue[t]) \in Seq(Providers)
    BY <1>2, <2>1
  <2>3. memberOwner' \in [Members -> Requests \cup {None}]
          /\ providerOwner' \in [Providers -> Requests \cup {None}]
    BY <1>2 DEF ScanRoster, TypeOK, LocksTyped
  <2>4. chosen' \in [Requests -> Providers \cup {None}]
    BY <1>2, <2>2 DEF ScanRoster, TypeOK, TransactionsTyped
  <2>5. pc' \in [Requests -> Statement \cup Finished \cup {"idle"}]
    BY <1>2 DEF ScanRoster, TypeOK, TransactionsTyped, Goto, Statement
  <2>6. queue' \in [Requests -> Seq(Providers)]
    <3>1. <<>> \in Seq(Providers)
      OBVIOUS
    <3>2. queue' = [queue EXCEPT ![t] = <<>>] \/ queue' = [queue EXCEPT ![t] = Tail(queue[t])]
      BY <1>2 DEF ScanRoster, TypeOK, TransactionsTyped
    <3>3. QED
      BY <2>2, <3>1, <3>2 DEF TypeOK, TransactionsTyped
  <2>7. UNCHANGED <<rowVars, needOwner, providerShare, bookingOwner, op, startedAt, clock>>
    BY <1>2 DEF ScanRoster
  <2>8. QED
    BY <2>3, <2>4, <2>5, <2>6, <2>7
       DEF rowVars, TypeOK, RowsTyped, L!TypeOK, LocksTyped, TransactionsTyped
<1>3. QED
  BY <1>1, <1>2

\* The commit of an assignment writes a well-typed row.
LEMMA CommitAllocationTyped ==
  ASSUME IInv, NEW t \in Requests, CommitAllocation(t)
  PROVE  TypeOK'
<1>1. LocksTyped' /\ TransactionsTyped'
  BY EndTyped DEF IInv, CommitAllocation, Finished
<1>2. op[t] \in Operation /\ op[t].kind \in {"select", "rotate"}
  BY DEF IInv, TypeOK, TransactionsTyped, Valid, KindFits, CommitAllocation, Choosing, NoOperation
<1>3. op[t].need \in Needs /\ op[t].roster \in Rosters \cup {None}
  BY <1>2 DEF Operation
<1>4. chosen[t] \in Providers /\ (op[t].kind = "rotate" => MemberFor(t) \in Members)
  BY DEF IInv, Valid, AssignmentStillValid, CommitAllocation, Inserting
<1>5. activeMatters' \in [Members -> Nat] /\ lastAssigned' \in [Members -> Nat]
  <2>1. CASE op[t].kind = "rotate"
    <3>1. /\ activeMatters' = [activeMatters EXCEPT ![MemberFor(t)] = @ + 1]
          /\ lastAssigned' = [lastAssigned EXCEPT ![MemberFor(t)] = startedAt[t]]
      BY <2>1 DEF CommitAllocation
    <3>2. startedAt[t] \in Nat
      BY DEF IInv, TypeOK, TransactionsTyped
    <3>3. activeMatters \in [Members -> Nat] /\ lastAssigned \in [Members -> Nat]
      BY DEF IInv, TypeOK, RowsTyped, L!TypeOK
    <3>4. MemberFor(t) \in Members
      BY <1>4, <2>1
    <3>5. QED
      BY <3>1, <3>2, <3>3, <3>4
  <2>2. CASE op[t].kind # "rotate"
    BY <2>2 DEF CommitAllocation, IInv, TypeOK, RowsTyped, L!TypeOK
  <2>3. QED
    BY <2>1, <2>2
<1>6. RowsTyped'
  BY <1>3, <1>4, <1>5 DEF CommitAllocation, IInv, TypeOK, RowsTyped, L!TypeOK, L!AllocationStatus
<1>7. QED
  BY <1>1, <1>6 DEF TypeOK

\* The commit of an acceptance, decline or cancellation writes well-typed rows.
LEMMA CommitBookingTyped ==
  ASSUME IInv, NEW t \in Requests, CommitBooking(t)
  PROVE  TypeOK'
<1> DEFINE a == op[t].on
<1>1. LocksTyped' /\ TransactionsTyped'
  BY EndTyped DEF IInv, CommitBooking, Finished
<1>2. op[t] \in Operation /\ op[t].kind \in {"accept", "decline", "cancel"}
  BY DEF IInv, TypeOK, TransactionsTyped, Valid, KindFits, CommitBooking, Moving, NoOperation
<1>3. a \in Requests /\ status[a] # "NONE"
  BY <1>2 DEF Operation, IInv, Valid, KindFits, CommitBooking, Moving
<1>4. providerOf[a] \in Providers /\ (rosterOf[a] # None => MemberOf(a) \in Members)
  BY <1>3 DEF IInv, Valid, RowFits
<1>5. CASE op[t].kind = "accept"
  <2>1. CommitAccept(a)
    BY <1>5 DEF CommitBooking
  <2>2. RowsTyped'
    BY <2>1, <1>3 DEF CommitBooking, CommitAccept, IInv, TypeOK, RowsTyped, L!TypeOK,
                      L!BookingStatus, L!MatterStatus
  <2>3. QED
    BY <1>1, <2>2 DEF TypeOK
<1>6. CASE op[t].kind # "accept"
  <2>1. PICK outcome \in {"DECLINED", "CANCELLED"} : CommitEnd(a, outcome)
    BY <1>2, <1>6 DEF CommitBooking
  <2>2. rosterOf[a] # None => activeMatters[MemberOf(a)] > 0
    BY <1>6 DEF IInv, Valid, BookingStillHeld, CommitBooking
  <2>3. activeMatters' \in [Members -> Nat] /\ declineSignals' \in [Providers -> Nat]
    BY <2>1, <2>2, <1>4 DEF CommitEnd, IInv, TypeOK, RowsTyped, L!TypeOK
  <2>4. RowsTyped'
    BY <2>1, <2>3, <1>3 DEF CommitBooking, CommitEnd, IInv, TypeOK, RowsTyped, L!TypeOK,
                            L!BookingStatus, L!AllocationStatus
  <2>5. QED
    BY <1>1, <2>4 DEF TypeOK
<1>7. QED
  BY <1>5, <1>6

\* No step breaks a type.
LEMMA TypePreserved ==
  ASSUME IInv, [Next]_vars
  PROVE  TypeOK'
<1> USE DEF IInv
<1>1. ASSUME NEW t \in Requests, Begin(t) PROVE TypeOK'
  BY <1>1, BeginTyped
<1>2. ASSUME NEW t \in Requests, Step(t) PROVE TypeOK'
  <2> USE RollbackTyped DEF TypeOK, RowsTyped, L!TypeOK, LocksTyped, TransactionsTyped,
                            rowVars, lockVars, Goto, Statement
  <2>1. CASE LockNeedForSelect(t)
    BY <2>1 DEF LockNeedForSelect
  <2>2. CASE LockNeedForRotate(t)
    BY <2>2 DEF LockNeedForRotate
  <2>3. CASE LockProvider(t)
    <3>1. CASE Rollback(t)
      BY <3>1
    <3>2. CASE ~Rollback(t)
      <4>1. /\ providerOwner' = [providerOwner EXCEPT ![chosen[t]] = t]
            /\ pc' = [pc EXCEPT ![t] = "insertAllocation"]
            /\ UNCHANGED <<rowVars, needOwner, memberOwner, providerShare,
                           bookingOwner, op, chosen, queue, startedAt, clock>>
        BY <2>3, <3>2 DEF LockProvider
      <4>2. QED
        BY <4>1
    <3>3. QED
      BY <3>1, <3>2
  <2>4. CASE QueryRoster(t)
    BY <2>4, QueryRosterTyped
  <2>5. CASE ScanRoster(t)
    BY <2>5, ScanRosterTyped
  <2>6. CASE InsertAllocation(t)
    BY <2>6 DEF InsertAllocation
  <2>7. CASE CommitAllocation(t)
    BY <2>7, CommitAllocationTyped
  <2>8. CASE LockBooking(t)
    BY <2>8 DEF LockBooking
  <2>9. CASE UpdateBooking(t)
    BY <2>9 DEF UpdateBooking
  <2>10. CASE UpdateMember(t)
    BY <2>10 DEF UpdateMember
  <2>11. CASE InsertSignal(t)
    BY <2>11 DEF InsertSignal, ShareProvider
  <2>12. CASE InsertMatter(t)
    <3>1. CASE ShareProvider(t, "commitBooking")
      BY <3>1 DEF ShareProvider
    <3>2. QED
      BY <2>12, <3>1 DEF InsertMatter
  <2>13. CASE CommitBooking(t)
    BY <2>13, CommitBookingTyped
  <2>14. CASE QueryProvider(t)
    BY <2>14 DEF QueryProvider
  <2>15. QED
    BY <1>2, <2>1, <2>2, <2>3, <2>4, <2>5, <2>6, <2>7, <2>8, <2>9, <2>10, <2>11, <2>12, <2>13,
       <2>14
       DEF Step
<1>3. ASSUME NEW t \in Requests, Crash(t) \/ AbortDeadlocked(t) PROVE TypeOK'
  BY <1>3, RollbackTyped DEF Crash, AbortDeadlocked
<1>4. ASSUME NEW a \in Requests, HoldBooking(a) \/ CloseMatter(a) \/ Complete(a)
      PROVE  TypeOK'
  <2> USE DEF TypeOK, RowsTyped, L!TypeOK, LocksTyped, TransactionsTyped, lockVars, txVars
  <2>1. CASE HoldBooking(a)
    BY <2>1 DEF HoldBooking, L!BookingStatus
  <2>2. CASE CloseMatter(a)
    BY <2>2 DEF CloseMatter, L!MatterStatus
  <2>3. CASE Complete(a)
    BY <2>3 DEF Complete, L!AllocationStatus
  <2>4. QED
    BY <1>4, <2>1, <2>2, <2>3
<1>5. ASSUME NEW p \in Providers,
             ChangeProvider(p) \/ \E n \in Needs : ChangeService(p, n)
      PROVE  TypeOK'
  <2>1. passesUntil' \in [Providers -> Dates]
    BY <1>5 DEF ChangeProvider, ChangeService, TypeOK, RowsTyped
  <2>2. serves' \in [Providers -> SUBSET Needs]
    <3>1. CASE ChangeProvider(p)
      BY <3>1 DEF ChangeProvider, TypeOK, RowsTyped
    <3>2. ASSUME NEW n \in Needs, ChangeService(p, n)
          PROVE  serves' \in [Providers -> SUBSET Needs]
      BY <3>2 DEF ChangeService, TypeOK, RowsTyped
    <3>3. QED
      BY <1>5, <3>1, <3>2
  <2>3. /\ UNCHANGED <<status, needOf, providerOf, rosterOf, booking, matter, activeMatters,
                       declineSignals, lastAssigned, lockVars, txVars>>
    BY <1>5 DEF ChangeProvider, ChangeService
  <2>4. [q \in Providers |-> passesUntil[q] > 0]' \in [Providers -> BOOLEAN]
    OBVIOUS
  <2>5. QED
    BY <2>1, <2>2, <2>3, <2>4 DEF TypeOK, RowsTyped, L!TypeOK, LocksTyped,
              TransactionsTyped, lockVars, txVars
<1>6. CASE UNCHANGED vars
  BY <1>6 DEF vars, rowVars, lockVars, txVars, TypeOK, RowsTyped, L!TypeOK, LocksTyped,
              TransactionsTyped
<1>7. QED
  BY <1>1, <1>2, <1>3, <1>4, <1>5, <1>6 DEF Next
-----------------------------------------------------------------------------
(* The invariant: what one step leaves alone *)

\* A step that keeps the statement, the request, the start and every lock of u.
Keeps(u) ==
    /\ pc'[u] = pc[u] /\ op'[u] = op[u] /\ chosen'[u] = chosen[u] /\ queue'[u] = queue[u]
    /\ startedAt'[u] = startedAt[u]
    /\ \A n \in Needs : needOwner[n] = u => needOwner'[n] = u
    /\ \A m \in Members : memberOwner[m] = u => memberOwner'[m] = u
    /\ \A p \in Providers : providerOwner[p] = u => providerOwner'[p] = u
    /\ \A a \in Requests : bookingOwner[a] = u => bookingOwner'[a] = u

\* A request has an operation of its own kind once it has begun.
LEMMA OperationTyped ==
  ASSUME IInv, NEW t \in Requests
  PROVE  /\ op[t].kind = "select" => op[t].roster = None
         /\ op[t].kind \in {"select", "rotate"} =>
               op[t].need \in Needs /\ op[t].roster \in Rosters \cup {None}
         /\ op[t].kind \in {"accept", "decline", "cancel"} => op[t].on \in Requests
<1>1. op[t] \in Operation \cup {NoOperation}
  BY DEF IInv, TypeOK, TransactionsTyped
<1>2. CASE op[t] \in Operation
  BY <1>2 DEF Operation
<1>3. CASE op[t] = NoOperation
  BY <1>3 DEF NoOperation
<1>4. QED
  BY <1>1, <1>2, <1>3

\* A request whose locks are kept relies on nothing that a step without a
\* commit can change.
LEMMA KeptIsValid ==
  ASSUME IInv, NEW u \in Requests, Keeps(u), UNCHANGED rowVars
  PROVE  Valid(u)'
<1>1. KindFits(u) /\ RowFits(u) /\ AssignmentStillValid(u) /\ BookingStillHeld(u)
  BY DEF IInv, Valid
<1>2. op[u].kind \in {"select", "rotate"} => op[u].need \in Needs
  BY OperationTyped
<1>3. op[u].kind \in {"accept", "decline", "cancel"} =>
        op[u].on \in Requests /\ RowFits(op[u].on)
  BY OperationTyped DEF IInv, Valid
<1>4. KindFits(u)'
  BY <1>1 DEF Keeps, KindFits, rowVars
<1>5. RowFits(u)'
  BY <1>1 DEF Keeps, RowFits, MemberOf, rowVars
<1>6. AssignmentStillValid(u)'
  BY <1>1, <1>2 DEF Keeps, KindFits, AssignmentStillValid, Choosing, Inserting, MemberFor,
                    ActiveAllocations, RowPasses, rowVars
<1>7. BookingStillHeld(u)'
  BY <1>1, <1>3 DEF Keeps, KindFits, RowFits, BookingStillHeld, Moving, MemberOf, rowVars
<1>8. QED
  BY <1>4, <1>5, <1>6, <1>7 DEF Valid

\* The end of a transaction keeps what every other request holds.
LEMMA EndKeepsOthers ==
  ASSUME TypeOK, NEW t \in Requests, NEW outcome \in Finished, EndTransaction(t, outcome),
         NEW u \in Requests, u # t
  PROVE  Keeps(u)
  BY DEF Keeps, EndTransaction, Released, TypeOK, LocksTyped, TransactionsTyped

\* A request that has ended relies on nothing.
LEMMA EndedIsValid ==
  ASSUME IInv, NEW t \in Requests, NEW outcome \in Finished, EndTransaction(t, outcome),
         RowFits(t)'
  PROVE  Valid(t)'
<1>1. pc'[t] = outcome /\ op'[t] = NoOperation
  BY DEF EndTransaction, IInv, TypeOK, TransactionsTyped
<1>2. KindFits(t)'
  BY <1>1 DEF KindFits, Choosing, Moving, Finished, NoOperation
<1>3. AssignmentStillValid(t)'
  BY <1>1 DEF AssignmentStillValid, Choosing, Inserting, Finished
<1>4. BookingStillHeld(t)'
  BY <1>1 DEF BookingStillHeld, Moving, Finished
<1>5. QED
  BY <1>2, <1>3, <1>4 DEF Valid

\* A rollback changes no row and no other request.
LEMMA RollbackKeeps ==
  ASSUME IInv, NEW t \in Requests, pc[t] \in Statement, Rollback(t), NEW u \in Requests
  PROVE  Valid(u)'
<1>1. CASE u = t
  <2>1. status[t] = "NONE"
    BY DEF IInv, Valid, RowFits, Statement
  <2>2. RowFits(t)'
    BY <2>1 DEF Rollback, rowVars, RowFits
  <2>3. QED
    BY <1>1, <2>2, EndedIsValid DEF Rollback, Finished
<1>2. CASE u # t
  BY <1>2, EndKeepsOthers, KeptIsValid DEF Rollback, Finished, IInv
<1>3. QED
  BY <1>1, <1>2

\* Locking the need leaves the other requests alone.
LEMMA LockNeedForSelectKeepsOthers ==
  ASSUME TypeOK, NEW t \in Requests, LockNeedForSelect(t), ~Rollback(t),
       NEW u \in Requests, u # t
  PROVE  Keeps(u) /\ UNCHANGED rowVars
  BY RowsAssumption DEF LockNeedForSelect, FreeFor, ProviderFreeFor, Goto, Keeps, TypeOK,
       LocksTyped, TransactionsTyped, rowVars, lockVars

\* So does locking it for a rotation.
LEMMA LockNeedForRotateKeepsOthers ==
  ASSUME TypeOK, NEW t \in Requests, LockNeedForRotate(t), ~Rollback(t),
       NEW u \in Requests, u # t
  PROVE  Keeps(u) /\ UNCHANGED rowVars
  BY RowsAssumption DEF LockNeedForRotate, FreeFor, ProviderFreeFor, Goto, Keeps, TypeOK,
       LocksTyped, TransactionsTyped, rowVars, lockVars

\* Reading a provider and its service leaves the other requests alone.
LEMMA QueryProviderKeepsOthers ==
  ASSUME TypeOK, NEW t \in Requests, QueryProvider(t), ~Rollback(t), NEW u \in Requests, u # t
  PROVE  Keeps(u) /\ UNCHANGED rowVars
  BY DEF QueryProvider, Goto, Keeps, TypeOK, LocksTyped, TransactionsTyped, rowVars, lockVars

\* Locking a provider takes it from nobody.
LEMMA LockProviderKeepsOthers ==
  ASSUME TypeOK, NEW t \in Requests, LockProvider(t), ~Rollback(t), NEW u \in Requests, u # t
  PROVE  Keeps(u) /\ UNCHANGED rowVars
  BY RowsAssumption DEF LockProvider, FreeFor, ProviderFreeFor, Goto, Keeps, TypeOK,
       LocksTyped, TransactionsTyped, rowVars, lockVars

\* The rotation query only reads.
LEMMA QueryRosterKeepsOthers ==
  ASSUME TypeOK, NEW t \in Requests, QueryRoster(t), NEW u \in Requests, u # t
  PROVE  Keeps(u) /\ UNCHANGED rowVars
  BY RowsAssumption DEF QueryRoster, FreeFor, ProviderFreeFor, Goto, Keeps, TypeOK,
       LocksTyped, TransactionsTyped, rowVars, lockVars

\* SKIP LOCKED takes no lock that another request holds.
LEMMA ScanRosterKeepsOthers ==
  ASSUME TypeOK, NEW t \in Requests, ScanRoster(t), ~Rollback(t), NEW u \in Requests, u # t
  PROVE  Keeps(u) /\ UNCHANGED rowVars
<1> USE RowsAssumption DEF ScanRoster, FreeFor, ProviderFreeFor, Goto, Keeps, TypeOK,
     LocksTyped, TransactionsTyped
<1>1. UNCHANGED <<rowVars, needOwner, bookingOwner, op>>
  OBVIOUS
<1>2. pc'[u] = pc[u] /\ chosen'[u] = chosen[u] /\ queue'[u] = queue[u]
  OBVIOUS
<1>3. \A m \in Members : memberOwner[m] = u => memberOwner'[m] = u
  <2> DEFINE k == <<op[t].roster, Head(queue[t])>>
  <2>1. \/ memberOwner' = memberOwner
        \/ memberOwner[k] \in {None, t} /\ memberOwner' = [memberOwner EXCEPT ![k] = t]
    OBVIOUS
  <2>2. memberOwner \in [Members -> Requests \cup {None}]
    OBVIOUS
  <2> HIDE DEF k, ScanRoster, TypeOK, LocksTyped, TransactionsTyped
  <2>3. QED
    BY <2>1, <2>2
<1>4. \A p \in Providers : providerOwner[p] = u => providerOwner'[p] = u
  OBVIOUS
<1>5. QED
  BY <1>1, <1>2, <1>3, <1>4

\* An INSERT that meets no conflict is invisible to the others until the commit.
LEMMA InsertAllocationKeepsOthers ==
  ASSUME TypeOK, NEW t \in Requests, InsertAllocation(t), ~Rollback(t), NEW u \in Requests,
       u # t
  PROVE  Keeps(u) /\ UNCHANGED rowVars
  BY RowsAssumption DEF InsertAllocation, FreeFor, ProviderFreeFor, Goto, Keeps, TypeOK,
       LocksTyped, TransactionsTyped, rowVars, lockVars

\* Locking a booking takes it from nobody.
LEMMA LockBookingKeepsOthers ==
  ASSUME TypeOK, NEW t \in Requests, LockBooking(t), ~Rollback(t), NEW u \in Requests, u # t
  PROVE  Keeps(u) /\ UNCHANGED rowVars
  BY RowsAssumption DEF LockBooking, FreeFor, ProviderFreeFor, Goto, Keeps, TypeOK,
       LocksTyped, TransactionsTyped, rowVars, lockVars

\* An uncommitted UPDATE is invisible to the others.
LEMMA UpdateBookingKeepsOthers ==
  ASSUME TypeOK, NEW t \in Requests, UpdateBooking(t), NEW u \in Requests, u # t
  PROVE  Keeps(u) /\ UNCHANGED rowVars
  BY RowsAssumption DEF UpdateBooking, FreeFor, ProviderFreeFor, Goto, Keeps, TypeOK,
       LocksTyped, TransactionsTyped, rowVars, lockVars

\* Locking a membership takes it from nobody.
LEMMA UpdateMemberKeepsOthers ==
  ASSUME TypeOK, NEW t \in Requests, UpdateMember(t), ~Rollback(t), NEW u \in Requests, u # t
  PROVE  Keeps(u) /\ UNCHANGED rowVars
  BY RowsAssumption DEF UpdateMember, FreeFor, ProviderFreeFor, Goto, Keeps, TypeOK,
       LocksTyped, TransactionsTyped, rowVars, lockVars

\* A foreign-key lock takes nothing from the others.
LEMMA InsertSignalKeepsOthers ==
  ASSUME TypeOK, NEW t \in Requests, InsertSignal(t), NEW u \in Requests, u # t
  PROVE  Keeps(u) /\ UNCHANGED rowVars
  BY RowsAssumption DEF InsertSignal, ShareProvider, FreeFor, ProviderFreeFor, Goto, Keeps,
       TypeOK, LocksTyped, TransactionsTyped, rowVars, lockVars

\* Nor does the matter's.
LEMMA InsertMatterKeepsOthers ==
  ASSUME TypeOK, NEW t \in Requests, InsertMatter(t), ~Rollback(t), NEW u \in Requests, u # t
  PROVE  Keeps(u) /\ UNCHANGED rowVars
  BY RowsAssumption DEF InsertMatter, ShareProvider, FreeFor, ProviderFreeFor, Goto, Keeps,
       TypeOK, LocksTyped, TransactionsTyped, rowVars, lockVars

\* After locking the need, a selection has the checks it needs.
LEMMA LockNeedForSelectSelf ==
  ASSUME IInv, NEW t \in Requests, LockNeedForSelect(t), ~Rollback(t)
  PROVE  Valid(t)'
<1> USE DEF LockNeedForSelect, Goto, rowVars, lockVars
<1>1. KindFits(t) /\ RowFits(t) /\ AssignmentStillValid(t) /\ BookingStillHeld(t) /\ TypeOK
  BY DEF IInv, Valid
<1>2. KindFits(t)'
  BY <1>1 DEF KindFits, Choosing, Moving, MayMove, TypeOK, TransactionsTyped
<1>3. RowFits(t)'
  BY <1>1 DEF RowFits, MemberOf, TypeOK, TransactionsTyped
<1>4. AssignmentStillValid(t)'
  BY <1>1, OperationTyped DEF KindFits, AssignmentStillValid, Choosing, Inserting,
       MemberFor, TypeOK, TransactionsTyped, LocksTyped
<1>5. BookingStillHeld(t)'
  BY <1>1, OperationTyped DEF KindFits, BookingStillHeld, Moving, MemberOf, TypeOK,
       TransactionsTyped, LocksTyped
<1>6. QED
  BY <1>2, <1>3, <1>4, <1>5 DEF Valid

\* After locking the need, so has a rotation.
LEMMA LockNeedForRotateSelf ==
  ASSUME IInv, NEW t \in Requests, LockNeedForRotate(t), ~Rollback(t)
  PROVE  Valid(t)'
<1> USE DEF LockNeedForRotate, Goto, rowVars, lockVars
<1>1. KindFits(t) /\ RowFits(t) /\ AssignmentStillValid(t) /\ BookingStillHeld(t) /\ TypeOK
  BY DEF IInv, Valid
<1>2. KindFits(t)'
  BY <1>1 DEF KindFits, Choosing, Moving, MayMove, TypeOK, TransactionsTyped
<1>3. RowFits(t)'
  BY <1>1 DEF RowFits, MemberOf, TypeOK, TransactionsTyped
<1>4. AssignmentStillValid(t)'
  BY <1>1, OperationTyped DEF KindFits, AssignmentStillValid, Choosing, Inserting,
       MemberFor, TypeOK, TransactionsTyped, LocksTyped
<1>5. BookingStillHeld(t)'
  BY <1>1, OperationTyped DEF KindFits, BookingStillHeld, Moving, MemberOf, TypeOK,
       TransactionsTyped, LocksTyped
<1>6. QED
  BY <1>2, <1>3, <1>4, <1>5 DEF Valid

\* A provider that passed is still in the directory.
LEMMA QueryProviderSelf ==
  ASSUME IInv, NEW t \in Requests, QueryProvider(t), ~Rollback(t)
  PROVE  Valid(t)'
<1> USE DEF QueryProvider, Goto, rowVars, lockVars
<1>1. KindFits(t) /\ RowFits(t) /\ AssignmentStillValid(t) /\ BookingStillHeld(t) /\ TypeOK
  BY DEF IInv, Valid
<1>2. KindFits(t)'
  BY <1>1 DEF KindFits, Choosing, Moving, TypeOK, TransactionsTyped
<1>3. RowFits(t)'
  BY <1>1 DEF RowFits, MemberOf, TypeOK, TransactionsTyped
<1>4. AssignmentStillValid(t)'
  BY <1>1, OperationTyped DEF KindFits, AssignmentStillValid, Choosing, Inserting,
       MemberFor, TypeOK, TransactionsTyped, LocksTyped
<1>5. BookingStillHeld(t)'
  BY <1>1, OperationTyped DEF KindFits, BookingStillHeld, Moving, MemberOf, TypeOK,
       TransactionsTyped, LocksTyped
<1>6. QED
  BY <1>2, <1>3, <1>4, <1>5 DEF Valid

\* The locked provider row still passes and is still in the directory.
LEMMA LockProviderSelf ==
  ASSUME IInv, NEW t \in Requests, LockProvider(t), ~Rollback(t)
  PROVE  Valid(t)'
<1> USE DEF LockProvider, Goto, ProviderFreeFor, rowVars, lockVars
<1>1. KindFits(t) /\ RowFits(t) /\ AssignmentStillValid(t) /\ BookingStillHeld(t) /\ TypeOK
  BY DEF IInv, Valid
<1>2. KindFits(t)'
  BY <1>1 DEF KindFits, Choosing, Moving, MayMove, TypeOK, TransactionsTyped
<1>3. RowFits(t)'
  BY <1>1 DEF RowFits, MemberOf, TypeOK, TransactionsTyped
<1>4. AssignmentStillValid(t)'
  <2>1. op[t].kind = "select" /\ op[t].need \in Needs
    BY <1>1, OperationTyped DEF KindFits
  <2>2. /\ needOwner[op[t].need] = t /\ op[t].need \in PaidNeeds
        /\ chosen[t] \in Surfaced[op[t].need] /\ chosen[t] \in Providers
    BY <1>1, <2>1, RowsAssumption DEF AssignmentStillValid, Choosing
  <2>3. RowPasses(t, chosen[t]) /\ pc'[t] = "insertAllocation"
          /\ providerOwner' = [providerOwner EXCEPT ![chosen[t]] = t]
          /\ UNCHANGED <<op, chosen, needOwner>>
    BY <1>1 DEF TypeOK, TransactionsTyped
  <2>4. RowPasses(t, chosen[t])'
    BY <2>3 DEF RowPasses
  <2>5. providerOwner'[chosen[t]] = t
    BY <1>1, <2>2, <2>3 DEF TypeOK, LocksTyped
  <2> HIDE DEF LockProvider
  <2>6. QED
    BY <2>1, <2>2, <2>3, <2>4, <2>5 DEF AssignmentStillValid, Choosing, Inserting
<1>5. BookingStillHeld(t)'
  BY <1>1, OperationTyped DEF KindFits, BookingStillHeld, Moving, MemberOf, TypeOK,
       TransactionsTyped, LocksTyped
<1>6. QED
  BY <1>2, <1>3, <1>4, <1>5 DEF Valid

\* The query leaves members of the roster to visit.
LEMMA QueryRosterSelf ==
  ASSUME IInv, NEW t \in Requests, QueryRoster(t)
  PROVE  Valid(t)'
<1> USE DEF QueryRoster, Goto, rowVars, lockVars
<1>1. KindFits(t) /\ RowFits(t) /\ AssignmentStillValid(t) /\ BookingStillHeld(t) /\ TypeOK
  BY DEF IInv, Valid
<1>2. KindFits(t)'
  BY <1>1 DEF KindFits, Choosing, Moving, MayMove, TypeOK, TransactionsTyped
<1>3. RowFits(t)'
  BY <1>1 DEF RowFits, MemberOf, TypeOK, TransactionsTyped
<1>4. AssignmentStillValid(t)'
  <2> DEFINE r == op[t].roster
             candidates == {p \in Providers : <<r, p>> \in Members /\ CanTake(t, <<r, p>>)}
  <2>1. op[t].kind = "rotate" /\ needOwner[op[t].need] = t
    BY <1>1 DEF KindFits, AssignmentStillValid, Choosing
  <2>2. PICK q \in Orderings(candidates, r) : queue' = [queue EXCEPT ![t] = q]
    OBVIOUS
  <2>3. q \in [1 .. Cardinality(candidates) -> candidates]
    BY DEF Orderings
  <2>4. \A i \in DOMAIN q : <<r, q[i]>> \in Members
    BY <2>3
  <2>5. queue'[t] = q /\ pc'[t] = "scanRoster" /\ UNCHANGED <<op, needOwner>>
    BY <1>1, <2>2 DEF TypeOK, TransactionsTyped
  <2> HIDE DEF QueryRoster
  <2>6. QED
    BY <2>1, <2>4, <2>5 DEF AssignmentStillValid, Choosing, Inserting
<1>5. BookingStillHeld(t)'
  BY <1>1, OperationTyped DEF KindFits, BookingStillHeld, Moving, MemberOf, TypeOK,
       TransactionsTyped, LocksTyped
<1>6. QED
  BY <1>2, <1>3, <1>4, <1>5 DEF Valid

\* A member the scan takes is locked, below its capacity and eligible; one it
\* skips leaves members of the roster to visit.
LEMMA ScanRosterSelf ==
  ASSUME IInv, NEW t \in Requests, ScanRoster(t), ~Rollback(t)
  PROVE  Valid(t)'
<1> USE DEF ScanRoster, Goto, FreeFor, ProviderFreeFor, StillTakes, rowVars, lockVars
<1>1. KindFits(t) /\ RowFits(t) /\ AssignmentStillValid(t) /\ BookingStillHeld(t) /\ TypeOK
  BY DEF IInv, Valid
<1>2. KindFits(t)'
  BY <1>1 DEF KindFits, Choosing, Moving, MayMove, TypeOK, TransactionsTyped
<1>3. RowFits(t)'
  BY <1>1 DEF RowFits, MemberOf, TypeOK, TransactionsTyped
<1>4. AssignmentStillValid(t)'
  <2> DEFINE p == Head(queue[t])
             m == <<op[t].roster, p>>
  <2>1. op[t].kind = "rotate" /\ op[t].need \in Needs /\ needOwner[op[t].need] = t
    BY <1>1, OperationTyped DEF KindFits, AssignmentStillValid, Choosing
  <2>5. /\ queue[t] \in Seq(Providers) /\ queue[t] # <<>>
        /\ p \in Providers /\ m \in Members
    <3>1. queue[t] \in Seq(Providers) /\ queue[t] # <<>>
      BY <1>1 DEF TypeOK, TransactionsTyped
    <3>2. 1 \in DOMAIN queue[t] /\ p = queue[t][1] /\ p \in Providers
      BY <3>1
    <3>3. <<op[t].roster, queue[t][1]>> \in Members
      BY <1>1, <3>2 DEF AssignmentStillValid
    <3>4. QED
      BY <3>1, <3>2, <3>3
  <2>2. CASE pc'[t] = "insertAllocation"
    <3>1. /\ memberOwner' = [memberOwner EXCEPT ![m] = t]
          /\ providerOwner' = [providerOwner EXCEPT ![p] = t]
          /\ chosen' = [chosen EXCEPT ![t] = p]
          /\ activeMatters[m] < Capacity[m] /\ RowPasses(t, p)
          /\ UNCHANGED <<rowVars, startedAt>>
      BY <2>2
    <3>2. p \in Providers /\ m \in Members
      BY <2>5
    <3>3. /\ chosen'[t] = p /\ memberOwner'[m] = t /\ providerOwner'[p] = t
          /\ UNCHANGED <<op, needOwner, activeMatters, passesUntil, startedAt>>
      BY <1>1, <3>1, <3>2 DEF TypeOK, TransactionsTyped, LocksTyped
    <3> HIDE DEF ScanRoster, m, p
    <3>4. MemberFor(t)' = m
      BY <3>3 DEF MemberFor, m
    <3>5. RowPasses(t, chosen[t])'
      BY <3>1, <3>3 DEF RowPasses
    <3>6. QED
      BY <2>1, <2>2, <3>1, <3>2, <3>3, <3>4, <3>5 DEF AssignmentStillValid, Choosing, Inserting
  <2>3. CASE pc'[t] # "insertAllocation"
    <3>1. pc'[t] = "scanRoster" /\ queue'[t] = Tail(queue[t]) /\ UNCHANGED <<op, needOwner>>
      BY <2>3, <1>1 DEF TypeOK, TransactionsTyped
    <3>2. \A i \in DOMAIN Tail(queue[t]) :
             i + 1 \in DOMAIN queue[t] /\ Tail(queue[t])[i] = queue[t][i + 1]
      BY <2>5
    <3>3. \A i \in DOMAIN queue[t] : <<op[t].roster, queue[t][i]>> \in Members
      BY <1>1 DEF AssignmentStillValid
    <3>4. \A i \in DOMAIN queue'[t] : <<op[t].roster, queue'[t][i]>> \in Members
      BY <3>1, <3>2, <3>3
    <3> HIDE DEF ScanRoster
    <3>5. QED
      BY <2>1, <3>1, <3>4 DEF AssignmentStillValid, Choosing, Inserting
  <2>4. QED
    BY <2>2, <2>3
<1>5. BookingStillHeld(t)'
  BY <1>1, OperationTyped DEF KindFits, BookingStillHeld, Moving, MemberOf, TypeOK,
       TransactionsTyped, LocksTyped
<1>6. QED
  BY <1>2, <1>3, <1>4, <1>5 DEF Valid

\* After the INSERT no other allocation of the need is active.
LEMMA InsertAllocationSelf ==
  ASSUME IInv, NEW t \in Requests, InsertAllocation(t), ~Rollback(t)
  PROVE  Valid(t)'
<1> USE DEF InsertAllocation, Goto, ActiveAllocations, rowVars, lockVars
<1>1. KindFits(t) /\ RowFits(t) /\ AssignmentStillValid(t) /\ BookingStillHeld(t) /\ TypeOK
  BY DEF IInv, Valid
<1>2. KindFits(t)'
  BY <1>1 DEF KindFits, Choosing, Moving, MayMove, TypeOK, TransactionsTyped
<1>3. RowFits(t)'
  BY <1>1 DEF RowFits, MemberOf, TypeOK, TransactionsTyped
<1>4. AssignmentStillValid(t)'
  <2>1. pc'[t] = "commitAllocation" /\ UNCHANGED <<rowVars, lockVars, op, chosen, startedAt>>
    BY <1>1 DEF TypeOK, TransactionsTyped
  <2>2. ActiveAllocations(op[t].need) = {}
    OBVIOUS
  <2>3. ActiveAllocations(op[t].need)' = {}
    BY <2>1, <2>2
  <2> HIDE DEF InsertAllocation
  <2>4. pc[t] = "insertAllocation"
    BY DEF InsertAllocation
  <2>5. /\ needOwner[op[t].need] = t
        /\ op[t].kind = "select" => op[t].need \in PaidNeeds /\ chosen[t] \in Surfaced[op[t].need]
        /\ chosen[t] \in Providers /\ providerOwner[chosen[t]] = t /\ RowPasses(t, chosen[t])
        /\ op[t].kind = "rotate" =>
              /\ MemberFor(t) \in Members /\ memberOwner[MemberFor(t)] = t
              /\ activeMatters[MemberFor(t)] < Capacity[MemberFor(t)]
    BY <1>1, <2>4 DEF AssignmentStillValid, Choosing, Inserting
  <2>6. QED
    BY <2>1, <2>3, <2>5 DEF AssignmentStillValid, ActiveAllocations, MemberFor, RowPasses
<1>5. BookingStillHeld(t)'
  BY <1>1, OperationTyped DEF KindFits, BookingStillHeld, Moving, MemberOf, TypeOK,
       TransactionsTyped, LocksTyped
<1>6. QED
  BY <1>2, <1>3, <1>4, <1>5 DEF Valid

\* A locked booking is held and its allocation assigned.
LEMMA LockBookingSelf ==
  ASSUME IInv, NEW t \in Requests, LockBooking(t), ~Rollback(t)
  PROVE  Valid(t)'
<1> USE DEF LockBooking, Goto, MayMove, rowVars, lockVars
<1>1. KindFits(t) /\ RowFits(t) /\ AssignmentStillValid(t) /\ BookingStillHeld(t) /\ TypeOK
  BY DEF IInv, Valid
<1>2. KindFits(t)'
  BY <1>1 DEF KindFits, Choosing, Moving, MayMove, TypeOK, TransactionsTyped
<1>3. RowFits(t)'
  BY <1>1 DEF RowFits, MemberOf, TypeOK, TransactionsTyped
<1>4. AssignmentStillValid(t)'
  BY <1>1, OperationTyped DEF KindFits, AssignmentStillValid, Choosing, Inserting,
       MemberFor, TypeOK, TransactionsTyped, LocksTyped
<1>5. BookingStillHeld(t)'
  BY <1>1, OperationTyped DEF KindFits, BookingStillHeld, Moving, MemberOf, TypeOK,
       TransactionsTyped, LocksTyped
<1>6. QED
  BY <1>2, <1>3, <1>4, <1>5 DEF Valid

\* The UPDATE of the booking keeps what was checked.
LEMMA UpdateBookingSelf ==
  ASSUME IInv, NEW t \in Requests, UpdateBooking(t)
  PROVE  Valid(t)'
<1> USE DEF UpdateBooking, Goto, rowVars, lockVars
<1>1. KindFits(t) /\ RowFits(t) /\ AssignmentStillValid(t) /\ BookingStillHeld(t) /\ TypeOK
  BY DEF IInv, Valid
<1>2. KindFits(t)'
  BY <1>1 DEF KindFits, Choosing, Moving, MayMove, TypeOK, TransactionsTyped
<1>3. RowFits(t)'
  BY <1>1 DEF RowFits, MemberOf, TypeOK, TransactionsTyped
<1>4. AssignmentStillValid(t)'
  BY <1>1, OperationTyped DEF KindFits, AssignmentStillValid, Choosing, Inserting,
       MemberFor, TypeOK, TransactionsTyped, LocksTyped
<1>5. BookingStillHeld(t)'
  BY <1>1, OperationTyped DEF KindFits, BookingStillHeld, Moving, MemberOf, TypeOK,
       TransactionsTyped, LocksTyped
<1>6. QED
  BY <1>2, <1>3, <1>4, <1>5 DEF Valid

\* The locked membership has a matter to give back.
LEMMA UpdateMemberSelf ==
  ASSUME IInv, NEW t \in Requests, UpdateMember(t), ~Rollback(t)
  PROVE  Valid(t)'
<1> USE DEF UpdateMember, Goto, rowVars, lockVars
<1>1. KindFits(t) /\ RowFits(t) /\ AssignmentStillValid(t) /\ BookingStillHeld(t) /\ TypeOK
  BY DEF IInv, Valid
<1>2. KindFits(t)'
  BY <1>1 DEF KindFits, Choosing, Moving, MayMove, TypeOK, TransactionsTyped
<1>3. RowFits(t)'
  BY <1>1 DEF RowFits, MemberOf, TypeOK, TransactionsTyped
<1>4. AssignmentStillValid(t)'
  BY <1>1, OperationTyped DEF KindFits, AssignmentStillValid, Choosing, Inserting,
       MemberFor, TypeOK, TransactionsTyped, LocksTyped
<1>5. BookingStillHeld(t)'
  <2> DEFINE a == op[t].on
  <2>1. /\ bookingOwner[a] = t /\ status[a] = "ASSIGNED" /\ booking[a] = "HELD"
        /\ rosterOf[a] # None /\ op[t].kind # "accept" /\ a \in Requests
    BY <1>1, OperationTyped DEF KindFits, BookingStillHeld, Moving
  <2>2. MemberOf(a) \in Members
    BY <2>1 DEF IInv, Valid, RowFits
  <2>3. memberOwner'[MemberOf(a)] = t /\ activeMatters[MemberOf(a)] > 0
    BY <1>1, <2>2 DEF TypeOK, LocksTyped
  <2>4. pc'[t] \in {"insertSignal", "commitBooking"}
    BY <1>1 DEF TypeOK, TransactionsTyped
  <2>5. QED
    BY <2>1, <2>3, <2>4 DEF BookingStillHeld, Moving, MemberOf
<1>6. QED
  BY <1>2, <1>3, <1>4, <1>5 DEF Valid

\* The conduct signal keeps what was checked.
LEMMA InsertSignalSelf ==
  ASSUME IInv, NEW t \in Requests, InsertSignal(t)
  PROVE  Valid(t)'
<1> USE DEF InsertSignal, Goto, ShareProvider, rowVars, lockVars
<1>1. KindFits(t) /\ RowFits(t) /\ AssignmentStillValid(t) /\ BookingStillHeld(t) /\ TypeOK
  BY DEF IInv, Valid
<1>2. KindFits(t)'
  BY <1>1 DEF KindFits, Choosing, Moving, MayMove, TypeOK, TransactionsTyped
<1>3. RowFits(t)'
  BY <1>1 DEF RowFits, MemberOf, TypeOK, TransactionsTyped
<1>4. AssignmentStillValid(t)'
  BY <1>1, OperationTyped DEF KindFits, AssignmentStillValid, Choosing, Inserting,
       MemberFor, TypeOK, TransactionsTyped, LocksTyped
<1>5. BookingStillHeld(t)'
  BY <1>1, OperationTyped DEF KindFits, BookingStillHeld, Moving, MemberOf, TypeOK,
       TransactionsTyped, LocksTyped
<1>6. QED
  BY <1>2, <1>3, <1>4, <1>5 DEF Valid

\* The matter is the first of its allocation.
LEMMA InsertMatterSelf ==
  ASSUME IInv, NEW t \in Requests, InsertMatter(t), ~Rollback(t)
  PROVE  Valid(t)'
<1> USE DEF InsertMatter, Goto, ShareProvider, rowVars, lockVars
<1>1. KindFits(t) /\ RowFits(t) /\ AssignmentStillValid(t) /\ BookingStillHeld(t) /\ TypeOK
  BY DEF IInv, Valid
<1>2. KindFits(t)'
  BY <1>1 DEF KindFits, Choosing, Moving, MayMove, TypeOK, TransactionsTyped
<1>3. RowFits(t)'
  BY <1>1 DEF RowFits, MemberOf, TypeOK, TransactionsTyped
<1>4. AssignmentStillValid(t)'
  BY <1>1, OperationTyped DEF KindFits, AssignmentStillValid, Choosing, Inserting,
       MemberFor, TypeOK, TransactionsTyped, LocksTyped
<1>5. BookingStillHeld(t)'
  BY <1>1, OperationTyped DEF KindFits, BookingStillHeld, Moving, MemberOf, TypeOK,
       TransactionsTyped, LocksTyped
<1>6. QED
  BY <1>2, <1>3, <1>4, <1>5 DEF Valid

\* A request that arrives relies on nothing yet.
LEMMA BeginKeeps ==
  ASSUME IInv, NEW t \in Requests, Begin(t), NEW u \in Requests
  PROVE  Valid(u)'
<1>1. CASE u # t
  <2>1. Keeps(u) /\ UNCHANGED rowVars
    BY <1>1 DEF Begin, Goto, Keeps, lockVars, IInv, TypeOK, TransactionsTyped
  <2>2. QED
    BY <2>1, KeptIsValid
<1>2. CASE u = t
  <2>1. KindFits(t) /\ RowFits(t) /\ pc[t] = "idle" /\ pc'[t] \in {"lockNeed", "lockBooking"}
    BY DEF IInv, Valid, Begin, Goto, TypeOK, TransactionsTyped
  <2>2. KindFits(t)'
    <3>1. op'[t] \in Operation /\ chosen'[t] = op'[t].provider
      BY DEF Begin, IInv, TypeOK, TransactionsTyped
    <3>2. op'[t].kind \in {"select", "rotate", "accept", "decline", "cancel"}
      BY <3>1 DEF Operation
    <3>3. pc'[t] = "lockNeed" => op'[t].kind \in {"select", "rotate"}
      BY DEF Begin, Goto, IInv, TypeOK, TransactionsTyped
    <3>4. pc'[t] = "lockBooking" => op'[t].kind \notin {"select",
         "rotate"} /\ status'[op'[t].on] # "NONE"
      BY DEF Begin, Goto, IInv, TypeOK, TransactionsTyped, rowVars
    <3>5. QED
      BY <2>1, <3>1, <3>2, <3>3, <3>4 DEF KindFits, Choosing, Moving
  <2>3. RowFits(t)'
    BY <2>1 DEF RowFits, Begin, rowVars, MemberOf
  <2>4. AssignmentStillValid(t)' /\ BookingStillHeld(t)'
    BY <2>1 DEF AssignmentStillValid, BookingStillHeld, Choosing, Inserting, Moving
  <2>5. QED
    BY <1>2, <2>2, <2>3, <2>4 DEF Valid
<1>3. QED
  BY <1>1, <1>2

\* The commit of an assignment invalidates no check of another request: the
\* need and the membership it changes are locked.
LEMMA CommitAllocationKeeps ==
  ASSUME IInv, NEW t \in Requests, CommitAllocation(t), NEW u \in Requests
  PROVE  Valid(u)'
<1>1. /\ op[t].kind \in {"select", "rotate"} /\ op[t].need \in Needs
      /\ op[t].roster \in Rosters \cup {None}
  BY OperationTyped DEF IInv, Valid, KindFits, CommitAllocation, Choosing
<1>2. /\ chosen[t] \in Providers /\ needOwner[op[t].need] = t
      /\ op[t].kind = "rotate" => MemberFor(t) \in Members /\ memberOwner[MemberFor(t)] = t
      /\ op[t].kind = "select" => op[t].roster = None
      /\ status[t] = "NONE"
  BY OperationTyped DEF IInv, Valid, AssignmentStillValid, RowFits, CommitAllocation,
       Choosing, Inserting
<1>3. EndTransaction(t, "committed") /\ TypeOK
  BY DEF CommitAllocation, IInv
<1>4. /\ \A a \in Requests : a # t =>
            /\ status'[a] = status[a] /\ needOf'[a] = needOf[a]
            /\ providerOf'[a] = providerOf[a] /\ rosterOf'[a] = rosterOf[a]
      /\ status'[t] = "ASSIGNED" /\ needOf'[t] = op[t].need
      /\ providerOf'[t] = chosen[t] /\ rosterOf'[t] = op[t].roster
      /\ UNCHANGED <<booking, matter, passesUntil>>
  BY <1>3 DEF CommitAllocation, TypeOK, RowsTyped, L!TypeOK
<1>5. CASE u = t
  <2>1. MemberOf(t)' = MemberFor(t)
    BY <1>4 DEF MemberOf, MemberFor
  <2>2. pc'[t] = "committed"
    BY <1>3 DEF EndTransaction, TypeOK, TransactionsTyped
  <2>3. RowFits(t)'
    BY <1>1, <1>2, <1>4, <2>1, <2>2 DEF RowFits
  <2>4. QED
    BY <1>3, <1>5, <2>3, EndedIsValid DEF Finished
<1>6. CASE u # t
  <2>1. Keeps(u)
    BY <1>3, <1>6, EndKeepsOthers DEF Finished
  <2>2. KindFits(u) /\ RowFits(u) /\ AssignmentStillValid(u) /\ BookingStillHeld(u)
    BY DEF IInv, Valid
  <2>3. KindFits(u)'
    BY <1>4, <2>1, <2>2, OperationTyped DEF Keeps, KindFits, Moving
  <2>4. RowFits(u)'
    BY <1>4, <1>6, <2>1, <2>2 DEF Keeps, RowFits, MemberOf
  <2>5. AssignmentStillValid(u)'
    <3>1. SUFFICES ASSUME pc[u] \in Choosing PROVE AssignmentStillValid(u)'
      BY <2>1 DEF Keeps, AssignmentStillValid, Choosing, Inserting
    <3>2. op[u].need \in Needs /\ op[u].need # op[t].need
      BY <1>2, <1>6, <2>2, <3>1, OperationTyped DEF KindFits, AssignmentStillValid
    <3>3. ActiveAllocations(op[u].need) = {} => ActiveAllocations(op[u].need)' = {}
      BY <1>4, <2>1, <3>2 DEF Keeps, ActiveAllocations
    <3>4. MemberFor(u) \in Members /\ memberOwner[MemberFor(u)] = u =>
             activeMatters'[MemberFor(u)] = activeMatters[MemberFor(u)]
      BY <1>2, <1>6 DEF CommitAllocation, IInv, TypeOK, RowsTyped, L!TypeOK
    <3>5. QED
      BY <1>4, <2>1, <2>2, <3>2, <3>3, <3>4
         DEF Keeps, AssignmentStillValid, Choosing, Inserting, MemberFor, RowPasses
  <2>6. BookingStillHeld(u)'
    <3> DEFINE a == op[u].on
    <3>1. SUFFICES ASSUME pc[u] \in Moving PROVE BookingStillHeld(u)'
      BY <2>1 DEF Keeps, BookingStillHeld, Moving
    <3>2. a \in Requests /\ a # t /\ RowFits(a) /\ status[a] # "NONE"
      BY <1>2, <2>2, <3>1, OperationTyped DEF KindFits, BookingStillHeld, IInv, Valid
    <3>3. MemberOf(a)' = MemberOf(a) /\ (rosterOf[a] # None => MemberOf(a) \in Members)
      BY <1>4, <2>1, <3>2 DEF Keeps, MemberOf, RowFits
    <3>4. MemberOf(a) \in Members /\ memberOwner[MemberOf(a)] = u =>
             activeMatters'[MemberOf(a)] = activeMatters[MemberOf(a)]
      BY <1>2, <1>6 DEF CommitAllocation, IInv, TypeOK, RowsTyped, L!TypeOK
    <3>5. QED
      BY <1>4, <2>1, <2>2, <3>2, <3>3, <3>4 DEF Keeps, BookingStillHeld, Moving
  <2>7. QED
    BY <2>3, <2>4, <2>5, <2>6 DEF Valid
<1>7. QED
  BY <1>5, <1>6

\* The commit of an acceptance, decline or cancellation invalidates no check of
\* another request: the booking and the membership it changes are locked.
LEMMA CommitBookingKeeps ==
  ASSUME IInv, NEW t \in Requests, CommitBooking(t), NEW u \in Requests
  PROVE  Valid(u)'
<1> DEFINE a == op[t].on
<1>1. op[t].kind \in {"accept", "decline", "cancel"} /\ a \in Requests /\ a # t
        /\ status[t] = "NONE" /\ status[a] = "ASSIGNED" /\ bookingOwner[a] = t
  BY OperationTyped DEF IInv, Valid, KindFits, RowFits, BookingStillHeld, CommitBooking, Moving
<1>2. op[t].kind # "accept" /\ rosterOf[a] # None =>
        MemberOf(a) \in Members /\ memberOwner[MemberOf(a)] = t
  BY <1>1 DEF IInv, Valid, RowFits, BookingStillHeld, CommitBooking
<1>3. EndTransaction(t, "committed") /\ TypeOK
  BY DEF CommitBooking, IInv
<1>4. /\ \A b \in Requests : b # a =>
            status'[b] = status[b] /\ booking'[b] = booking[b] /\ matter'[b] = matter[b]
      /\ status'[a] \in {"ASSIGNED", "DECLINED", "CANCELLED"}
      /\ UNCHANGED <<needOf, providerOf, rosterOf, passesUntil>>
  BY <1>1, <1>3 DEF CommitBooking, CommitAccept, CommitEnd, TypeOK, RowsTyped, L!TypeOK
<1>5. \A m \in Members : memberOwner[m] # t => activeMatters'[m] = activeMatters[m]
  BY <1>1, <1>2, <1>3 DEF CommitBooking, CommitAccept, CommitEnd, TypeOK, RowsTyped, L!TypeOK
<1>6. CASE u = t
  <2>1. RowFits(t)'
    BY <1>1, <1>4 DEF RowFits
  <2>2. QED
    BY <1>3, <1>6, <2>1, EndedIsValid DEF Finished
<1>7. CASE u # t
  <2>1. Keeps(u)
    BY <1>3, <1>7, EndKeepsOthers DEF Finished
  <2>2. KindFits(u) /\ RowFits(u) /\ AssignmentStillValid(u) /\ BookingStillHeld(u)
    BY DEF IInv, Valid
  <2>3. KindFits(u)'
    BY <1>1, <1>4, <2>1, <2>2, OperationTyped DEF Keeps, KindFits, Moving
  <2>4. RowFits(u)'
    BY <1>1, <1>4, <2>1, <2>2 DEF Keeps, RowFits, MemberOf
  <2>5. AssignmentStillValid(u)'
    <3>1. SUFFICES ASSUME pc[u] \in Choosing PROVE AssignmentStillValid(u)'
      BY <2>1 DEF Keeps, AssignmentStillValid, Choosing, Inserting
    <3>2. op[u].need \in Needs
      BY <2>2, <3>1, OperationTyped DEF KindFits
    <3>3. ActiveAllocations(op[u].need) = {} => ActiveAllocations(op[u].need)' = {}
      BY <1>1, <1>4, <2>1 DEF Keeps, ActiveAllocations
    <3>4. MemberFor(u) \in Members /\ memberOwner[MemberFor(u)] = u =>
             activeMatters'[MemberFor(u)] = activeMatters[MemberFor(u)]
      BY <1>5, <1>7
    <3>5. QED
      BY <1>4, <2>1, <2>2, <3>2, <3>3, <3>4
         DEF Keeps, AssignmentStillValid, Choosing, Inserting, MemberFor, RowPasses
  <2>6. BookingStillHeld(u)'
    <3> DEFINE b == op[u].on
    <3>1. SUFFICES ASSUME pc[u] \in Moving PROVE BookingStillHeld(u)'
      BY <2>1 DEF Keeps, BookingStillHeld, Moving
    <3>2. b \in Requests /\ b # a /\ RowFits(b) /\ status[b] # "NONE"
      BY <1>1, <1>7, <2>2, <3>1, OperationTyped DEF KindFits, BookingStillHeld, IInv, Valid
    <3>3. MemberOf(b)' = MemberOf(b) /\ (rosterOf[b] # None => MemberOf(b) \in Members)
      BY <1>4, <2>1, <3>2 DEF Keeps, MemberOf, RowFits
    <3>4. MemberOf(b) \in Members /\ memberOwner[MemberOf(b)] = u =>
             activeMatters'[MemberOf(b)] = activeMatters[MemberOf(b)]
      BY <1>5, <1>7
    <3>5. QED
      BY <1>4, <2>1, <2>2, <3>2, <3>3, <3>4 DEF Keeps, BookingStillHeld, Moving
  <2>7. QED
    BY <2>3, <2>4, <2>5, <2>6 DEF Valid
<1>8. QED
  BY <1>6, <1>7

\* The owner's bookings, closures, completions and provider edits invalidate no
\* check of a request in flight.
LEMMA OtherWritersKeep ==
  ASSUME IInv, NEW u \in Requests,
         \/ \E a \in Requests : HoldBooking(a) \/ CloseMatter(a) \/ Complete(a)
         \/ \E p \in Providers : ChangeProvider(p) \/ \E n \in Needs : ChangeService(p, n)
  PROVE  Valid(u)'
<1>1. Keeps(u)
  BY DEF HoldBooking, CloseMatter, Complete, ChangeProvider, ChangeService, lockVars, txVars,
         Keeps
<1>2. KindFits(u) /\ RowFits(u) /\ AssignmentStillValid(u) /\ BookingStillHeld(u) /\ TypeOK
  BY DEF IInv, Valid
<1> DEFINE Harmless ==
      /\ \A a \in Requests : \/ status'[a] = status[a]
                              \/ /\ status[a] = "ASSIGNED" /\ status'[a] = "COMPLETED"
                                 /\ bookingOwner[a] = None
      /\ \A a \in Requests : booking[a] = "HELD" => booking'[a] = "HELD"
      /\ \A a \in Requests : matter[a] = "NONE" => matter'[a] = "NONE"
      /\ \A p \in Providers : passesUntil'[p] = passesUntil[p] \/ providerOwner[p] = None
      /\ UNCHANGED <<needOf, providerOf, rosterOf, activeMatters>>
<1>3. Harmless
  <2> USE <1>2 DEF TypeOK, RowsTyped, L!TypeOK
  <2>1. ASSUME NEW a \in Requests, HoldBooking(a) PROVE Harmless
    BY <2>1 DEF HoldBooking
  <2>2. ASSUME NEW a \in Requests, CloseMatter(a) PROVE Harmless
    BY <2>2 DEF CloseMatter
  <2>3. ASSUME NEW a \in Requests, Complete(a) PROVE Harmless
    BY <2>3 DEF Complete
  <2>4. ASSUME NEW p \in Providers, ChangeProvider(p) \/ \E n \in Needs : ChangeService(p, n)
        PROVE  Harmless
    BY <2>4 DEF ChangeProvider, ChangeService
  <2>5. QED
    BY <2>1, <2>2, <2>3, <2>4
<1>4. u # None
  BY RowsAssumption
<1>5. KindFits(u)'
  BY <1>1, <1>2, <1>3, OperationTyped DEF Keeps, KindFits, Moving
<1>6. RowFits(u)'
  BY <1>1, <1>2, <1>3 DEF Keeps, RowFits, MemberOf
<1>7. AssignmentStillValid(u)'
  <2>1. SUFFICES ASSUME pc[u] \in Choosing PROVE AssignmentStillValid(u)'
    BY <1>1 DEF Keeps, AssignmentStillValid, Choosing, Inserting
  <2>2. op[u].need \in Needs
    BY <1>2, <2>1, OperationTyped DEF KindFits
  <2>3. ActiveAllocations(op[u].need) = {} => ActiveAllocations(op[u].need)' = {}
    BY <1>1, <1>3 DEF Keeps, ActiveAllocations
  <2>4. QED
    BY <1>1, <1>2, <1>3, <1>4, <2>2, <2>3
       DEF Keeps, AssignmentStillValid, Choosing, Inserting, MemberFor, RowPasses
<1>8. BookingStillHeld(u)'
  <2> DEFINE b == op[u].on
  <2>1. SUFFICES ASSUME pc[u] \in Moving PROVE BookingStillHeld(u)'
    BY <1>1 DEF Keeps, BookingStillHeld, Moving
  <2>2. b \in Requests /\ RowFits(b) /\ status[b] # "NONE"
    BY <1>2, <2>1, OperationTyped DEF KindFits, IInv, Valid
  <2>3. MemberOf(b)' = MemberOf(b) /\ (rosterOf[b] # None => MemberOf(b) \in Members)
    BY <1>1, <1>3, <2>2 DEF Keeps, MemberOf, RowFits
  <2>4. QED
    BY <1>1, <1>2, <1>3, <1>4, <2>2, <2>3 DEF Keeps, BookingStillHeld, Moving
<1>9. QED
  BY <1>5, <1>6, <1>7, <1>8 DEF Valid

\* A deadlocked request is at a statement.
LEMMA DeadlockedIsWaiting ==
  ASSUME NEW t \in Requests, Deadlocked(t)
  PROVE  pc[t] \in Statement
<1>1. \E v : WaitsFor(t, v)
  BY DEF Deadlocked, Waiting
<1>2. QED
  BY <1>1 DEF WaitsFor, Statement

\* No statement of a transaction invalidates a check.
LEMMA StepKeeps ==
  ASSUME IInv, NEW t \in Requests, Step(t), NEW u \in Requests
  PROVE  Valid(u)'
<1>1. pc[t] \in Statement
  BY DEF Step, LockNeedForSelect, LockNeedForRotate, QueryProvider, LockProvider, QueryRoster, ScanRoster,
         InsertAllocation, CommitAllocation, LockBooking, UpdateBooking, UpdateMember,
         InsertSignal, InsertMatter, CommitBooking, Statement
<1>2. CASE Rollback(t)
  BY <1>1, <1>2, RollbackKeeps
<1>3. CASE CommitAllocation(t) \/ CommitBooking(t)
  BY <1>3, CommitAllocationKeeps, CommitBookingKeeps
<1>4. CASE ~Rollback(t) /\ ~CommitAllocation(t) /\ ~CommitBooking(t)
  <2>1. CASE u = t
    BY <1>4, <2>1, LockNeedForSelectSelf, LockNeedForRotateSelf, QueryProviderSelf, LockProviderSelf,
       QueryRosterSelf, ScanRosterSelf, InsertAllocationSelf, LockBookingSelf,
       UpdateBookingSelf, UpdateMemberSelf, InsertSignalSelf, InsertMatterSelf DEF Step
  <2>2. CASE u # t
    <3>1. Keeps(u) /\ UNCHANGED rowVars
      BY <1>4, <2>2, LockNeedForSelectKeepsOthers, LockNeedForRotateKeepsOthers,
         QueryProviderKeepsOthers, LockProviderKeepsOthers, QueryRosterKeepsOthers, ScanRosterKeepsOthers,
         InsertAllocationKeepsOthers, LockBookingKeepsOthers, UpdateBookingKeepsOthers,
         UpdateMemberKeepsOthers, InsertSignalKeepsOthers, InsertMatterKeepsOthers
         DEF Step, IInv
    <3>2. QED
      BY <3>1, KeptIsValid
  <2>3. QED
    BY <2>1, <2>2
<1>5. QED
  BY <1>2, <1>3, <1>4

\* Nobody relies on anything at first.
LEMMA InitIsValid == Init => IInv
<1> SUFFICES ASSUME Init PROVE IInv
  OBVIOUS
<1>1. TypeOK
  <2>1. RowsTyped
    BY DEF Init, L!Init, RowsTyped, L!TypeOK, L!AllocationStatus, L!BookingStatus,
         L!MatterStatus
  <2>2. LocksTyped
    BY DEF Init, LocksTyped
  <2>3. TransactionsTyped
    <3>1. <<>> \in Seq(Providers)
      OBVIOUS
    <3>2. QED
      BY <3>1 DEF Init, TransactionsTyped
  <2>4. QED
    BY <2>1, <2>2, <2>3 DEF TypeOK
<1>2. ASSUME NEW t \in Requests PROVE Valid(t)
  <2>1. pc[t] = "idle" /\ op[t] = NoOperation /\ status[t] = "NONE"
    BY DEF Init, L!Init
  <2>2. KindFits(t) /\ RowFits(t)
    BY <2>1 DEF KindFits, RowFits, NoOperation, Choosing, Moving
  <2>3. AssignmentStillValid(t) /\ BookingStillHeld(t)
    BY <2>1 DEF AssignmentStillValid, BookingStillHeld, Choosing, Inserting, Moving
  <2>4. QED
    BY <2>2, <2>3 DEF Valid
<1>3. QED
  BY <1>1, <1>2 DEF IInv

\* What a request of POST /select, /rotate, /accept, /decline or /cancel has
\* checked stays true until it commits, in every interleaving.
THEOREM ChecksStayValid == Spec => []IInv
<1>1. Init => IInv
  BY InitIsValid
<1>2. IInv /\ [Next]_vars => IInv'
  <2> SUFFICES ASSUME IInv, [Next]_vars PROVE IInv'
    OBVIOUS
  <2>1. TypeOK'
    BY TypePreserved
  <2>2. ASSUME NEW u \in Requests PROVE Valid(u)'
    <3>1. CASE UNCHANGED vars
      <4>1. Keeps(u) /\ UNCHANGED rowVars
        BY <3>1 DEF vars, lockVars, txVars, Keeps
      <4>2. QED
        BY <4>1, KeptIsValid
    <3>2. ASSUME NEW t \in Requests, Crash(t) \/ AbortDeadlocked(t) PROVE Valid(u)'
      <4>1. Rollback(t) /\ pc[t] \in Statement
        BY <3>2, DeadlockedIsWaiting DEF Crash, AbortDeadlocked
      <4>2. QED
        BY <4>1, RollbackKeeps
    <3>3. QED
      BY <3>1, <3>2, BeginKeeps, StepKeeps, OtherWritersKeep DEF Next
  <2>3. QED
    BY <2>1, <2>2 DEF IInv
<1>3. QED
  BY <1>1, <1>2, PTL DEF Spec

\* A step that commits nothing is a stutter of AllocationLifecycle.
LEMMA QuietStepStutters ==
  ASSUME UNCHANGED rowVars
  PROVE  UNCHANGED L!vars
<1>1. [p \in Providers |-> passesUntil[p] > 0]' = [p \in Providers |-> passesUntil[p] > 0]
  BY DEF rowVars
<1>2. QED
  BY <1>1 DEF rowVars, L!vars, L!allocationVars

\* The commit of a selection or rotation is a Select or a Rotate.
LEMMA CommitAllocationImplements ==
  ASSUME IInv, NEW t \in Requests, CommitAllocation(t)
  PROVE  L!Next
<1> DEFINE n == op[t].need
           p == chosen[t]
<1>1. /\ op[t].kind \in {"select", "rotate"} /\ n \in Needs /\ p \in Providers
      /\ status[t] = "NONE" /\ ActiveAllocations(n) = {} /\ RowPasses(t, p)
  BY OperationTyped DEF IInv, Valid, KindFits, RowFits, AssignmentStillValid, CommitAllocation,
                        Choosing, Inserting
<1> DEFINE eligible == [q \in Providers |-> passesUntil[q] > 0]
<1>6. eligible[p] /\ eligible' = eligible
  <2>1. startedAt[t] \in Nat /\ passesUntil[p] \in Nat
    BY <1>1, RowsAssumption DEF IInv, TypeOK, RowsTyped, TransactionsTyped
  <2>2. passesUntil[p] > 0
    BY <1>1, <2>1 DEF RowPasses
  <2>3. passesUntil' = passesUntil
    BY DEF CommitAllocation
  <2>4. QED
    BY <1>1, <2>2, <2>3
<1>2. L!InsertRow(t, n, p, op[t].roster)
  BY <1>1, <1>6 DEF CommitAllocation, L!InsertRow, L!ActiveAllocations, ActiveAllocations
<1>3. CASE op[t].kind = "select"
  <2>1. n \in PaidNeeds /\ p \in Surfaced[n] /\ op[t].roster = None
    BY <1>3, OperationTyped DEF IInv, Valid, AssignmentStillValid, CommitAllocation, Choosing
  <2>2. L!Select(t, n, p)
    BY <1>2, <1>3, <2>1 DEF L!Select, CommitAllocation
  <2>3. QED
    BY <1>1, <2>2 DEF L!Next
<1>4. CASE op[t].kind = "rotate"
  <2>1. MemberFor(t) \in Members /\ activeMatters[MemberFor(t)] < Capacity[MemberFor(t)]
    BY <1>4 DEF IInv, Valid, AssignmentStillValid, CommitAllocation, Inserting
  <2>2. MemberFor(t)[1] = op[t].roster /\ MemberFor(t)[2] = p
    BY DEF MemberFor
  <2>3. L!Rotate(t, n, MemberFor(t))
    BY <1>2, <1>4, <2>1, <2>2 DEF L!Rotate, CommitAllocation
  <2>4. QED
    BY <1>1, <2>1, <2>3 DEF L!Next
<1>5. QED
  BY <1>1, <1>3, <1>4

\* The commit of POST /accept, /decline or /cancel is an Accept, Decline or Cancel.
LEMMA CommitBookingImplements ==
  ASSUME IInv, NEW t \in Requests, CommitBooking(t)
  PROVE  L!Next
<1> DEFINE a == op[t].on
<1>1. /\ op[t].kind \in {"accept", "decline", "cancel"} /\ a \in Requests
      /\ status[a] = "ASSIGNED" /\ booking[a] = "HELD"
      /\ op[t].kind = "accept" => matter[a] = "NONE"
      /\ op[t].kind # "accept" /\ rosterOf[a] # None => activeMatters[MemberOf(a)] > 0
  BY OperationTyped DEF IInv, Valid, KindFits, BookingStillHeld, CommitBooking, Moving
<1>2. CASE op[t].kind = "accept"
  <2>1. L!Accept(a)
    BY <1>1, <1>2 DEF CommitBooking, CommitAccept, L!Accept, L!allocationVars
  <2>2. QED
    BY <1>1, <2>1 DEF L!Next
<1>3. CASE op[t].kind = "decline"
  <2>1. L!EndHeld(a, "DECLINED")
    BY <1>1, <1>3 DEF CommitBooking, CommitEnd, L!EndHeld, MemberOf, L!MemberOf
  <2>2. L!Decline(a)
    BY <1>3, <2>1 DEF CommitBooking, CommitEnd, L!Decline
  <2>3. QED
    BY <1>1, <2>2 DEF L!Next
<1>4. CASE op[t].kind = "cancel"
  <2>1. L!EndHeld(a, "CANCELLED")
    BY <1>1, <1>4 DEF CommitBooking, CommitEnd, L!EndHeld, MemberOf, L!MemberOf
  <2>2. L!Cancel(a)
    BY <1>4, <2>1 DEF CommitBooking, CommitEnd, L!Cancel
  <2>3. QED
    BY <1>1, <2>2 DEF L!Next
<1>5. QED
  BY <1>1, <1>2, <1>3, <1>4

\* The endpoints, interleaved statement by statement under row locks, implement
\* the atomic operations of AllocationLifecycle.
THEOREM Implements == Spec => Serializable
<1>1. Init => L!Init
  BY DEF Init
<1>2. IInv /\ [Next]_vars => [L!Next]_(L!vars)
  <2> SUFFICES ASSUME IInv, [Next]_vars PROVE L!Next \/ UNCHANGED L!vars
    OBVIOUS
  <2>1. CASE UNCHANGED vars
    BY <2>1, QuietStepStutters DEF vars
  <2>2. ASSUME NEW t \in Requests, Begin(t) \/ Crash(t) \/ AbortDeadlocked(t)
        PROVE  UNCHANGED L!vars
    BY <2>2, QuietStepStutters DEF Begin, Crash, AbortDeadlocked, Rollback
  <2>3. ASSUME NEW t \in Requests, Step(t)
        PROVE  L!Next \/ UNCHANGED L!vars
    <3>1. CASE Rollback(t)
      BY <3>1, QuietStepStutters DEF Rollback
    <3>2. CASE CommitAllocation(t) \/ CommitBooking(t)
      BY <3>2, CommitAllocationImplements, CommitBookingImplements
    <3>3. CASE ~Rollback(t) /\ ~CommitAllocation(t) /\ ~CommitBooking(t)
      <4>1. UNCHANGED rowVars
        BY <2>3, <3>3 DEF Step, LockNeedForSelect, LockNeedForRotate, QueryProvider,
           LockProvider, QueryRoster, ScanRoster, InsertAllocation, LockBooking, UpdateBooking,
           UpdateMember, InsertSignal, InsertMatter, ShareProvider
      <4>2. QED
        BY <4>1, QuietStepStutters
    <3>4. QED
      BY <3>1, <3>2, <3>3
  <2> DEFINE eligible == [p \in Providers |-> passesUntil[p] > 0]
  <2>4. ASSUME NEW a \in Requests, HoldBooking(a) \/ CloseMatter(a) \/ Complete(a)
        PROVE  L!Next
    <3>1. eligible' = eligible
      BY <2>4 DEF HoldBooking, CloseMatter, Complete
    <3>2. L!HoldBooking(a) \/ L!CloseMatter(a) \/ L!Complete(a)
      BY <2>4, <3>1 DEF HoldBooking, CloseMatter, Complete, L!HoldBooking, L!CloseMatter,
                  L!Complete, L!allocationVars
    <3>3. QED
      BY <3>2 DEF L!Next
  <2>5. ASSUME NEW p \in Providers, ChangeProvider(p)
        PROVE  L!Next \/ UNCHANGED L!vars
    <3>1. /\ UNCHANGED <<status, needOf, providerOf, rosterOf, booking, matter,
                           activeMatters, declineSignals>>
          /\ \A q \in Providers \ {p} : eligible'[q] = eligible[q]
      BY <2>5 DEF ChangeProvider, IInv, TypeOK, RowsTyped
    <3>2. CASE eligible'[p] = eligible[p]
      <4>1. eligible' = eligible
        BY <3>1, <3>2
      <4>2. QED
        BY <3>1, <4>1 DEF L!vars, L!allocationVars
    <3>3. CASE eligible'[p] # eligible[p]
      <4>1. eligible'[p] = ~eligible[p]
        <5>1. eligible[p] \in BOOLEAN /\ eligible'[p] \in BOOLEAN
          OBVIOUS
        <5> HIDE DEF eligible
        <5>2. QED
          BY <3>3, <5>1
      <4>2. eligible' = [eligible EXCEPT ![p] = ~@]
        BY <3>1, <4>1
      <4>3. L!ChangeEligibility(p)
        BY <3>1, <4>2 DEF L!ChangeEligibility, L!allocationVars
      <4>4. QED
        BY <4>3 DEF L!Next
    <3>4. QED
      BY <3>2, <3>3
  <2>6. ASSUME NEW p \in Providers, NEW n \in Needs, ChangeService(p, n)
        PROVE  UNCHANGED L!vars
    <3>1. eligible' = eligible
      BY <2>6 DEF ChangeService
    <3>2. QED
      BY <2>6, <3>1 DEF ChangeService, L!vars, L!allocationVars
  <2>7. QED
    BY <2>1, <2>2, <2>3, <2>4, <2>5, <2>6 DEF Next
<1>3. QED
  BY <1>1, <1>2, ChecksStayValid, PTL DEF Spec, Serializable, L!Spec
=============================================================================
