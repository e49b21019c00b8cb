--------------------- MODULE AllocationLifecycleProofs ---------------------
(***************************************************************************)
(* The safety properties of AllocationLifecycle, for every set of needs,   *)
(* providers and rosters, every capacity and any finite set of             *)
(* allocations.                                                            *)
(***************************************************************************)
EXTENDS AllocationLifecycle, FiniteSetTheorems, TLAPS

\* Every column keeps a value of its type: no operation writes a status the
\* CHECK constraints do not list or an active_matters below zero.
THEOREM TypeCorrect == Spec => []TypeOK
<1>1. Init => TypeOK
  BY RowsAssumption DEF Init, TypeOK, AllocationStatus, BookingStatus, MatterStatus
<1>2. TypeOK /\ [Next]_vars => TypeOK'
  <2> SUFFICES ASSUME TypeOK, [Next]_vars PROVE TypeOK'
    OBVIOUS
  <2> USE RowsAssumption DEF TypeOK, AllocationStatus, BookingStatus, MatterStatus
  <2>1. ASSUME NEW a \in Allocations, NEW n \in Needs, NEW p \in Providers, Select(a, n, p)
        PROVE  TypeOK'
    BY <2>1 DEF Select, InsertRow
  <2>2. ASSUME NEW a \in Allocations, NEW n \in Needs, NEW m \in Members, Rotate(a, n, m)
        PROVE  TypeOK'
    <3>1. m[1] \in Rosters /\ m[2] \in Providers
      OBVIOUS
    <3>2. QED
      BY <2>2, <3>1 DEF Rotate, InsertRow
  <2>3. ASSUME NEW a \in Allocations, HoldBooking(a) PROVE TypeOK'
    BY <2>3 DEF HoldBooking, allocationVars
  <2>4. ASSUME NEW a \in Allocations, Accept(a) PROVE TypeOK'
    BY <2>4 DEF Accept, allocationVars
  <2>5. ASSUME NEW a \in Allocations, NEW outcome \in {"DECLINED", "CANCELLED"},
               EndHeld(a, outcome), declineSignals' \in [Providers -> Nat]
        PROVE  TypeOK'
    <3>1. activeMatters' \in [Members -> Nat]
      BY <2>5 DEF EndHeld
    <3>2. QED
      BY <2>5, <3>1 DEF EndHeld
  <2>6. ASSUME NEW a \in Allocations, Decline(a) PROVE TypeOK'
    <3>1. declineSignals' \in [Providers -> Nat]
      <4>1. CASE rosterOf[a] = None
        BY <2>6, <4>1 DEF Decline
      <4>2. CASE rosterOf[a] # None
        <5>1. declineSignals' = [declineSignals EXCEPT ![providerOf[a]] = @ + 1]
          BY <2>6, <4>2 DEF Decline
        <5>2. \A p \in Providers : declineSignals[p] \in Nat /\ declineSignals[p] + 1 \in Nat
          OBVIOUS
        <5>3. QED
          BY <5>1, <5>2
      <4>3. QED
        BY <4>1, <4>2
    <3>2. EndHeld(a, "DECLINED")
      BY <2>6 DEF Decline
    <3>3. QED
      BY <2>5, <3>1, <3>2
  <2>7. ASSUME NEW a \in Allocations, Cancel(a) PROVE TypeOK'
    <3>1. EndHeld(a, "CANCELLED") /\ declineSignals' \in [Providers -> Nat]
      BY <2>7 DEF Cancel
    <3>2. QED
      BY <2>5, <3>1
  <2>8. ASSUME NEW a \in Allocations, CloseMatter(a) PROVE TypeOK'
    BY <2>8 DEF CloseMatter, allocationVars
  <2>9. ASSUME NEW a \in Allocations, Complete(a) PROVE TypeOK'
    BY <2>9 DEF Complete
  <2>10. ASSUME NEW p \in Providers, ChangeEligibility(p) PROVE TypeOK'
    BY <2>10 DEF ChangeEligibility, allocationVars
  <2>11. CASE UNCHANGED vars
    BY <2>11 DEF vars, allocationVars
  <2>12. QED
    BY <2>1, <2>2, <2>3, <2>4, <2>6, <2>7, <2>8, <2>9, <2>10, <2>11 DEF Next
<1>3. QED
  BY <1>1, <1>2, PTL DEF Spec

-----------------------------------------------------------------------------
(* One active allocation per need, and the agreement of the rows *)

\* However selections and rotations are ordered, a need never has two
\* ASSIGNED allocations.
THEOREM OneActive == Spec => []OneActivePerNeed
<1>1. Init => OneActivePerNeed
  BY DEF Init, OneActivePerNeed
<1>2. TypeOK /\ OneActivePerNeed /\ [Next]_vars => OneActivePerNeed'
  <2> SUFFICES ASSUME TypeOK, OneActivePerNeed, [Next]_vars PROVE OneActivePerNeed'
    OBVIOUS
  <2>1. ASSUME NEW a \in Allocations, NEW n \in Needs, NEW p, NEW r, InsertRow(a, n, p, r)
        PROVE  OneActivePerNeed'
    BY <2>1 DEF InsertRow, ActiveAllocations, OneActivePerNeed, TypeOK
  <2>2. ASSUME NEW a \in Allocations, NEW outcome \in {"DECLINED", "CANCELLED", "COMPLETED"},
               status' = [status EXCEPT ![a] = outcome], needOf' = needOf
        PROVE  OneActivePerNeed'
    BY <2>2 DEF OneActivePerNeed, TypeOK
  <2>3. CASE UNCHANGED <<status, needOf>>
    BY <2>3 DEF OneActivePerNeed
  <2>4. QED
    BY <2>1, <2>2, <2>3 DEF Next, vars, allocationVars, Select, Rotate, HoldBooking, Accept,
       EndHeld, Decline, Cancel, CloseMatter, Complete, ChangeEligibility
<1>3. QED
  BY <1>1, <1>2, TypeCorrect, PTL DEF Spec

\* A held booking always has an assigned allocation and no matter, an ended
\* one the allocation's outcome, a matter a confirmed booking.
THEOREM BookingMatterAgreement == Spec => []RowsAgree
<1>1. Init => RowsAgree
  BY DEF Init, RowsAgree
<1>2. TypeOK /\ RowsAgree /\ [Next]_vars => RowsAgree'
  <2> SUFFICES ASSUME TypeOK, RowsAgree, [Next]_vars PROVE RowsAgree'
    OBVIOUS
  <2> USE DEF TypeOK, RowsAgree, AllocationStatus, BookingStatus, MatterStatus
  <2>1. ASSUME NEW a \in Allocations, NEW n \in Needs, NEW p, NEW r, InsertRow(a, n, p, r)
        PROVE  RowsAgree'
    BY <2>1 DEF InsertRow
  <2>2. ASSUME NEW a \in Allocations, HoldBooking(a) PROVE RowsAgree'
    BY <2>2 DEF HoldBooking, allocationVars
  <2>3. ASSUME NEW a \in Allocations, Accept(a) PROVE RowsAgree'
    BY <2>3 DEF Accept, allocationVars
  <2>4. ASSUME NEW a \in Allocations, NEW outcome \in {"DECLINED", "CANCELLED"},
               EndHeld(a, outcome)
        PROVE  RowsAgree'
    BY <2>4 DEF EndHeld
  <2>5. ASSUME NEW a \in Allocations, CloseMatter(a) PROVE RowsAgree'
    BY <2>5 DEF CloseMatter, allocationVars
  <2>6. ASSUME NEW a \in Allocations, Complete(a) PROVE RowsAgree'
    BY <2>6 DEF Complete
  <2>7. CASE UNCHANGED <<status, booking, matter>>
    BY <2>7
  <2>8. QED
    BY <2>1, <2>2, <2>3, <2>4, <2>5, <2>6, <2>7
       DEF Next, vars, allocationVars, Select, Rotate, Decline, Cancel, ChangeEligibility
<1>3. QED
  BY <1>1, <1>2, TypeCorrect, PTL DEF Spec

-----------------------------------------------------------------------------
(* Capacity *)

\* The allocations that occupy a member are finitely many, so they can be counted.
LEMMA OccupyingFinite == \A m : IsFiniteSet(Occupying(m)) /\ Cardinality(Occupying(m)) \in Nat
  BY FinitenessAssumption, FS_Subset, FS_CardinalityType DEF Occupying

\* active_matters is always the number of rotation allocations that occupy
\* the member, and within its capacity.
THEOREM CapacityInvariant == Spec => []CapacityConserved
<1>1. Init => CapacityConserved
  <2> SUFFICES ASSUME Init, NEW m \in Members
               PROVE  activeMatters[m] = Cardinality(Occupying(m)) /\ activeMatters[m] <= Capacity[m]
    BY DEF CapacityConserved
  <2>1. Occupying(m) = {}
    BY DEF Init, Occupying
  <2>2. activeMatters[m] = 0 /\ Capacity[m] \in Nat
    BY RowsAssumption DEF Init
  <2>3. QED
    BY <2>1, <2>2, FS_EmptySet
<1>2. TypeOK /\ CapacityConserved /\ [Next]_vars => CapacityConserved'
  <2> SUFFICES ASSUME TypeOK, CapacityConserved, [Next]_vars, NEW m \in Members
               PROVE  (/\ activeMatters[m] = Cardinality(Occupying(m))
                       /\ activeMatters[m] <= Capacity[m])'
    BY DEF CapacityConserved
  <2>0. /\ activeMatters[m] = Cardinality(Occupying(m))
        /\ activeMatters[m] <= Capacity[m]
        /\ activeMatters[m] \in Nat /\ Capacity[m] \in Nat
    BY RowsAssumption DEF CapacityConserved, TypeOK
  <2>1. ASSUME NEW a \in Allocations, NEW n \in Needs, NEW p \in Providers, Select(a, n, p)
        PROVE  activeMatters'[m] = activeMatters[m] /\ Occupying(m)' = Occupying(m)
    BY <2>1 DEF Select, InsertRow, Occupying, MemberOf, TypeOK
  <2>2. ASSUME NEW a \in Allocations, NEW n \in Needs, NEW k \in Members, Rotate(a, n, k)
        PROVE  (/\ activeMatters[m] = Cardinality(Occupying(m))
                /\ activeMatters[m] <= Capacity[m])'
    <3>1. k = <<k[1], k[2]>> /\ k[1] \in Rosters /\ k[1] # None
      BY RowsAssumption
    <3>2. a \notin Occupying(m)
      BY <2>2 DEF Rotate, InsertRow, Occupying
    <3>3. CASE m = k
      <4>1. Occupying(m)' = Occupying(m) \cup {a}
        BY <2>2, <3>1, <3>3 DEF Rotate, InsertRow, Occupying, MemberOf, TypeOK
      <4>2. Cardinality(Occupying(m)') = Cardinality(Occupying(m)) + 1
        BY <3>2, <4>1, OccupyingFinite, FS_AddElement
      <4>3. activeMatters'[m] = activeMatters[m] + 1 /\ activeMatters[m] < Capacity[m]
        BY <2>2, <3>3 DEF Rotate, TypeOK
      <4>4. QED
        BY <4>2, <4>3, <2>0
    <3>4. CASE m # k
      <4>1. Occupying(m)' = Occupying(m)
        BY <2>2, <3>1, <3>4 DEF Rotate, InsertRow, Occupying, MemberOf, TypeOK
      <4>2. activeMatters'[m] = activeMatters[m]
        BY <2>2, <3>4 DEF Rotate, TypeOK
      <4>3. QED
        BY <4>1, <4>2, <2>0
    <3>5. QED
      BY <3>3, <3>4
  <2>3. ASSUME NEW a \in Allocations, NEW outcome \in {"DECLINED", "CANCELLED"},
               EndHeld(a, outcome)
        PROVE  (/\ activeMatters[m] = Cardinality(Occupying(m))
                /\ activeMatters[m] <= Capacity[m])'
    <3>1. CASE rosterOf[a] # None /\ MemberOf(a) = m
      <4>1. a \in Occupying(m) /\ Occupying(m)' = Occupying(m) \ {a}
        BY <2>3, <3>1 DEF EndHeld, Occupying, MemberOf, TypeOK
      <4>2. Cardinality(Occupying(m)') = Cardinality(Occupying(m)) - 1
        BY <4>1, OccupyingFinite, FS_RemoveElement
      <4>3. activeMatters'[m] = activeMatters[m] - 1
        BY <2>3, <3>1 DEF EndHeld, TypeOK
      <4>4. QED
        BY <4>2, <4>3, <2>0
    <3>2. CASE ~(rosterOf[a] # None /\ MemberOf(a) = m)
      <4>1. Occupying(m)' = Occupying(m)
        BY <2>3, <3>2 DEF EndHeld, Occupying, MemberOf, TypeOK
      <4>2. activeMatters'[m] = activeMatters[m]
        BY <2>3, <3>2 DEF EndHeld, TypeOK
      <4>3. QED
        BY <4>1, <4>2, <2>0
    <3>3. QED
      BY <3>1, <3>2
  <2>4. ASSUME NEW a \in Allocations, Complete(a)
        PROVE  activeMatters'[m] = activeMatters[m] /\ Occupying(m)' = Occupying(m)
    BY <2>4 DEF Complete, Occupying, MemberOf, TypeOK
  <2>5. ASSUME UNCHANGED <<allocationVars, activeMatters>>
        PROVE  activeMatters'[m] = activeMatters[m] /\ Occupying(m)' = Occupying(m)
    BY <2>5 DEF allocationVars, Occupying, MemberOf
  <2>6. QED
    BY <2>0, <2>1, <2>2, <2>3, <2>4, <2>5 DEF Next, vars, HoldBooking, Accept,
       Decline, Cancel, CloseMatter, ChangeEligibility
<1>3. QED
  BY <1>1, <1>2, TypeCorrect, PTL DEF Spec

-----------------------------------------------------------------------------
(* Conduct signals *)

\* So are the declined rotations of a provider.
LEMMA DeclinedFinite ==
  \A p : IsFiniteSet(DeclinedRotations(p)) /\ Cardinality(DeclinedRotations(p)) \in Nat
  BY FinitenessAssumption, FS_Subset, FS_CardinalityType DEF DeclinedRotations

\* The ROTATION_DECLINE signals of a provider number its declined rotation
\* allocations, so a decline is counted once and nothing else is.
THEOREM SignalInvariant == Spec => []SignalsMatchDeclines
<1>1. Init => SignalsMatchDeclines
  <2> SUFFICES ASSUME Init, NEW p \in Providers
               PROVE  declineSignals[p] = Cardinality(DeclinedRotations(p))
    BY DEF SignalsMatchDeclines
  <2>1. DeclinedRotations(p) = {} /\ declineSignals[p] = 0
    BY DEF Init, DeclinedRotations
  <2>2. QED
    BY <2>1, FS_EmptySet
<1>2. TypeOK /\ SignalsMatchDeclines /\ [Next]_vars => SignalsMatchDeclines'
  <2> SUFFICES ASSUME TypeOK, SignalsMatchDeclines, [Next]_vars, NEW p \in Providers
               PROVE  (declineSignals[p] = Cardinality(DeclinedRotations(p)))'
    BY DEF SignalsMatchDeclines
  <2>0. declineSignals[p] = Cardinality(DeclinedRotations(p)) /\ declineSignals[p] \in Nat
    BY DEF SignalsMatchDeclines, TypeOK
  <2>1. ASSUME NEW a \in Allocations, NEW n \in Needs, NEW q, NEW r, InsertRow(a, n, q, r)
        PROVE  declineSignals'[p] = declineSignals[p]
               /\ DeclinedRotations(p)' = DeclinedRotations(p)
    BY <2>1 DEF InsertRow, DeclinedRotations, TypeOK
  <2>2. ASSUME NEW a \in Allocations, Decline(a), rosterOf[a] # None, providerOf[a] = p
        PROVE  (declineSignals[p] = Cardinality(DeclinedRotations(p)))'
    <3>1. /\ a \notin DeclinedRotations(p)
          /\ DeclinedRotations(p)' = DeclinedRotations(p) \cup {a}
      BY <2>2 DEF Decline, EndHeld, DeclinedRotations, TypeOK
    <3>2. Cardinality(DeclinedRotations(p)') = Cardinality(DeclinedRotations(p)) + 1
      BY <3>1, DeclinedFinite, FS_AddElement
    <3>3. declineSignals'[p] = declineSignals[p] + 1
      BY <2>2 DEF Decline, TypeOK
    <3>4. QED
      BY <3>2, <3>3, <2>0
  <2>3. ASSUME NEW a \in Allocations, Decline(a), ~(rosterOf[a] # None /\ providerOf[a] = p)
        PROVE  declineSignals'[p] = declineSignals[p]
               /\ DeclinedRotations(p)' = DeclinedRotations(p)
    <3>1. declineSignals'[p] = declineSignals[p]
      BY <2>3 DEF Decline, TypeOK
    <3>2. DeclinedRotations(p)' = DeclinedRotations(p)
      BY <2>3 DEF Decline, EndHeld, DeclinedRotations, TypeOK
    <3>3. QED
      BY <3>1, <3>2
  <2>4. ASSUME NEW a \in Allocations, Cancel(a)
        PROVE  declineSignals'[p] = declineSignals[p]
               /\ DeclinedRotations(p)' = DeclinedRotations(p)
    BY <2>4 DEF Cancel, EndHeld, DeclinedRotations, TypeOK
  <2>5. ASSUME NEW a \in Allocations, Complete(a)
        PROVE  declineSignals'[p] = declineSignals[p]
               /\ DeclinedRotations(p)' = DeclinedRotations(p)
    BY <2>5 DEF Complete, DeclinedRotations, TypeOK
  <2>6. ASSUME UNCHANGED <<allocationVars, declineSignals>>
        PROVE  declineSignals'[p] = declineSignals[p]
               /\ DeclinedRotations(p)' = DeclinedRotations(p)
    BY <2>6 DEF allocationVars, DeclinedRotations
  <2>7. QED
    BY <2>0, <2>1, <2>2, <2>3, <2>4, <2>5, <2>6 DEF Next, vars, Select, Rotate,
       HoldBooking, Accept, CloseMatter, ChangeEligibility
<1>3. QED
  BY <1>1, <1>2, TypeCorrect, PTL DEF Spec
=============================================================================
