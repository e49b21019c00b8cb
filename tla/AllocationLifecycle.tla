------------------------ MODULE AllocationLifecycle ------------------------
(***************************************************************************)
(* What the intake and scheduling endpoints promise about an allocation.   *)
(* Every operation that ends in a committed transaction is ONE step here:  *)
(* citizen selection, rotation, the booking a seed writes, acceptance,     *)
(* decline, cancellation, closure and completion.  The guards are those    *)
(* the database must still satisfy when the transaction commits; what a    *)
(* request reads and may find changed at its commit (the service row, the  *)
(* expiry of the tier) is not among them.  How concurrent transactions get *)
(* there, statement by statement and under row locks, is module            *)
(* AllocationTransactions, which implements this one.                      *)
(***************************************************************************)
EXTENDS Naturals, FiniteSets

CONSTANTS
    Needs,       \* need_request rows
    Providers,   \* provider rows
    Rosters,     \* roster rows
    Allocations, \* identities an allocation row can get
    Members,     \* roster_membership rows <<roster, provider>> that rotation may use
    Capacity,    \* roster_membership.capacity of each
    PaidNeeds,   \* needs whose eligibility decision is PAID
    Surfaced,    \* providers in the persisted directory of each need
    None         \* SQL NULL, and "no row yet"

ASSUME FinitenessAssumption == IsFiniteSet(Allocations)

ASSUME RowsAssumption ==
    /\ Members \subseteq Rosters \X Providers
    /\ Capacity \in [Members -> Nat]
    /\ PaidNeeds \subseteq Needs
    /\ Surfaced \in [Needs -> SUBSET Providers]
    /\ None \notin Needs \cup Providers \cup Rosters \cup Allocations

VARIABLES
    status,         \* allocation.status, "NONE" while the row does not exist
    needOf,         \* allocation.need_request_id
    providerOf,     \* allocation.provider_id
    rosterOf,       \* allocation.roster_id: None is mode CITIZEN_CHOICE
    booking,        \* status of the booking of the allocation
    matter,         \* status of the matter of the allocation
    activeMatters,  \* roster_membership.active_matters
    declineSignals, \* number of ROTATION_DECLINE conduct signals of a provider
    eligible        \* the provider row passes the filters on its own columns

allocationVars == <<status, needOf, providerOf, rosterOf>>
vars == <<allocationVars, booking, matter, activeMatters, declineSignals, eligible>>

AllocationStatus == {"NONE", "ASSIGNED", "DECLINED", "CANCELLED", "COMPLETED"}
\* SCHEDULED is a legal value of the column that no transition reaches.
BookingStatus == {"NONE", "HELD", "CONFIRMED", "DECLINED", "CANCELLED"}
MatterStatus == {"NONE", "OPEN", "CLOSED"}

TypeOK ==
    /\ status \in [Allocations -> AllocationStatus]
    /\ needOf \in [Allocations -> Needs \cup {None}]
    /\ providerOf \in [Allocations -> Providers \cup {None}]
    /\ rosterOf \in [Allocations -> Rosters \cup {None}]
    /\ booking \in [Allocations -> BookingStatus]
    /\ matter \in [Allocations -> MatterStatus]
    /\ activeMatters \in [Members -> Nat]
    /\ declineSignals \in [Providers -> Nat]
    /\ eligible \in [Providers -> BOOLEAN]

Init ==
    /\ status = [a \in Allocations |-> "NONE"]
    /\ needOf = [a \in Allocations |-> None]
    /\ providerOf = [a \in Allocations |-> None]
    /\ rosterOf = [a \in Allocations |-> None]
    /\ booking = [a \in Allocations |-> "NONE"]
    /\ matter = [a \in Allocations |-> "NONE"]
    /\ activeMatters = [m \in Members |-> 0]
    /\ declineSignals = [p \in Providers |-> 0]
    /\ eligible \in [Providers -> BOOLEAN]

-----------------------------------------------------------------------------
\* Definitions named Faulty... are mutations of the definition that follows
\* them; they occur in no action.  The index forgets allocations not booked yet.
FaultyActiveAllocations(n) ==
    {a \in Allocations : status[a] = "ASSIGNED" /\ needOf[a] = n /\ booking[a] # "NONE"}

\* The allocations of need n that the partial unique index covers.
ActiveAllocations(n) == {a \in Allocations : status[a] = "ASSIGNED" /\ needOf[a] = n}

\* The membership row whose capacity allocation a occupies.
MemberOf(a) == <<rosterOf[a], providerOf[a]>>

InsertRow(a, n, p, r) ==
    /\ status[a] = "NONE"
    /\ ActiveAllocations(n) = {}
    /\ eligible[p]
    /\ status' = [status EXCEPT ![a] = "ASSIGNED"]
    /\ needOf' = [needOf EXCEPT ![a] = n]
    /\ providerOf' = [providerOf EXCEPT ![a] = p]
    /\ rosterOf' = [rosterOf EXCEPT ![a] = r]
    /\ UNCHANGED <<booking, matter, declineSignals, eligible>>

\* The citizen takes a provider of the persisted directory.
Select(a, n, p) ==
    /\ n \in PaidNeeds
    /\ p \in Surfaced[n]
    /\ InsertRow(a, n, p, None)
    /\ UNCHANGED activeMatters

\* The comparison of active_matters with capacity is off by one.
FaultyRotate(a, n, m) ==
    /\ activeMatters[m] <= Capacity[m]
    /\ InsertRow(a, n, m[2], m[1])
    /\ activeMatters' = [activeMatters EXCEPT ![m] = @ + 1]

\* A roster member below its capacity is assigned.
Rotate(a, n, m) ==
    /\ activeMatters[m] < Capacity[m]
    /\ InsertRow(a, n, m[2], m[1])
    /\ activeMatters' = [activeMatters EXCEPT ![m] = @ + 1]

\* The booking trigger forgets to require an ASSIGNED allocation.
FaultyHoldBooking(a) ==
    /\ status[a] # "NONE"
    /\ booking' = [booking EXCEPT ![a] = "HELD"]
    /\ UNCHANGED <<allocationVars, matter, activeMatters, declineSignals, eligible>>

\* No endpoint writes a booking: the seed and the database owner do.
HoldBooking(a) ==
    /\ status[a] = "ASSIGNED"
    /\ booking[a] = "NONE"
    /\ booking' = [booking EXCEPT ![a] = "HELD"]
    /\ UNCHANGED <<allocationVars, matter, activeMatters, declineSignals, eligible>>

Accept(a) ==
    /\ status[a] = "ASSIGNED"
    /\ booking[a] = "HELD"
    /\ matter[a] = "NONE"
    /\ booking' = [booking EXCEPT ![a] = "CONFIRMED"]
    /\ matter' = [matter EXCEPT ![a] = "OPEN"]
    /\ UNCHANGED <<allocationVars, activeMatters, declineSignals, eligible>>

\* A held booking and its allocation end together, and the roster capacity
\* of a rotation assignment comes back.
EndHeld(a, outcome) ==
    /\ status[a] = "ASSIGNED"
    /\ booking[a] = "HELD"
    /\ status' = [status EXCEPT ![a] = outcome]
    /\ booking' = [booking EXCEPT ![a] = outcome]
    /\ IF rosterOf[a] = None
         THEN UNCHANGED activeMatters
         ELSE /\ activeMatters[MemberOf(a)] > 0
              /\ activeMatters' = [activeMatters EXCEPT ![MemberOf(a)] = @ - 1]
    /\ UNCHANGED <<needOf, providerOf, rosterOf, matter, eligible>>

\* The signal is written for a declined citizen choice too.
FaultyDecline(a) ==
    /\ EndHeld(a, "DECLINED")
    /\ declineSignals' = [declineSignals EXCEPT ![providerOf[a]] = @ + 1]

Decline(a) ==
    /\ EndHeld(a, "DECLINED")
    /\ declineSignals' =
         IF rosterOf[a] = None THEN declineSignals
         ELSE [declineSignals EXCEPT ![providerOf[a]] = @ + 1]

\* A status that the CHECK constraint of allocation does not allow.
FaultyCancel(a) == EndHeld(a, "EXPIRED") /\ UNCHANGED declineSignals

Cancel(a) == EndHeld(a, "CANCELLED") /\ UNCHANGED declineSignals

\* The database owner closes a matter, then completes the allocation.
CloseMatter(a) ==
    /\ matter[a] = "OPEN"
    /\ matter' = [matter EXCEPT ![a] = "CLOSED"]
    /\ UNCHANGED <<allocationVars, booking, activeMatters, declineSignals, eligible>>

Complete(a) ==
    /\ status[a] = "ASSIGNED"
    /\ booking[a] = "CONFIRMED"
    /\ matter[a] = "CLOSED"
    /\ status' = [status EXCEPT ![a] = "COMPLETED"]
    /\ UNCHANGED <<needOf, providerOf, rosterOf, booking, matter, activeMatters,
                   declineSignals, eligible>>

\* Tier decisions, degradations and provider edits move a provider row in and
\* out of the filters.
ChangeEligibility(p) ==
    /\ eligible' = [eligible EXCEPT ![p] = ~@]
    /\ UNCHANGED <<allocationVars, booking, matter, activeMatters, declineSignals>>

Next ==
    \/ \E a \in Allocations :
         \/ \E n \in Needs :
              \/ \E p \in Providers : Select(a, n, p)
              \/ \E m \in Members : Rotate(a, n, m)
         \/ HoldBooking(a)
         \/ Accept(a)
         \/ Decline(a)
         \/ Cancel(a)
         \/ CloseMatter(a)
         \/ Complete(a)
    \/ \E p \in Providers : ChangeEligibility(p)

Spec == Init /\ [][Next]_vars

-----------------------------------------------------------------------------
(* Safety *)

\* Rotation allocations that hold one unit of capacity of membership m.  A
\* completed allocation keeps its unit: nothing in the code gives it back.
Occupying(m) ==
    {a \in Allocations : /\ status[a] \in {"ASSIGNED", "COMPLETED"}
                         /\ rosterOf[a] # None
                         /\ MemberOf(a) = m}

\* active_matters is exactly the number of rotation allocations that occupy
\* the member, and never more than its capacity: each rotation takes one
\* unit, each decline or cancellation gives one back, once.
CapacityConserved ==
    \A m \in Members : /\ activeMatters[m] = Cardinality(Occupying(m))
                       /\ activeMatters[m] <= Capacity[m]

\* A need has at most one ASSIGNED allocation, however many selections and
\* rotations its citizen, an operator and an institution send.
OneActivePerNeed ==
    \A a, b \in Allocations :
        /\ status[a] = "ASSIGNED" /\ status[b] = "ASSIGNED"
        /\ needOf[a] = needOf[b]
        => a = b

\* Booking, matter and allocation never tell different stories: a held
\* booking has an assigned allocation and no matter, an ended one has the
\* allocation's outcome, and a matter stands on a confirmed booking whose
\* allocation was not given up.
RowsAgree ==
    \A a \in Allocations :
        /\ booking[a] = "HELD" => status[a] = "ASSIGNED" /\ matter[a] = "NONE"
        /\ \A outcome \in {"DECLINED", "CANCELLED"} :
              status[a] = outcome <=> booking[a] = outcome
        /\ booking[a] = "CONFIRMED" <=> matter[a] # "NONE"
        /\ matter[a] = "OPEN" => status[a] = "ASSIGNED"
        /\ matter[a] = "CLOSED" => status[a] \in {"ASSIGNED", "COMPLETED"}
        /\ status[a] = "COMPLETED" => matter[a] = "CLOSED"
        /\ status[a] = "NONE" => booking[a] = "NONE"

\* Every declined rotation leaves exactly one conduct signal, and nothing
\* else does: a cancellation and a declined citizen choice leave none.
DeclinedRotations(p) ==
    {a \in Allocations : /\ status[a] = "DECLINED"
                         /\ rosterOf[a] # None
                         /\ providerOf[a] = p}
SignalsMatchDeclines ==
    \A p \in Providers : declineSignals[p] = Cardinality(DeclinedRotations(p))
=============================================================================
