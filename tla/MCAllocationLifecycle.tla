----------------------- MODULE MCAllocationLifecycle -----------------------
(***************************************************************************)
(* One run over two instances.  "rows": the committed operations on two    *)
(* needs and the two members of r1.  "statements": three requests on n1    *)
(* and the one member of r2, statement by statement, for their liveness.   *)
(***************************************************************************)
EXTENDS AllocationLifecycle, TLC

CONSTANTS a1, a2, a3, n1, n2, p1, p2, r1, r2, Dates

MCMembers == {<<r1, p1>>, <<r1, p2>>, <<r2, p2>>}
\* p1 may take one matter of the roster, p2 two.
MCCapacity == [m \in MCMembers |-> IF m[2] = p1 THEN 1 ELSE 2]
MCSurfaced == [n \in Needs |-> IF n \in PaidNeeds THEN Providers ELSE {}]

VARIABLES instance, lastAssigned, passesUntil, serves, needOwner, memberOwner, providerOwner, providerShare,
          bookingOwner, pc, op, chosen, queue, startedAt, clock

Statements == INSTANCE AllocationTransactions WITH Requests <- Allocations

ForRows ==
    /\ \A a \in Allocations : rosterOf'[a] # r2
    /\ UNCHANGED <<lastAssigned, passesUntil, serves, needOwner, memberOwner, providerOwner, providerShare,
                    bookingOwner, pc, op, chosen, queue, startedAt, clock>>

\* p2 passes for every request or for none, and serves n1.
ForStatements ==
    /\ \A a \in Allocations : op'[a].need # n2 /\ op'[a].provider # p1 /\ op'[a].roster # r1
    /\ passesUntil'[p1] = passesUntil[p1]
    /\ UNCHANGED <<serves, eligible>>

\* Providers that pass for every request, and serve every need, at first.
RowsAndStatementsStart ==
    /\ Statements!Init /\ instance \in {"rows", "statements"}
    /\ eligible = [p \in Providers |-> TRUE]
    /\ passesUntil = [p \in Providers |-> 9]
    /\ serves = [p \in Providers |-> Needs]

RowsAndStatements ==
    /\ RowsAndStatementsStart
    /\ [][/\ \/ instance = "rows" /\ Next /\ ForRows
             \/ instance = "statements" /\ Statements!Next /\ ForStatements
          /\ UNCHANGED instance]_<<Statements!vars, eligible, instance>>
    /\ Statements!Fairness

\* A request that has started ends, committed or rolled back.
EveryRequestEnds == Statements!EveryRequestEnds
=============================================================================
