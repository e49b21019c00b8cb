---------------------- MODULE MCAllocationTransactions ----------------------
(* Small instances of AllocationTransactions. *)
EXTENDS AllocationTransactions, TLC

CONSTANTS t1, t2, t3, t4, t5, n1, n2, p1, p2, r1

MCMembers == Rosters \X Providers
OneEach == [m \in MCMembers |-> 1]
TwoEach == [m \in MCMembers |-> 2]
AllSurfaced == [n \in Needs |-> IF n \in PaidNeeds THEN Providers ELSE {}]

RequestSymmetry == Permutations(Requests)

\* Only the rows of p1 change: it passes for nobody or for the first two requests.
OnlyP1Changes == passesUntil[p1] # 9 /\ passesUntil[p2] = 9 /\ serves[p2] = Needs
RacesStart == Init /\ OnlyP1Changes
Races == RacesStart /\ [][Next /\ OnlyP1Changes']_vars

\* A burst of rotation requests: nothing is declined, cancelled, lost or
\* edited meanwhile.
RotationBurst ==
    /\ Init
    /\ [][\E t \in Requests : \/ Begin(t) /\ op'[t].kind = "rotate"
                              \/ Step(t)]_vars

\* One request at a time, each starting after the previous one has ended.
OneAtATime ==
    /\ Init
    /\ [][\/ \E t \in Requests : \/ /\ \A u \in Requests : pc[u] \notin Statement
                                    /\ Begin(t)
                                 \/ Step(t)
          \/ \E a \in Requests : HoldBooking(a)]_vars
=============================================================================
