----------------------------- MODULE MCDirectory -----------------------------
(* Small instances of Directory. *)
EXTENDS Directory, TLC

CONSTANTS t1, t2, t3, n1, n2, n3, p1, p2, p3, f1, f2

\* The seeds rank the providers in one order for some needs and in the
\* reverse order for the others.
Ascending == p1 :> 1 @@ p2 :> 2 @@ p3 :> 3
Descending == p1 :> 3 @@ p2 :> 2 @@ p3 :> 1
Keys == [n \in Needs |-> [p \in Providers |-> IF n = n2 THEN Descending[p] ELSE Ascending[p]]]

=============================================================================
