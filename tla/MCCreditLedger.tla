--------------------------- MODULE MCCreditLedger ---------------------------
(* Small instances of CreditLedger. *)
EXTENDS CreditLedger, TLC

CONSTANTS t1, t2, t3, p1, p2

=============================================================================
