---------------------------- MODULE CredentialCase ----------------------------
(***************************************************************************)
(* One verification case and its growing, append-only list of checks       *)
(* (verification_check, migrations 001 and 004): every list of answers a   *)
(* case can hold, in every order, decided at every date.                   *)
(***************************************************************************)
EXTENDS CredentialDecision, FiniteSets

CONSTANTS
    CasePolicies,  \* valid credential policies
    CaseAnswers,   \* what a source can answer: [type, source, mode, result, checkedAt, validUntil]
    CaseDates,     \* the dates the case may be decided at
    MaxCaseChecks  \* bound on the checks of the case

ASSUME CaseAssumption ==
    /\ \A p \in CasePolicies : ValidPolicy(p)
    /\ \A a \in CaseAnswers : a.checkedAt \in Nat /\ a.validUntil \in Nat \cup {NoDate}
    /\ CaseDates \subseteq Nat

VARIABLES
    casePolicy,  \* the policy that is active for the type of the provider
    caseChecks   \* the verification_check rows of the case

caseVars == <<casePolicy, caseChecks>>

InitCase == casePolicy \in CasePolicies /\ caseChecks = {}

(* recorded_sequence is an identity column: it grows with every insert.     *)
Recorded(seq, a) ==
    [seq |-> seq, type |-> a.type, source |-> a.source, mode |-> a.mode,
     result |-> a.result, checkedAt |-> a.checkedAt, validUntil |-> a.validUntil]

RecordCheck(a) ==
    /\ Cardinality(caseChecks) < MaxCaseChecks
    /\ caseChecks' = caseChecks \cup {Recorded(Cardinality(caseChecks) + 1, a)}
    /\ UNCHANGED casePolicy

NextCase == \E a \in CaseAnswers : RecordCheck(a)

CaseSpec == InitCase /\ [][NextCase]_caseVars

(* Whatever the case holds, the preflight of finalizeCredentialDecision and *)
(* finalize_verification_case agree on tier, reason and expiry.             *)
PreflightAgrees == \A at \in CaseDates : Agree(casePolicy, caseChecks, at)

(* A full tier shown until its expiry stays earned: the selected evidence   *)
(* is live and fresh on every date before it (recompute-provider-tier.ts).  *)
ExpiryIsSafe == \A at \in CaseDates : FullUntilExpiry(casePolicy, caseChecks, at)

(* Mock, unconfigured, format-only and LLM checks neither raise nor lower a *)
(* tier, in whatever order they arrive between the checks that count.       *)
OthersNeverCount == \A at \in CaseDates : OnlyPolicyEvidence(casePolicy, caseChecks, at)
==============================================================================
