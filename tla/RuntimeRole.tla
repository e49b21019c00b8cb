----------------------------- MODULE RuntimeRole -----------------------------
(***************************************************************************)
(* What the login of the API may do (db/roles/runtime.sql), against the    *)
(* statements of the requests that lock rows or write protected tables.    *)
(* A privilege on some columns is a privilege here: the columns granted    *)
(* are the ones the requests write, and SELECT ... FOR UPDATE asks for     *)
(* UPDATE on any column.                                                   *)
(***************************************************************************)
EXTENDS Naturals, Sequences

VARIABLES role,     \* "runtime" in production, "owner" of the schema in the tests
          op, at,   \* the request and its next statement
          answer

vars == <<role, op, at, answer>>

\* Every table is granted; then writes of the protected ones are revoked,
\* and given back on columns.
Revoked ==
    [insert |-> {"provider", "verification_case", "credential_policy", "booking", "matter",
                 "payment_quote", "credit_event"},
     update |-> {"credit_event", "audit_event", "verification_check", "provider",
                 "verification_case", "credential_policy", "booking", "matter",
                 "payment_quote", "credit_balance"}]
GivenBack ==
    [insert |-> {"provider", "verification_case", "matter"}, update |-> {"provider", "booking"}]
Granted(kind, table) == table \notin Revoked[kind] \ GivenBack[kind]
\* A security-definer function runs as its owner.
Permitted(s) ==
    \/ role = "owner" \/ s[1] = "call"
    \/ Granted(IF s[1] = "insert" THEN "insert" ELSE "update", s[2])

Lock(t) == <<"lock", t>>
Insert(t) == <<"insert", t>>
Update(t) == <<"update", t>>
Audited(s) == Append(s, Insert("audit_event"))

\* The case that is looked for, FOR UPDATE, and inserted when there is none.
FindOrCreate == <<Lock("verification_case"), Insert("verification_case")>>
SourceCheck == Audited(Append(FindOrCreate, Insert("verification_check")))
NewProvider ==
    Audited(<<Insert("role_grant"), Insert("provider"), Insert("provider_service"),
              Insert("credit_balance"), Insert("provider_surface_counter")>>)
Services == Audited(<<Lock("provider"), Insert("provider_service"), Update("provider_service")>>)
Select == Audited(<<Lock("need_request"), Lock("provider"), Insert("allocation")>>)
Rotate ==
    Audited(<<Lock("need_request"), Lock("roster_membership"), Lock("provider"),
              Insert("allocation"), Update("roster_membership")>>)
Accept == Audited(<<Lock("booking"), Lock("allocation"), Update("booking"), Insert("matter")>>)
Decline ==
    Audited(<<Lock("booking"), Lock("allocation"), Update("booking"), Update("allocation"),
              Update("roster_membership"), Insert("conduct_signal")>>)
Quote == Audited(<<<<"call", "create_payment_quote">>>>)

Statements ==
    [sourceCheck |-> SourceCheck, provider |-> NewProvider, services |-> Services,
     select |-> Select, rotate |-> Rotate, accept |-> Accept, decline |-> Decline,
     quote |-> Quote]

Init == role \in {"owner", "runtime"} /\ op = "none" /\ at = 1 /\ answer = "none"

Arrive ==
    /\ op = "none" /\ op' \in DOMAIN Statements
    /\ UNCHANGED <<role, at, answer>>

\* 42501 is none of the codes the error handler knows.
Execute ==
    /\ op # "none" /\ answer = "none" /\ UNCHANGED <<role, op>>
    /\ \/ at > Len(Statements[op]) /\ answer' = "done" /\ UNCHANGED at
       \/ at <= Len(Statements[op]) /\ Permitted(Statements[op][at])
          /\ at' = at + 1 /\ UNCHANGED answer
       \/ at <= Len(Statements[op]) /\ ~Permitted(Statements[op][at])
          /\ answer' = "INTERNAL_ERROR" /\ UNCHANGED at

Next == Arrive \/ Execute
Spec == Init /\ [][Next]_vars

\* "Missing provider-type legs, approved upload processing, or authority
\* adapters produce an explicit unavailable outcome" (docs/architecture.md):
\* a source check is recorded as UNAVAILABLE.
SourceChecksAreTyped == op = "sourceCheck" => answer # "INTERNAL_ERROR"
=============================================================================
