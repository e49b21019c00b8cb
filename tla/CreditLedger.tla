---------------------------- MODULE CreditLedger ----------------------------
(***************************************************************************)
(* The service-credit ledger: appendCreditEvent, its retry loop and the    *)
(* database function append_credit_event, with the evidence exports that   *)
(* read the ledger meanwhile.  A writer runs SERIALIZABLE: its snapshot is *)
(* taken by its first statement, the lock on the balance row waits, and a  *)
(* balance changed since the snapshot is a serialization failure (40001).  *)
(* SHA-256 is taken to be free of collisions: a hash is the record of what *)
(* it covers.                                                              *)
(***************************************************************************)
EXTENDS Integers, FiniteSets, FiniteSetsExt

CONSTANTS
    Requests,     \* calls of appendCreditEvent and of the export endpoints
    Providers,    \* providers, each with its credit_balance row
    Credits,      \* amounts an event can carry, negative for a correction
    MaxAttempts,  \* maximumAttempts of withSerializableRetry
    Genesis,      \* LEDGER_GENESIS_HASH
    None          \* SQL NULL

ASSUME LedgerAssumption ==
    /\ Credits \subseteq Int
    /\ MaxAttempts \in Nat \ {0}
    /\ None \notin Nat
    /\ None \notin Requests

VARIABLES
    events,     \* committed credit_event rows
    total,      \* credit_balance.total_credits, and period_credits: always equal
    head,       \* credit_balance.last_event_id
    sequence,   \* last value of the id sequence, never rolled back
    headOwner,  \* FOR UPDATE lock on the credit_balance row
    pc,         \* next step of each request
    provider,   \* the provider a request is about
    credits,    \* the amount it appends
    attempt,    \* attempt of withSerializableRetry, from 1
    seen,       \* last_event_id in the snapshot of the attempt
    pending,    \* the row inserted by the attempt, not committed
    exported    \* the rows an export has read

ledgerVars == <<events, total, head>>
txVars == <<pc, provider, credits, attempt, seen, pending, exported>>
vars == <<ledgerVars, sequence, headOwner, txVars>>

EventsOf(p) == {e \in events : e.provider = p}

\* The row with the greatest id: the end of ORDER BY id.
Last(S) == CHOOSE e \in S : \A f \in S : f.id <= e.id

\* computeLedgerHash: units, weight version and evidence reference are not in it.
Hash(previous, id, p, c) == [previous |-> previous, id |-> id, provider |-> p, credits |-> c]

Running == {"begin", "lockHead", "write", "commit"}
Ended == {"appended", "unknown", "failed", "issued"}

TypeOK ==
    /\ \A e \in events : e.id \in Nat /\ e.provider \in Providers /\ e.credits \in Credits
    /\ total \in [Providers -> Int]
    /\ head \in [Providers -> Nat \cup {None}]
    /\ sequence \in Nat
    /\ headOwner \in [Providers -> Requests \cup {None}]
    /\ pc \in [Requests -> Running \cup Ended \cup {"idle", "read", "issue"}]
    /\ provider \in [Requests -> Providers]
    /\ credits \in [Requests -> Credits]
    /\ attempt \in [Requests -> 1 .. MaxAttempts]
    /\ seen \in [Requests -> Nat \cup {None}]

Init ==
    /\ events = {}
    /\ total = [p \in Providers |-> 0]
    /\ head = [p \in Providers |-> None]
    /\ sequence = 0
    /\ headOwner = [p \in Providers |-> None]
    /\ pc = [t \in Requests |-> "idle"]
    /\ provider \in [Requests -> Providers]
    /\ credits \in [Requests -> Credits]
    /\ attempt = [t \in Requests |-> 1]
    /\ seen = [t \in Requests |-> None]
    /\ pending = [t \in Requests |-> None]
    /\ exported = [t \in Requests |-> {}]

-----------------------------------------------------------------------------
(* appendCreditEvent *)

Call(t) ==
    /\ pc[t] = "idle"
    /\ \E first \in {"begin", "read"} : pc' = [pc EXCEPT ![t] = first]
    /\ UNCHANGED <<ledgerVars, sequence, headOwner, provider, credits, attempt, seen,
                   pending, exported>>

\* BEGIN ISOLATION LEVEL SERIALIZABLE and the snapshot of the first statement.
TakeSnapshot(t) ==
    /\ pc[t] = "begin"
    /\ seen' = [seen EXCEPT ![t] = head[provider[t]]]
    /\ pc' = [pc EXCEPT ![t] = "lockHead"]
    /\ UNCHANGED <<ledgerVars, sequence, headOwner, provider, credits, attempt, pending, exported>>

\* Definitions named Faulty... are mutations of the definition that follows
\* them; they occur in no action.  The connection goes back without ROLLBACK.
FaultyUndo(t) ==
    /\ pending' = [pending EXCEPT ![t] = None]
    /\ UNCHANGED <<ledgerVars, sequence, headOwner, provider, credits, seen, exported>>

\* ROLLBACK: the lock and the inserted row go, the sequence keeps its value.
Undo(t) ==
    /\ headOwner' = [p \in Providers |-> IF headOwner[p] = t THEN None ELSE headOwner[p]]
    /\ pending' = [pending EXCEPT ![t] = None]
    /\ UNCHANGED <<ledgerVars, sequence, provider, credits, seen, exported>>

\* withSerializableRetry after 40001.
Retry(t) ==
    /\ Undo(t)
    /\ IF attempt[t] < MaxAttempts
         THEN /\ attempt' = [attempt EXCEPT ![t] = @ + 1]
              /\ pc' = [pc EXCEPT ![t] = "begin"]
         ELSE /\ pc' = [pc EXCEPT ![t] = "failed"]
              /\ UNCHANGED attempt

\* The head is read without FOR UPDATE.
FaultyHeadFree(t) == TRUE

HeadFree(t) == headOwner[provider[t]] = None

\* The row lock is granted on the version the snapshot sees, or not at all.
HeadUnchanged(t) == head[provider[t]] = seen[t]

\* SELECT last_event_id FROM credit_balance ... FOR UPDATE.
LockHead(t) ==
    /\ pc[t] = "lockHead"
    /\ HeadFree(t)
    /\ IF HeadUnchanged(t)
         THEN /\ headOwner' = [headOwner EXCEPT ![provider[t]] = t]
              /\ pc' = [pc EXCEPT ![t] = "write"]
              /\ UNCHANGED <<ledgerVars, sequence, provider, credits, attempt, seen,
                             pending, exported>>
         ELSE Retry(t)

\* The predecessor is looked up in the whole table.
FaultyPreviousHash(t) ==
    IF events = {} THEN Genesis ELSE Last(events).hash

\* The hash of the last event of the provider, read by its id.
PreviousHash(t) ==
    IF seen[t] = None THEN Genesis
    ELSE (CHOOSE e \in EventsOf(provider[t]) : e.id = seen[t]).hash

\* nextval, the hash, INSERT INTO credit_event, UPDATE credit_balance.
Write(t) ==
    /\ pc[t] = "write"
    /\ sequence' = sequence + 1
    /\ pending' = [pending EXCEPT ![t] =
         [id |-> sequence + 1,
          provider |-> provider[t],
          credits |-> credits[t],
          previous |-> IF seen[t] = None THEN None ELSE PreviousHash(t),
          hash |-> Hash(PreviousHash(t), sequence + 1, provider[t], credits[t]),
          request |-> t]]
    /\ pc' = [pc EXCEPT ![t] = "commit"]
    /\ UNCHANGED <<ledgerVars, headOwner, provider, credits, attempt, seen, exported>>

\* The balance is set from the amount alone.
FaultyNewTotal(t) == credits[t]

NewTotal(t) == total[provider[t]] + credits[t]

\* An attempt whose COMMIT gets no answer is repeated like a failed one.
FaultyCommit(t) ==
    /\ pc[t] = "commit"
    /\ events' = events \cup {pending[t]}
    /\ total' = [total EXCEPT ![provider[t]] = NewTotal(t)]
    /\ head' = [head EXCEPT ![provider[t]] = pending[t].id]
    /\ headOwner' = [headOwner EXCEPT ![provider[t]] = None]
    /\ pending' = [pending EXCEPT ![t] = None]
    /\ \E outcome \in {"appended", "begin"} : pc' = [pc EXCEPT ![t] = outcome]
    /\ UNCHANGED <<sequence, provider, credits, attempt, seen, exported>>

\* COMMIT; the answer can be lost on its way.
Commit(t) ==
    /\ pc[t] = "commit"
    /\ events' = events \cup {pending[t]}
    /\ total' = [total EXCEPT ![provider[t]] = NewTotal(t)]
    /\ head' = [head EXCEPT ![provider[t]] = pending[t].id]
    /\ headOwner' = [headOwner EXCEPT ![provider[t]] = None]
    /\ pending' = [pending EXCEPT ![t] = None]
    /\ \E outcome \in {"appended", "unknown"} : pc' = [pc EXCEPT ![t] = outcome]
    /\ UNCHANGED <<sequence, provider, credits, attempt, seen, exported>>

\* Any other statement of a SERIALIZABLE transaction can fail with 40001.
SerializationFailure(t) == pc[t] \in {"lockHead", "write", "commit"} /\ Retry(t)

\* Any other error is thrown to the caller.
Fail(t) ==
    /\ pc[t] \in Running
    /\ Undo(t)
    /\ pc' = [pc EXCEPT ![t] = "failed"]
    /\ UNCHANGED attempt

-----------------------------------------------------------------------------
(* Evidence exports *)

\* evidencePayload: one statement, outside any transaction.
ReadEvidence(t) ==
    /\ pc[t] = "read"
    /\ exported' = [exported EXCEPT ![t] = EventsOf(provider[t])]
    /\ pc' = [pc EXCEPT ![t] = "issue"]
    /\ UNCHANGED <<ledgerVars, sequence, headOwner, provider, credits, attempt, seen, pending>>

\* The artefact is signed and, for a redemption, recorded in a transaction.
Issue(t) ==
    /\ pc[t] = "issue"
    /\ pc' = [pc EXCEPT ![t] = "issued"]
    /\ UNCHANGED <<ledgerVars, sequence, headOwner, provider, credits, attempt, seen,
                   pending, exported>>

Step(t) ==
    \/ TakeSnapshot(t) \/ LockHead(t) \/ Write(t) \/ Commit(t)
    \/ ReadEvidence(t) \/ Issue(t)

Next == \E t \in Requests : Call(t) \/ Step(t) \/ SerializationFailure(t) \/ Fail(t)

Spec == Init /\ [][Next]_vars

\* A statement that can run runs; nobody is obliged to call or to fail.
FairSpec == Spec /\ \A t \in Requests : WF_vars(Step(t))

-----------------------------------------------------------------------------
(* Properties *)

\* verifyLedgerChain on the rows of S in the order of their ids.
Verifies(S) ==
    \A e \in S :
        LET before == {f \in S : f.id < e.id}
            previous == IF before = {} THEN Genesis ELSE Last(before).hash
        IN /\ before # {} => e.previous # None
           /\ e.previous # None => e.previous = previous
           /\ e.hash = Hash(previous, e.id, e.provider, e.credits)

IsPrefixOf(S, T) == S \subseteq T /\ \A e \in S, f \in T : f.id <= e.id => f \in S

\* However appends interleave, the chain of a provider verifies, and it is
\* tamper-evident: a subset of its rows verifies only when it is what was
\* appended first, and no row can be given another amount.
TamperEvident ==
    \A p \in Providers :
        /\ \A S \in SUBSET EventsOf(p) : Verifies(S) <=> IsPrefixOf(S, EventsOf(p))
        /\ \A e \in EventsOf(p) :
              ~Verifies((EventsOf(p) \ {e}) \cup {[e EXCEPT !.credits = @ + 1]})

\* The balance recomputed from the events matches the stored one, and its
\* last_event_id is the end of the chain.
BalanceReconciles ==
    \A p \in Providers :
        /\ total[p] = MapThenSumSet(LAMBDA e : e.credits, EventsOf(p))
        /\ head[p] = IF EventsOf(p) = {} THEN None ELSE Last(EventsOf(p)).id

\* A call writes at most one event, whatever its attempts did: exactly one
\* when it reports success, none when it reports failure of its transaction.
OncePerRequest ==
    \A t \in Requests :
        /\ \A e, f \in events : e.request = t /\ f.request = t => e = f
        /\ (\E e \in events : e.request = t) <=> pc[t] \in {"appended", "unknown"}

\* What an export read stays the beginning of the ledger: no event with a
\* smaller id turns up behind it later.
ExportsStayPrefixes ==
    \A t \in Requests :
        pc[t] \in {"issue", "issued"} => IsPrefixOf(exported[t], EventsOf(provider[t]))

\* Every call ends: retries are bounded and no lock is left behind.
EveryCallEnds == \A t \in Requests : pc[t] # "idle" ~> pc[t] \in Ended
=============================================================================
