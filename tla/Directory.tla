------------------------------ MODULE Directory ------------------------------
(***************************************************************************)
(* GET /v1/needs/:id/directory for a PAID need: the first request with its *)
(* filters generates the directory, counts every provider it surfaces and  *)
(* persists what was shown; every later one replays it.  The transaction   *)
(* is READ COMMITTED, one action per statement that can wait.              *)
(***************************************************************************)
EXTENDS Naturals, Sequences, FiniteSets

CONSTANTS
    Requests,   \* HTTP requests, each served by one transaction
    Needs,      \* PAID need_request rows
    Providers,  \* provider rows, each with its provider_surface_counter row
    Filters,    \* pairs of providerType and minimumTier a query can carry
    SeededKey,  \* the rank of the hash of each need and provider
    None        \* SQL NULL

ASSUME DirectoryAssumption ==
    /\ IsFiniteSet(Providers)
    /\ SeededKey \in [Needs -> [Providers -> Nat]]
    /\ \A n \in Needs, p, q \in Providers : SeededKey[n][p] = SeededKey[n][q] => p = q
    /\ None \notin Requests \cup Filters

VARIABLES
    filterOf,      \* need_request.directory_provider_type and _minimum_tier
    surface,       \* the directory_surface rows of a need, by position
    surfacedCount, \* provider_surface_counter.surfaced_count
    passes,        \* the filters, for any need, that a provider passes now
    needOwner,     \* need_request FOR UPDATE
    counterOwner,  \* provider_surface_counter row, locked by its UPDATE
    pc,            \* next statement of each request
    need, filter,  \* what a request asks for
    ordered,       \* the ordered candidates of a request
    reply          \* the providers it has answered with, in order

rowVars == <<filterOf, surface, surfacedCount, passes>>
lockVars == <<needOwner, counterOwner>>
vars == <<rowVars, lockVars, pc, need, filter, ordered, reply>>

Running == {"lockNeed", "queryCandidates", "surface"}
Ended == {"answered", "rolledBack"}
Candidate == [provider : Providers, shown : Nat]

TypeOK ==
    /\ filterOf \in [Needs -> Filters \cup {None}]
    /\ surface \in [Needs -> Seq(Candidate)]
    /\ surfacedCount \in [Providers -> Nat]
    /\ passes \in [Providers -> SUBSET Filters]
    /\ needOwner \in [Needs -> Requests \cup {None}]
    /\ counterOwner \in [Providers -> Requests \cup {None}]
    /\ pc \in [Requests -> Running \cup Ended \cup {"idle"}]
    /\ need \in [Requests -> Needs]
    /\ filter \in [Requests -> Filters]
    /\ ordered \in [Requests -> Seq(Candidate)]
    /\ reply \in [Requests -> Seq(Candidate)]

Init ==
    /\ filterOf = [n \in Needs |-> None]
    /\ surface = [n \in Needs |-> <<>>]
    /\ surfacedCount = [p \in Providers |-> 0]
    /\ passes \in [Providers -> SUBSET Filters]
    /\ needOwner = [n \in Needs |-> None]
    /\ counterOwner = [p \in Providers |-> None]
    /\ pc = [t \in Requests |-> "idle"]
    /\ need \in [Requests -> Needs]
    /\ filter \in [Requests -> Filters]
    /\ ordered = [t \in Requests |-> <<>>]
    /\ reply = [t \in Requests |-> <<>>]

-----------------------------------------------------------------------------
\* Definitions named Faulty... are mutations of the definition that follows
\* them; they occur in no action.  ROLLBACK and COMMIT leave the row locks.
Released(t, owner) == [row \in DOMAIN owner |-> IF owner[row] = t THEN None ELSE owner[row]]

EndTransaction(t, outcome) ==
    /\ needOwner' = Released(t, needOwner)
    /\ counterOwner' = Released(t, counterOwner)
    /\ pc' = [pc EXCEPT ![t] = outcome]
    /\ ordered' = [ordered EXCEPT ![t] = <<>>]
    /\ UNCHANGED <<need, filter>>

Rollback(t) == EndTransaction(t, "rolledBack") /\ UNCHANGED <<rowVars, reply>>

Begin(t) ==
    /\ pc[t] = "idle"
    /\ pc' = [pc EXCEPT ![t] = "lockNeed"]
    /\ UNCHANGED <<rowVars, lockVars, need, filter, ordered, reply>>

\* The state of the directory is read without FOR UPDATE.
FaultyNeedFree(t) == TRUE

NeedFree(t) == needOwner[need[t]] = None

\* SELECT ... need_request FOR UPDATE: other filters are refused, a generated
\* directory is replayed from its rows.
LockNeed(t) ==
    /\ pc[t] = "lockNeed"
    /\ NeedFree(t)
    /\ \/ /\ filterOf[need[t]] = None
          /\ needOwner' = [needOwner EXCEPT ![need[t]] = t]
          /\ pc' = [pc EXCEPT ![t] = "queryCandidates"]
          /\ UNCHANGED <<rowVars, counterOwner, need, filter, ordered, reply>>
       \/ /\ filterOf[need[t]] = filter[t]
          /\ reply' = [reply EXCEPT ![t] = surface[need[t]]]
          /\ EndTransaction(t, "answered")
          /\ UNCHANGED rowVars
       \/ /\ filterOf[need[t]] \notin {None, filter[t]}
          /\ Rollback(t)

\* The seeded key of the need no longer breaks the ties.
FaultyBefore(n, a, b) == a.shown <= b.shown

\* orderDirectoryCandidates: fewer surfacings first, then the seeded key.
Before(n, a, b) ==
    \/ a.shown < b.shown
    \/ a.shown = b.shown /\ SeededKey[n][a.provider] < SeededKey[n][b.provider]

Orderings(n, S) ==
    {q \in [1 .. Cardinality(S) -> S] :
        \A i, j \in DOMAIN q : i < j => q[i] # q[j] /\ Before(n, q[i], q[j])}

\* The candidates and their counters, as one snapshot sees them.
QueryCandidates(t) ==
    /\ pc[t] = "queryCandidates"
    /\ LET candidates == {[provider |-> p, shown |-> surfacedCount[p]] :
                            p \in {q \in Providers : filter[t] \in passes[q]}}
       IN \E q \in Orderings(need[t], candidates) : ordered' = [ordered EXCEPT ![t] = q]
    /\ pc' = [pc EXCEPT ![t] = "surface"]
    /\ UNCHANGED <<rowVars, lockVars, need, filter, reply>>

\* The positions whose provider request t has surfaced and counted already.
Done(t) == {i \in DOMAIN ordered[t] : counterOwner[ordered[t][i].provider] = t}

\* INSERT INTO directory_surface and UPDATE provider_surface_counter, one
\* candidate after the other in the order of the directory.
IsNext(t, i) ==
    /\ i \in DOMAIN ordered[t] \ Done(t)
    /\ \A j \in DOMAIN ordered[t] : j < i => j \in Done(t)

Surface(t) ==
    /\ pc[t] = "surface"
    /\ \E i \in DOMAIN ordered[t] :
         /\ IsNext(t, i)
         /\ counterOwner[ordered[t][i].provider] = None
         /\ counterOwner' = [counterOwner EXCEPT ![ordered[t][i].provider] = t]
    /\ UNCHANGED <<rowVars, needOwner, pc, need, filter, ordered, reply>>

\* The counter is written from the snapshot the order was computed from.
FaultyCountAfter(t, p) ==
    IF counterOwner[p] = t
      THEN 1 + (CHOOSE c \in {ordered[t][i] : i \in DOMAIN ordered[t]} : c.provider = p).shown
      ELSE surfacedCount[p]

\* surfaced_count = surfaced_count + 1, on the row as it is once locked.
CountAfter(t, p) == IF counterOwner[p] = t THEN surfacedCount[p] + 1 ELSE surfacedCount[p]

\* directory_generated_at, audit, COMMIT and the answer.
Commit(t) ==
    /\ pc[t] = "surface"
    /\ Done(t) = DOMAIN ordered[t]
    /\ filterOf' = [filterOf EXCEPT ![need[t]] = filter[t]]
    /\ surface' = [surface EXCEPT ![need[t]] = ordered[t]]
    /\ surfacedCount' = [p \in Providers |-> CountAfter(t, p)]
    /\ reply' = [reply EXCEPT ![t] = ordered[t]]
    /\ EndTransaction(t, "answered")
    /\ UNCHANGED passes

-----------------------------------------------------------------------------
(* Failures, deadlocks and the next-state relation *)

Crash(t) == pc[t] \in Running /\ Rollback(t)

WaitsFor(t, u) ==
    /\ t # u
    /\ \/ pc[t] = "lockNeed" /\ needOwner[need[t]] = u
       \/ /\ pc[t] = "surface"
          /\ \E i \in DOMAIN ordered[t] :
               IsNext(t, i) /\ counterOwner[ordered[t][i].provider] = u

\* Two directories that count the same providers in different orders can wait
\* for each other: the database fails one of them.
Waiting(S) == S # {} /\ \A u \in S : \E v \in S : WaitsFor(u, v)
AbortDeadlocked(t) ==
    /\ \E S \in SUBSET Requests :
         t \in S /\ Waiting(S) /\ \A R \in SUBSET S : Waiting(R) => R = S
    /\ Rollback(t)

\* A tier decision, a degradation, an expiry or an edit of the provider.
ChangeProvider(p) ==
    /\ \E S \in SUBSET Filters : passes' = [passes EXCEPT ![p] = S]
    /\ UNCHANGED <<filterOf, surface, surfacedCount, lockVars, pc, need, filter, ordered, reply>>

Step(t) == LockNeed(t) \/ QueryCandidates(t) \/ Surface(t) \/ Commit(t)

Next ==
    \/ \E t \in Requests : Begin(t) \/ Step(t) \/ Crash(t) \/ AbortDeadlocked(t)
    \/ \E p \in Providers : ChangeProvider(p)

Spec == Init /\ [][Next]_vars

\* The database runs what can run and breaks every cycle of waits; nobody is
\* obliged to send a request, crash or edit a provider.
FairSpec == Spec /\ \A t \in Requests : WF_vars(Step(t)) /\ WF_vars(AbortDeadlocked(t))

-----------------------------------------------------------------------------
(* Properties *)

Listed(n) == {surface[n][i].provider : i \in DOMAIN surface[n]}

\* A candidate list has its order and repeats nobody.
InOrder(n, list) ==
    \A i, j \in DOMAIN list : i < j =>
        /\ list[i].provider # list[j].provider
        /\ \/ list[i].shown < list[j].shown
           \/ /\ list[i].shown = list[j].shown
              /\ SeededKey[n][list[i].provider] < SeededKey[n][list[j].provider]

\* A request that generates a directory keeps the need to itself until it
\* commits, holds exactly the counters of a first part of its list, and no
\* counter falls behind what the list was ordered by.
Generating(t) ==
    /\ pc[t] \in {"queryCandidates", "surface"} =>
          needOwner[need[t]] = t /\ filterOf[need[t]] = None
    /\ pc[t] = "surface" =>
          /\ InOrder(need[t], ordered[t])
          /\ \A i \in DOMAIN ordered[t] :
               ordered[t][i].shown <= surfacedCount[ordered[t][i].provider]
    /\ \A p \in Providers : counterOwner[p] = t =>
          pc[t] = "surface" /\ \E i \in DOMAIN ordered[t] : ordered[t][i].provider = p

IInv ==
    /\ TypeOK
    /\ \A t \in Requests : Generating(t)
    /\ \A n \in Needs : filterOf[n] = None => surface[n] = <<>>

\* Everybody who asks for the directory of a need is shown the same providers
\* in the same order, whoever generated it and whatever changed since, and
\* only with the filters it was generated with.
RepliesReplay ==
    \A t \in Requests :
        pc[t] = "answered" => reply[t] = surface[need[t]] /\ filterOf[need[t]] = filter[t]

\* The order of a persisted directory can be recomputed from the seed and the
\* surfaced_count_snapshot of its rows, and every row was counted: the count
\* now exceeds the snapshot.
OrderReproducible ==
    \A n \in Needs :
        /\ InOrder(n, surface[n])
        /\ \A i \in DOMAIN surface[n] :
              surface[n][i].shown < surfacedCount[surface[n][i].provider]

\* surfaced_count is the number of directories that list the provider, also
\* when several are generated at once.
CountersMatch ==
    \A p \in Providers : surfacedCount[p] = Cardinality({n \in Needs : p \in Listed(n)})

\* Every request ends: whatever the order in which counters are locked, no
\* request waits for ever (each of the finitely many runs once).
EveryRequestEnds ==
    (\E t \in Requests : pc[t] \in Running) ~> (\A t \in Requests : pc[t] \notin Running)

\* "Result order is a seeded rotation ... No provider holds a persistent top
\* position across requests": when the seeds of the needs with the same
\* candidates put different providers first, their directories do.
SeedFirst(n, C) == CHOOSE p \in C : \A q \in C : SeededKey[n][p] <= SeededKey[n][q]
NoPersistentTop ==
    \A C \in SUBSET Providers :
        LET contested == {n \in Needs : Listed(n) = C /\ Cardinality(C) > 1}
        IN Cardinality({SeedFirst(n, C) : n \in contested}) > 1 =>
             Cardinality({surface[n][1].provider : n \in contested}) > 1
=============================================================================
