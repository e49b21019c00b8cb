---------------------------- MODULE ServicesProofs ----------------------------
(***************************************************************************)
(* Proofs about the services beside each other: the directory endpoint for *)
(* any number of requests, needs, providers and filters; the web client;   *)
(* and every component as a part of Services.                              *)
(***************************************************************************)
EXTENDS Services, FiniteSetTheorems, SequenceTheorems, TLAPS

(***************************************************************************)
(* The inductive invariant                                                 *)
(***************************************************************************)
(* Only finitely many directories list a provider.                          *)
CountsFinite == \A p \in Providers : IsFiniteSet({n \in Needs : p \in Listed(n)})

DirectoryInv ==
    /\ IInv /\ RepliesReplay /\ OrderReproducible /\ CountersMatch /\ CountsFinite

(* The candidates of one snapshot are finitely many, one per provider.      *)
LEMMA CandidatesFinite ==
    ASSUME NEW S \in SUBSET Providers, NEW count
    PROVE  IsFiniteSet({[provider |-> p, shown |-> count[p]] : p \in S})
<1> DEFINE T == {[provider |-> p, shown |-> count[p]] : p \in S}
           f == [p \in S |-> [provider |-> p, shown |-> count[p]]]
<1>1. IsFiniteSet(S)
  BY DirectoryAssumption, FS_Subset
<1>2. f \in [S -> T] /\ \A x \in T : \E p \in S : f[p] = x
  OBVIOUS
<1>3. f \in Surjection(S, T)
  BY <1>2 DEF Surjection
<1> QED BY <1>1, <1>3, FS_Surjection DEF ExistsSurjection

(* orderDirectoryCandidates sorts and repeats nobody.                       *)
LEMMA OrderedList ==
    ASSUME NEW n \in Needs, NEW S \in SUBSET Providers, NEW count \in [Providers -> Nat],
           NEW q \in Orderings(n, {[provider |-> p, shown |-> count[p]] : p \in S})
    PROVE  /\ q \in Seq(Candidate) /\ InOrder(n, q)
           /\ \A i \in DOMAIN q : q[i].shown = count[q[i].provider]
<1> DEFINE T == {[provider |-> p, shown |-> count[p]] : p \in S}
<1>1. IsFiniteSet(T)
  BY CandidatesFinite
<1>2. /\ q \in [1 .. Cardinality(T) -> T] /\ Cardinality(T) \in Nat
      /\ \A i, j \in DOMAIN q : i < j => q[i] # q[j] /\ Before(n, q[i], q[j])
  BY <1>1, FS_CardinalityType DEF Orderings
<1>3. \A x \in T : x \in Candidate /\ x.shown = count[x.provider]
  BY DEF Candidate
<1>4. \A x, y \in T : x.provider = y.provider => x = y
  OBVIOUS
<1> HIDE DEF T
<1>5. q \in Seq(Candidate)
  BY <1>2, <1>3, SeqDef
<1>6. InOrder(n, q)
  BY <1>2, <1>4 DEF InOrder, Before
<1> QED BY <1>2, <1>3, <1>5, <1>6

(***************************************************************************)
(* Steps in general                                                        *)
(***************************************************************************)
(* The other requests and their locks stay as they are.                     *)
OthersStay(t) ==
    \A u \in Requests \ {t} :
        /\ pc'[u] = pc[u] /\ ordered'[u] = ordered[u]
        /\ \A n \in Needs : needOwner[n] = u => needOwner'[n] = u
        /\ \A p \in Providers : counterOwner'[p] = u <=> counterOwner[p] = u

(* A request keeps generating while another one commits for another need.   *)
LEMMA OtherKeepsGenerating ==
    ASSUME DirectoryInv, NEW t \in Requests, OthersStay(t), NEW u \in Requests, u # t,
           UNCHANGED <<need, filter>>,
           \A n \in Needs : needOwner[n] = u => filterOf'[n] = filterOf[n],
           \A p \in Providers : surfacedCount[p] <= surfacedCount'[p]
               /\ surfacedCount'[p] \in Nat /\ surfacedCount[p] \in Nat
    PROVE  Generating(u)'
<1>1. /\ pc'[u] = pc[u] /\ ordered'[u] = ordered[u] /\ need' = need /\ filter' = filter
      /\ \A n \in Needs : needOwner[n] = u => needOwner'[n] = u
      /\ \A p \in Providers : counterOwner'[p] = u <=> counterOwner[p] = u
  BY DEF OthersStay
<1>2. Generating(u) /\ TypeOK /\ need[u] \in Needs
  BY DEF DirectoryInv, IInv, TypeOK
<1>3. \A i \in DOMAIN ordered[u] : ordered[u][i] \in Candidate
  <2>1. ordered[u] \in Seq(Candidate)
    BY <1>2 DEF TypeOK
  <2> QED BY <2>1
<1>4. pc[u] = "surface" => \A i \in DOMAIN ordered[u] :
        ordered[u][i].shown <= surfacedCount'[ordered[u][i].provider]
  BY <1>2, <1>3 DEF Generating, Candidate
<1> QED BY <1>1, <1>2, <1>4 DEF Generating, InOrder

(* COMMIT and ROLLBACK end one request and touch nobody else.               *)
LEMMA EndEffect ==
    ASSUME DirectoryInv, NEW t \in Requests, NEW outcome \in Ended, EndTransaction(t, outcome)
    PROVE  /\ OthersStay(t) /\ Generating(t)' /\ pc'[t] = outcome
           /\ needOwner' \in [Needs -> Requests \cup {None}]
           /\ counterOwner' \in [Providers -> Requests \cup {None}]
           /\ pc' \in [Requests -> Running \cup Ended \cup {"idle"}]
           /\ ordered' \in [Requests -> Seq(Candidate)]
           /\ need' = need /\ filter' = filter
<1>1. /\ needOwner' = [n \in DOMAIN needOwner |-> IF needOwner[n] = t THEN None ELSE needOwner[n]]
      /\ counterOwner' =
            [p \in DOMAIN counterOwner |-> IF counterOwner[p] = t THEN None ELSE counterOwner[p]]
      /\ pc' = [pc EXCEPT ![t] = outcome]
      /\ ordered' = [ordered EXCEPT ![t] = <<>>]
      /\ need' = need /\ filter' = filter
  BY DEF EndTransaction, Released
<1>2. TypeOK /\ t # None /\ <<>> \in Seq(Candidate) /\ \A u \in Requests : u # None
  BY DirectoryAssumption DEF DirectoryInv, IInv
<1>3. OthersStay(t)
  BY <1>1, <1>2 DEF TypeOK, OthersStay
<1>4. pc'[t] = outcome /\ \A p \in Providers : counterOwner'[p] # t
  BY <1>1, <1>2 DEF TypeOK
<1>5. Generating(t)'
  BY <1>4 DEF Generating, Ended
<1> QED BY <1>1, <1>2, <1>3, <1>4, <1>5 DEF TypeOK

(* A step that writes no row keeps the invariant when its request does.     *)
LEMMA QuietStep ==
    ASSUME DirectoryInv, NEW t \in Requests, OthersStay(t), TypeOK', Generating(t)',
           UNCHANGED <<filterOf, surface, surfacedCount, need, filter>>,
           \A u \in Requests : pc'[u] = "answered" =>
               reply'[u] = surface[need[u]] /\ filterOf[need[u]] = filter[u]
    PROVE  DirectoryInv'
<1>1. TypeOK
  BY DEF DirectoryInv, IInv
<1>2. \A p \in Providers : surfacedCount[p] \in Nat /\ surfacedCount[p] <= surfacedCount[p]
  BY <1>1 DEF TypeOK
<1>3. \A u \in Requests : Generating(u)'
  BY <1>2, OtherKeepsGenerating
<1>4. IInv'
  BY <1>3 DEF DirectoryInv, IInv
<1>5. RepliesReplay'
  BY DEF RepliesReplay
<1>6. OrderReproducible'
  BY DEF DirectoryInv, OrderReproducible, InOrder
<1>7. \A p \in Providers : {n \in Needs : p \in Listed(n)}' = {n \in Needs : p \in Listed(n)}
  BY DEF Listed
<1>8. CountersMatch' /\ CountsFinite'
  BY <1>7 DEF DirectoryInv, CountersMatch, CountsFinite
<1> QED BY <1>4, <1>5, <1>6, <1>8 DEF DirectoryInv

(* A rollback keeps the invariant.                                          *)
LEMMA RollbackStep ==
    ASSUME DirectoryInv, NEW t \in Requests, Rollback(t)
    PROVE  DirectoryInv'
<1>1. EndTransaction(t, "rolledBack") /\ UNCHANGED <<rowVars, reply>>
  BY DEF Rollback
<1>2. /\ OthersStay(t) /\ Generating(t)' /\ pc'[t] = "rolledBack"
      /\ needOwner' \in [Needs -> Requests \cup {None}]
      /\ counterOwner' \in [Providers -> Requests \cup {None}]
      /\ pc' \in [Requests -> Running \cup Ended \cup {"idle"}]
      /\ ordered' \in [Requests -> Seq(Candidate)]
      /\ need' = need /\ filter' = filter
  BY <1>1, EndEffect DEF Ended
<1>3. TypeOK'
  BY <1>1, <1>2 DEF TypeOK, rowVars, DirectoryInv, IInv
<1>4. \A u \in Requests : pc'[u] = "answered" =>
        reply'[u] = surface[need[u]] /\ filterOf[need[u]] = filter[u]
  BY <1>1, <1>2 DEF OthersStay, DirectoryInv, RepliesReplay
<1> QED BY <1>1, <1>2, <1>3, <1>4, QuietStep DEF rowVars

(***************************************************************************)
(* The statements                                                          *)
(***************************************************************************)
(* A request begins.                                                        *)
LEMMA BeginStep ==
    ASSUME DirectoryInv, NEW t \in Requests, Begin(t)
    PROVE  DirectoryInv'
<1>1. /\ pc[t] = "idle" /\ pc' = [pc EXCEPT ![t] = "lockNeed"]
      /\ UNCHANGED <<rowVars, lockVars, need, filter, ordered, reply>>
  BY DEF Begin
<1>2. TypeOK /\ Generating(t) /\ RepliesReplay
  BY DEF DirectoryInv, IInv
<1>3. TypeOK' /\ OthersStay(t) /\ pc'[t] = "lockNeed"
  BY <1>1, <1>2 DEF TypeOK, Running, OthersStay, rowVars, lockVars
<1>4. Generating(t)'
  BY <1>1, <1>2, <1>3 DEF Generating, rowVars, lockVars
<1>5. \A u \in Requests : pc'[u] = "answered" =>
        reply'[u] = surface[need[u]] /\ filterOf[need[u]] = filter[u]
  BY <1>1, <1>2, <1>3 DEF RepliesReplay, OthersStay
<1> QED BY <1>1, <1>3, <1>4, <1>5, QuietStep DEF rowVars

(* The need is locked for a generation, or its directory is replayed, or    *)
(* other filters are refused.                                               *)
LEMMA LockNeedStep ==
    ASSUME DirectoryInv, NEW t \in Requests, LockNeed(t)
    PROVE  DirectoryInv'
<1>1. TypeOK /\ Generating(t) /\ RepliesReplay /\ pc[t] = "lockNeed" /\ need[t] \in Needs
      /\ needOwner[need[t]] = None /\ \A u \in Requests : u # None
  BY DirectoryAssumption DEF DirectoryInv, IInv, LockNeed, NeedFree, TypeOK
<1>2. CASE /\ filterOf[need[t]] = None
           /\ needOwner' = [needOwner EXCEPT ![need[t]] = t]
           /\ pc' = [pc EXCEPT ![t] = "queryCandidates"]
           /\ UNCHANGED <<rowVars, counterOwner, need, filter, ordered, reply>>
  <2>1. TypeOK' /\ OthersStay(t) /\ pc'[t] = "queryCandidates" /\ needOwner'[need[t]] = t
    BY <1>1, <1>2 DEF TypeOK, Running, OthersStay, rowVars
  <2>2. Generating(t)'
    BY <1>1, <1>2, <2>1 DEF Generating, rowVars
  <2>3. \A u \in Requests : pc'[u] = "answered" =>
          reply'[u] = surface[need[u]] /\ filterOf[need[u]] = filter[u]
    BY <1>1, <1>2, <2>1 DEF RepliesReplay, OthersStay
  <2> QED BY <1>2, <2>1, <2>2, <2>3, QuietStep DEF rowVars
<1>3. CASE /\ filterOf[need[t]] = filter[t]
           /\ reply' = [reply EXCEPT ![t] = surface[need[t]]]
           /\ EndTransaction(t, "answered")
           /\ UNCHANGED rowVars
  <2>1. /\ OthersStay(t) /\ Generating(t)' /\ pc'[t] = "answered"
        /\ needOwner' \in [Needs -> Requests \cup {None}]
        /\ counterOwner' \in [Providers -> Requests \cup {None}]
        /\ pc' \in [Requests -> Running \cup Ended \cup {"idle"}]
        /\ ordered' \in [Requests -> Seq(Candidate)]
        /\ need' = need /\ filter' = filter
    BY <1>3, EndEffect DEF Ended
  <2>2. TypeOK'
    BY <1>1, <1>3, <2>1 DEF TypeOK, rowVars
  <2>3. \A u \in Requests : pc'[u] = "answered" =>
          reply'[u] = surface[need[u]] /\ filterOf[need[u]] = filter[u]
    BY <1>1, <1>3, <2>1 DEF TypeOK, RepliesReplay, OthersStay
  <2> QED BY <1>3, <2>1, <2>2, <2>3, QuietStep DEF rowVars
<1> QED BY <1>2, <1>3, RollbackStep DEF LockNeed

(* The candidates are ordered as one snapshot sees them.                    *)
LEMMA QueryCandidatesStep ==
    ASSUME DirectoryInv, NEW t \in Requests, QueryCandidates(t)
    PROVE  DirectoryInv'
<1> DEFINE S == {p \in Providers : filter[t] \in passes[p]}
<1>1. TypeOK /\ Generating(t) /\ RepliesReplay /\ pc[t] = "queryCandidates" /\ need[t] \in Needs
  BY DEF DirectoryInv, IInv, QueryCandidates, TypeOK
<1>2. PICK q \in Orderings(need[t], {[provider |-> p, shown |-> surfacedCount[p]] : p \in S}) :
        /\ ordered' = [ordered EXCEPT ![t] = q] /\ pc' = [pc EXCEPT ![t] = "surface"]
        /\ UNCHANGED <<rowVars, lockVars, need, filter, reply>>
  BY DEF QueryCandidates
<1>3. /\ q \in Seq(Candidate) /\ InOrder(need[t], q)
      /\ \A i \in DOMAIN q : q[i].shown = surfacedCount[q[i].provider]
  <2>1. S \in SUBSET Providers /\ surfacedCount \in [Providers -> Nat]
    BY <1>1 DEF TypeOK
  <2> HIDE DEF S
  <2> QED BY <1>1, <2>1, OrderedList
<1>4. TypeOK' /\ OthersStay(t) /\ pc'[t] = "surface" /\ ordered'[t] = q
  BY <1>1, <1>2, <1>3 DEF TypeOK, Running, OthersStay, rowVars, lockVars
<1>5. \A i \in DOMAIN q : q[i].shown <= surfacedCount[q[i].provider]
  <2> TAKE i \in DOMAIN q
  <2>1. q[i] \in Candidate
    BY <1>3
  <2>2. surfacedCount[q[i].provider] \in Nat
    BY <1>1, <2>1 DEF TypeOK, Candidate
  <2> QED BY <1>3, <2>2
<1>6. Generating(t)'
  BY <1>1, <1>2, <1>3, <1>4, <1>5 DEF Generating, InOrder, rowVars, lockVars
<1>7. \A u \in Requests : pc'[u] = "answered" =>
        reply'[u] = surface[need[u]] /\ filterOf[need[u]] = filter[u]
  BY <1>1, <1>2, <1>4 DEF RepliesReplay, OthersStay
<1> QED BY <1>2, <1>4, <1>6, <1>7, QuietStep DEF rowVars

(* The counter of the next candidate is locked.                             *)
LEMMA SurfaceStep ==
    ASSUME DirectoryInv, NEW t \in Requests, Surface(t)
    PROVE  DirectoryInv'
<1>1. TypeOK /\ Generating(t) /\ RepliesReplay /\ pc[t] = "surface"
      /\ \A u \in Requests : u # None
  BY DirectoryAssumption DEF DirectoryInv, IInv, Surface
<1>2. PICK i \in DOMAIN ordered[t] :
        /\ counterOwner[ordered[t][i].provider] = None
        /\ counterOwner' = [counterOwner EXCEPT ![ordered[t][i].provider] = t]
  BY DEF Surface
<1>3. UNCHANGED <<rowVars, needOwner, pc, need, filter, ordered, reply>>
  BY DEF Surface
<1>4. TypeOK' /\ OthersStay(t)
  BY <1>1, <1>2, <1>3 DEF TypeOK, OthersStay, rowVars
<1>5. \A p \in Providers : counterOwner'[p] = t =>
        counterOwner[p] = t \/ p = ordered[t][i].provider
  BY <1>1, <1>2 DEF TypeOK
<1>6. Generating(t)'
  BY <1>1, <1>3, <1>5 DEF Generating, InOrder, rowVars
<1>7. \A u \in Requests : pc'[u] = "answered" =>
        reply'[u] = surface[need[u]] /\ filterOf[need[u]] = filter[u]
  BY <1>1, <1>3 DEF RepliesReplay
<1> QED BY <1>3, <1>4, <1>6, <1>7, QuietStep DEF rowVars

(* The directory is published: its need had none, its rows have the order   *)
(* and the counts they were computed from, and every provider on it, and    *)
(* nobody else, is counted once more.                                       *)
LEMMA CommitStep ==
    ASSUME DirectoryInv, NEW t \in Requests, Commit(t)
    PROVE  DirectoryInv'
<1>1. TypeOK /\ Generating(t) /\ pc[t] = "surface" /\ need[t] \in Needs /\ filter[t] \in Filters
      /\ \A u \in Requests : Generating(u)
  BY DEF DirectoryInv, IInv, Commit, TypeOK
<1>2. PICK n \in Needs, list \in Seq(Candidate) : n = need[t] /\ list = ordered[t]
  BY <1>1 DEF TypeOK
<1>3. /\ filterOf' = [filterOf EXCEPT ![n] = filter[t]]
      /\ surface' = [surface EXCEPT ![n] = list]
      /\ surfacedCount' = [p \in Providers |-> CountAfter(t, p)]
      /\ reply' = [reply EXCEPT ![t] = list]
      /\ EndTransaction(t, "answered") /\ passes' = passes
      /\ Done(t) = DOMAIN list
  BY <1>2 DEF Commit
<1>4. /\ needOwner[n] = t /\ filterOf[n] = None /\ surface[n] = <<>> /\ InOrder(n, list)
      /\ \A i \in DOMAIN list : list[i].shown <= surfacedCount[list[i].provider]
  BY <1>1, <1>2 DEF Generating, DirectoryInv, IInv
<1>5. \A p \in Providers : counterOwner[p] = t <=> \E i \in DOMAIN list : list[i].provider = p
  BY <1>1, <1>2, <1>3 DEF Generating, Done
<1>6. \A p \in Providers :
        /\ surfacedCount[p] \in Nat /\ surfacedCount'[p] \in Nat
        /\ surfacedCount'[p] = IF counterOwner[p] = t THEN surfacedCount[p] + 1 ELSE surfacedCount[p]
  BY <1>1, <1>3 DEF TypeOK, CountAfter
<1>7. /\ OthersStay(t) /\ Generating(t)' /\ pc'[t] = "answered"
      /\ needOwner' \in [Needs -> Requests \cup {None}]
      /\ counterOwner' \in [Providers -> Requests \cup {None}]
      /\ pc' \in [Requests -> Running \cup Ended \cup {"idle"}]
      /\ ordered' \in [Requests -> Seq(Candidate)]
      /\ need' = need /\ filter' = filter
  BY <1>3, EndEffect DEF Ended
<1>8. /\ surface'[n] = list /\ \A m \in Needs \ {n} : surface'[m] = surface[m]
      /\ filterOf'[n] = filter[t] /\ \A m \in Needs \ {n} : filterOf'[m] = filterOf[m]
      /\ reply'[t] = list /\ \A u \in Requests \ {t} : reply'[u] = reply[u]
  BY <1>1, <1>3 DEF TypeOK
<1>9. \A i \in DOMAIN list : list[i] \in Candidate /\ list[i].provider \in Providers
  <2>1. \A i \in DOMAIN list : list[i] \in Candidate
    OBVIOUS
  <2> QED BY <2>1 DEF Candidate
<1>10. TypeOK'
  <2>1. surfacedCount' \in [Providers -> Nat]
    BY <1>3, <1>6
  <2> QED BY <1>1, <1>3, <1>7, <2>1 DEF TypeOK
<1>11. ASSUME NEW u \in Requests PROVE Generating(u)'
  <2>1. CASE u = t
    BY <1>7, <2>1
  <2>2. CASE u # t
    <3>1. \A m \in Needs : needOwner[m] = u => filterOf'[m] = filterOf[m]
      BY <1>4, <1>8, <2>2
    <3>2. \A p \in Providers : surfacedCount[p] <= surfacedCount'[p]
            /\ surfacedCount'[p] \in Nat /\ surfacedCount[p] \in Nat
      BY <1>6
    <3> QED BY <1>7, <2>2, <3>1, <3>2, OtherKeepsGenerating
  <2> QED BY <2>1, <2>2
<1>12. IInv'
  <2>1. \A m \in Needs : filterOf'[m] = None => surface'[m] = <<>>
    BY <1>1, <1>8, DirectoryAssumption DEF DirectoryInv, IInv
  <2> QED BY <1>10, <1>11, <2>1 DEF IInv
<1>13. RepliesReplay'
  <2>1. reply'[t] = surface'[need[t]] /\ filterOf'[need[t]] = filter[t]
    BY <1>2, <1>8
  <2>2. ASSUME NEW u \in Requests \ {t}, pc'[u] = "answered"
        PROVE  reply'[u] = surface'[need[u]] /\ filterOf'[need[u]] = filter[u]
    <3>1. /\ reply[u] = surface[need[u]] /\ filterOf[need[u]] = filter[u]
          /\ need[u] \in Needs /\ filter[u] \in Filters
      BY <1>1, <1>7, <2>2 DEF OthersStay, DirectoryInv, RepliesReplay, TypeOK
    <3>2. need[u] # n
      BY <1>4, <3>1, DirectoryAssumption
    <3> QED BY <1>8, <3>1, <3>2
  <2> QED BY <1>7, <2>1, <2>2 DEF RepliesReplay
<1>14. OrderReproducible'
  <2>1. ASSUME NEW m \in Needs PROVE InOrder(m, surface'[m])
    BY <1>4, <1>8 DEF DirectoryInv, OrderReproducible
  <2>2. ASSUME NEW m \in Needs, NEW i \in DOMAIN surface'[m]
        PROVE  surface'[m][i].shown < surfacedCount'[surface'[m][i].provider]
    <3>1. CASE m = n
      <4>1. list[i].shown <= surfacedCount[list[i].provider] /\ list[i] \in Candidate
            /\ counterOwner[list[i].provider] = t /\ list[i].provider \in Providers
        BY <1>4, <1>5, <1>8, <1>9, <2>2, <3>1
      <4>2. list[i].shown \in Nat
        BY <4>1 DEF Candidate
      <4> QED BY <1>6, <1>8, <3>1, <4>1, <4>2
    <3>2. CASE m # n
      <4>1. surface[m] \in Seq(Candidate) /\ surface'[m] = surface[m]
        BY <1>1, <1>8, <3>2 DEF TypeOK
      <4>2. /\ surface[m][i] \in Candidate
            /\ surface[m][i].shown < surfacedCount[surface[m][i].provider]
        BY <2>2, <4>1 DEF DirectoryInv, OrderReproducible
      <4>3. surface[m][i].shown \in Nat /\ surface[m][i].provider \in Providers
        BY <4>2 DEF Candidate
      <4> QED BY <1>6, <4>1, <4>2, <4>3
    <3> QED BY <3>1, <3>2
  <2>3. \A m \in Needs : InOrder(m, surface[m])' <=> InOrder(m, surface'[m])
    BY DEF InOrder
  <2> QED BY <2>1, <2>2, <2>3 DEF OrderReproducible
<1>15. ASSUME NEW p \in Providers
       PROVE  /\ surfacedCount'[p] = Cardinality({m \in Needs : p \in Listed(m)}')
              /\ IsFiniteSet({m \in Needs : p \in Listed(m)}')
  <2> DEFINE X == {m \in Needs : p \in Listed(m)}
             Y == {m \in Needs : \E i \in DOMAIN surface'[m] : surface'[m][i].provider = p}
  <2>1. {m \in Needs : p \in Listed(m)}' = Y
    BY DEF Listed
  <2>2. surfacedCount[p] = Cardinality(X) /\ IsFiniteSet(X)
    BY DEF DirectoryInv, CountersMatch, CountsFinite
  <2>3. n \notin X
    BY <1>4 DEF Listed
  <2>4. \A m \in Needs \ {n} : m \in Y <=> m \in X
    BY <1>8 DEF Listed
  <2>5. n \in Y <=> counterOwner[p] = t
    BY <1>5, <1>8
  <2> HIDE DEF X
  <2>6. CASE counterOwner[p] = t
    <3>1. Y = X \cup {n}
      <4>1. X \subseteq Needs /\ Y \subseteq Needs
        BY DEF X
      <4> HIDE DEF Y
      <4> QED BY <2>3, <2>4, <2>5, <2>6, <4>1
    <3>2. IsFiniteSet(Y) /\ Cardinality(Y) = Cardinality(X) + 1
      BY <2>2, <2>3, <3>1, FS_AddElement
    <3> QED BY <1>6, <2>1, <2>2, <2>6, <3>2
  <2>7. CASE counterOwner[p] # t
    <3>1. Y = X
      <4>1. X \subseteq Needs /\ Y \subseteq Needs
        BY DEF X
      <4> HIDE DEF Y
      <4>2. \A m \in Needs : m \in Y <=> m \in X
        BY <2>3, <2>4, <2>5, <2>7
      <4> QED BY <4>1, <4>2
    <3> QED BY <1>6, <2>1, <2>2, <2>7, <3>1
  <2> QED BY <2>6, <2>7
<1>16. CountersMatch' /\ CountsFinite'
  BY <1>15 DEF CountersMatch, CountsFinite
<1> QED BY <1>12, <1>13, <1>14, <1>16 DEF DirectoryInv

(* A provider that changes is seen by the next snapshot only.               *)
LEMMA ChangeProviderStep ==
    ASSUME DirectoryInv, NEW p \in Providers, ChangeProvider(p)
    PROVE  DirectoryInv'
<1>1. PICK S \in SUBSET Filters : passes' = [passes EXCEPT ![p] = S]
  BY DEF ChangeProvider
<1>2. /\ filterOf' = filterOf /\ surface' = surface /\ surfacedCount' = surfacedCount
      /\ needOwner' = needOwner /\ counterOwner' = counterOwner /\ pc' = pc /\ need' = need
      /\ filter' = filter /\ ordered' = ordered /\ reply' = reply
  BY DEF ChangeProvider, lockVars
<1>3. TypeOK'
  BY <1>1, <1>2 DEF DirectoryInv, IInv, TypeOK
<1>4. \A t \in Requests : Generating(t)'
  BY <1>2 DEF DirectoryInv, IInv, Generating, InOrder
<1>5. IInv' /\ RepliesReplay' /\ OrderReproducible'
  BY <1>2, <1>3, <1>4 DEF DirectoryInv, IInv, RepliesReplay, OrderReproducible, InOrder
<1>6. \A q \in Providers : {n \in Needs : q \in Listed(n)}' = {n \in Needs : q \in Listed(n)}
  BY <1>2 DEF Listed
<1>7. CountersMatch' /\ CountsFinite'
  BY <1>2, <1>6 DEF DirectoryInv, CountersMatch, CountsFinite
<1> QED BY <1>5, <1>7 DEF DirectoryInv

(***************************************************************************)
(* The invariant                                                           *)
(***************************************************************************)
LEMMA InitIsSound ==
    ASSUME Init
    PROVE  DirectoryInv
<1>1. <<>> \in Seq(Candidate)
  OBVIOUS
<1>2. TypeOK
  BY <1>1 DEF Init, TypeOK
<1>3. IInv /\ RepliesReplay /\ OrderReproducible
  <2>1. \A t \in Requests : t # None
    BY DirectoryAssumption
  <2> QED BY <1>2, <2>1 DEF Init, IInv, Generating, RepliesReplay, OrderReproducible, InOrder
<1>4. \A p \in Providers : {n \in Needs : p \in Listed(n)} = {} /\ surfacedCount[p] = 0
  BY DEF Init, Listed
<1>5. CountersMatch /\ CountsFinite
  BY <1>4, FS_EmptySet DEF CountersMatch, CountsFinite
<1> QED BY <1>3, <1>5 DEF DirectoryInv

LEMMA StutterKeeps ==
    ASSUME DirectoryInv, UNCHANGED vars
    PROVE  DirectoryInv'
<1>1. /\ filterOf' = filterOf /\ surface' = surface /\ surfacedCount' = surfacedCount
      /\ passes' = passes /\ needOwner' = needOwner /\ counterOwner' = counterOwner /\ pc' = pc
      /\ need' = need /\ filter' = filter /\ ordered' = ordered /\ reply' = reply
  BY DEF vars, rowVars, lockVars
<1>2. \A t \in Requests : Generating(t)'
  BY <1>1 DEF DirectoryInv, IInv, Generating, InOrder
<1>3. IInv' /\ RepliesReplay' /\ OrderReproducible'
  BY <1>1, <1>2 DEF DirectoryInv, IInv, TypeOK, RepliesReplay, OrderReproducible, InOrder
<1>4. \A p \in Providers : {n \in Needs : p \in Listed(n)}' = {n \in Needs : p \in Listed(n)}
  BY <1>1 DEF Listed
<1>5. CountersMatch' /\ CountsFinite'
  BY <1>1, <1>4 DEF DirectoryInv, CountersMatch, CountsFinite
<1> QED BY <1>3, <1>5 DEF DirectoryInv

LEMMA StepKeepsInvariant ==
    ASSUME DirectoryInv, [Next]_vars
    PROVE  DirectoryInv'
<1>1. CASE UNCHANGED vars
  BY <1>1, StutterKeeps
<1>2. ASSUME NEW t \in Requests, Step(t) PROVE DirectoryInv'
  BY <1>2, LockNeedStep, QueryCandidatesStep, SurfaceStep, CommitStep DEF Step
<1>3. ASSUME NEW t \in Requests, Begin(t) \/ Crash(t) \/ AbortDeadlocked(t) PROVE DirectoryInv'
  BY <1>3, BeginStep, RollbackStep DEF Crash, AbortDeadlocked
<1>4. ASSUME NEW p \in Providers, ChangeProvider(p) PROVE DirectoryInv'
  BY <1>4, ChangeProviderStep
<1> QED BY <1>1, <1>2, <1>3, <1>4 DEF Next

LEMMA Invariance == Spec => []DirectoryInv
BY InitIsSound, StepKeepsInvariant, PTL DEF Spec

(* One request at a time generates the directory of a need, from counters   *)
(* that do not run back, and only under the row lock on the need.           *)
THEOREM GenerationIsExclusive == Spec => []IInv
<1>1. DirectoryInv => IInv
  BY DEF DirectoryInv
<1> QED BY <1>1, Invariance, PTL

(* Everybody is shown the directory that was generated first, whatever      *)
(* changed since (intake-allocation.ts:216-246).                            *)
THEOREM RepliesAreReplays == Spec => []RepliesReplay
<1>1. DirectoryInv => RepliesReplay
  BY DEF DirectoryInv
<1> QED BY <1>1, Invariance, PTL

(* The order of a directory can be recomputed from its own rows             *)
(* (directory-order.ts:12-21), and each of them was counted afterwards.     *)
THEOREM OrdersReproducible == Spec => []OrderReproducible
<1>1. DirectoryInv => OrderReproducible
  BY DEF DirectoryInv
<1> QED BY <1>1, Invariance, PTL

(* surfaced_count is the number of directories that list the provider.      *)
THEOREM CountersEqualRows == Spec => []CountersMatch
<1>1. DirectoryInv => CountersMatch
  BY DEF DirectoryInv
<1> QED BY <1>1, Invariance, PTL
----------------------------------------------------------------------------
(* The web client.                                                          *)

CallOps == {"none"} \cup Web!Guarded \cup Web!Fetches
Targets == ClientNeeds \cup Bookings \cup {None}
Classes == Types \cup {None}
CallRows == [op : CallOps, on : Targets, type : Classes, live : BOOLEAN,
             answer : {"none", "ok", "error", "conflict", "thrown"}, value : ClientNeeds \cup Nat \cup {None}]
ClientTypes ==
    /\ loading \in BOOLEAN /\ needResult \in ClientNeeds \cup {None} /\ directory.type \in Classes
    /\ calls \in [ClientCalls -> CallRows] /\ ledger \in Nat
    /\ chosen \in Bookings /\ assigned \in [ClientNeeds -> Classes]
    /\ booking \in [Bookings -> {"HELD", "CONFIRMED", "DECLINED"}]

\* The call of a button that loading disables.
Busy(c) == calls[c].live /\ calls[c].op \in Web!Guarded
LoadingIsBusy == loading <=> \E c \in ClientCalls : Busy(c)
OneBusy == \A c, d \in ClientCalls : Busy(c) /\ Busy(d) => c = d

\* What a call is about, and what a portal does not do while it waits for it.
Aimed(c) ==
    /\ calls[c].op = "none" => ~calls[c].live /\ calls[c].answer = "none"
    /\ calls[c].op = "select" => calls[c].on \in ClientNeeds /\ calls[c].type \in Types
    /\ calls[c].op \in {"accept", "decline", "claim"} => calls[c].on \in Bookings
    /\ calls[c].op = "need" /\ calls[c].answer = "ok" => calls[c].value \in ClientNeeds
Current(c) ==
    calls[c].live =>
        /\ calls[c].op = "select" => calls[c].on = needResult
        /\ calls[c].op = "need" => allocation = Web!NoAllocation
\* An answer that is on its way says what the server did, and still stands.
Decided(c) ==
    calls[c].answer = "ok" =>
        /\ calls[c].op = "select" => /\ assigned[calls[c].on] = calls[c].type
                                     /\ <<calls[c].on, calls[c].type>> \in surfaced
        /\ calls[c].op = "accept" => booking[calls[c].on] = "CONFIRMED"
        /\ calls[c].op = "decline" => booking[calls[c].on] = "DECLINED"
        /\ calls[c].op = "profile" => published
CallsSound == \A c \in ClientCalls : Aimed(c) /\ Current(c) /\ Decided(c)

AllocationSound ==
    allocation # Web!NoAllocation =>
        /\ needResult \in ClientNeeds /\ allocation.type \in Types
        /\ allocation.need = needResult /\ assigned[needResult] = allocation.type
        /\ <<needResult, allocation.type>> \in surfaced
MessageSound ==
    /\ message \in {"none", "accept", "decline"}
    /\ message # "none" =>
         \E b \in Bookings : booking[b] = IF message = "accept" THEN "CONFIRMED" ELSE "DECLINED"
    /\ notice = "registered" => published
ClientInv ==
    ClientTypes /\ LoadingIsBusy /\ OneBusy /\ CallsSound /\ AllocationSound /\ MessageSound

\* What the server has decided stays.
Keeps ==
    /\ \A n \in ClientNeeds : assigned[n] \in Types => assigned'[n] = assigned[n]
    /\ surfaced \subseteq surfaced' /\ (published => published')
    /\ \A b \in Bookings : booking[b] # "HELD" => booking'[b] = booking[b]
ServerTypes ==
    /\ ledger \in Nat /\ assigned \in [ClientNeeds -> Classes]
    /\ booking \in [Bookings -> {"HELD", "CONFIRMED", "DECLINED"}]

LEMMA NoneApart == None \notin ClientNeeds \cup Types \cup Bookings \cup Nat
BY ServicesAssumption

\* The row of a call that is started, answered, or over.
LEMMA CallEffect ==
  ASSUME ClientTypes, NEW c \in ClientCalls, NEW op \in CallOps, NEW on \in Targets, NEW t \in Classes,
         Web!Call(c, op, on, t)
  PROVE  /\ calls' \in [ClientCalls -> CallRows] /\ calls[c].op = "none" /\ UNCHANGED Web!server
         /\ calls'[c].op = op /\ calls'[c].on = on /\ calls'[c].type = t
         /\ calls'[c].live /\ calls'[c].answer = "none"
         /\ \A d \in ClientCalls : d # c => calls'[d] = calls[d]
<1> DEFINE row == [Web!NoCall EXCEPT !.op = op, !.on = on, !.type = t, !.live = TRUE]
<1>1. calls' = [calls EXCEPT ![c] = row] /\ calls[c].op = "none" /\ UNCHANGED Web!server
  BY DEF Web!Call
<1>2. Web!NoCall \in CallRows /\ Web!NoCall.answer = "none"
  BY DEF Web!NoCall, CallRows, CallOps, Targets, Classes
<1>3. row \in CallRows
  BY <1>2 DEF CallRows
<1>4. row.op = op /\ row.on = on /\ row.type = t /\ row.live /\ row.answer = "none"
  BY <1>2 DEF CallRows
<1> HIDE DEF row
<1> QED BY <1>1, <1>3, <1>4 DEF ClientTypes

LEMMA ReplyEffect ==
  ASSUME ClientTypes, NEW c \in ClientCalls, NEW what \in {"ok", "error", "conflict", "thrown"},
         NEW v \in ClientNeeds \cup Nat \cup {None}, Web!Reply(c, what, v)
  PROVE  /\ calls' \in [ClientCalls -> CallRows] /\ UNCHANGED Web!client
         /\ calls'[c].op = calls[c].op /\ calls'[c].on = calls[c].on
         /\ calls'[c].type = calls[c].type /\ (calls'[c].live <=> calls[c].live)
         /\ calls'[c].answer = what /\ calls'[c].value = v
         /\ \A d \in ClientCalls : d # c => calls'[d] = calls[d]
<1> DEFINE row == [calls[c] EXCEPT !.answer = what, !.value = v]
<1>1. calls' = [calls EXCEPT ![c] = row] /\ UNCHANGED Web!client
  BY DEF Web!Reply, ClientTypes
<1>2. calls[c] \in CallRows
  BY DEF ClientTypes
<1>3. row \in CallRows
  BY <1>2 DEF CallRows
<1>4. /\ row.op = calls[c].op /\ row.on = calls[c].on /\ row.type = calls[c].type
      /\ row.live = calls[c].live /\ row.answer = what /\ row.value = v
  BY <1>2 DEF CallRows
<1> HIDE DEF row
<1> QED BY <1>1, <1>3, <1>4 DEF ClientTypes

LEMMA SettleEffect ==
  ASSUME ClientTypes, NEW c \in ClientCalls, Web!Settle(c)
  PROVE  /\ calls' \in [ClientCalls -> CallRows] /\ UNCHANGED Web!server
         /\ calls'[c].op = "none" /\ ~calls'[c].live /\ calls'[c].answer = "none"
         /\ \A d \in ClientCalls : d # c => calls'[d] = calls[d]
<1>1. calls' = [calls EXCEPT ![c] = Web!NoCall] /\ UNCHANGED Web!server
  BY DEF Web!Settle
<1>2. Web!NoCall \in CallRows
  BY DEF Web!NoCall, CallRows, CallOps, Targets, Classes
<1>3. Web!NoCall.op = "none" /\ ~Web!NoCall.live /\ Web!NoCall.answer = "none"
  BY DEF Web!NoCall
<1> QED BY <1>1, <1>2, <1>3 DEF ClientTypes

----------------------------------------------------------------------------
(* The steps, by what they do to the calls.                                 *)

\* A button that loading disables.
PressStep(c) ==
    \E op \in Web!Guarded, on \in Targets, t \in Classes :
        /\ Web!Press(c, op, on, t) /\ UNCHANGED <<message, chosen>> /\ notice' \in {notice, "none"}
        /\ op = "select" => on = needResult /\ on \in ClientNeeds /\ t \in Types
        /\ op \in {"accept", "decline", "claim"} => on \in Bookings
        /\ op = "need" => needResult' = None /\ directory' = Web!NoAllocation /\ allocation' = Web!NoAllocation
        /\ op # "need" => UNCHANGED <<needResult, directory, allocation>>
\* One of the others.
FetchStep(c) ==
    \E op \in Web!Fetches, on \in Targets, t \in Classes : Web!Call(c, op, on, t) /\ UNCHANGED Web!client
\* The server answers, or its answer is lost.
AnswerStep(c) ==
    \E what \in {"ok", "error", "conflict", "thrown"}, v \in ClientNeeds \cup Nat \cup {None} :
        /\ Web!Reply(c, what, v) /\ Keeps /\ ServerTypes' /\ calls[c].op # "none"
        /\ what = "ok" =>
             /\ calls[c].op = "need" => v \in ClientNeeds
             /\ calls[c].op = "select" => /\ assigned'[calls[c].on] = calls[c].type
                                          /\ <<calls[c].on, calls[c].type>> \in surfaced'
             /\ calls[c].op = "accept" => booking'[calls[c].on] = "CONFIRMED"
             /\ calls[c].op = "decline" => booking'[calls[c].on] = "DECLINED"
             /\ calls[c].op = "profile" => published'

LEMMA OtherButton ==
  ASSUME NEW c \in ClientCalls, NEW p, Web!PressOther(c, p)
  PROVE  PressStep(c)
<1>1. None \in Targets /\ None \in Classes /\ "other" \in Web!Guarded
  BY DEF Targets, Classes, Web!Guarded
<1>2. /\ Web!Press(c, "other", None, None)
      /\ UNCHANGED <<message, chosen, notice, needResult, directory, allocation>>
  BY DEF Web!PressOther, Web!citizenView, Web!providerView
<1> QED BY <1>1, <1>2 DEF PressStep

LEMMA ButtonSteps ==
  ASSUME ClientInv, NEW c \in ClientCalls, Web!Buttons(c)
  PROVE  PressStep(c) \/ FetchStep(c)
<1> USE DEF ClientInv, ClientTypes, Targets, Classes, Web!citizenView, Web!providerView
<1>1. CASE Web!SubmitNeed(c)
  BY <1>1 DEF Web!SubmitNeed, PressStep, Web!Guarded
<1>2. CASE Web!FetchDirectory(c)
  BY <1>2 DEF Web!FetchDirectory, FetchStep, Web!Fetches
<1>3. CASE Web!SelectProvider(c)
  BY <1>3 DEF Web!SelectProvider, PressStep, Web!Guarded
<1>4. CASE Web!FetchReferral(c)
  BY <1>4 DEF Web!FetchReferral, PressStep, Web!Guarded
<1>5. CASE Web!Export(c) \/ Web!CreateQuote(c) \/ Web!FileGrievance(c) \/ Web!LoadStats(c)
  BY <1>5, OtherButton DEF Web!Export, Web!CreateQuote, Web!FileGrievance, Web!LoadStats
<1>9. CASE Web!CreateProfile(c)
  BY <1>9 DEF Web!CreateProfile, PressStep, Web!Guarded
<1>6. CASE Web!DecideBooking(c)
  BY <1>6 DEF Web!DecideBooking, PressStep, Web!Guarded
<1>7. CASE Web!ClaimCase(c)
  BY <1>7 DEF Web!ClaimCase, PressStep, Web!Guarded
<1>8. CASE Web!Fetch(c)
  BY <1>8 DEF Web!Fetch, FetchStep, Web!Fetches
<1> QED BY <1>1, <1>2, <1>3, <1>4, <1>5, <1>6, <1>7, <1>8, <1>9 DEF Web!Buttons

LEMMA ServerStays ==
  ASSUME ServerTypes, UNCHANGED <<surfaced, assigned, booking, published, ledger>>
  PROVE  Keeps /\ ServerTypes'
BY DEF ServerTypes, Keeps

LEMMA ServeSteps ==
  ASSUME ClientInv, NEW c \in ClientCalls, Web!Serve(c) \/ Web!LoseAnswer(c)
  PROVE  AnswerStep(c)
<1>1. ServerTypes /\ Aimed(c) /\ calls[c] \in CallRows
  BY DEF ClientInv, ClientTypes, ServerTypes, CallsSound
<1>2. CASE Web!LoseAnswer(c)
  <2>1. Web!Reply(c, "thrown", None) /\ UNCHANGED Web!server /\ calls[c].answer = "ok"
    BY <1>2 DEF Web!LoseAnswer
  <2>2. calls[c].op # "none"
    BY <2>1 DEF ClientInv, CallsSound, Aimed
  <2> QED BY <1>1, <2>1, <2>2, ServerStays DEF AnswerStep, Web!server
<1>3. CASE calls[c].op # "none" /\ Web!ServeNeed(c)
  <2>1. PICK n \in ClientNeeds : Web!Reply(c, "ok", n) /\ UNCHANGED <<surfaced, assigned, booking, published, ledger>>
    BY <1>3 DEF Web!ServeNeed
  <2> QED BY <1>1, <1>3, <2>1, ServerStays DEF AnswerStep, Web!ServeNeed
<1>4. CASE calls[c].op # "none" /\ Web!ServeDirectory(c)
  <2>1. Keeps /\ ServerTypes'
    BY <1>1, <1>4 DEF Web!ServeDirectory, Keeps, ServerTypes
  <2> QED BY <1>4, <2>1 DEF AnswerStep, Web!ServeDirectory
<1>5. CASE calls[c].op # "none" /\ Web!ServeSelect(c)
  <2>1. calls[c].on \in ClientNeeds /\ calls[c].type \in Types
    BY <1>1, <1>5 DEF Aimed, Web!ServeSelect
  <2>2. assigned' = [assigned EXCEPT ![calls[c].on] = calls[c].type] /\ assigned[calls[c].on] = None
    BY <1>5 DEF Web!ServeSelect
  <2>3. UNCHANGED <<created, surfaced, booking, published, ledger>>
    BY <1>5 DEF Web!ServeSelect
  <2>4. Keeps /\ ServerTypes'
    BY <1>1, <2>1, <2>2, <2>3, NoneApart DEF Keeps, ServerTypes, Classes
  <2>5. assigned'[calls[c].on] = calls[c].type
    BY <1>1, <2>1, <2>2 DEF ServerTypes
  <2>6. <<calls[c].on, calls[c].type>> \in surfaced'
    BY <1>5, <2>3 DEF Web!ServeSelect, Web!Surfaced
  <2>7. Web!Reply(c, "ok", None) /\ calls[c].op = "select"
    BY <1>5 DEF Web!ServeSelect
  <2> QED BY <2>4, <2>5, <2>6, <2>7 DEF AnswerStep
<1>6. CASE calls[c].op # "none" /\ Web!ServeBooking(c)
  <2>1. calls[c].on \in Bookings
    BY <1>1, <1>6 DEF Aimed, Web!ServeBooking
  <2>2. /\ booking[calls[c].on] = "HELD"
        /\ booking' = [booking EXCEPT ![calls[c].on] =
                         IF calls[c].op = "decline" THEN "DECLINED" ELSE "CONFIRMED"]
    BY <1>6 DEF Web!ServeBooking
  <2>3. UNCHANGED <<created, surfaced, assigned, published, ledger>>
    BY <1>6 DEF Web!ServeBooking
  <2>4. Keeps /\ ServerTypes'
    BY <1>1, <2>1, <2>2, <2>3 DEF Keeps, ServerTypes
  <2>5. booking'[calls[c].on] = IF calls[c].op = "decline" THEN "DECLINED" ELSE "CONFIRMED"
    BY <1>1, <2>1, <2>2 DEF ServerTypes
  <2>6. Web!Reply(c, "ok", None) /\ calls[c].op \in {"accept", "decline", "claim"}
    BY <1>6 DEF Web!ServeBooking
  <2> QED BY <2>4, <2>5, <2>6 DEF AnswerStep
<1>9. CASE calls[c].op # "none" /\ Web!ServeProfile(c)
  <2>1. PICK what \in {"ok", "conflict"} : Web!Reply(c, what, None)
    BY <1>9 DEF Web!ServeProfile
  <2>2. published' /\ calls[c].op = "profile" /\ UNCHANGED <<created, surfaced, assigned, booking, ledger>>
    BY <1>9 DEF Web!ServeProfile
  <2>3. Keeps /\ ServerTypes'
    BY <1>1, <2>2 DEF Keeps, ServerTypes
  <2> QED BY <2>1, <2>2, <2>3 DEF AnswerStep
<1>7. CASE calls[c].op # "none" /\ Web!ServeOther(c)
  <2>1. PICK v \in Nat \cup {None} : Web!Reply(c, "ok", v)
    BY <1>1, <1>7 DEF Web!ServeOther, ServerTypes
  <2>2. UNCHANGED Web!server /\ calls[c].op \in {"referral", "other", "inspect", "credits"}
    BY <1>7 DEF Web!ServeOther
  <2>3. Keeps /\ ServerTypes'
    BY <1>1, <2>2, ServerStays DEF Web!server
  <2> QED BY <2>1, <2>2, <2>3 DEF AnswerStep
<1>8. CASE calls[c].op # "none" /\ Web!Refuse(c)
  <2>1. PICK what \in {"error", "thrown"} : Web!Reply(c, what, None) /\ UNCHANGED Web!server
    BY <1>8 DEF Web!Refuse
  <2>2. Keeps /\ ServerTypes'
    BY <1>1, <2>1, ServerStays DEF Web!server
  <2> QED BY <1>8, <2>1, <2>2 DEF AnswerStep
<1> QED BY <1>2, <1>3, <1>4, <1>5, <1>6, <1>7, <1>8, <1>9 DEF Web!Serve

----------------------------------------------------------------------------
(* Each class of steps keeps the invariant.                                 *)

LEMMA PressKeeps ==
  ASSUME ClientInv, NEW c \in ClientCalls, PressStep(c)
  PROVE  ClientInv'
<1>1. PICK op \in Web!Guarded, on \in Targets, t \in Classes :
        /\ Web!Press(c, op, on, t) /\ UNCHANGED <<message, chosen>> /\ notice' \in {notice, "none"}
        /\ op = "select" => on = needResult /\ on \in ClientNeeds /\ t \in Types
        /\ op \in {"accept", "decline", "claim"} => on \in Bookings
        /\ op = "need" => needResult' = None /\ directory' = Web!NoAllocation /\ allocation' = Web!NoAllocation
        /\ op # "need" => UNCHANGED <<needResult, directory, allocation>>
  BY DEF PressStep
<1>2. ~loading /\ loading' = TRUE /\ Web!Call(c, op, on, t)
  BY <1>1 DEF Web!Press, Web!Enabled
<1>3. /\ calls' \in [ClientCalls -> CallRows] /\ calls[c].op = "none" /\ UNCHANGED Web!server
      /\ calls'[c].op = op /\ calls'[c].on = on /\ calls'[c].type = t
      /\ calls'[c].live /\ calls'[c].answer = "none"
      /\ \A d \in ClientCalls : d # c => calls'[d] = calls[d]
  BY <1>2, CallEffect DEF ClientInv, CallOps
<1>4. ClientTypes'
  BY <1>1, <1>2, <1>3 DEF ClientInv, ClientTypes, Web!server, Web!NoAllocation, Classes
<1>5. \A d \in ClientCalls : ~Busy(d)
  BY <1>2 DEF ClientInv, LoadingIsBusy
<1>6. Busy(c)' /\ \A d \in ClientCalls : d # c => ~Busy(d)'
  BY <1>3, <1>5 DEF Busy
<1>7. LoadingIsBusy' /\ OneBusy'
  BY <1>2, <1>6 DEF LoadingIsBusy, OneBusy
<1>8. ASSUME NEW d \in ClientCalls PROVE Aimed(d)' /\ Current(d)' /\ Decided(d)'
  <2>1. CASE d = c
    <3>1. Aimed(c)'
      BY <1>1, <1>3 DEF Aimed, Web!Guarded
    <3>2. Current(c)'
      BY <1>1, <1>3 DEF Current
    <3>3. Decided(c)'
      BY <1>3 DEF Decided
    <3> QED BY <2>1, <3>1, <3>2, <3>3
  <2>2. CASE d # c
    <3>1. calls'[d] = calls[d] /\ Aimed(d) /\ Current(d) /\ Decided(d) /\ ~Busy(d)
      BY <1>3, <1>5, <2>2 DEF ClientInv, CallsSound
    <3>2. Aimed(d)'
      BY <3>1 DEF Aimed
    <3>3. Current(d)'
      BY <3>1 DEF Current, Busy, Web!Guarded
    <3>4. Decided(d)'
      BY <3>1, <1>3 DEF Decided, Web!server
    <3> QED BY <3>2, <3>3, <3>4
  <2> QED BY <2>1, <2>2
<1>9. AllocationSound'
  BY <1>1, <1>3 DEF ClientInv, AllocationSound, Web!server, Web!NoAllocation
<1>10. MessageSound'
  BY <1>1, <1>3 DEF ClientInv, MessageSound, Web!server
<1> QED BY <1>4, <1>7, <1>8, <1>9, <1>10 DEF ClientInv, CallsSound

LEMMA FetchKeeps ==
  ASSUME ClientInv, NEW c \in ClientCalls, FetchStep(c)
  PROVE  ClientInv'
<1>1. PICK op \in Web!Fetches, on \in Targets, t \in Classes : Web!Call(c, op, on, t) /\ UNCHANGED Web!client
  BY DEF FetchStep
<1>2. /\ calls' \in [ClientCalls -> CallRows] /\ calls[c].op = "none" /\ UNCHANGED Web!server
      /\ calls'[c].op = op /\ calls'[c].live /\ calls'[c].answer = "none"
      /\ \A d \in ClientCalls : d # c => calls'[d] = calls[d]
  BY <1>1, CallEffect DEF ClientInv, CallOps
<1>3. UNCHANGED <<loading, needResult, directory, allocation, message, notice, chosen>>
  BY <1>1 DEF Web!client, Web!citizenView, Web!providerView
<1>4. ClientTypes'
  BY <1>2, <1>3 DEF ClientInv, ClientTypes, Web!server
<1>5. ~Busy(c) /\ ~Busy(c)' /\ \A d \in ClientCalls : d # c => (Busy(d)' <=> Busy(d))
  BY <1>2 DEF Busy, Web!Fetches, Web!Guarded
<1>6. LoadingIsBusy' /\ OneBusy'
  BY <1>3, <1>5 DEF ClientInv, LoadingIsBusy, OneBusy
<1>7. ASSUME NEW d \in ClientCalls PROVE Aimed(d)' /\ Current(d)' /\ Decided(d)'
  <2>1. CASE d = c
    BY <1>2, <2>1 DEF Aimed, Current, Decided, Web!Fetches
  <2>2. CASE d # c
    <3>1. calls'[d] = calls[d] /\ Aimed(d) /\ Current(d) /\ Decided(d)
      BY <1>2, <2>2 DEF ClientInv, CallsSound
    <3>2. Aimed(d)'
      BY <3>1 DEF Aimed
    <3>3. Current(d)'
      BY <3>1, <1>3 DEF Current, Web!NoAllocation
    <3>4. Decided(d)'
      BY <3>1, <1>2 DEF Decided, Web!server
    <3> QED BY <3>2, <3>3, <3>4
  <2> QED BY <2>1, <2>2
<1>8. AllocationSound'
  BY <1>2, <1>3 DEF ClientInv, AllocationSound, Web!server, Web!NoAllocation
<1>9. MessageSound'
  BY <1>2, <1>3 DEF ClientInv, MessageSound, Web!server
<1> QED BY <1>4, <1>6, <1>7, <1>8, <1>9 DEF ClientInv, CallsSound

LEMMA AnswerKeeps ==
  ASSUME ClientInv, NEW c \in ClientCalls, AnswerStep(c)
  PROVE  ClientInv'
<1>1. PICK what \in {"ok", "error", "conflict", "thrown"}, v \in ClientNeeds \cup Nat \cup {None} :
        /\ Web!Reply(c, what, v) /\ Keeps /\ ServerTypes' /\ calls[c].op # "none"
        /\ what = "ok" =>
             /\ calls[c].op = "need" => v \in ClientNeeds
             /\ calls[c].op = "select" => /\ assigned'[calls[c].on] = calls[c].type
                                          /\ <<calls[c].on, calls[c].type>> \in surfaced'
             /\ calls[c].op = "accept" => booking'[calls[c].on] = "CONFIRMED"
             /\ calls[c].op = "decline" => booking'[calls[c].on] = "DECLINED"
             /\ calls[c].op = "profile" => published'
  BY DEF AnswerStep
<1>2. /\ calls' \in [ClientCalls -> CallRows] /\ UNCHANGED Web!client
      /\ calls'[c].op = calls[c].op /\ calls'[c].on = calls[c].on
      /\ calls'[c].type = calls[c].type /\ (calls'[c].live <=> calls[c].live)
      /\ calls'[c].answer = what /\ calls'[c].value = v
      /\ \A d \in ClientCalls : d # c => calls'[d] = calls[d]
  BY <1>1, ReplyEffect DEF ClientInv
<1>3. UNCHANGED <<loading, needResult, directory, allocation, message, notice, chosen>>
  BY <1>2 DEF Web!client, Web!citizenView, Web!providerView
<1>4. ClientTypes'
  BY <1>1, <1>2, <1>3 DEF ClientInv, ClientTypes, ServerTypes
<1>5. \A d \in ClientCalls : Busy(d)' <=> Busy(d)
  BY <1>2 DEF Busy
<1>6. LoadingIsBusy' /\ OneBusy'
  BY <1>3, <1>5 DEF ClientInv, LoadingIsBusy, OneBusy
<1>7. ASSUME NEW d \in ClientCalls PROVE Aimed(d)' /\ Current(d)' /\ Decided(d)'
  <2>1. CASE d = c
    <3>1. Aimed(c) /\ Current(c)
      BY DEF ClientInv, CallsSound
    <3>2. Aimed(c)'
      BY <1>1, <1>2, <3>1 DEF Aimed
    <3>3. Current(c)'
      BY <1>2, <1>3, <3>1 DEF Current, Web!NoAllocation
    <3>4. Decided(c)'
      BY <1>1, <1>2 DEF Decided
    <3> QED BY <2>1, <3>2, <3>3, <3>4
  <2>2. CASE d # c
    <3>1. calls'[d] = calls[d] /\ Aimed(d) /\ Current(d) /\ Decided(d)
      BY <1>2, <2>2 DEF ClientInv, CallsSound
    <3>2. Aimed(d)'
      BY <3>1 DEF Aimed
    <3>3. Current(d)'
      BY <3>1, <1>3 DEF Current, Web!NoAllocation
    <3>4. Decided(d)'
      BY <3>1, <1>1 DEF Decided, Keeps, Aimed
    <3> QED BY <3>2, <3>3, <3>4
  <2> QED BY <2>1, <2>2
<1>8. AllocationSound'
  BY <1>1, <1>3 DEF ClientInv, AllocationSound, Keeps, Web!NoAllocation
<1>9. MessageSound'
  BY <1>1, <1>3 DEF ClientInv, MessageSound, Keeps
<1> QED BY <1>4, <1>6, <1>7, <1>8, <1>9 DEF ClientInv, CallsSound

LEMMA SettleKeeps ==
  ASSUME ClientInv, NEW c \in ClientCalls, Web!Settle(c)
  PROVE  ClientInv'
<1>1. /\ calls' \in [ClientCalls -> CallRows] /\ UNCHANGED Web!server
      /\ calls'[c].op = "none" /\ ~calls'[c].live /\ calls'[c].answer = "none"
      /\ \A d \in ClientCalls : d # c => calls'[d] = calls[d]
  BY SettleEffect DEF ClientInv
<1>2. Aimed(c) /\ Current(c) /\ Decided(c)
  BY DEF ClientInv, CallsSound
<1>3. ~Busy(c)' /\ \A d \in ClientCalls : d # c => (Busy(d)' <=> Busy(d))
  BY <1>1 DEF Busy
<1>4. OneBusy'
  BY <1>3 DEF ClientInv, OneBusy
<1>5. \A d \in ClientCalls : Aimed(d)' /\ Decided(d)'
  <2>1. Aimed(c)' /\ Decided(c)'
    BY <1>1 DEF Aimed, Decided
  <2>2. ASSUME NEW d \in ClientCalls, d # c PROVE Aimed(d)'
    <3>1. calls'[d] = calls[d] /\ Aimed(d)
      BY <1>1, <2>2 DEF ClientInv, CallsSound
    <3> QED BY <3>1 DEF Aimed
  <2>3. ASSUME NEW d \in ClientCalls, d # c PROVE Decided(d)'
    <3>1. calls'[d] = calls[d] /\ Decided(d)
      BY <1>1, <2>3 DEF ClientInv, CallsSound
    <3> QED BY <3>1, <1>1 DEF Decided, Web!server
  <2> QED BY <2>1, <2>2, <2>3
<1>6. CASE ~calls[c].live /\ UNCHANGED Web!client
  <2>1. UNCHANGED <<loading, needResult, directory, allocation, message, notice, chosen>>
    BY <1>6 DEF Web!client, Web!citizenView, Web!providerView
  <2>2. ClientTypes'
    BY <1>1, <2>1 DEF ClientInv, ClientTypes, Web!server
  <2>3. LoadingIsBusy'
    BY <1>3, <1>6, <2>1 DEF ClientInv, LoadingIsBusy, Busy
  <2>4. ASSUME NEW d \in ClientCalls PROVE Current(d)'
    BY <1>1, <2>1 DEF ClientInv, CallsSound, Current, Web!NoAllocation
  <2>5. AllocationSound' /\ MessageSound'
    BY <1>1, <2>1 DEF ClientInv, AllocationSound, MessageSound, Web!NoAllocation, Web!server
  <2> QED BY <1>4, <1>5, <2>2, <2>3, <2>4, <2>5 DEF ClientInv, CallsSound
<1>7. CASE /\ calls[c].live /\ Web!Ends(c)
           /\ \/ Web!SettleNeed(c) \/ Web!SettleDirectory(c) \/ Web!SettleSelect(c) \/ Web!SettleBooking(c)
              \/ Web!SettleProfile(c) \/ Web!SettleClaim(c) \/ Web!SettleCredits(c) \/ Web!SettleOther(c)
  <2>1. loading' \in BOOLEAN /\ LoadingIsBusy'
    BY <1>3, <1>7 DEF ClientInv, ClientTypes, LoadingIsBusy, OneBusy, Busy, Web!Ends
  <2>2. \A d \in ClientCalls : Busy(c) /\ d # c => ~Busy(d)
    BY DEF ClientInv, OneBusy
  <2>3. CASE Web!SettleNeed(c)
    <3>1. calls[c].op = "need" /\ UNCHANGED <<directory, allocation, message, notice, chosen>> /\ allocation = Web!NoAllocation
      BY <1>2, <1>7, <2>3 DEF Web!SettleNeed, Current, Web!providerView
    <3>2. needResult' \in ClientNeeds \cup {None}
      BY <1>2, <2>3, <3>1 DEF Web!SettleNeed, Web!Shows, Aimed, ClientInv, ClientTypes
    <3>3. ClientTypes'
      BY <1>1, <2>1, <3>1, <3>2 DEF ClientInv, ClientTypes, Web!server
    <3>4. ASSUME NEW d \in ClientCalls PROVE Current(d)'
      <4>1. ~calls'[d].live \/ calls'[d].op \notin {"select", "need"}
        BY <1>1, <1>7, <2>2, <3>1 DEF Busy, Web!Guarded
      <4> QED BY <4>1 DEF Current
    <3>5. AllocationSound'
      BY <3>1 DEF AllocationSound, Web!NoAllocation
    <3>6. MessageSound'
      BY <1>1, <3>1 DEF ClientInv, MessageSound, Web!server
    <3> QED BY <1>4, <1>5, <2>1, <3>3, <3>4, <3>5, <3>6 DEF ClientInv, CallsSound
  <2>4. CASE Web!SettleSelect(c)
    <3>1. /\ calls[c].op = "select" /\ UNCHANGED <<needResult, directory, message, notice, chosen>>
          /\ calls[c].on = needResult /\ needResult \in ClientNeeds /\ calls[c].type \in Types
      BY <1>2, <1>7, <2>4 DEF Web!SettleSelect, Current, Aimed, Web!providerView
    <3>2. ClientTypes'
      BY <1>1, <2>1, <3>1 DEF ClientInv, ClientTypes, Web!server
    <3>3. ASSUME NEW d \in ClientCalls PROVE Current(d)'
      <4>1. ~calls'[d].live \/ calls'[d].op \notin {"select", "need"}
        BY <1>1, <1>7, <2>2, <3>1 DEF Busy, Web!Guarded
      <4> QED BY <4>1 DEF Current
    <3>4. AllocationSound'
      <4>1. CASE Web!Shows(c)
        <5>1. allocation' = [need |-> calls[c].on, type |-> calls[c].type]
          BY <2>4, <4>1 DEF Web!SettleSelect
        <5>2. allocation'.need = calls[c].on /\ allocation'.type = calls[c].type
          BY <5>1
        <5>3. assigned[needResult] = calls[c].type /\ <<needResult, calls[c].type>> \in surfaced
          BY <1>2, <3>1, <4>1 DEF Web!Shows, Decided
        <5> QED BY <1>1, <3>1, <5>2, <5>3 DEF AllocationSound, Web!server
      <4>2. CASE ~Web!Shows(c)
        BY <1>1, <2>4, <3>1, <4>2 DEF Web!SettleSelect, ClientInv, AllocationSound, Web!server, Web!NoAllocation
      <4> QED BY <4>1, <4>2
    <3>5. MessageSound'
      BY <1>1, <3>1 DEF ClientInv, MessageSound, Web!server
    <3> QED BY <1>4, <1>5, <2>1, <3>2, <3>3, <3>4, <3>5 DEF ClientInv, CallsSound
  <2>5. CASE Web!SettleBooking(c)
    <3>1. calls[c].op \in {"accept", "decline"} /\ UNCHANGED <<needResult, directory, allocation, notice, chosen>>
      BY <2>5 DEF Web!SettleBooking, Web!citizenView
    <3>2. ClientTypes'
      BY <1>1, <2>1, <3>1 DEF ClientInv, ClientTypes, Web!server
    <3>3. ASSUME NEW d \in ClientCalls PROVE Current(d)'
      BY <1>1, <3>1 DEF ClientInv, CallsSound, Current, Web!NoAllocation
    <3>4. AllocationSound'
      BY <1>1, <3>1 DEF ClientInv, AllocationSound, Web!NoAllocation, Web!server
    <3>5. MessageSound'
      <4>1. CASE Web!Shows(c)
        <5>1. message' = calls[c].op /\ calls[c].on \in Bookings
          BY <1>2, <2>5, <3>1, <4>1 DEF Web!SettleBooking, Aimed
        <5>2. /\ calls[c].op = "accept" => booking[calls[c].on] = "CONFIRMED"
              /\ calls[c].op = "decline" => booking[calls[c].on] = "DECLINED"
          BY <1>2, <4>1 DEF Web!Shows, Decided
        <5>3. \E b \in Bookings : booking[b] = IF message' = "accept" THEN "CONFIRMED" ELSE "DECLINED"
          BY <3>1, <5>1, <5>2
        <5> QED BY <1>1, <3>1, <5>1, <5>3 DEF ClientInv, MessageSound, Web!server
      <4>2. CASE ~Web!Shows(c)
        BY <1>1, <2>5, <3>1, <4>2 DEF Web!SettleBooking, ClientInv, MessageSound, Web!server
      <4> QED BY <4>1, <4>2
    <3> QED BY <1>4, <1>5, <2>1, <3>2, <3>3, <3>4, <3>5 DEF ClientInv, CallsSound
  <2>7. CASE Web!SettleProfile(c)
    <3>1. /\ calls[c].op = "profile" /\ UNCHANGED <<needResult, directory, allocation, message, chosen>>
          /\ notice' \in {notice, "saved"} \/ Web!Shows(c)
      BY <2>7 DEF Web!SettleProfile, Web!citizenView
    <3>2. ClientTypes'
      BY <1>1, <2>1, <3>1 DEF ClientInv, ClientTypes, Web!server
    <3>3. ASSUME NEW d \in ClientCalls PROVE Current(d)'
      BY <1>1, <3>1 DEF ClientInv, CallsSound, Current, Web!NoAllocation
    <3>4. AllocationSound'
      BY <1>1, <3>1 DEF ClientInv, AllocationSound, Web!NoAllocation, Web!server
    <3>5. MessageSound'
      <4>1. Web!Shows(c) => published
        BY <1>2, <3>1 DEF Web!Shows, Decided
      <4> QED BY <1>1, <3>1, <4>1 DEF ClientInv, MessageSound, Web!server
    <3> QED BY <1>4, <1>5, <2>1, <3>2, <3>3, <3>4, <3>5 DEF ClientInv, CallsSound
  <2>6. CASE Web!SettleDirectory(c) \/ Web!SettleClaim(c) \/ Web!SettleCredits(c) \/ Web!SettleOther(c)
    <3>1. UNCHANGED <<needResult, allocation, message, notice, chosen>>
      BY <2>6 DEF Web!SettleDirectory, Web!SettleClaim, Web!SettleCredits, Web!SettleOther,
                  Web!citizenView, Web!providerView
    <3>2. directory'.type \in Classes
      BY <2>6 DEF Web!SettleDirectory, Web!SettleClaim, Web!SettleCredits, Web!SettleOther, ClientInv, ClientTypes,
                  CallRows, Web!citizenView
    <3>3. ClientTypes'
      BY <1>1, <2>1, <3>1, <3>2 DEF ClientInv, ClientTypes, Web!server
    <3>4. ASSUME NEW d \in ClientCalls PROVE Current(d)'
      BY <1>1, <3>1 DEF ClientInv, CallsSound, Current, Web!NoAllocation
    <3>5. AllocationSound' /\ MessageSound'
      BY <1>1, <3>1 DEF ClientInv, AllocationSound, MessageSound, Web!NoAllocation, Web!server
    <3> QED BY <1>4, <1>5, <2>1, <3>3, <3>4, <3>5 DEF ClientInv, CallsSound
  <2> QED BY <1>7, <2>3, <2>4, <2>5, <2>6, <2>7
<1> QED BY <1>6, <1>7 DEF Web!Settle

\* The portal is gone, and what its calls would have set.
LEMMA ChangeTabKeeps ==
  ASSUME ClientInv, NEW p \in Web!Portals, Web!ChangeTab(p)
  PROVE  ClientInv'
<1>1. /\ loading' = FALSE /\ needResult' = None /\ directory' = Web!NoAllocation
      /\ allocation' = Web!NoAllocation /\ message' = "none" /\ notice' = "none" /\ chosen' = FirstBooking
      /\ UNCHANGED Web!server
  BY DEF Web!ChangeTab
<1>2. /\ calls' \in [ClientCalls -> CallRows]
      /\ \A d \in ClientCalls :
           /\ ~calls'[d].live /\ calls'[d].op = calls[d].op
           /\ calls[d].op = "none" => calls'[d].answer = "none"
           /\ calls[d].op # "none" =>
                /\ calls'[d].on = calls[d].on /\ calls'[d].type = calls[d].type
                /\ calls'[d].answer = calls[d].answer /\ calls'[d].value = calls[d].value
  <2> DEFINE row(d) == IF calls[d].op = "none" THEN Web!NoCall ELSE [calls[d] EXCEPT !.live = FALSE]
  <2>1. calls' = [d \in ClientCalls |-> row(d)]
    BY DEF Web!ChangeTab
  <2>2. Web!NoCall \in CallRows /\ Web!NoCall.op = "none" /\ Web!NoCall.live = FALSE /\ Web!NoCall.answer = "none"
    BY DEF Web!NoCall, CallRows, CallOps, Targets, Classes
  <2>3. ASSUME NEW d \in ClientCalls
        PROVE  /\ row(d) \in CallRows /\ ~row(d).live /\ row(d).op = calls[d].op
               /\ calls[d].op = "none" => row(d).answer = "none"
               /\ calls[d].op # "none" =>
                    /\ row(d).on = calls[d].on /\ row(d).type = calls[d].type
                    /\ row(d).answer = calls[d].answer /\ row(d).value = calls[d].value
    <3>1. calls[d] \in CallRows
      BY DEF ClientInv, ClientTypes
    <3>2. CASE calls[d].op = "none"
      BY <2>2, <3>2
    <3>3. CASE calls[d].op # "none"
      BY <3>1, <3>3 DEF CallRows
    <3> QED BY <3>2, <3>3
  <2> HIDE DEF row
  <2> QED BY <2>1, <2>3
<1>3. ClientTypes'
  BY <1>1, <1>2, ServicesAssumption DEF ClientInv, ClientTypes, Web!server, Web!NoAllocation, Classes
<1>4. LoadingIsBusy' /\ OneBusy'
  BY <1>1, <1>2 DEF LoadingIsBusy, OneBusy, Busy
<1>5. ASSUME NEW d \in ClientCalls PROVE Aimed(d)' /\ Current(d)' /\ Decided(d)'
  <2>1. Aimed(d) /\ Decided(d)
    BY DEF ClientInv, CallsSound
  <2>2. CASE calls[d].op = "none"
    BY <1>2, <2>2 DEF Aimed, Current, Decided
  <2>3. CASE calls[d].op # "none"
    <3>1. Aimed(d)'
      BY <1>2, <2>1, <2>3 DEF Aimed
    <3>2. Current(d)'
      BY <1>2 DEF Current
    <3>3. Decided(d)'
      BY <1>1, <1>2, <2>1, <2>3 DEF Decided, Web!server
    <3> QED BY <3>1, <3>2, <3>3
  <2> QED BY <2>2, <2>3
<1>6. AllocationSound' /\ MessageSound'
  BY <1>1 DEF AllocationSound, MessageSound, Web!NoAllocation
<1> QED BY <1>3, <1>4, <1>5, <1>6 DEF ClientInv, CallsSound

\* The other steps leave what the invariant is about as it is.
LEMMA QuietKeeps ==
  ASSUME ClientInv, UNCHANGED <<loading, needResult, directory, allocation, message, notice, calls>>,
         UNCHANGED <<surfaced, assigned, booking, published>>, ledger' \in Nat, chosen' \in Bookings
  PROVE  ClientInv'
<1>1. /\ UNCHANGED <<loading, needResult, directory, allocation, message, notice, calls>>
      /\ UNCHANGED <<surfaced, assigned, booking, published>>
  OBVIOUS
<1>2. ClientTypes' /\ LoadingIsBusy' /\ OneBusy'
  BY <1>1 DEF ClientInv, ClientTypes, LoadingIsBusy, OneBusy, Busy
<1>3. ASSUME NEW d \in ClientCalls PROVE Aimed(d)' /\ Current(d)' /\ Decided(d)'
  BY <1>1 DEF ClientInv, CallsSound, Aimed, Current, Decided, Web!NoAllocation
<1>4. AllocationSound' /\ MessageSound'
  BY <1>1 DEF ClientInv, AllocationSound, MessageSound, Web!NoAllocation
<1> QED BY <1>2, <1>3, <1>4 DEF ClientInv, CallsSound

LEMMA ClientInitially == ASSUME Web!Init PROVE ClientInv
<1>1. calls = [c \in ClientCalls |-> Web!NoCall]
  BY DEF Web!Init
<1>2. Web!NoCall \in CallRows /\ Web!NoCall.op = "none" /\ Web!NoCall.live = FALSE /\ Web!NoCall.answer = "none"
  BY DEF Web!NoCall, CallRows, CallOps, Targets, Classes
<1>3. ClientTypes
  BY <1>1, <1>2, ServicesAssumption DEF Web!Init, ClientTypes, Classes, Web!NoAllocation
<1>4. LoadingIsBusy /\ OneBusy
  BY <1>1, <1>2 DEF Web!Init, LoadingIsBusy, OneBusy, Busy
<1>5. CallsSound
  BY <1>1, <1>2 DEF CallsSound, Aimed, Current, Decided
<1>6. AllocationSound /\ MessageSound
  BY DEF Web!Init, AllocationSound, MessageSound, Web!NoAllocation
<1> QED BY <1>3, <1>4, <1>5, <1>6 DEF ClientInv

\* What happens to the portals is a behaviour of WebClient.
LEMMA ClientPart == Services => Web!Spec
<1>1. [ServicesNext]_all => [Web!Next]_Web!vars
  BY DEF ServicesNext, DirectoryStep, AccountsStep, AuthorityStep, DeploymentStep, ClientStep,
         all, clientVars, Web!vars, Web!client, Web!citizenView, Web!providerView, Web!server
<1> QED BY <1>1, PTL DEF Services, StartServices, Web!Spec

LEMMA ClientInvariant == Web!Spec => []ClientInv
<1>1. ClientInv /\ [Web!Next]_Web!vars => ClientInv'
  <2>1. ASSUME ClientInv, NEW c \in ClientCalls, Web!Buttons(c) \/ Web!Serve(c) \/ Web!LoseAnswer(c) \/ Web!Settle(c)
        PROVE  ClientInv'
    BY <2>1, ButtonSteps, PressKeeps, FetchKeeps, ServeSteps, AnswerKeeps, SettleKeeps
  <2>2. ASSUME ClientInv, Web!Append PROVE ClientInv'
    BY <2>2, QuietKeeps
       DEF Web!Append, ClientInv, ClientTypes, Web!client, Web!citizenView, Web!providerView
  <2>3. ASSUME ClientInv, UNCHANGED Web!vars PROVE ClientInv'
    BY <2>3, QuietKeeps DEF Web!vars, Web!server, ClientInv, ClientTypes, Web!client,
       Web!citizenView, Web!providerView
  <2>4. ASSUME ClientInv, NEW b \in Bookings, Web!ChooseBooking(b) PROVE ClientInv'
    BY <2>4, QuietKeeps DEF Web!ChooseBooking, Web!citizenView, Web!server, ClientInv, ClientTypes
  <2> QED BY <2>1, <2>2, <2>3, <2>4, ChangeTabKeeps DEF Web!Next
<1> QED BY <1>1, ClientInitially, PTL DEF Web!Spec

\* For any number of calls, and whatever was left in flight by other tabs: loading
\* of the portal that is mounted is TRUE exactly while one call of its disabled
\* buttons is in flight, and it has no second one (setLoading of the portals).
THEOREM ServicesOneAtATime == Services => []OneAtATime
<1>1. ClientInv => OneAtATime
  <2>1. ASSUME ClientInv PROVE loading <=> \E c \in ClientCalls : calls[c].live /\ calls[c].op \in Web!Guarded
    BY <2>1 DEF ClientInv, LoadingIsBusy, Busy
  <2>2. ASSUME ClientInv, NEW c \in ClientCalls, NEW d \in ClientCalls, calls[c].live, calls[d].live,
               {calls[c].op, calls[d].op} \subseteq Web!Guarded
        PROVE  c = d
    BY <2>2 DEF ClientInv, OneBusy, Busy
  <2> QED BY <2>1, <2>2 DEF OneAtATime, Web!OneAtATime
<1> QED BY <1>1, ClientPart, ClientInvariant, PTL

\* For any number of needs, helpers, bookings and calls: the consultation that a
\* portal shows as confirmed is the one the server has assigned and still says; when
\* it shows that a booking was accepted or declined, or a profile registered, the
\* server has done that.
THEOREM ServicesShownStands == Services => []ShownStands
<1>1. ClientInv => ShownStands
  <2>1. AllocationSound => Web!ShownAllocationStands
    BY DEF AllocationSound, Web!ShownAllocationStands
  <2>2. MessageSound => Web!MessageStands
    BY DEF MessageSound, Web!MessageStands
  <2> QED BY <2>1, <2>2 DEF ClientInv, ShownStands
<1> QED BY <1>1, ClientPart, ClientInvariant, PTL

----------------------------------------------------------------------------
(* The parts of Services: their proofs, with the variables of Services.     *)

AccP == INSTANCE AccountsProofs WITH Calls <- AccountCalls
AutP == INSTANCE AuthorityProofs WITH
            Requests <- AuthorityRequests, owner <- holder, op <- deed, on <- target,
            step <- stage, answer <- verdict
DepP == INSTANCE DeploymentProofs WITH step <- phase

\* What happens to accounts in Services is a behaviour of Accounts.
LEMMA AccountsPart == Services => AccP!Spec
<1>1. Acc!Init => AccP!Init
  BY DEF Acc!Init, Acc!Sessions, Acc!Nobody, Acc!Unread, AccP!Init, AccP!Sessions, AccP!Nobody,
         AccP!Unread
<1>2. Acc!Next => AccP!Next
  BY DEF Acc!Next, Acc!SignInArrives, Acc!ActorArrives, Acc!AdminArrives, Acc!Step, Acc!Lost,
         Acc!Start, Acc!Sessions, Acc!Ops, Acc!RolesFor, Acc!OwnerOf, Acc!Gate, Acc!Exchange,
         Acc!InsertAccount, Acc!ReadStatus, Acc!InsertSession, Acc!LockAccount,
         Acc!FindProvider, Acc!GrantRole, Acc!FindRole, Acc!InsertProvider, Acc!OwnProvider,
         Acc!LockProvider, Acc!Upsert, Acc!Read, Acc!LockSession, Acc!Commit, Acc!Refuse,
         Acc!Goto, Acc!FirstStep, Acc!rows, Acc!UserOf, Acc!Statement, Acc!MailboxFree,
         Acc!Lock, Acc!Free, Acc!Account, Acc!Unique, Acc!ProviderLock, Acc!Parts, Acc!Answer,
         Acc!SessionFree, Acc!SessionKey, Acc!CommitSignIn, Acc!CommitProfile,
         Acc!CommitProvider, Acc!CommitSignOut, Acc!CommitServices, Acc!Saved, AccP!Next,
         AccP!SignInArrives, AccP!ActorArrives, AccP!AdminArrives, AccP!Step, AccP!Lost,
         AccP!Start, AccP!Sessions, AccP!Ops, AccP!RolesFor, AccP!OwnerOf, AccP!Gate,
         AccP!Exchange, AccP!InsertAccount, AccP!ReadStatus, AccP!InsertSession,
         AccP!LockAccount, AccP!FindProvider, AccP!GrantRole, AccP!FindRole,
         AccP!InsertProvider, AccP!OwnProvider, AccP!LockProvider, AccP!Upsert, AccP!Read,
         AccP!LockSession, AccP!Commit, AccP!Refuse, AccP!Goto, AccP!FirstStep, AccP!rows,
         AccP!UserOf, AccP!Statement, AccP!MailboxFree, AccP!Lock, AccP!Free, AccP!Account,
         AccP!Unique, AccP!ProviderLock, AccP!Parts, AccP!Answer, AccP!SessionFree,
         AccP!SessionKey, AccP!CommitSignIn, AccP!CommitProfile, AccP!CommitProvider,
         AccP!CommitSignOut, AccP!CommitServices, AccP!Saved
<1>3. [ServicesNext]_all => [AccP!Next]_AccP!vars
  BY <1>2 DEF ServicesNext, DirectoryStep, AccountsStep, AuthorityStep, DeploymentStep, ClientStep,
       all, accountVars, AccP!vars
<1> QED BY <1>1, <1>3, PTL DEF Services, StartServices, AccP!Spec

\* What happens to authorities is a behaviour of Authority.
LEMMA AuthorityPart == Services => AutP!Spec
<1>1. Aut!Init => AutP!Init
  BY DEF Aut!Init, Aut!Delegations, AutP!Init, AutP!Delegations
<1>2. Aut!Next => AutP!Next
  BY DEF Aut!Next, Aut!AskDelegation, Aut!AskDelegated, Aut!AskInstitution, Aut!AskQuote,
         Aut!Step, Aut!RouteNeed, Aut!Bodies, Aut!Categories, Aut!Amounts, Aut!FloorKeys, Aut!FloorOf,
         Aut!Admitted, Aut!Decide, Aut!Lost, Aut!CloseMatter, Aut!Windows, Aut!Revoke, Aut!Tick, Aut!Arrive,
         Aut!Delegated, Aut!Delegations, Aut!Consented, Aut!Begin, Aut!Check, Aut!ReadRoster,
         Aut!CloseDelegation, Aut!JudgeMatter, Aut!WriteQuote, Aut!Commit, Aut!Finish,
         Aut!Local, Aut!Free, Aut!rows, Aut!Over, Aut!Goto, Aut!Pooled, Aut!Go, Aut!Authorised,
         Aut!StillOpen, Aut!Take, Aut!Quotable, Aut!JudgedByWriter, Aut!Answer, Aut!Outcome,
         Aut!WindowAuthority, Aut!CitizenAuthority, Aut!InWindow, AutP!Next, AutP!AskDelegation,
         AutP!AskDelegated, AutP!AskInstitution, AutP!AskQuote, AutP!Step, AutP!Lost, AutP!RouteNeed,
         AutP!Bodies, AutP!Categories, AutP!Amounts, AutP!FloorKeys, AutP!FloorOf, AutP!Admitted,
         AutP!Decide,
         AutP!CloseMatter, AutP!Windows, AutP!Revoke, AutP!Tick, AutP!Arrive, AutP!Delegated,
         AutP!Delegations, AutP!Consented, AutP!Begin, AutP!Check, AutP!ReadRoster,
         AutP!CloseDelegation, AutP!JudgeMatter, AutP!WriteQuote, AutP!Commit, AutP!Finish,
         AutP!Local, AutP!Free, AutP!rows, AutP!Over, AutP!Goto, AutP!Pooled, AutP!Go,
         AutP!Authorised, AutP!StillOpen, AutP!Take, AutP!Quotable, AutP!JudgedByWriter,
         AutP!Answer, AutP!Outcome, AutP!WindowAuthority, AutP!CitizenAuthority, AutP!InWindow
<1>3. [ServicesNext]_all => [AutP!Next]_AutP!vars
  BY <1>2 DEF ServicesNext, DirectoryStep, AccountsStep, AuthorityStep, DeploymentStep, ClientStep,
       all, authorityVars, AutP!vars, AutP!rows
<1> QED BY <1>1, <1>3, PTL DEF Services, StartServices, AutP!Spec

\* What happens to the instances is a behaviour of Deployment.
LEMMA DeploymentPart == Services => DepP!Spec
<1>1. Dep!Init => DepP!Init
  BY DEF Dep!Init, DepP!Init
<1>2. Dep!Next => DepP!Next
  BY DEF Dep!Next, Dep!Deploy, Dep!UserActions, Dep!Legacy, Dep!Worker, Dep!Launch, Dep!Restart,
         Dep!Step, Dep!Fail, Dep!Crash, Dep!DecidePending, Dep!ChangeServices, Dep!Suspend,
         Dep!CompleteSample, Dep!Correct, Dep!process, Dep!work, Dep!StartWorker, Dep!Interval,
         Dep!Succeed, Dep!FailBatch, Dep!KillWorker, Dep!Expire, Dep!All, Dep!Goto, Dep!schema,
         Dep!FindNext, Dep!Execute, Dep!CommitFile, Dep!SeedAccounts, Dep!SeedSample,
         Dep!SeedCredits, Dep!SeedGrievances, Dep!CommitSeed, Dep!Validate, Dep!Grant,
         Dep!Verify, Dep!StartApi, Dep!Busy, Dep!Go, Dep!AfterFailure, Dep!Serving, Dep!Demo,
         Dep!AccountsFree, Dep!Work, Dep!Reset, Dep!Writes, Dep!PendingAbsent, Dep!Plan,
         Dep!CreditsAbsent, Dep!Reseeded, Dep!Complete, Dep!Identified, Dep!Seeding, Dep!Setups,
         Dep!ObjectsPresent, Dep!RuntimeRole, DepP!Next, DepP!Deploy, DepP!UserActions, DepP!Legacy,
         DepP!Worker, DepP!Launch, DepP!Restart, DepP!Step, DepP!Fail, DepP!Crash,
         DepP!DecidePending, DepP!ChangeServices, DepP!Suspend, DepP!CompleteSample,
         DepP!Correct, DepP!process, DepP!work, DepP!StartWorker, DepP!Interval, DepP!Succeed,
         DepP!FailBatch, DepP!KillWorker, DepP!Expire, DepP!All, DepP!Goto, DepP!schema,
         DepP!FindNext, DepP!Execute, DepP!CommitFile, DepP!SeedAccounts, DepP!SeedSample,
         DepP!SeedCredits, DepP!SeedGrievances, DepP!CommitSeed, DepP!Validate, DepP!Grant,
         DepP!Verify, DepP!StartApi, DepP!Busy, DepP!Go, DepP!AfterFailure, DepP!Serving,
         DepP!Demo, DepP!AccountsFree, DepP!Work, DepP!Reset, DepP!Writes, DepP!PendingAbsent,
         DepP!Plan, DepP!CreditsAbsent, DepP!Reseeded, DepP!Complete, DepP!Identified,
         DepP!Seeding, DepP!Setups, DepP!ObjectsPresent, DepP!RuntimeRole
<1>3. [ServicesNext]_all => [DepP!Next]_DepP!vars
  BY <1>2 DEF ServicesNext, DirectoryStep, AccountsStep, AuthorityStep, DeploymentStep, ClientStep,
       all, deploymentVars, DepP!vars, DepP!schema, DepP!process, DepP!work
<1> QED BY <1>1, <1>3, PTL DEF Services, StartServices, DepP!Spec

\* What happens to the directories is a behaviour of Directory.
LEMMA DirectoryPart == Services => Spec
<1>1. [ServicesNext]_all => [Next]_vars
  BY DEF ServicesNext, DirectoryStep, AccountsStep, AuthorityStep, DeploymentStep, ClientStep,
         all, directoryVars, vars, rowVars, lockVars
<1> QED BY <1>1, PTL DEF Services, StartServices, Spec

LEMMA Settings == AccP!Setting /\ AutP!Setting /\ DepP!Setting
BY ServicesAssumption
   DEF AccP!Setting, AutP!Setting, DepP!Setting, AutP!Windows, AutP!Delegations

----------------------------------------------------------------------------
(* What holds of the services beside each other.                           *)

\* A set counted in a module and in the module of its proofs.
LEMMA SameCount ==
  ASSUME NEW S
  PROVE  Acc!Cardinality(S) = AccP!Cardinality(S) /\ Dep!Cardinality(S) = DepP!Cardinality(S)
<1>1. Acc!Cardinality(S) = AccP!Cardinality(S)
  BY DEF Acc!Cardinality, AccP!Cardinality
<1>2. Dep!Cardinality(S) = DepP!Cardinality(S)
  BY DEF Dep!Cardinality, DepP!Cardinality
<1> QED BY <1>1, <1>2

\* The types of every component, and the row locks of a directory.
THEOREM ServicesTypesCorrect == Services => []ServicesTypeOK
<1>1. Spec => []IInv
  BY GenerationIsExclusive
<1>2. AccP!Spec => []AccP!TypeOK
  BY Settings, AccP!AccountsTypeCorrect
<1>3. AccP!TypeOK => Acc!TypeOK
  BY DEF AccP!TypeOK, Acc!TypeOK, AccP!Statuses, Acc!Statuses, AccP!Sessions, Acc!Sessions,
         AccP!Ops, Acc!Ops, AccP!Steps, Acc!Steps, AccP!Verdicts, Acc!Verdicts, AccP!Parts, Acc!Parts
<1>4. AutP!Spec => []AutP!TypeOK
  BY Settings, AutP!AuthorityTypeCorrect
<1>5. AutP!TypeOK => Aut!TypeOK
  BY DEF AutP!TypeOK, Aut!TypeOK, AutP!Windows, Aut!Windows, AutP!Delegations, Aut!Delegations,
         AutP!Delegated, Aut!Delegated, AutP!Consented, Aut!Consented, AutP!Pooled, Aut!Pooled, AutP!Verdicts, Aut!Verdicts, AutP!Routes, Aut!Routes,
         AutP!Bodies, Aut!Bodies, AutP!Categories, Aut!Categories, AutP!Amounts, Aut!Amounts,
         AutP!FloorKeys, Aut!FloorKeys
<1>6. DepP!Spec => []DepP!TypeOK
  BY Settings, DepP!DeploymentTypeCorrect
<1>7. DepP!TypeOK => Dep!TypeOK
  BY SameCount DEF DepP!TypeOK, Dep!TypeOK, DepP!All, Dep!All, DepP!Busy, Dep!Busy, DepP!Seeding, Dep!Seeding,
         DepP!Setups, Dep!Setups, DepP!Rows, Dep!Rows
<1> QED BY <1>1, <1>2, <1>3, <1>4, <1>5, <1>6, <1>7, DirectoryPart, AccountsPart, AuthorityPart,
       DeploymentPart, PTL DEF ServicesTypeOK

\* An account is created, a session revoked and a delegation closed by one
\* request, for any number of requests at once.
THEOREM ServicesTellOnce == Services => []ToldOnce
<1>1. AccP!Spec => [](AccP!CreatedOnce /\ AccP!RevokedOnce)
  BY Settings, AccP!AccountsCreateOnce, AccP!AccountsRevokeOnce, PTL
<1>2. AutP!Spec => []AutP!ClosedOnce
  BY Settings, AutP!DelegationsClosedOnce
<1>3. AccP!CreatedOnce /\ AccP!RevokedOnce /\ AutP!ClosedOnce => ToldOnce
  <2>1. AccP!CreatedOnce => Acc!CreatedOnce
    BY SameCount DEF AccP!CreatedOnce, Acc!CreatedOnce, AccP!UserOf, Acc!UserOf
  <2>2. AccP!RevokedOnce => Acc!RevokedOnce
    BY SameCount DEF AccP!RevokedOnce, Acc!RevokedOnce, AccP!Sessions, Acc!Sessions
  <2>3. AutP!ClosedOnce => Aut!ClosedOnce
    BY DEF AutP!ClosedOnce, Aut!ClosedOnce
  <2> QED BY <2>1, <2>2, <2>3 DEF ToldOnce
<1> QED BY <1>1, <1>2, <1>3, AccountsPart, AuthorityPart, PTL

\* One provider profile for each user, who has the role; a profile makes its account
\* ACTIVE; and but for seeded accounts a provider has a citizen profile and ACTIVE
\* comes with one only, also in what GET /v1/me answers.
THEOREM ServicesAccountsAgree == Services => []AccountsAgree
<1>1. AccP!Spec => [](AccP!OneProvider /\ AccP!ProfileGate)
  BY Settings, AccP!AccountsOneProvider, AccP!AccountsProfileGate, PTL
<1>2. AccP!OneProvider => Acc!OneProvider
  BY SameCount DEF AccP!OneProvider, Acc!OneProvider, AccP!UserOf, Acc!UserOf
<1>3. AccP!ProfileGate => Acc!ProfileGate
  BY DEF AccP!ProfileGate, Acc!ProfileGate, AccP!UserOf, Acc!UserOf
<1> QED BY <1>1, <1>2, <1>3, AccountsPart, PTL DEF AccountsAgree

\* Nothing is written or disclosed under an authority that was over before.
THEOREM ServicesHonourEnds == Services => []NothingAfterTheEnd
<1>1. AutP!Spec => []AutP!NothingAfterTheEnd
  BY Settings, AutP!NoLateAuthority
<1>2. AutP!NothingAfterTheEnd => NothingAfterTheEnd
  BY DEF NothingAfterTheEnd, AutP!NothingAfterTheEnd, Aut!NothingAfterTheEnd, AutP!Effective, Aut!Effective
<1> QED BY <1>1, <1>2, AuthorityPart, PTL

\* Needs get the route that is meant for them, for all amounts and floors, and the
\* two writings of the grievance rules agree.
THEOREM ServicesRulesAgree == Services => []RulesAgree
<1>1. AutP!Spec => []AutP!RulesAgree
  BY Settings, AutP!AuthorityRulesAgree
<1>2. AutP!RulesAgree => RulesAgree
  BY DEF RulesAgree, AutP!RulesAgree, Aut!RulesAgree, AutP!RoutedAsMeant, Aut!RoutedAsMeant,
         AutP!FloorsMeant, Aut!FloorsMeant, AutP!FloorKeys, Aut!FloorKeys,
         AutP!MoreSpecific, Aut!MoreSpecific,
         AutP!GrievanceStatuses, Aut!GrievanceStatuses, AutP!Outcomes, Aut!Outcomes,
         AutP!CanTransition, Aut!CanTransition, AutP!TriggerAllows, Aut!TriggerAllows
<1> QED BY <1>1, <1>2, AuthorityPart, PTL

\* A quote is created on a matter that is open and paid at that moment.
THEOREM ServicesQuoteOpenMatters == Services => QuotesOnOpenMatters
<1>1. AutP!Spec => AutP!QuotesOnOpenMatters
  BY Settings, AutP!QuotesAreOnOpenMatters
<1>2. AutP!QuotesOnOpenMatters => QuotesOnOpenMatters
  BY PTL DEF QuotesOnOpenMatters, AutP!QuotesOnOpenMatters, Aut!QuotesOnOpenMatters, AutP!Quotable,
     Aut!Quotable, AutP!vars, Aut!vars, AutP!rows, Aut!rows
<1> QED BY <1>1, <1>2, AuthorityPart, PTL

\* Migrations and demonstration rows are applied once, in any interleaving of
\* any number of instances, with crashes.
THEOREM ServicesApplyOnce == Services => []AppliedOnce
<1>1. DepP!Spec => [](DepP!MigrationsAtomic /\ DepP!SeededOnce)
  BY Settings, DepP!DeploymentMigratesInOrder, DepP!DeploymentSeedsOnce, PTL
<1>2. DepP!MigrationsAtomic /\ DepP!SeededOnce => AppliedOnce
  BY DEF AppliedOnce, DepP!MigrationsAtomic, Dep!MigrationsAtomic, DepP!SeededOnce, Dep!SeededOnce
<1> QED BY <1>1, <1>2, DeploymentPart, PTL

\* An instance set up by deploy-setup serves a complete schema.
THEOREM ServicesServeComplete == Services => []ServesComplete
<1>1. DepP!Spec => []DepP!ServesComplete
  BY Settings, DepP!DeploymentServesComplete
<1>2. DepP!ServesComplete => ServesComplete
  BY DEF ServesComplete, DepP!ServesComplete, Dep!ServesComplete, DepP!Complete, Dep!Complete,
         DepP!ObjectsPresent, Dep!ObjectsPresent, DepP!RuntimeRole, Dep!RuntimeRole
<1> QED BY <1>1, <1>2, DeploymentPart, PTL

\* No restart undoes the decision of a demonstration booking.
THEOREM ServicesDecisionsSurvive == Services => DecisionsSurvive
<1>1. DepP!Spec => DepP!DecisionsSurvive
  BY Settings, DepP!DeploymentDecisionsSurvive
<1>2. DepP!DecisionsSurvive => DecisionsSurvive
  BY PTL DEF DecisionsSurvive, DepP!DecisionsSurvive, Dep!DecisionsSurvive, DepP!vars, Dep!vars,
     DepP!schema, Dep!schema, DepP!process, Dep!process, DepP!work, Dep!work
<1> QED BY <1>1, <1>2, DeploymentPart, PTL
=============================================================================
