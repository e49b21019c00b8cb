--------------------------- MODULE CredentialProofs ---------------------------
(***************************************************************************)
(* Proofs about the credential tiers: the preflight in TypeScript and the  *)
(* database function decide the same for every valid policy and every list *)
(* of checks; the promises of the decision hold for every case; and the    *)
(* safety properties of the rail hold for any number of concurrent calls,  *)
(* providers, cases, policies and checks, which never block each other.    *)
(***************************************************************************)
EXTENDS CredentialRail, CredentialCase, FiniteSetTheorems, WellFoundedInduction, TLAPS

(* The rows of verification_check of one case: recorded_sequence is unique  *)
(* and no larger than the identity column has become.                       *)
CaseChecks(held) ==
    /\ \A c \in held :
          /\ c.seq \in Nat /\ c.checkedAt \in Nat
          /\ c.validUntil \in Nat \cup {NoDate}
    /\ \A c, d \in held : c.seq = d.seq => c = d
    /\ \E n \in Nat : \A c \in held : c.seq <= n

(***************************************************************************)
(* Smallest and largest                                                    *)
(***************************************************************************)
(* Every set of dates that is not empty has an earliest one.                *)
LEMMA SmallestExists ==
    ASSUME NEW S \in SUBSET Nat, S # {}
    PROVE  \E m \in S : \A x \in S : m <= x
<1> DEFINE R == OpToRel(<, Nat)
<1>1. IsWellFoundedOn(R, Nat)
  BY NatLessThanWellFounded
<1>2. \E m \in S : \A x \in S : ~ (<<x, m>> \in R)
  <2> HIDE DEF R
  <2> QED BY <1>1, WFMin
<1>3. PICK m \in S : \A x \in S : ~ (<<x, m>> \in R)
  BY <1>2
<1>4. ASSUME NEW x \in S PROVE m <= x
  <2>1. ~ (<<x, m>> \in R)
    BY <1>3
  <2>2. <<x, m>> \in Nat \X Nat
    OBVIOUS
  <2>3. ~ (x < m)
    BY <2>1, <2>2 DEF OpToRel
  <2> QED BY <2>3
<1> QED BY <1>4

(* Earliest is a member of its set and no other member is earlier.          *)
LEMMA EarliestIs ==
    ASSUME NEW S \in SUBSET Nat, S # {}
    PROVE  Earliest(S) \in S /\ \A x \in S : Earliest(S) <= x
BY SmallestExists DEF Earliest

(* A member that is no later than the others is the earliest.               *)
LEMMA EarliestUnique ==
    ASSUME NEW S \in SUBSET Nat, NEW m \in S, \A x \in S : m <= x
    PROVE  Earliest(S) = m
<1>1. Earliest(S) \in S /\ Earliest(S) <= m
  BY EarliestIs
<1>2. m <= Earliest(S)
  BY <1>1
<1>3. m \in Nat /\ Earliest(S) \in Nat
  BY <1>1
<1> QED BY <1>1, <1>2, <1>3

(* Among the checks of a case that were made before a date there is one     *)
(* that ORDER BY checked_at DESC, recorded_sequence DESC puts first.        *)
LEMMA LatestExists ==
    ASSUME NEW S, CaseChecks(S), S # {}, NEW at \in Nat, \A c \in S : c.checkedAt <= at
    PROVE  \E c \in S : \A d \in S :
              d.checkedAt < c.checkedAt \/ (d.checkedAt = c.checkedAt /\ d.seq <= c.seq)
<1>1. PICK n \in Nat : \A c \in S : c.seq \in Nat /\ c.seq <= n /\ c.checkedAt \in Nat
  BY DEF CaseChecks
<1> DEFINE Ages == {at - c.checkedAt : c \in S}
<1>2. Ages \in SUBSET Nat /\ Ages # {}
  BY <1>1
<1>3. PICK a \in Ages : \A x \in Ages : a <= x
  BY <1>2, SmallestExists
<1>4. PICK e \in S : a = at - e.checkedAt
  BY <1>3
<1> DEFINE T == {c \in S : c.checkedAt = e.checkedAt}
<1> DEFINE Ranks == {n - c.seq : c \in T}
<1>5. Ranks \in SUBSET Nat /\ Ranks # {}
  BY <1>1, <1>4
<1>6. PICK r \in Ranks : \A x \in Ranks : r <= x
  BY <1>5, SmallestExists
<1>7. PICK c \in T : r = n - c.seq
  BY <1>6
<1>8. ASSUME NEW d \in S
      PROVE  d.checkedAt < c.checkedAt \/ (d.checkedAt = c.checkedAt /\ d.seq <= c.seq)
  <2>1. at - e.checkedAt <= at - d.checkedAt
    BY <1>3, <1>4
  <2>2. d.checkedAt <= c.checkedAt
    BY <2>1, <1>1, <1>7
  <2>3. CASE d.checkedAt = c.checkedAt
    <3>1. n - c.seq <= n - d.seq
      BY <2>3, <1>6, <1>7
    <3> QED BY <3>1, <2>3, <1>1
  <2> QED BY <2>2, <2>3, <1>1
<1> QED BY <1>7, <1>8

(* LIMIT 1 keeps the check that Array.sort puts first, when there is one.   *)
LEMMA TopRowIsNewest ==
    ASSUME NEW S, CaseChecks(S), S # {}, NEW at \in Nat, \A c \in S : c.checkedAt <= at
    PROVE  Newest(S) \in S /\ TopRow(S) = {Newest(S)}
<1>1. /\ Newest(S) \in S
      /\ \A d \in S : d.checkedAt < Newest(S).checkedAt
                      \/ (d.checkedAt = Newest(S).checkedAt /\ d.seq <= Newest(S).seq)
  <2> HIDE DEF CaseChecks
  <2> QED BY LatestExists DEF Newest
<1> DEFINE w == Newest(S)
<1>2. w \in TopRow(S)
  BY <1>1 DEF TopRow, CaseChecks
<1>3. ASSUME NEW c \in TopRow(S) PROVE c = w
  <2>1. c \in S /\ (c.checkedAt > w.checkedAt \/ (c.checkedAt = w.checkedAt /\ c.seq >= w.seq))
    BY <1>1 DEF TopRow
  <2>2. w.checkedAt > c.checkedAt \/ (w.checkedAt = c.checkedAt /\ w.seq >= c.seq)
    BY <1>2, <2>1 DEF TopRow
  <2>3. c.seq = w.seq
    BY <2>1, <2>2, <1>1 DEF CaseChecks
  <2> QED BY <2>1, <2>3, <1>1 DEF CaseChecks
<1> QED BY <1>1, <1>2, <1>3

(* The empty result of LIMIT 1.                                             *)
LEMMA TopRowEmpty == TopRow({}) = {}
BY DEF TopRow

(* Some of the checks of a case are checks of a case too.                   *)
LEMMA SomeChecks ==
    ASSUME NEW S, CaseChecks(S), NEW T \in SUBSET S
    PROVE  CaseChecks(T)
BY DEF CaseChecks

(***************************************************************************)
(* The same checks are selected                                            *)
(***************************************************************************)
(* What the two computations make of one valid policy, the checks of a case *)
(* and a date; the facts below are about these.                             *)
Setting(p, held, at) ==
    ValidPolicy(p) /\ CaseChecks(held) /\ at \in Nat

Good(p, held, at) == Contributing(p, LatestChecks(Live(held, at)), at)

(* Joining the sources before DISTINCT ON, as the database does, or looking *)
(* them up afterwards, as the preflight does, gives the same checks.        *)
LEMMA SameLatest ==
    ASSUME NEW p, NEW S, CaseChecks(S)
    PROVE  DistinctLatest(Configured(p, S)) = {c \in LatestChecks(S) : c.source \in DOMAIN p.sources}
BY DEF DistinctLatest, Configured, LatestChecks, CaseChecks

(* The rows a document leg may take are the checks the preflight filters.   *)
LEMMA SameDocuments ==
    ASSUME NEW p, NEW held, NEW at, Setting(p, held, at), NEW t \in DOMAIN p.documents
    PROVE  DocumentRow(p, Live(held, at), t, at) = TopRow(DocumentChecks(p, Good(p, held, at), t))
<1>1. CaseChecks(Live(held, at))
  BY DEF Setting, CaseChecks, Live
<1> DEFINE L == LatestChecks(Live(held, at))
<1>2. DistinctLatest(Configured(p, Live(held, at))) = {c \in L : c.source \in DOMAIN p.sources}
  BY <1>1, SameLatest
<1> HIDE DEF L
<1> QED BY <1>2 DEF L, DocumentRow, LegRow, DocumentChecks, Good, Contributing,
        IsRequiredDocumentLeg, Unexpired

(* The same for the identity leg.                                           *)
LEMMA SameIdentity ==
    ASSUME NEW p, NEW held, NEW at, Setting(p, held, at)
    PROVE  IdentityRow(p, Live(held, at), at) = TopRow(IdentityChecks(p, Good(p, held, at)))
<1>1. CaseChecks(Live(held, at))
  BY DEF Setting, CaseChecks, Live
<1> DEFINE L == LatestChecks(Live(held, at))
<1>2. DistinctLatest(Configured(p, Live(held, at))) = {c \in L : c.source \in DOMAIN p.sources}
  BY <1>1, SameLatest
<1> HIDE DEF L
<1> QED BY <1>2 DEF L, IdentityRow, LegRow, IdentityChecks, Good, Contributing,
        IsIdentityConsistencyLeg, Unexpired

(* The same for an authority leg, whose sources are authorities by the      *)
(* policy, and where fresh means the same in both.                          *)
LEMMA SameAuthority ==
    ASSUME NEW p, NEW held, NEW at, Setting(p, held, at), NEW t \in DOMAIN p.authority
    PROVE  AuthorityRow(p, Live(held, at), t, at) = TopRow(AuthorityChecks(p, Good(p, held, at), t, at))
<1>1. CaseChecks(Live(held, at))
  BY DEF Setting, CaseChecks, Live
<1> DEFINE L == LatestChecks(Live(held, at))
<1>2. DistinctLatest(Configured(p, Live(held, at))) = {c \in L : c.source \in DOMAIN p.sources}
  BY <1>1, SameLatest
<1>3. \A c \in L : c.checkedAt \in Nat
  BY <1>1 DEF CaseChecks, LatestChecks
<1>4. at \in Nat /\ p.freshness \in Nat
  BY DEF Setting, ValidPolicy
<1>5. \A c \in L : (at < p.freshness + c.checkedAt) <=> (c.checkedAt + p.freshness > at)
  BY <1>3, <1>4
<1>6. {c \in {c \in L : c.source \in DOMAIN p.sources} :
          /\ c.type = t /\ c.source \in p.authority[t]
          /\ c.result = "PASS" /\ p.sources[c.source] = "AUTHORITY"
          /\ at < p.freshness + c.checkedAt
          /\ c.validUntil = NoDate \/ c.validUntil > at}
      = AuthorityChecks(p, Good(p, held, at), t, at)
  <2> HIDE DEF L
  <2> QED BY <1>5 DEF L, AuthorityChecks, Good, Contributing,
          IsCurrentAuthorityLeg, Unexpired, Fresh, NonTierKinds
<1> HIDE DEF L
<1> QED BY <1>2, <1>6 DEF AuthorityRow

(* The UNION of the leg sources in SQL is the map of relevant sources.      *)
LEMMA SameConflict ==
    ASSUME NEW p, NEW S, CaseChecks(S)
    PROVE  v_conflict(p, S) <=> UnresolvedConflict(p, LatestChecks(S))
<1>1. DistinctLatest(S) = LatestChecks(S)
  BY DEF DistinctLatest, LatestChecks, CaseChecks
<1> QED BY <1>1 DEF v_conflict, UnresolvedConflict, RelevantSources

(* The checks that contribute are checks of the case, made by the date.     *)
LEMMA GoodChecks ==
    ASSUME NEW p, NEW held, NEW at, Setting(p, held, at),
           NEW S \in SUBSET Good(p, held, at)
    PROVE  CaseChecks(S) /\ \A c \in S : c.checkedAt <= at
<1>1. S \subseteq held /\ \A c \in S : c.checkedAt <= at
  BY DEF Good, Contributing, LatestChecks, Live
<1>2. CaseChecks(S)
  BY <1>1, SomeChecks DEF Setting
<1> QED BY <1>1, <1>2

(***************************************************************************)
(* The same expiry                                                         *)
(***************************************************************************)
(* LEAST of dates and nulls, some of them dates, is their earliest date.    *)
LEMMA LeastDateIs ==
    ASSUME NEW S \in SUBSET (Nat \cup {NoDate}), NEW e \in S, e # NoDate
    PROVE  /\ LeastDate(S) \in S /\ LeastDate(S) \in Nat
           /\ \A d \in S : d # NoDate => LeastDate(S) <= d
<1>1. S \ {NoDate} \in SUBSET Nat /\ S \ {NoDate} # {}
  OBVIOUS
<1>2. Earliest(S \ {NoDate}) \in S \ {NoDate} /\ \A d \in S \ {NoDate} : Earliest(S \ {NoDate}) <= d
  BY <1>1, EarliestIs
<1>3. LeastDate(S) = Earliest(S \ {NoDate})
  BY <1>1 DEF LeastDate
<1> QED BY <1>1, <1>2, <1>3

(* LEAST of nulls, or of nothing, is null.                                  *)
LEMMA LeastDateNull ==
    ASSUME NEW S, S \subseteq {NoDate}
    PROVE  LeastDate(S) = NoDate
BY DEF LeastDate

(* What a nested min() or LEAST contributes: null when every date is null,  *)
(* otherwise one of the dates, no later than the others.                    *)
LEMMA LeastDateCases ==
    ASSUME NEW S \in SUBSET (Nat \cup {NoDate})
    PROVE  /\ LeastDate(S) \in Nat \cup {NoDate}
           /\ LeastDate(S) # NoDate => LeastDate(S) \in S
           /\ \A d \in S : d # NoDate => LeastDate(S) # NoDate /\ LeastDate(S) <= d
<1>1. CASE S \subseteq {NoDate}
  BY <1>1, LeastDateNull
<1>2. CASE \E e \in S : e # NoDate
  <2>1. PICK e \in S : e # NoDate
    BY <1>2
  <2>2. /\ LeastDate(S) \in S /\ LeastDate(S) \in Nat
        /\ \A d \in S : d # NoDate => LeastDate(S) <= d
    BY <2>1, LeastDateIs
  <2> QED BY <2>2, NoDateAssumption
<1> QED BY <1>1, <1>2

(* The expiry of the database and the candidates of the preflight, for the  *)
(* selected document checks D, identity check I and authority checks A.     *)
LeastOf(D, I, A, now, f) ==
    LeastDate({now + f, LeastDate({c.validUntil : c \in D}), LeastDate({c.validUntil : c \in I}),
               LeastDate({LeastDate({c.checkedAt + f, c.validUntil}) : c \in A})})
CandidatesOf(D, I, A, now, f) ==
    {now + f} \cup ({c.validUntil : c \in D \cup I \cup A} \ {NoDate})
    \cup {c.checkedAt + f : c \in A}
Dated(S) == \A c \in S : c.checkedAt \in Nat /\ c.validUntil \in Nat \cup {NoDate}

(* The LEAST of the database over the expiries of the legs is the Math.min  *)
(* of the preflight over its candidates.                                    *)
LEMMA SameLeast ==
    ASSUME NEW D, NEW I, NEW A, NEW now \in Nat, NEW f \in Nat,
           Dated(D), Dated(I), Dated(A), A # {}
    PROVE  LeastOf(D, I, A, now, f) = Earliest(CandidatesOf(D, I, A, now, f))
<1> USE DEF Dated
<1> DEFINE
      d == LeastDate({c.validUntil : c \in D})
      i == LeastDate({c.validUntil : c \in I})
      leg(c) == LeastDate({c.checkedAt + f, c.validUntil})
      a == LeastDate({leg(c) : c \in A})
      least == LeastDate({now + f, d, i, a})
      candidates == {now + f}
                \cup ({c.validUntil : c \in D \cup I \cup A} \ {NoDate})
                \cup {c.checkedAt + f : c \in A}
<1>1. /\ d \in Nat \cup {NoDate}
      /\ d # NoDate => d \in {c.validUntil : c \in D}
      /\ \A c \in D : c.validUntil # NoDate => d # NoDate /\ d <= c.validUntil
  <2>1. {c.validUntil : c \in D} \in SUBSET (Nat \cup {NoDate})
    OBVIOUS
  <2>2. /\ d \in Nat \cup {NoDate}
        /\ d # NoDate => d \in {c.validUntil : c \in D}
        /\ \A x \in {c.validUntil : c \in D} : x # NoDate => d # NoDate /\ d <= x
    BY <2>1, LeastDateCases
  <2> QED BY <2>2
<1>2. /\ i \in Nat \cup {NoDate}
      /\ i # NoDate => i \in {c.validUntil : c \in I}
      /\ \A c \in I : c.validUntil # NoDate => i # NoDate /\ i <= c.validUntil
  <2>1. {c.validUntil : c \in I} \in SUBSET (Nat \cup {NoDate})
    OBVIOUS
  <2>2. /\ i \in Nat \cup {NoDate}
        /\ i # NoDate => i \in {c.validUntil : c \in I}
        /\ \A x \in {c.validUntil : c \in I} : x # NoDate => i # NoDate /\ i <= x
    BY <2>1, LeastDateCases
  <2> QED BY <2>2
<1>3. \A c \in A :
        /\ leg(c) \in Nat /\ leg(c) \in {c.checkedAt + f, c.validUntil}
        /\ leg(c) <= c.checkedAt + f
        /\ c.validUntil # NoDate => leg(c) <= c.validUntil
  <2> TAKE c \in A
  <2>1. {c.checkedAt + f, c.validUntil} \in SUBSET (Nat \cup {NoDate})
    OBVIOUS
  <2>2. c.checkedAt + f \in Nat /\ c.checkedAt + f # NoDate
    BY NoDateAssumption
  <2>3. /\ leg(c) \in {c.checkedAt + f, c.validUntil} /\ leg(c) \in Nat
        /\ \A x \in {c.checkedAt + f, c.validUntil} : x # NoDate => leg(c) <= x
    BY <2>1, <2>2, LeastDateIs
  <2> QED BY <2>2, <2>3
<1>4. /\ a \in Nat /\ a \in {leg(c) : c \in A}
      /\ \A c \in A : a <= leg(c)
  <2> HIDE DEF leg
  <2> DEFINE T == {leg(c) : c \in A}
  <2>1. PICK e \in A : TRUE
    OBVIOUS
  <2>2. T \in SUBSET (Nat \cup {NoDate}) /\ leg(e) \in T /\ leg(e) # NoDate
    BY <1>3, <2>1, NoDateAssumption
  <2>3. LeastDate(T) \in T /\ LeastDate(T) \in Nat /\ \A x \in T : x # NoDate => LeastDate(T) <= x
    BY <2>2, LeastDateIs
  <2> QED BY <2>3, <1>3, NoDateAssumption
<1>5. now + f \in Nat /\ now + f # NoDate
  BY NoDateAssumption
<1>6. /\ least \in {now + f, d, i, a} /\ least \in Nat
      /\ \A x \in {now + f, d, i, a} : x # NoDate => least <= x
  <2> HIDE DEF d, i, a
  <2> DEFINE T == {now + f, d, i, a}
  <2>1. T \in SUBSET (Nat \cup {NoDate}) /\ now + f \in T
    BY <1>1, <1>2, <1>4, <1>5
  <2> QED BY <2>1, <1>5, LeastDateIs
<1> HIDE DEF d, i, a, leg, least
<1>7. candidates \in SUBSET Nat
  BY <1>5
<1>8. least \in candidates
  <2>1. CASE least = a
    <3>1. PICK c \in A : a = leg(c)
      BY <1>4
    <3> QED BY <2>1, <3>1, <1>3, <1>4, NoDateAssumption
  <2>2. CASE least = d
    BY <2>2, <1>1, <1>6, NoDateAssumption
  <2>3. CASE least = i
    BY <2>3, <1>2, <1>6, NoDateAssumption
  <2> QED BY <1>6, <2>1, <2>2, <2>3
<1>9. ASSUME NEW x \in candidates PROVE least <= x
  <2>1. CASE x = now + f
    BY <2>1, <1>5, <1>6
  <2>2. ASSUME NEW c \in D, x = c.validUntil, x # NoDate PROVE least <= x
    BY <2>2, <1>1, <1>6
  <2>3. ASSUME NEW c \in I, x = c.validUntil, x # NoDate PROVE least <= x
    BY <2>3, <1>2, <1>6
  <2>4. least <= a
    BY <1>4, <1>6, NoDateAssumption
  <2>5. ASSUME NEW c \in A, x = c.validUntil, x # NoDate PROVE least <= x
    BY <2>4, <2>5, <1>3, <1>4, <1>6
  <2>6. ASSUME NEW c \in A, x = c.checkedAt + f PROVE least <= x
    BY <2>4, <2>6, <1>3, <1>4, <1>6
  <2> QED BY <2>1, <2>2, <2>3, <2>5, <2>6
<1>10. Earliest(candidates) = least
  <2> HIDE DEF candidates
  <2> QED BY <1>7, <1>8, <1>9, EarliestUnique
<1> QED BY <1>10 DEF least, candidates, d, i, a, leg, LeastOf, CandidatesOf

(***************************************************************************)
(* The theorems                                                            *)
(***************************************************************************)
(* Newest picks one of the checks it is given, and LIMIT 1 picks the same.  *)
LEMMA GoodTopRow ==
    ASSUME NEW p, NEW held, NEW at, Setting(p, held, at),
           NEW S \in SUBSET Good(p, held, at), S # {}
    PROVE  Newest(S) \in S /\ TopRow(S) = {Newest(S)}
BY GoodChecks, TopRowIsNewest DEF Setting

(* When every leg has a check, the database expires the tier on the date    *)
(* the preflight computed.                                                  *)
LEMMA SameExpiry ==
    ASSUME NEW p, NEW held, NEW at, Setting(p, held, at),
           \A t \in DOMAIN p.documents : DocumentChecks(p, Good(p, held, at), t) # {},
           IdentityChecks(p, Good(p, held, at)) # {},
           \A t \in DOMAIN p.authority : AuthorityChecks(p, Good(p, held, at), t, at) # {}
    PROVE  LET rows == Live(held, at)
           IN  LeastDate({at + p.freshness, v_document_expiry(p, rows, at),
                          v_identity_expiry(p, rows, at), v_authority_expiry(p, rows, at)})
               = Earliest(ExpiryCandidates(p, Good(p, held, at), at))
<1> DEFINE
      rows == Live(held, at)
      good == Good(p, held, at)
      D == {Newest(DocumentChecks(p, good, t)) : t \in DOMAIN p.documents}
      I == {Newest(IdentityChecks(p, good))}
      A == SelectedAuthority(p, good, at)
<1>1. \A t \in DOMAIN p.documents :
        /\ Newest(DocumentChecks(p, good, t)) \in good
        /\ DocumentRow(p, rows, t, at) = {Newest(DocumentChecks(p, good, t))}
  <2> TAKE t \in DOMAIN p.documents
  <2>1. DocumentChecks(p, good, t) \in SUBSET Good(p, held, at)
    BY DEF DocumentChecks
  <2>2. DocumentRow(p, rows, t, at) = TopRow(DocumentChecks(p, good, t))
    BY SameDocuments
  <2> QED BY <2>1, <2>2, GoodTopRow
<1>2. /\ Newest(IdentityChecks(p, good)) \in good
      /\ IdentityRow(p, rows, at) = {Newest(IdentityChecks(p, good))}
  <2>1. IdentityChecks(p, good) \in SUBSET Good(p, held, at)
    BY DEF IdentityChecks
  <2>2. IdentityRow(p, rows, at) = TopRow(IdentityChecks(p, good))
    BY SameIdentity
  <2> QED BY <2>1, <2>2, GoodTopRow
<1>3. \A t \in DOMAIN p.authority :
        /\ Newest(AuthorityChecks(p, good, t, at)) \in good
        /\ AuthorityRow(p, rows, t, at) = {Newest(AuthorityChecks(p, good, t, at))}
  <2> TAKE t \in DOMAIN p.authority
  <2>1. AuthorityChecks(p, good, t, at) \in SUBSET Good(p, held, at)
    BY DEF AuthorityChecks
  <2>2. AuthorityRow(p, rows, t, at) = TopRow(AuthorityChecks(p, good, t, at))
    BY SameAuthority
  <2> QED BY <2>1, <2>2, GoodTopRow
<1>4. \A c \in good : c.checkedAt \in Nat /\ c.validUntil \in Nat \cup {NoDate}
  BY GoodChecks DEF CaseChecks
<1>5. /\ UNION {DocumentRow(p, rows, t, at) : t \in DOMAIN p.documents} = D
      /\ IdentityRow(p, rows, at) = I
      /\ UNION {AuthorityRow(p, rows, t, at) : t \in DOMAIN p.authority} = A
  <2> HIDE DEF good, rows
  <2> QED BY <1>1, <1>2, <1>3 DEF SelectedAuthority
<1>6. D \cup I \cup A \subseteq good /\ A # {}
  <2>1. DOMAIN p.authority # {}
    BY DEF Setting, ValidPolicy
  <2> HIDE DEF good, rows
  <2> QED BY <1>1, <1>2, <1>3, <2>1 DEF SelectedAuthority
<1>7. at \in Nat /\ p.freshness \in Nat
  BY DEF Setting, ValidPolicy
<1>8. /\ v_document_expiry(p, rows, at) = LeastDate({c.validUntil : c \in D})
      /\ v_identity_expiry(p, rows, at) = LeastDate({c.validUntil : c \in I})
      /\ v_authority_expiry(p, rows, at) =
            LeastDate({LeastDate({c.checkedAt + p.freshness, c.validUntil}) : c \in A})
  <2> HIDE DEF good, rows, D, I, A
  <2> QED BY <1>5 DEF v_document_expiry, v_identity_expiry, v_authority_expiry
<1>9. Dated(D) /\ Dated(I) /\ Dated(A)
  <2> HIDE DEF good, D, I, A
  <2> QED BY <1>4, <1>6 DEF Dated
<1>10. ExpiryCandidates(p, good, at) = CandidatesOf(D, I, A, at, p.freshness)
  BY DEF ExpiryCandidates, Selected, CandidatesOf
<1>11. LeastOf(D, I, A, at, p.freshness) = Earliest(CandidatesOf(D, I, A, at, p.freshness))
  <2> HIDE DEF good, D, I, A
  <2> QED BY <1>6, <1>7, <1>9, SameLeast
<1> HIDE DEF D, I, A
<1> QED BY <1>8, <1>10, <1>11 DEF LeastOf

(* The preflight of finalizeCredentialDecision and the database function    *)
(* decide alike for every valid policy, every list of checks and every      *)
(* date: the guard of recompute-provider-tier.ts:254 never fires.           *)
THEOREM PreflightAgreement ==
    ASSUME NEW p, ValidPolicy(p), NEW held, CaseChecks(held), NEW at \in Nat
    PROVE  Agree(p, held, at)
<1> DEFINE
      rows == Live(held, at)
      good == Good(p, held, at)
<1>1. Setting(p, held, at)
  BY DEF Setting
<1>2. v_conflict(p, rows) <=> UnresolvedConflict(p, LatestChecks(rows))
  <2>1. CaseChecks(rows)
    BY SomeChecks DEF Live
  <2> QED BY <2>1, SameConflict
<1>3. \A t \in DOMAIN p.documents :
        DocumentRow(p, rows, t, at) = {} <=> DocumentChecks(p, good, t) = {}
  <2> TAKE t \in DOMAIN p.documents
  <2>1. DocumentChecks(p, good, t) \in SUBSET Good(p, held, at)
    BY DEF DocumentChecks
  <2>2. DocumentRow(p, rows, t, at) = TopRow(DocumentChecks(p, good, t))
    BY <1>1, SameDocuments
  <2> QED BY <1>1, <2>1, <2>2, GoodTopRow, TopRowEmpty
<1>4. IdentityRow(p, rows, at) = {} <=> IdentityChecks(p, good) = {}
  <2>1. IdentityChecks(p, good) \in SUBSET Good(p, held, at)
    BY DEF IdentityChecks
  <2>2. IdentityRow(p, rows, at) = TopRow(IdentityChecks(p, good))
    BY <1>1, SameIdentity
  <2> QED BY <1>1, <2>1, <2>2, GoodTopRow, TopRowEmpty
<1>5. \A t \in DOMAIN p.authority :
        AuthorityRow(p, rows, t, at) = {} <=> AuthorityChecks(p, good, t, at) = {}
  <2> TAKE t \in DOMAIN p.authority
  <2>1. AuthorityChecks(p, good, t, at) \in SUBSET Good(p, held, at)
    BY DEF AuthorityChecks
  <2>2. AuthorityRow(p, rows, t, at) = TopRow(AuthorityChecks(p, good, t, at))
    BY <1>1, SameAuthority
  <2> QED BY <1>1, <2>1, <2>2, GoodTopRow, TopRowEmpty
<1> DEFINE
      documents == \E t \in DOMAIN p.documents : DocumentChecks(p, good, t) = {}
      identity == IdentityChecks(p, good) = {}
      authority == \E t \in DOMAIN p.authority : AuthorityChecks(p, good, t, at) = {}
      expiry == Earliest(ExpiryCandidates(p, good, at))
      least == LeastDate({at + p.freshness, v_document_expiry(p, rows, at),
                          v_identity_expiry(p, rows, at), v_authority_expiry(p, rows, at)})
<1>6. ASSUME ~documents, ~identity, ~authority PROVE least = expiry
  BY <1>1, <1>6, SameExpiry
<1>7. decideTierFromRecordedChecks(p, held, at) =
        IF UnresolvedConflict(p, LatestChecks(rows))
        THEN NotFull("SELF_DECLARED", "UNRESOLVED_CREDENTIAL_CONFLICT")
        ELSE decideVerificationTier(p, good, at)
  BY DEF decideTierFromRecordedChecks, Good
<1>8. (\E t \in DOMAIN p.documents : DocumentRow(p, rows, t, at) = {}) <=> documents
  BY <1>3
<1>9. (\E t \in DOMAIN p.authority : AuthorityRow(p, rows, t, at) = {}) <=> authority
  BY <1>5
<1>10. decideVerificationTier(p, good, at) =
        IF documents THEN NotFull("SELF_DECLARED", "REQUIRED_EVIDENCE_INCOMPLETE")
        ELSE IF identity THEN NotFull("SELF_DECLARED", "IDENTITY_CONSISTENCY_REQUIRED")
        ELSE IF authority THEN NotFull("DOCUMENT_VERIFIED", "CURRENT_LIVE_AUTHORITY_REQUIRED")
        ELSE Decision("FULLY_VERIFIED", "CURRENT_LIVE_AUTHORITY_CONFIRMED", expiry)
  BY DEF decideVerificationTier
<1>11. finalizeOutcome(p, held, at) =
        IF UnresolvedConflict(p, LatestChecks(rows))
        THEN NotFull("SELF_DECLARED", "UNRESOLVED_CREDENTIAL_CONFLICT")
        ELSE IF documents THEN NotFull("SELF_DECLARED", "REQUIRED_EVIDENCE_INCOMPLETE")
        ELSE IF identity THEN NotFull("SELF_DECLARED", "IDENTITY_CONSISTENCY_REQUIRED")
        ELSE IF authority THEN NotFull("DOCUMENT_VERIFIED", "CURRENT_LIVE_AUTHORITY_REQUIRED")
        ELSE Decision("FULLY_VERIFIED", "CURRENT_LIVE_AUTHORITY_CONFIRMED", least)
  <2> HIDE DEF documents, authority
  <2> QED BY <1>2, <1>8, <1>4, <1>9 DEF finalizeOutcome
<1> HIDE DEF documents, identity, authority, expiry, least, good, rows
<1> QED BY <1>6, <1>7, <1>10, <1>11 DEF Agree

(* A full decision has a check for every leg, and its expiry is the         *)
(* earliest of the candidate dates.                                         *)
LEMMA FullDecision ==
    ASSUME NEW p, NEW held, NEW at,
           decideTierFromRecordedChecks(p, held, at).tier = "FULLY_VERIFIED"
    PROVE  /\ ~ UnresolvedConflict(p, LatestChecks(Live(held, at)))
           /\ \A t \in DOMAIN p.documents : DocumentChecks(p, Good(p, held, at), t) # {}
           /\ IdentityChecks(p, Good(p, held, at)) # {}
           /\ \A t \in DOMAIN p.authority : AuthorityChecks(p, Good(p, held, at), t, at) # {}
           /\ decideTierFromRecordedChecks(p, held, at).expiry
                = Earliest(ExpiryCandidates(p, Good(p, held, at), at))
<1> DEFINE good == Good(p, held, at)
<1>1. decideTierFromRecordedChecks(p, held, at) =
        IF UnresolvedConflict(p, LatestChecks(Live(held, at)))
        THEN NotFull("SELF_DECLARED", "UNRESOLVED_CREDENTIAL_CONFLICT")
        ELSE decideVerificationTier(p, good, at)
  BY DEF decideTierFromRecordedChecks, Good
<1> HIDE DEF good
<1>2. ~ UnresolvedConflict(p, LatestChecks(Live(held, at)))
      /\ decideVerificationTier(p, good, at).tier = "FULLY_VERIFIED"
  BY <1>1 DEF NotFull, Decision
<1>3. /\ \A t \in DOMAIN p.documents : DocumentChecks(p, good, t) # {}
      /\ IdentityChecks(p, good) # {}
      /\ \A t \in DOMAIN p.authority : AuthorityChecks(p, good, t, at) # {}
      /\ decideVerificationTier(p, good, at).expiry = Earliest(ExpiryCandidates(p, good, at))
  BY <1>2 DEF decideVerificationTier, NotFull, Decision
<1> QED BY <1>1, <1>2, <1>3 DEF good

(* Conversely, no conflict and a check for every leg make a full tier.      *)
LEMMA FullWhenComplete ==
    ASSUME NEW p, NEW held, NEW at,
           ~ UnresolvedConflict(p, LatestChecks(Live(held, at))),
           \A t \in DOMAIN p.documents : DocumentChecks(p, Good(p, held, at), t) # {},
           IdentityChecks(p, Good(p, held, at)) # {},
           \A t \in DOMAIN p.authority : AuthorityChecks(p, Good(p, held, at), t, at) # {}
    PROVE  decideTierFromRecordedChecks(p, held, at).tier = "FULLY_VERIFIED"
BY DEF decideTierFromRecordedChecks, Good, decideVerificationTier, Decision

(* Every date the selected evidence lapses on is a candidate of the expiry: *)
(* c is selected for a leg, and checks of authority legs also go stale.     *)
LEMMA ExpiryIsNotLate ==
    ASSUME NEW p, NEW held, NEW at, Setting(p, held, at),
           \A t \in DOMAIN p.documents : DocumentChecks(p, Good(p, held, at), t) # {},
           IdentityChecks(p, Good(p, held, at)) # {},
           \A t \in DOMAIN p.authority : AuthorityChecks(p, Good(p, held, at), t, at) # {}
    PROVE  LET e == Earliest(ExpiryCandidates(p, Good(p, held, at), at))
           IN  /\ e \in Nat /\ e > at
               /\ \A c \in Selected(p, Good(p, held, at), at) :
                     c.validUntil # NoDate => e <= c.validUntil
               /\ \A c \in SelectedAuthority(p, Good(p, held, at), at) :
                     e <= c.checkedAt + p.freshness
<1> DEFINE
      good == Good(p, held, at)
      S == Selected(p, good, at)
      A == SelectedAuthority(p, good, at)
      C == ExpiryCandidates(p, good, at)
<1>1. \A c \in good : /\ c.checkedAt \in Nat /\ c.validUntil \in Nat \cup {NoDate}
                      /\ c.validUntil # NoDate => c.validUntil > at
  <2>1. \A c \in good : c.checkedAt \in Nat /\ c.validUntil \in Nat \cup {NoDate}
    BY GoodChecks DEF CaseChecks
  <2>2. \A c \in good : c.validUntil # NoDate => c.validUntil > at
    BY DEF Good, Contributing, Unexpired
  <2> QED BY <2>1, <2>2
<1>2. \A t \in DOMAIN p.documents : Newest(DocumentChecks(p, good, t)) \in good
  <2> TAKE t \in DOMAIN p.documents
  <2>1. DocumentChecks(p, good, t) \in SUBSET Good(p, held, at)
    BY DEF DocumentChecks
  <2> QED BY <2>1, GoodTopRow
<1>3. Newest(IdentityChecks(p, good)) \in good
  <2>1. IdentityChecks(p, good) \in SUBSET Good(p, held, at)
    BY DEF IdentityChecks
  <2> QED BY <2>1, GoodTopRow
<1>4. \A t \in DOMAIN p.authority :
        Newest(AuthorityChecks(p, good, t, at)) \in AuthorityChecks(p, good, t, at)
  <2> TAKE t \in DOMAIN p.authority
  <2>1. AuthorityChecks(p, good, t, at) \in SUBSET Good(p, held, at)
    BY DEF AuthorityChecks
  <2> QED BY <2>1, GoodTopRow
<1>5. A \subseteq good /\ \A c \in A : c.checkedAt + p.freshness > at
  BY <1>4 DEF SelectedAuthority, AuthorityChecks, Fresh
<1>6. S \subseteq good
  BY <1>2, <1>3, <1>5 DEF Selected
<1>7. at \in Nat /\ p.freshness \in Nat /\ p.freshness > 0
  BY DEF Setting, ValidPolicy
<1>8. C = {at + p.freshness} \cup ({c.validUntil : c \in S} \ {NoDate})
            \cup {c.checkedAt + p.freshness : c \in A}
  BY DEF ExpiryCandidates
<1> HIDE DEF good, S, A, C
<1>9. C \in SUBSET Nat /\ C # {} /\ \A d \in C : d > at
  BY <1>1, <1>5, <1>6, <1>7, <1>8
<1>10. Earliest(C) \in C /\ \A d \in C : Earliest(C) <= d
  BY <1>9, EarliestIs
<1>11. \A c \in S : c.validUntil # NoDate => c.validUntil \in C
  BY <1>8
<1>12. \A c \in A : c.checkedAt + p.freshness \in C
  BY <1>8
<1> QED BY <1>9, <1>10, <1>11, <1>12 DEF good, S, A, C

(* Until a full tier expires it stays earned on the evidence it was decided *)
(* on, for every valid policy, list of checks and date: the readers, which  *)
(* only compare tier_expires_at with now(), never show a lapsed full tier.  *)
THEOREM ExpirySafety ==
    ASSUME NEW p, ValidPolicy(p), NEW held, CaseChecks(held), NEW at \in Nat
    PROVE  FullUntilExpiry(p, held, at)
<1> DEFINE
      known == Live(held, at)
      e == decideTierFromRecordedChecks(p, known, at).expiry
<1> SUFFICES ASSUME decideTierFromRecordedChecks(p, known, at).tier = "FULLY_VERIFIED"
             PROVE  e > at /\ \A later \in at .. (e - 1) :
                      decideTierFromRecordedChecks(p, known, later).tier = "FULLY_VERIFIED"
  BY DEF FullUntilExpiry
<1>1. CaseChecks(known)
  BY SomeChecks DEF Live
<1>2. Setting(p, known, at)
  BY <1>1 DEF Setting
<1> DEFINE good == Good(p, known, at)
<1>3. /\ ~ UnresolvedConflict(p, LatestChecks(Live(known, at)))
      /\ \A t \in DOMAIN p.documents : DocumentChecks(p, good, t) # {}
      /\ IdentityChecks(p, good) # {}
      /\ \A t \in DOMAIN p.authority : AuthorityChecks(p, good, t, at) # {}
      /\ e = Earliest(ExpiryCandidates(p, good, at))
  <2> HIDE DEF known
  <2> QED BY FullDecision DEF known
<1>4. /\ e \in Nat /\ e > at
      /\ \A c \in Selected(p, good, at) : c.validUntil # NoDate => e <= c.validUntil
      /\ \A c \in SelectedAuthority(p, good, at) : e <= c.checkedAt + p.freshness
  <2> HIDE DEF known, good, e
  <2> QED BY <1>2, <1>3, ExpiryIsNotLate DEF good
<1>5. ASSUME NEW later \in at .. (e - 1)
      PROVE  decideTierFromRecordedChecks(p, known, later).tier = "FULLY_VERIFIED"
  <2>0. later \in Nat /\ at <= later /\ later < e
    <3> HIDE DEF e
    <3> QED BY <1>4
  <2>1. Live(known, later) = known /\ Live(known, at) = known
    BY <2>0, <1>1 DEF Live, CaseChecks
  <2> DEFINE L == LatestChecks(known)
  <2>2. ~ UnresolvedConflict(p, LatestChecks(Live(known, later)))
    BY <1>3, <2>1
  <2>3. \A c \in good : c \in L /\ c.checkedAt \in Nat /\ c.validUntil \in Nat \cup {NoDate}
    <3>1. good \subseteq L
      <4> HIDE DEF known
      <4> QED BY <2>1 DEF Good, Contributing
    <3>2. good \in SUBSET Good(p, known, at)
      OBVIOUS
    <3> HIDE DEF known, good
    <3> QED BY <3>1, <3>2, <1>2, GoodChecks DEF CaseChecks
  <2>4. ASSUME NEW c \in good, c.validUntil # NoDate => e <= c.validUntil
        PROVE  c \in Good(p, known, later)
    <3>1. c.validUntil = NoDate \/ c.validUntil > later
      <4> HIDE DEF known, good, e
      <4> QED BY <2>0, <2>3, <2>4, <1>4
    <3>2. Good(p, known, later) = Contributing(p, L, later) /\ good = Contributing(p, L, at)
      <4> HIDE DEF known
      <4> QED BY <2>1 DEF Good
    <3> HIDE DEF L, known, good
    <3> QED BY <3>1, <3>2 DEF Contributing, Unexpired
  <2>5. \A t \in DOMAIN p.documents : DocumentChecks(p, Good(p, known, later), t) # {}
    <3> TAKE t \in DOMAIN p.documents
    <3> DEFINE c == Newest(DocumentChecks(p, good, t))
    <3>1. DocumentChecks(p, good, t) \in SUBSET Good(p, known, at)
      BY DEF DocumentChecks
    <3>2. c \in DocumentChecks(p, good, t)
      <4> HIDE DEF known
      <4> QED BY <3>1, <1>2, <1>3, GoodTopRow
    <3>3. c \in Selected(p, good, at)
      BY DEF Selected
    <3> HIDE DEF known, c, e
    <3>4. c \in Good(p, known, later)
      BY <3>1, <3>2, <3>3, <1>4, <2>4
    <3>5. c \in DocumentChecks(p, Good(p, known, later), t)
      BY <3>2, <3>4 DEF DocumentChecks
    <3> QED BY <3>5
  <2>6. IdentityChecks(p, Good(p, known, later)) # {}
    <3> DEFINE c == Newest(IdentityChecks(p, good))
    <3>1. IdentityChecks(p, good) \in SUBSET Good(p, known, at)
      BY DEF IdentityChecks
    <3>2. c \in IdentityChecks(p, good)
      <4> HIDE DEF known
      <4> QED BY <3>1, <1>2, <1>3, GoodTopRow
    <3>3. c \in Selected(p, good, at)
      BY DEF Selected
    <3> HIDE DEF known, c, e
    <3>4. c \in Good(p, known, later)
      BY <3>1, <3>2, <3>3, <1>4, <2>4
    <3>5. c \in IdentityChecks(p, Good(p, known, later))
      BY <3>2, <3>4 DEF IdentityChecks
    <3> QED BY <3>5
  <2>7. \A t \in DOMAIN p.authority : AuthorityChecks(p, Good(p, known, later), t, later) # {}
    <3> TAKE t \in DOMAIN p.authority
    <3> DEFINE c == Newest(AuthorityChecks(p, good, t, at))
    <3>1. AuthorityChecks(p, good, t, at) \in SUBSET Good(p, known, at)
      BY DEF AuthorityChecks
    <3>2. c \in AuthorityChecks(p, good, t, at)
      <4> HIDE DEF known
      <4> QED BY <3>1, <1>2, <1>3, GoodTopRow
    <3>3. c \in Selected(p, good, at) /\ c \in SelectedAuthority(p, good, at)
      BY DEF Selected, SelectedAuthority
    <3> HIDE DEF known, c, e
    <3>4. c \in Good(p, known, later)
      BY <3>1, <3>2, <3>3, <1>4, <2>4
    <3>5. Fresh(p, c, later)
      <4>1. e <= c.checkedAt + p.freshness /\ c.checkedAt \in Nat /\ p.freshness \in Nat
        BY <3>1, <3>2, <3>3, <1>4, <2>3 DEF ValidPolicy
      <4> QED BY <4>1, <2>0, <1>4 DEF Fresh
    <3>6. c \in AuthorityChecks(p, Good(p, known, later), t, later)
      BY <3>2, <3>4, <3>5 DEF AuthorityChecks
    <3> QED BY <3>6
  <2> HIDE DEF known
  <2> QED BY <2>2, <2>5, <2>6, <2>7, FullWhenComplete
<1> QED BY <1>4, <1>5

(* The checks of the legs and sources of a policy.                          *)
OfPolicy(p, S) == {c \in S : c.source \in RelevantSources(p, c.type)}

(* Checks of other sources change neither what a leg can select nor what    *)
(* the tier and its expiry become.                                          *)
LEMMA OthersDoNotDecide ==
    ASSUME NEW p, NEW good, NEW now
    PROVE  decideVerificationTier(p, OfPolicy(p, good), now) = decideVerificationTier(p, good, now)
<1> DEFINE kept == OfPolicy(p, good)
<1>1. \A t \in DOMAIN p.documents : DocumentChecks(p, kept, t) = DocumentChecks(p, good, t)
  BY DEF DocumentChecks, OfPolicy, IsRequiredDocumentLeg, RelevantSources
<1>2. IdentityChecks(p, kept) = IdentityChecks(p, good)
  BY DEF IdentityChecks, OfPolicy, IsIdentityConsistencyLeg, RelevantSources
<1>3. \A t \in DOMAIN p.authority : AuthorityChecks(p, kept, t, now) = AuthorityChecks(p, good, t, now)
  BY DEF AuthorityChecks, OfPolicy, IsCurrentAuthorityLeg, RelevantSources
<1> HIDE DEF kept
<1>4. SelectedAuthority(p, kept, now) = SelectedAuthority(p, good, now)
  BY <1>3 DEF SelectedAuthority
<1>5. {Newest(DocumentChecks(p, kept, t)) : t \in DOMAIN p.documents}
      = {Newest(DocumentChecks(p, good, t)) : t \in DOMAIN p.documents}
  BY <1>1
<1>6. Selected(p, kept, now) = Selected(p, good, now)
  BY <1>2, <1>4, <1>5 DEF Selected
<1>7. ExpiryCandidates(p, kept, now) = ExpiryCandidates(p, good, now)
  BY <1>4, <1>6 DEF ExpiryCandidates
<1>8. /\ (\E t \in DOMAIN p.documents : DocumentChecks(p, kept, t) = {})
         <=> (\E t \in DOMAIN p.documents : DocumentChecks(p, good, t) = {})
      /\ (\E t \in DOMAIN p.authority : AuthorityChecks(p, kept, t, now) = {})
         <=> (\E t \in DOMAIN p.authority : AuthorityChecks(p, good, t, now) = {})
  BY <1>1, <1>3
<1>9. decideVerificationTier(p, kept, now) = decideVerificationTier(p, good, now)
  BY <1>2, <1>7, <1>8 DEF decideVerificationTier
<1> QED BY <1>9 DEF kept

(* Mock answers and the answers of sources no leg allows, format-only and   *)
(* LLM sources among them, change no decision: in any list of checks, for   *)
(* any policy and date.                                                     *)
THEOREM OthersIgnored ==
    ASSUME NEW p, NEW held, NEW at
    PROVE  OnlyPolicyEvidence(p, held, at)
<1> DEFINE
      kept == {c \in held : c.mode = "LIVE" /\ c.source \in RelevantSources(p, c.type)}
      L == LatestChecks(Live(held, at))
<1>1. LatestChecks(Live(kept, at)) = OfPolicy(p, L)
  <2>1. Live(kept, at) = OfPolicy(p, Live(held, at))
    BY DEF Live, OfPolicy
  <2>2. LatestChecks(OfPolicy(p, Live(held, at))) = OfPolicy(p, L)
    <3>1. ASSUME NEW S PROVE LatestChecks(OfPolicy(p, S)) = OfPolicy(p, LatestChecks(S))
      <4>1. \A c, d : c.type = d.type /\ c.source = d.source =>
              (c.source \in RelevantSources(p, c.type) <=> d.source \in RelevantSources(p, d.type))
        OBVIOUS
      <4> QED BY <4>1 DEF LatestChecks, OfPolicy
    <3> QED BY <3>1
  <2> QED BY <2>1, <2>2
<1>2. UnresolvedConflict(p, OfPolicy(p, L)) <=> UnresolvedConflict(p, L)
  BY DEF UnresolvedConflict, OfPolicy
<1>3. Contributing(p, OfPolicy(p, L), at) = OfPolicy(p, Contributing(p, L, at))
  BY DEF Contributing, OfPolicy
<1>4. decideVerificationTier(p, Contributing(p, OfPolicy(p, L), at), at)
      = decideVerificationTier(p, Contributing(p, L, at), at)
  BY <1>3, OthersDoNotDecide
<1>5. decideTierFromRecordedChecks(p, kept, at) =
        IF UnresolvedConflict(p, OfPolicy(p, L))
        THEN NotFull("SELF_DECLARED", "UNRESOLVED_CREDENTIAL_CONFLICT")
        ELSE decideVerificationTier(p, Contributing(p, OfPolicy(p, L), at), at)
  BY <1>1 DEF decideTierFromRecordedChecks
<1>6. decideTierFromRecordedChecks(p, held, at) =
        IF UnresolvedConflict(p, L)
        THEN NotFull("SELF_DECLARED", "UNRESOLVED_CREDENTIAL_CONFLICT")
        ELSE decideVerificationTier(p, Contributing(p, L, at), at)
  BY DEF decideTierFromRecordedChecks
<1>7. OnlyPolicyEvidence(p, held, at) <=>
        decideTierFromRecordedChecks(p, held, at) = decideTierFromRecordedChecks(p, kept, at)
  BY DEF OnlyPolicyEvidence
<1> HIDE DEF kept, L
<1> QED BY <1>2, <1>4, <1>5, <1>6, <1>7
(***************************************************************************)
(* What a decision looks like                                              *)
(***************************************************************************)
Reasons == {"UNRESOLVED_CREDENTIAL_CONFLICT", "REQUIRED_EVIDENCE_INCOMPLETE",
            "IDENTITY_CONSISTENCY_REQUIRED", "CURRENT_LIVE_AUTHORITY_REQUIRED",
            "CURRENT_LIVE_AUTHORITY_CONFIRMED", "NOT_DECIDED"}
Decisions == [tier : {"SELF_DECLARED", "DOCUMENT_VERIFIED", "FULLY_VERIFIED"},
              reason : Reasons, expiry : Nat \cup {NoDate}]

(* A decision is full with an expiry in the future, or not full without one *)
(* (provider_fully_verified_expiry_check accepts it).                       *)
LEMMA DecisionShape ==
    ASSUME NEW p, ValidPolicy(p), NEW held, CaseChecks(held), NEW at \in Nat
    PROVE  LET d == decideTierFromRecordedChecks(p, held, at)
           IN  /\ d \in Decisions
               /\ d.tier = "FULLY_VERIFIED" => d.expiry \in Nat /\ d.expiry > at
<1> DEFINE d == decideTierFromRecordedChecks(p, held, at)
           good == Good(p, held, at)
           e == Earliest(ExpiryCandidates(p, good, at))
<1> SUFFICES d \in Decisions /\ (d.tier = "FULLY_VERIFIED" => d.expiry \in Nat /\ d.expiry > at)
  OBVIOUS
<1>1. Setting(p, held, at)
  BY DEF Setting
<1>2. CASE d.tier = "FULLY_VERIFIED"
  <2>1. e \in Nat /\ e > at /\ d.expiry = e
    BY <1>1, <1>2, FullDecision, ExpiryIsNotLate
  <2>2. d = Decision("FULLY_VERIFIED", "CURRENT_LIVE_AUTHORITY_CONFIRMED", e)
    BY <1>2 DEF decideTierFromRecordedChecks, decideVerificationTier, NotFull, Decision, Good
  <2> HIDE DEF d, e
  <2> QED BY <2>1, <2>2 DEF Decision, Decisions, Reasons
<1>3. CASE d.tier # "FULLY_VERIFIED"
  <2>1. \E tier \in {"SELF_DECLARED", "DOCUMENT_VERIFIED"}, reason \in Reasons :
          d = NotFull(tier, reason)
    BY <1>3 DEF decideTierFromRecordedChecks, decideVerificationTier, NotFull, Decision, Reasons
  <2> HIDE DEF d
  <2> QED BY <1>3, <2>1 DEF NotFull, Decision, Decisions
<1> HIDE DEF d
<1> QED BY <1>2, <1>3

(* A check made after the date of the decision does not take part in it.    *)
LEMMA OnlyLiveCount ==
    ASSUME NEW p, NEW held, NEW at
    PROVE  decideTierFromRecordedChecks(p, Live(held, at), at)
             = decideTierFromRecordedChecks(p, held, at)
<1>1. Live(Live(held, at), at) = Live(held, at)
  BY DEF Live
<1> QED BY <1>1 DEF decideTierFromRecordedChecks

----------------------------------------------------------------------------
(* A case, whatever is recorded in it, in whatever order, whenever decided. *)

(* Inserting checks keeps recorded_sequence unique and within their number. *)
CaseInv ==
    /\ casePolicy \in CasePolicies
    /\ IsFiniteSet(caseChecks)
    /\ \A c \in caseChecks :
          /\ c.seq \in 1 .. Cardinality(caseChecks)
          /\ c.checkedAt \in Nat /\ c.validUntil \in Nat \cup {NoDate}
    /\ \A c, d \in caseChecks : c.seq = d.seq => c = d

(* The invariant holds of an empty case and after every recorded check.     *)
LEMMA CaseInvariant == CaseSpec => []CaseInv
<1>1. InitCase => CaseInv
  BY FS_EmptySet DEF InitCase, CaseInv
<1>2. CaseInv /\ [NextCase]_caseVars => CaseInv'
  <2> SUFFICES ASSUME CaseInv, [NextCase]_caseVars PROVE CaseInv'
    OBVIOUS
  <2> USE DEF CaseInv
  <2>1. CASE UNCHANGED caseVars
    BY <2>1 DEF caseVars
  <2>2. ASSUME NEW a \in CaseAnswers, RecordCheck(a) PROVE CaseInv'
    <3> DEFINE n == Cardinality(caseChecks) + 1
               r == Recorded(n, a)
    <3>0. Cardinality(caseChecks) \in Nat
      BY FS_CardinalityType
    <3>1. /\ r.seq = n /\ r.checkedAt \in Nat /\ r.validUntil \in Nat \cup {NoDate}
      BY CaseAssumption DEF Recorded
    <3>2. caseChecks' = caseChecks \cup {r} /\ casePolicy' = casePolicy
      BY <2>2 DEF RecordCheck
    <3>3. r \notin caseChecks
      BY <3>0, <3>1
    <3>4. IsFiniteSet(caseChecks') /\ Cardinality(caseChecks') = n
      BY <3>2, <3>3, FS_AddElement
    <3> HIDE DEF r
    <3>5. \A c \in caseChecks' :
            /\ c.seq \in 1 .. Cardinality(caseChecks')
            /\ c.checkedAt \in Nat /\ c.validUntil \in Nat \cup {NoDate}
      BY <3>0, <3>1, <3>2, <3>4
    <3>6. \A c, d \in caseChecks' : c.seq = d.seq => c = d
      BY <3>0, <3>1, <3>2
    <3> QED BY <3>2, <3>4, <3>5, <3>6
  <2> QED BY <2>1, <2>2 DEF NextCase
<1> QED BY <1>1, <1>2, PTL DEF CaseSpec

(* The rows of a case are what the theorems above ask of a list of checks.  *)
LEMMA CaseIsSound == CaseInv => ValidPolicy(casePolicy) /\ CaseChecks(caseChecks)
<1> SUFFICES ASSUME CaseInv PROVE ValidPolicy(casePolicy) /\ CaseChecks(caseChecks)
  OBVIOUS
<1>1. Cardinality(caseChecks) \in Nat
  BY FS_CardinalityType DEF CaseInv
<1> QED BY <1>1, CaseAssumption DEF CaseInv, CaseChecks

(* A case never holds a list of checks on which preflight and database      *)
(* disagree, at whatever date it is decided.                                *)
THEOREM PreflightAlwaysAgrees == CaseSpec => []PreflightAgrees
<1>1. CaseInv => PreflightAgrees
  BY CaseIsSound, PreflightAgreement, CaseAssumption DEF PreflightAgrees
<1> QED BY <1>1, CaseInvariant, PTL

(* Nor one on which a full tier lapses before its recorded expiry.          *)
THEOREM ExpiryAlwaysSafe == CaseSpec => []ExpiryIsSafe
<1>1. CaseInv => ExpiryIsSafe
  BY CaseIsSound, ExpirySafety, CaseAssumption DEF ExpiryIsSafe
<1> QED BY <1>1, CaseInvariant, PTL

(* Nor one whose mock, format-only or LLM checks make a difference.         *)
THEOREM OthersNeverDecide == CaseSpec => []OthersNeverCount
<1>1. OthersNeverCount
  BY OthersIgnored DEF OthersNeverCount
<1> QED BY <1>1, PTL

----------------------------------------------------------------------------
(* The rail: concurrent recomputations, decisions and expiries.             *)

(***************************************************************************)
(* The inductive invariant                                                 *)
(***************************************************************************)
CaseRows == [provider : Providers \cup {None}, status : {"NONE", "REVIEW_REQUIRED", "DECIDED"},
             decision : Decisions, decidedAt : Dates, version : Versions \cup {None}]
CallRows == [provider : Providers \cup {None}, case : Cases \cup {None},
             input : Input \cup {None}, at : Dates, begun : Dates,
             version : Versions \cup {None}, preflight : Decisions]

TypedRows ==
    /\ clock \in Nat /\ active \in Versions /\ recorded \in Nat
    /\ provider \in [Providers -> [tier : Tiers, decidedAt : Dates, expiresAt : Dates]]
    /\ case \in [Cases -> CaseRows]
    /\ checks = [c \in Cases |-> checks[c]]

TypedCalls ==
    /\ providerOwner \in [Providers -> Calls \cup {None}]
    /\ caseOwner \in [Cases -> Calls \cup {None}]
    /\ advisoryOwner \in [Providers -> Calls \cup {None}]
    /\ pc \in [Calls -> Running \cup {"idle"}]
    /\ call \in [Calls -> CallRows]

(* provider_fully_verified_expiry_check                                     *)
FullTiersExpire ==
    \A p \in Providers : provider[p].tier = "FULLY_VERIFIED" =>
        provider[p].expiresAt \in Nat /\ provider[p].expiresAt > provider[p].decidedAt

ChecksRecorded ==
    \A c \in Cases :
        /\ \A k \in checks[c] :
              k.seq \in 1 .. recorded /\ k.checkedAt \in Nat /\ k.validUntil \in Dates
        /\ \A j, k \in checks[c] : j.seq = k.seq => j = k

(* verification_case_one_active_review                                      *)
OneActive ==
    \A c, d \in Cases, p \in Providers : ActiveCase(c, p) /\ ActiveCase(d, p) => c = d

DecidedBefore ==
    \A c \in Cases : case[c].status = "DECIDED" =>
        /\ case[c].decidedAt \in Nat /\ case[c].decidedAt <= clock
        /\ case[c].version \in Versions /\ ValidPolicy(PolicyOf[case[c].version])

NamesCase == {"begin", "lockProvider", "recordReview", "preflight", "finalize"}
Inserts == {"recordReview", "lockAdvisory", "findCase", "createCase"}

(* The arguments of a running call.                                         *)
Called(t) ==
    pc[t] # "idle" =>
        /\ call[t].provider \in Providers /\ call[t].at \in Nat /\ call[t].at <= clock
        /\ pc[t] \in NamesCase => call[t].case \in Cases /\ case[call[t].case].status # "NONE"
        /\ pc[t] \in Inserts => call[t].input \in Input

(* What a call has locked and what it knows because of it.                  *)
Holds(t) ==
    /\ pc[t] \in {"findCase", "createCase"} => advisoryOwner[call[t].provider] = t
    /\ pc[t] = "createCase" => ~ \E c \in Cases : ActiveCase(c, call[t].provider)
    /\ pc[t] \in {"preflight", "finalize"} =>
          call[t].version \in Versions /\ ValidPolicy(PolicyOf[call[t].version])
    /\ pc[t] = "finalize" =>
          /\ caseOwner[call[t].case] = t
          /\ ActiveCase(call[t].case, call[t].provider)
          /\ call[t].preflight =
                decideTierFromRecordedChecks(PolicyOf[call[t].version],
                                             checks[call[t].case], call[t].at)

(* A decision that may still be made is not older than those already made.  *)
NotOlder(t) ==
    pc[t] \in NamesCase /\ ActiveCase(call[t].case, call[t].provider) =>
        \A e \in DecidedCases(call[t].provider) : case[e].decidedAt <= call[t].at

CallInv(t) == Called(t) /\ Holds(t) /\ NotOlder(t)

RowInv ==
    /\ TypedRows /\ FullTiersExpire /\ ChecksRecorded /\ OneActive /\ DecidedBefore
    /\ DecisionReproducible /\ TierFollowsDecisions

IInv == RowInv /\ TypedCalls /\ \A t \in Calls : CallInv(t)

(***************************************************************************)
(* Steps in general                                                        *)
(***************************************************************************)
(* The other calls and their locks stay as they are.                        *)
OthersStay(t) ==
    /\ clock' = clock
    /\ \A u \in Calls \ {t} :
          /\ pc'[u] = pc[u] /\ call'[u] = call[u]
          /\ \A c \in Cases : caseOwner[c] = u => caseOwner'[c] = u
          /\ \A p \in Providers : advisoryOwner[p] = u => advisoryOwner'[p] = u

(* The end of a transaction frees its slot and touches nobody else.         *)
LEMMA EndCallEffect ==
    ASSUME IInv, NEW t \in Calls, EndCall(t)
    PROVE  TypedCalls' /\ OthersStay(t) /\ CallInv(t)'
<1>1. t # None
  BY RailAssumption
<1>2. Idle \in CallRows
  BY DEF Idle, CallRows, NoDecision, NotFull, Decision, Decisions, Reasons, Dates
<1>3. pc' = [pc EXCEPT ![t] = "idle"] /\ call' = [call EXCEPT ![t] = Idle] /\ clock' = clock
  BY DEF EndCall, Goto
<1>4. /\ providerOwner' = [row \in DOMAIN providerOwner |->
              IF providerOwner[row] = t THEN None ELSE providerOwner[row]]
      /\ caseOwner' = [row \in DOMAIN caseOwner |->
              IF caseOwner[row] = t THEN None ELSE caseOwner[row]]
      /\ advisoryOwner' = [row \in DOMAIN advisoryOwner |->
              IF advisoryOwner[row] = t THEN None ELSE advisoryOwner[row]]
  BY DEF EndCall, Released
<1>5. TypedCalls
  BY DEF IInv
<1>6. TypedCalls'
  BY <1>2, <1>3, <1>4, <1>5 DEF TypedCalls, Running
<1>7. OthersStay(t)
  BY <1>3, <1>4, <1>5 DEF TypedCalls, OthersStay
<1>8. pc'[t] = "idle"
  BY <1>3, <1>5 DEF TypedCalls
<1>9. CallInv(t)'
  BY <1>8 DEF CallInv, Called, Holds, NotOlder, NamesCase
<1> QED BY <1>6, <1>7, <1>9

(* A call keeps what it knows when a step of another one leaves the cases   *)
(* and checks it has locked alone, opens no case of the provider whose      *)
(* advisory lock it holds, and decides nothing newer on its provider.       *)
LEMMA OtherCallKeeps ==
    ASSUME IInv, NEW t \in Calls, OthersStay(t), NEW u \in Calls, u # t,
           \A c \in Cases : case[c].status # "NONE" => case'[c].status # "NONE",
           \A c \in Cases : caseOwner[c] = u /\ case[c].status # "NONE" =>
               case'[c] = case[c] /\ checks'[c] = checks[c],
           \A c \in Cases, p \in Providers :
               advisoryOwner[p] = u /\ ActiveCase(c, p)' => ActiveCase(c, p),
           NotOlder(u)'
    PROVE  CallInv(u)'
<1>1. pc'[u] = pc[u] /\ call'[u] = call[u] /\ clock' = clock
  BY DEF OthersStay
<1>2. CallInv(u)
  BY DEF IInv
<1>3. Called(u)'
  BY <1>1, <1>2 DEF CallInv, Called
<1>4. Holds(u)'
  <2>1. pc[u] \in {"findCase", "createCase"} => advisoryOwner'[call[u].provider] = u
    BY <1>2, OthersStay(t) DEF CallInv, Called, Holds, OthersStay
  <2>2. pc[u] = "createCase" =>
          ~ \E c \in Cases : /\ case'[c].provider = call[u].provider
                             /\ case'[c].status = "REVIEW_REQUIRED"
    BY <1>2 DEF CallInv, Called, Holds, ActiveCase
  <2>3. pc[u] = "finalize" =>
          /\ caseOwner'[call[u].case] = u
          /\ case'[call[u].case] = case[call[u].case]
          /\ checks'[call[u].case] = checks[call[u].case]
    BY <1>2 DEF CallInv, Called, Holds, OthersStay, NamesCase
  <2> QED BY <1>1, <1>2, <2>1, <2>2, <2>3 DEF CallInv, Holds, ActiveCase
<1> QED BY <1>3, <1>4 DEF CallInv

(* A step that leaves the rows alone keeps the invariant when the call that *)
(* makes it does.                                                           *)
LEMMA QuietStep ==
    ASSUME IInv, NEW t \in Calls, OthersStay(t), UNCHANGED rowVars, TypedCalls', CallInv(t)'
    PROVE  IInv'
<1>1. /\ active' = active /\ provider' = provider /\ case' = case
      /\ checks' = checks /\ recorded' = recorded /\ clock' = clock
  BY DEF rowVars, OthersStay
<1>2. RowInv'
  BY <1>1 DEF IInv, RowInv, TypedRows, FullTiersExpire, ChecksRecorded, OneActive, DecidedBefore,
       DecisionReproducible, TierFollowsDecisions, ActiveCase, DecidedCases
<1>3. ASSUME NEW u \in Calls PROVE CallInv(u)'
  <2>1. CASE u = t
    BY <2>1
  <2>2. CASE u # t
    <3>1. NotOlder(u)'
      <4>1. pc'[u] = pc[u] /\ call'[u] = call[u] /\ NotOlder(u)
        BY <2>2 DEF OthersStay, IInv, CallInv
      <4> QED BY <1>1, <4>1 DEF NotOlder, ActiveCase, DecidedCases
    <3> QED BY <1>1, <2>2, <3>1, OtherCallKeeps DEF ActiveCase
  <2> QED BY <2>1, <2>2
<1> QED BY <1>2, <1>3 DEF IInv

(* A rollback keeps the invariant.                                          *)
LEMMA RollbackStep ==
    ASSUME IInv, NEW t \in Calls, Rollback(t)
    PROVE  IInv'
BY EndCallEffect, QuietStep DEF Rollback

(***************************************************************************)
(* Statements that change no row                                           *)
(***************************************************************************)
(* A call may start with arguments that name rows which are there.          *)
LEMMA StartStep ==
    ASSUME IInv, NEW t \in Calls, NEW statement \in {"begin", "lockProvider", "lockAdvisory"},
           NEW arguments \in CallRows, StartCall(t, statement, arguments),
           arguments.provider \in Providers, arguments.at = clock,
           statement = "lockAdvisory" => arguments.input \in Input,
           statement # "lockAdvisory" =>
               arguments.case \in Cases /\ case[arguments.case].status # "NONE"
    PROVE  IInv'
<1>1. /\ pc' = [pc EXCEPT ![t] = statement] /\ call' = [call EXCEPT ![t] = arguments]
      /\ UNCHANGED <<clock, rowVars, lockVars>>
  BY DEF StartCall, Goto
<1>2. TypedCalls
  BY DEF IInv
<1>3. TypedCalls' /\ OthersStay(t) /\ pc'[t] = statement /\ call'[t] = arguments
  BY <1>1, <1>2 DEF TypedCalls, Running, OthersStay, lockVars
<1>4. Called(t)'
  BY <1>1, <1>3 DEF Called, NamesCase, Inserts, rowVars, IInv, RowInv, TypedRows
<1>5. Holds(t)'
  BY <1>3 DEF Holds
<1>6. NotOlder(t)'
  BY <1>1, <1>3 DEF NotOlder, IInv, RowInv, DecidedBefore, DecidedCases, rowVars
<1> QED BY <1>1, <1>3, <1>4, <1>5, <1>6, QuietStep DEF CallInv

(* Every call that starts is one of these.                                  *)
LEMMA StartsKeep ==
    ASSUME IInv, NEW t \in Calls, Start(t)
    PROVE  IInv'
<1>1. Idle \in CallRows
  BY DEF Idle, CallRows, NoDecision, NotFull, Decision, Decisions, Reasons, Dates
<1>2. clock \in Dates
  BY DEF IInv, RowInv, TypedRows, Dates
<1>3. PICK p \in Providers :
        \/ \E c \in Cases : Decide(t, p, c) \/ \E r \in Reviews : Review(t, p, c, r)
        \/ \E o \in Outages : SourceUnavailable(t, p, o)
        \/ \E a \in Answers : AuthorityAnswers(t, p, a)
  BY DEF Start
<1>4. ASSUME NEW c \in Cases, Decide(t, p, c) PROVE IInv'
  <2> DEFINE arguments == [Idle EXCEPT !.provider = p, !.case = c, !.at = clock]
  <2>1. arguments \in CallRows /\ arguments.provider = p /\ arguments.at = clock
        /\ arguments.case = c
    BY <1>1, <1>2 DEF CallRows
  <2>2. StartCall(t, "begin", arguments) /\ case[c].status # "NONE"
    BY <1>4 DEF Decide
  <2> HIDE DEF arguments
  <2> QED BY <2>1, <2>2, StartStep
<1>5. ASSUME NEW c \in Cases, NEW r \in Reviews, Review(t, p, c, r) PROVE IInv'
  <2> DEFINE arguments ==
        [Idle EXCEPT !.provider = p, !.case = c, !.input = r, !.at = clock]
  <2>1. arguments \in CallRows /\ arguments.provider = p /\ arguments.at = clock
        /\ arguments.case = c
    BY <1>1, <1>2 DEF CallRows, Input
  <2>2. StartCall(t, "lockProvider", arguments) /\ case[c].status # "NONE"
    BY <1>5 DEF Review
  <2> HIDE DEF arguments
  <2> QED BY <2>1, <2>2, StartStep
<1>6. ASSUME NEW i \in Input,
             StartCall(t, "lockAdvisory", [Idle EXCEPT !.provider = p, !.input = i, !.at = clock])
      PROVE IInv'
  <2> DEFINE arguments == [Idle EXCEPT !.provider = p, !.input = i, !.at = clock]
  <2>1. arguments \in CallRows /\ arguments.provider = p /\ arguments.at = clock
        /\ arguments.input = i
    BY <1>1, <1>2 DEF CallRows
  <2>2. StartCall(t, "lockAdvisory", arguments)
    BY <1>6
  <2> HIDE DEF arguments
  <2> QED BY <2>1, <2>2, StartStep
<1>7. ASSUME NEW o \in Outages, SourceUnavailable(t, p, o) PROVE IInv'
  BY <1>6, <1>7 DEF SourceUnavailable, Input
<1>8. ASSUME NEW a \in Answers, AuthorityAnswers(t, p, a) PROVE IInv'
  BY <1>6, <1>8 DEF AuthorityAnswers, Input
<1> QED BY <1>3, <1>4, <1>5, <1>7, <1>8

(* BEGIN fixes the date the trusted window is measured from.                *)
LEMMA BeginStep ==
    ASSUME IInv, NEW t \in Calls, Begin(t)
    PROVE  IInv'
<1>1. /\ pc[t] = "begin" /\ pc' = [pc EXCEPT ![t] = "lockProvider"]
      /\ call' = [call EXCEPT ![t].begun = clock] /\ UNCHANGED <<clock, rowVars, lockVars>>
  BY DEF Begin, Goto
<1>2. TypedCalls /\ CallInv(t) /\ clock \in Dates
  BY DEF IInv, RowInv, TypedRows, Dates
<1>3. /\ pc'[t] = "lockProvider" /\ call'[t].provider = call[t].provider
      /\ call'[t].case = call[t].case /\ call'[t].at = call[t].at
  BY <1>1, <1>2 DEF TypedCalls, CallRows
<1>4. TypedCalls' /\ OthersStay(t)
  BY <1>1, <1>2 DEF TypedCalls, CallRows, Running, OthersStay, lockVars
<1>5. CallInv(t)'
  BY <1>1, <1>2, <1>3 DEF CallInv, Called, Holds, NotOlder, NamesCase, Inserts, rowVars,
       ActiveCase, DecidedCases
<1> QED BY <1>1, <1>4, <1>5, QuietStep

(* The provider is locked under a valid policy, or the call is over.        *)
LEMMA LockProviderStep ==
    ASSUME IInv, NEW t \in Calls, LockProvider(t)
    PROVE  IInv'
<1>1. CASE Rollback(t)
  BY <1>1, RollbackStep
<1>2. CASE ~ Rollback(t)
  <2>1. /\ pc[t] = "lockProvider" /\ ValidPolicy(PolicyOf[active])
        /\ providerOwner' = [providerOwner EXCEPT ![call[t].provider] = t]
        /\ call' = [call EXCEPT ![t].version = active]
        /\ pc' = [pc EXCEPT ![t] =
              IF call[t].input = None THEN "preflight" ELSE "recordReview"]
        /\ UNCHANGED <<clock, rowVars, caseOwner, advisoryOwner>>
    BY <1>2 DEF LockProvider, Goto
  <2>2. TypedCalls /\ CallInv(t) /\ active \in Versions
    BY DEF IInv, RowInv, TypedRows
  <2>3. /\ call'[t].provider = call[t].provider /\ call'[t].case = call[t].case
        /\ call'[t].at = call[t].at /\ call'[t].version = active
        /\ call'[t].input = call[t].input
        /\ pc'[t] = IF call[t].input = None THEN "preflight" ELSE "recordReview"
    BY <2>1, <2>2 DEF TypedCalls, CallRows
  <2>4. call[t].input \in Input \cup {None}
    BY <2>2 DEF TypedCalls, CallRows
  <2>5. TypedCalls' /\ OthersStay(t)
    <3>1. providerOwner' \in [Providers -> Calls \cup {None}] /\ pc' \in [Calls -> Running \cup {"idle"}]
      BY <2>1, <2>2 DEF TypedCalls, Running
    <3>2. call' \in [Calls -> CallRows]
      BY <2>1, <2>2 DEF TypedCalls, CallRows
    <3>3. OthersStay(t)
      BY <2>1, <2>2 DEF TypedCalls, OthersStay
    <3> QED BY <2>1, <2>2, <3>1, <3>2, <3>3 DEF TypedCalls
  <2>6. Called(t)'
    BY <2>1, <2>2, <2>3, <2>4 DEF CallInv, Called, NamesCase, Inserts, rowVars
  <2>7. Holds(t)'
    BY <2>1, <2>2, <2>3 DEF Holds
  <2>8. NotOlder(t)'
    BY <2>1, <2>2, <2>3 DEF CallInv, NotOlder, NamesCase, rowVars, ActiveCase, DecidedCases
  <2> QED BY <2>1, <2>5, <2>6, <2>7, <2>8, QuietStep DEF CallInv
<1> QED BY <1>1, <1>2

(* The rows of a case are what the decision asks of a list of checks.       *)
LEMMA RowsAreSound ==
    ASSUME IInv, NEW c \in Cases
    PROVE  CaseChecks(checks[c])
<1>1. recorded \in Nat /\ ChecksRecorded
  BY DEF IInv, RowInv, TypedRows
<1>2. /\ \A k \in checks[c] :
             k.seq \in 1 .. recorded /\ k.checkedAt \in Nat /\ k.validUntil \in Nat \cup {NoDate}
      /\ \A j, k \in checks[c] : j.seq = k.seq => j = k
  BY <1>1 DEF ChecksRecorded, Dates
<1>3. \A k \in checks[c] : k.seq \in Nat /\ k.seq <= recorded
  BY <1>1, <1>2
<1> QED BY <1>1, <1>2, <1>3 DEF CaseChecks

(* The preflight decides on the checks of a case nobody else may change.    *)
LEMMA PreflightStep ==
    ASSUME IInv, NEW t \in Calls, Preflight(t)
    PROVE  IInv'
<1>1. CASE Rollback(t)
  BY <1>1, RollbackStep
<1>2. CASE ~ Rollback(t)
  <2> DEFINE c == call[t].case
             d == decideTierFromRecordedChecks(PolicyOf[call[t].version], checks[c], call[t].at)
  <2>1. /\ pc[t] = "preflight" /\ ActiveCase(c, call[t].provider) /\ caseOwner[c] = None
        /\ caseOwner' = [caseOwner EXCEPT ![c] = t]
        /\ call' = [call EXCEPT ![t].preflight = d]
        /\ pc' = [pc EXCEPT ![t] = "finalize"]
        /\ UNCHANGED <<clock, rowVars, providerOwner, advisoryOwner>>
    BY <1>2 DEF Preflight, Goto, CaseFree
  <2>2. TypedCalls /\ CallInv(t) /\ \A u \in Calls : u # None
    BY RailAssumption DEF IInv
  <2>3. /\ c \in Cases /\ call[t].at \in Nat /\ ValidPolicy(PolicyOf[call[t].version])
        /\ call[t].version \in Versions
    BY <2>1, <2>2 DEF CallInv, Called, Holds, NamesCase
  <2>4. d \in Decisions
    BY <2>3, RowsAreSound, DecisionShape
  <2> HIDE DEF d
  <2>5. /\ call'[t].provider = call[t].provider /\ call'[t].case = c
        /\ call'[t].at = call[t].at /\ call'[t].version = call[t].version
        /\ call'[t].preflight = d /\ pc'[t] = "finalize"
    BY <2>1, <2>2 DEF TypedCalls, CallRows
  <2>6. TypedCalls' /\ OthersStay(t)
    BY <2>1, <2>2, <2>3, <2>4 DEF TypedCalls, CallRows, Running, OthersStay
  <2>7. Called(t)'
    BY <2>1, <2>2, <2>5 DEF CallInv, Called, NamesCase, Inserts, rowVars
  <2>8. caseOwner'[c] = t
    BY <2>1, <2>2, <2>3 DEF TypedCalls
  <2>9. checks' = checks /\ case' = case
    BY <2>1 DEF rowVars
  <2>10. Holds(t)'
    BY <2>1, <2>3, <2>5, <2>8, <2>9 DEF Holds, ActiveCase, d
  <2>11. NotOlder(t)'
    BY <2>1, <2>2, <2>5, <2>9 DEF CallInv, NotOlder, NamesCase, ActiveCase, DecidedCases
  <2> QED BY <2>1, <2>6, <2>7, <2>10, <2>11, QuietStep DEF CallInv
<1> QED BY <1>1, <1>2

(* The advisory lock is taken when nobody has it.                           *)
LEMMA LockAdvisoryStep ==
    ASSUME IInv, NEW t \in Calls, LockAdvisory(t)
    PROVE  IInv'
<1> DEFINE p == call[t].provider
<1>1. /\ pc[t] = "lockAdvisory" /\ advisoryOwner[p] = None
      /\ advisoryOwner' = [advisoryOwner EXCEPT ![p] = t]
      /\ pc' = [pc EXCEPT ![t] = "findCase"]
      /\ UNCHANGED <<clock, rowVars, providerOwner, caseOwner, call>>
  BY DEF LockAdvisory, AdvisoryFree, Goto
<1>2. TypedCalls /\ CallInv(t) /\ \A u \in Calls : u # None
  BY RailAssumption DEF IInv
<1>3. p \in Providers
  BY <1>1, <1>2 DEF CallInv, Called
<1>4. TypedCalls' /\ OthersStay(t) /\ pc'[t] = "findCase" /\ advisoryOwner'[p] = t
  BY <1>1, <1>2, <1>3 DEF TypedCalls, Running, OthersStay
<1>5. CallInv(t)'
  BY <1>1, <1>2, <1>4 DEF CallInv, Called, Holds, NotOlder, NamesCase, Inserts, rowVars
<1> QED BY <1>1, <1>4, <1>5, QuietStep

(***************************************************************************)
(* Statements that record a check                                          *)
(***************************************************************************)
(* The check a call records has the next sequence number and real dates.    *)
LEMMA CheckShape ==
    ASSUME IInv, NEW t \in Calls, pc[t] \in Inserts
    PROVE  /\ Check(t).seq = recorded + 1
           /\ Check(t).checkedAt \in Nat /\ Check(t).validUntil \in Dates
<1>1. CallInv(t)
  BY DEF IInv
<1>2. call[t].at \in Nat /\ call[t].input \in Input
  BY <1>1 DEF CallInv, Called, Inserts
<1>3. call[t].input.validUntil \in Dates
  BY <1>2, RailAssumption DEF Input, Dates
<1> QED BY <1>2, <1>3 DEF Check

(* A new check keeps the sequence numbers of every case apart.              *)
LEMMA InsertedRows ==
    ASSUME IInv, NEW t \in Calls, pc[t] \in Inserts, NEW c \in Cases, InsertCheck(t, c)
    PROVE  /\ recorded' \in Nat /\ checks' = [d \in Cases |-> checks'[d]]
           /\ ChecksRecorded'
           /\ \A d \in Cases \ {c} : checks'[d] = checks[d]
<1> DEFINE k == Check(t)
<1>1. k.seq = recorded + 1 /\ k.checkedAt \in Nat /\ k.validUntil \in Dates
  BY CheckShape
<1>2. recorded \in Nat /\ checks = [d \in Cases |-> checks[d]] /\ ChecksRecorded
  BY DEF IInv, RowInv, TypedRows
<1>3. recorded' = recorded + 1 /\ checks' = [checks EXCEPT ![c] = @ \cup {k}]
  BY DEF InsertCheck
<1> HIDE DEF k
<1>4. checks'[c] = checks[c] \cup {k} /\ \A d \in Cases \ {c} : checks'[d] = checks[d]
  BY <1>2, <1>3
<1>5. checks' = [d \in Cases |-> checks'[d]]
  BY <1>2, <1>3
<1>6. \A d \in Cases : \A j \in checks'[d] :
        j.seq \in 1 .. recorded' /\ j.checkedAt \in Nat /\ j.validUntil \in Dates
  BY <1>1, <1>2, <1>3, <1>4 DEF ChecksRecorded
<1>7. \A d \in Cases : \A i, j \in checks'[d] : i.seq = j.seq => i = j
  BY <1>1, <1>2, <1>3, <1>4 DEF ChecksRecorded
<1> QED BY <1>2, <1>3, <1>4, <1>5, <1>6, <1>7 DEF ChecksRecorded

(* A check recorded in a case in review that nobody else has locked keeps   *)
(* the invariant: no decision was made on the case, none is being made.     *)
LEMMA RecordStep ==
    ASSUME IInv, NEW t \in Calls, pc[t] \in Inserts, NEW c \in Cases,
           case[c].status = "REVIEW_REQUIRED", CaseFree(c), InsertCheck(t, c), EndCall(t),
           UNCHANGED <<active, provider, case>>
    PROVE  IInv'
<1>1. TypedCalls' /\ OthersStay(t) /\ CallInv(t)'
  BY EndCallEffect
<1>2. /\ recorded' \in Nat /\ checks' = [d \in Cases |-> checks'[d]] /\ ChecksRecorded'
      /\ \A d \in Cases \ {c} : checks'[d] = checks[d]
  BY InsertedRows
<1>3. clock' = clock
  BY <1>1 DEF OthersStay
<1>4. TypedRows' /\ FullTiersExpire' /\ OneActive' /\ DecidedBefore' /\ TierFollowsDecisions'
  BY <1>2, <1>3 DEF IInv, RowInv, TypedRows, FullTiersExpire, OneActive, DecidedBefore,
       TierFollowsDecisions, DecidedCases, ActiveCase
<1>5. DecisionReproducible'
  BY <1>2 DEF IInv, RowInv, DecisionReproducible
<1>6. ASSUME NEW u \in Calls, u # t PROVE CallInv(u)'
  <2>1. NotOlder(u)'
    BY <1>1, <1>6 DEF OthersStay, IInv, CallInv, NotOlder, ActiveCase, DecidedCases
  <2>2. \A d \in Cases : caseOwner[d] = u => checks'[d] = checks[d]
    BY <1>2, RailAssumption DEF CaseFree
  <2> QED BY <1>1, <1>6, <2>1, <2>2, OtherCallKeeps DEF ActiveCase
<1> QED BY <1>1, <1>2, <1>4, <1>5, <1>6 DEF IInv, RowInv

(* A manual review.                                                         *)
LEMMA RecordReviewStep ==
    ASSUME IInv, NEW t \in Calls, RecordReview(t)
    PROVE  IInv'
<1>1. CASE Rollback(t)
  BY <1>1, RollbackStep
<1>2. CASE ~ Rollback(t)
  <2>1. /\ pc[t] = "recordReview" /\ ActiveCase(call[t].case, call[t].provider)
        /\ CaseFree(call[t].case) /\ InsertCheck(t, call[t].case) /\ EndCall(t)
        /\ UNCHANGED <<active, provider, case>>
    BY <1>2 DEF RecordReview
  <2>2. call[t].case \in Cases
    BY <2>1 DEF IInv, CallInv, Called, NamesCase
  <2> QED BY <2>1, <2>2, RecordStep DEF ActiveCase, Inserts
<1> QED BY <1>1, <1>2

(* A source check of a provider with or without a case in review.           *)
LEMMA FindCaseStep ==
    ASSUME IInv, NEW t \in Calls, FindCase(t)
    PROVE  IInv'
<1>1. pc[t] = "findCase" /\ TypedCalls /\ CallInv(t)
  BY DEF FindCase, IInv
<1>2. CASE \E c \in Cases : ActiveCase(c, call[t].provider)
  <2>1. PICK c \in Cases : /\ ActiveCase(c, call[t].provider) /\ CaseFree(c)
                           /\ InsertCheck(t, c) /\ EndCall(t)
                           /\ UNCHANGED <<active, provider, case>>
    BY <1>2 DEF FindCase
  <2> QED BY <1>1, <2>1, RecordStep DEF ActiveCase, Inserts
<1>3. CASE ~ \E c \in Cases : ActiveCase(c, call[t].provider)
  <2>1. /\ pc' = [pc EXCEPT ![t] = "createCase"]
        /\ UNCHANGED <<clock, rowVars, lockVars, call>>
    BY <1>3 DEF FindCase, Goto
  <2>2. TypedCalls' /\ OthersStay(t) /\ pc'[t] = "createCase"
    BY <1>1, <2>1 DEF TypedCalls, Running, OthersStay, lockVars
  <2>3. CallInv(t)'
    BY <1>1, <1>3, <2>1, <2>2 DEF CallInv, Called, Holds, NotOlder, NamesCase, Inserts, rowVars,
         lockVars, ActiveCase
  <2> QED BY <2>1, <2>2, <2>3, QuietStep
<1> QED BY <1>2, <1>3

(***************************************************************************)
(* Statements that change a case or a provider                             *)
(***************************************************************************)
(* The new case is the only one in review: its creator holds the advisory   *)
(* lock, found none, and the others who open cases need that lock too.      *)
LEMMA CreateCaseStep ==
    ASSUME IInv, NEW t \in Calls, CreateCase(t)
    PROVE  IInv'
<1> DEFINE p == call[t].provider
<1>1. pc[t] = "createCase" /\ CallInv(t) /\ RowInv /\ TypedCalls
  BY DEF CreateCase, IInv
<1>2. p \in Providers /\ advisoryOwner[p] = t /\ ~ \E c \in Cases : ActiveCase(c, p)
  BY <1>1 DEF CallInv, Called, Holds
<1>3. CASE Rollback(t)
  BY <1>3, RollbackStep
<1>4. CASE ~ Rollback(t)
  <2>1. PICK c \in Cases :
          /\ case[c].status = "NONE"
          /\ case' = [case EXCEPT ![c] = [@ EXCEPT !.provider = p, !.status = "REVIEW_REQUIRED"]]
          /\ InsertCheck(t, c) /\ EndCall(t) /\ UNCHANGED <<active, provider>>
    BY <1>4 DEF CreateCase
  <2>2. TypedCalls' /\ OthersStay(t) /\ CallInv(t)'
    BY <2>1, EndCallEffect
  <2>3. /\ recorded' \in Nat /\ checks' = [d \in Cases |-> checks'[d]] /\ ChecksRecorded'
        /\ \A d \in Cases \ {c} : checks'[d] = checks[d]
    BY <1>1, <2>1, InsertedRows DEF Inserts
  <2>4. /\ case' \in [Cases -> CaseRows]
        /\ case'[c].provider = p /\ case'[c].status = "REVIEW_REQUIRED"
        /\ \A d \in Cases \ {c} : case'[d] = case[d]
    BY <1>1, <1>2, <2>1 DEF RowInv, TypedRows, CaseRows
  <2>5. clock' = clock
    BY <2>2 DEF OthersStay
  <2>6. \A q \in Providers : DecidedCases(q)' = DecidedCases(q)
    BY <2>1, <2>4 DEF DecidedCases
  <2>7. TypedRows' /\ FullTiersExpire' /\ DecidedBefore' /\ DecisionReproducible'
    BY <1>1, <2>1, <2>3, <2>4, <2>5 DEF RowInv, TypedRows, FullTiersExpire, DecidedBefore,
         DecisionReproducible
  <2>8. OneActive'
    BY <1>1, <1>2, <2>4 DEF RowInv, OneActive, ActiveCase
  <2>9. TierFollowsDecisions'
    <3>1. \A q \in Providers : \A e \in DecidedCases(q) : case'[e] = case[e] /\ e \in Cases
      BY <2>1, <2>4 DEF DecidedCases
    <3> QED BY <1>1, <2>1, <2>6, <3>1 DEF RowInv, TierFollowsDecisions
  <2>10. ASSUME NEW u \in Calls, u # t PROVE CallInv(u)'
    <3>1. pc'[u] = pc[u] /\ call'[u] = call[u] /\ CallInv(u)
      BY <2>2, <2>10 DEF OthersStay, IInv
    <3>2. NotOlder(u)'
      <4>1. pc[u] \in NamesCase => call[u].case \in Cases \ {c} /\ call[u].provider \in Providers
        BY <2>1, <3>1 DEF CallInv, Called, NamesCase
      <4>2. \A q \in Providers : \A e \in DecidedCases(q) : case'[e] = case[e]
        BY <2>1, <2>4 DEF DecidedCases
      <4> QED BY <2>4, <2>6, <3>1, <4>1, <4>2 DEF CallInv, NotOlder, ActiveCase
    <3>3. \A d \in Cases : case[d].status # "NONE" => case'[d].status # "NONE"
      BY <2>1, <2>4
    <3>4. \A d \in Cases : case[d].status # "NONE" => d # c
      BY <2>1
    <3> QED BY <2>2, <2>3, <2>4, <2>10, <3>2, <3>3, <3>4, <1>2, OtherCallKeeps DEF ActiveCase
  <2> QED BY <2>2, <2>3, <2>7, <2>8, <2>9, <2>10 DEF IInv, RowInv
<1> QED BY <1>3, <1>4

(* The decision closes the case: it is the newest of its provider, because  *)
(* the other cases were decided before it was asked for, and no call with   *)
(* an earlier date can decide this provider again without a new case.       *)
LEMMA FinalizeStep ==
    ASSUME IInv, NEW t \in Calls, Finalize(t)
    PROVE  IInv'
<1>1. pc[t] = "finalize" /\ CallInv(t) /\ RowInv /\ TypedCalls
  BY DEF Finalize, IInv
<1>2. PICK c \in Cases, p \in Providers : c = call[t].case /\ p = call[t].provider
  BY <1>1 DEF CallInv, Called, NamesCase
<1>3. /\ call[t].at \in Nat /\ call[t].at <= clock
      /\ caseOwner[c] = t /\ ActiveCase(c, p)
      /\ call[t].version \in Versions /\ ValidPolicy(PolicyOf[call[t].version])
      /\ call[t].preflight =
            decideTierFromRecordedChecks(PolicyOf[call[t].version], checks[c], call[t].at)
      /\ \A e \in DecidedCases(p) : case[e].decidedAt <= call[t].at
  BY <1>2, <1>1 DEF CallInv, Called, Holds, NotOlder, NamesCase
<1> DEFINE d == finalizeOutcome(PolicyOf[active], checks[c], call[t].at)
<1>4. CASE Rollback(t)
  BY <1>4, RollbackStep
<1>5. CASE ~ Rollback(t)
  <2>1. /\ active = call[t].version /\ d = call[t].preflight
        /\ case' = [case EXCEPT ![c] =
              [@ EXCEPT !.status = "DECIDED", !.decision = d,
                        !.decidedAt = call[t].at, !.version = active]]
        /\ provider' = [provider EXCEPT ![p] = DecidedTier(t, d)]
        /\ EndCall(t) /\ UNCHANGED <<active, checks, recorded>>
    BY <1>2, <1>5 DEF Finalize
  <2>2. d \in Decisions /\ (d.tier = "FULLY_VERIFIED" => d.expiry \in Nat /\ d.expiry > call[t].at)
    BY <1>3, <2>1, RowsAreSound, DecisionShape
  <2>3. TypedCalls' /\ OthersStay(t) /\ CallInv(t)'
    BY <2>1, EndCallEffect
  <2>4. clock' = clock
    BY <2>3 DEF OthersStay
  <2>5. finalizeOutcome(PolicyOf[active], checks[c], call[t].at) = d
    OBVIOUS
  <2> HIDE DEF d
  <2>6. /\ case' \in [Cases -> CaseRows]
        /\ case'[c].provider = p /\ case'[c].status = "DECIDED" /\ case'[c].decision = d
        /\ case'[c].decidedAt = call[t].at /\ case'[c].version = active
        /\ \A e \in Cases \ {c} : case'[e] = case[e]
    BY <1>1, <1>3, <2>1, <2>2 DEF RowInv, TypedRows, CaseRows, Dates, ActiveCase
  <2>7. /\ provider' \in [Providers -> [tier : Tiers, decidedAt : Dates, expiresAt : Dates]]
        /\ provider'[p].tier = d.tier /\ provider'[p].decidedAt = call[t].at
        /\ provider'[p].expiresAt = d.expiry
        /\ \A q \in Providers \ {p} : provider'[q] = provider[q]
    BY <1>1, <1>3, <2>1, <2>2 DEF RowInv, TypedRows, DecidedTier, Decisions, Tiers, Dates
  <2>8. TypedRows' /\ ChecksRecorded'
    BY <1>1, <2>1, <2>4, <2>6, <2>7 DEF RowInv, TypedRows, ChecksRecorded
  <2>9. FullTiersExpire'
    BY <1>1, <2>2, <2>7 DEF RowInv, FullTiersExpire
  <2>10. OneActive'
    BY <1>1, <2>6 DEF RowInv, OneActive, ActiveCase
  <2>11. DecidedBefore'
    BY <1>1, <1>3, <2>1, <2>4, <2>6 DEF RowInv, DecidedBefore
  <2>12. DecisionReproducible'
    BY <1>1, <2>1, <2>5, <2>6 DEF RowInv, DecisionReproducible
  <2>13. /\ c \notin DecidedCases(p) /\ DecidedCases(p)' = DecidedCases(p) \cup {c}
         /\ \A q \in Providers \ {p} : DecidedCases(q)' = DecidedCases(q)
         /\ \A q \in Providers : \A e \in DecidedCases(q) : case'[e] = case[e]
    <3>1. \A q \in Providers : c \notin DecidedCases(q)
      BY <1>3 DEF DecidedCases, ActiveCase
    <3>2. \A q \in Providers : \A e \in Cases \ {c} :
            e \in DecidedCases(q)' <=> e \in DecidedCases(q)
      BY <2>6 DEF DecidedCases
    <3>3. \A q \in Providers : c \in DecidedCases(q)' <=> q = p
      BY <1>3, <2>6 DEF DecidedCases
    <3>4. \A q \in Providers : DecidedCases(q)' \subseteq Cases /\ DecidedCases(q) \subseteq Cases
      BY DEF DecidedCases
    <3>5. DecidedCases(p)' = DecidedCases(p) \cup {c}
      BY <1>3, <3>2, <3>3, <3>4
    <3>6. ASSUME NEW q \in Providers \ {p} PROVE DecidedCases(q)' = DecidedCases(q)
      BY <3>1, <3>2, <3>3, <3>4, <3>6
    <3>7. \A q \in Providers : \A e \in DecidedCases(q) : case'[e] = case[e]
      BY <2>6, <3>1, <3>4
    <3> QED BY <1>3, <3>1, <3>5, <3>6, <3>7
  <2>14. TierFollowsDecisions'
    <3> SUFFICES ASSUME NEW q \in Providers
                 PROVE  IF DecidedCases(q)' = {}
                        THEN provider'[q].tier = "SELF_DECLARED"
                        ELSE \E b \in DecidedCases(q)' :
                                /\ \A e \in DecidedCases(q)' : case'[e].decidedAt <= case'[b].decidedAt
                                /\ \/ /\ provider'[q].tier = case'[b].decision.tier
                                      /\ provider'[q].decidedAt = case'[b].decidedAt
                                      /\ provider'[q].expiresAt = case'[b].decision.expiry
                                   \/ /\ case'[b].decision.tier = "FULLY_VERIFIED"
                                      /\ provider'[q].tier = "DOCUMENT_VERIFIED"
                                      /\ case'[b].decision.expiry <= provider'[q].decidedAt
      BY DEF TierFollowsDecisions
    <3>1. CASE q = p
      <4>1. \A e \in DecidedCases(p)' : case'[e].decidedAt <= case'[c].decidedAt
        <5>1. case'[c].decidedAt = call[t].at /\ call[t].at <= call[t].at
          BY <1>3, <2>6
        <5> QED BY <1>3, <2>13, <5>1
      <4> QED BY <3>1, <4>1, <2>6, <2>7, <2>13
    <3>2. CASE q # p
      BY <1>1, <2>7, <2>13, <3>2 DEF RowInv, TierFollowsDecisions
    <3> QED BY <3>1, <3>2
  <2>15. ASSUME NEW u \in Calls, u # t PROVE CallInv(u)'
    <3>1. pc'[u] = pc[u] /\ call'[u] = call[u] /\ CallInv(u)
      BY <2>3, <2>15 DEF OthersStay, IInv
    <3>2. NotOlder(u)'
      <4> SUFFICES ASSUME pc[u] \in NamesCase,
                          case'[call[u].case].provider = call[u].provider,
                          case'[call[u].case].status = "REVIEW_REQUIRED"
                   PROVE  \A e \in DecidedCases(call[u].provider)' : case'[e].decidedAt <= call[u].at
        BY <3>1 DEF NotOlder, ActiveCase
      <4>1. call[u].case \in Cases \ {c} /\ call[u].provider \in Providers
        BY <2>6, <3>1 DEF CallInv, Called, NamesCase
      <4>2. ActiveCase(call[u].case, call[u].provider)
        BY <2>6, <4>1 DEF ActiveCase
      <4>3. call[u].provider # p
        BY <1>1, <1>3, <4>1, <4>2 DEF RowInv, OneActive
      <4> QED BY <2>13, <3>1, <4>1, <4>2, <4>3 DEF CallInv, NotOlder
    <3>3. \A e \in Cases : case[e].status # "NONE" => case'[e].status # "NONE"
      BY <2>6
    <3>4. \A e \in Cases : caseOwner[e] = u => e # c
      BY <1>3, <2>15
    <3> QED BY <2>1, <2>3, <2>6, <2>15, <3>2, <3>3, <3>4, OtherCallKeeps DEF ActiveCase
  <2> QED BY <2>3, <2>8, <2>9, <2>10, <2>11, <2>12, <2>14, <2>15 DEF IInv, RowInv
<1> QED BY <1>4, <1>5

(***************************************************************************)
(* The worker, the registry and time                                       *)
(***************************************************************************)
(* What a call knows does not depend on tiers or on the active policy.      *)
LEMMA CallsStay ==
    ASSUME IInv, UNCHANGED <<clock, case, checks, lockVars, pc, call>>
    PROVE  TypedCalls' /\ \A t \in Calls : CallInv(t)'
BY DEF IInv, TypedCalls, CallInv, Called, Holds, NotOlder, ActiveCase, DecidedCases, lockVars

(* The worker takes away what expired: the second case of the property.     *)
LEMMA RevalidateStep ==
    ASSUME IInv, Revalidate
    PROVE  IInv'
<1>1. PICK batch \in SUBSET {p \in Providers : Expired(p)} :
        /\ provider' = [p \in Providers |-> IF p \in batch
              THEN [tier |-> "DOCUMENT_VERIFIED", decidedAt |-> clock, expiresAt |-> NoDate]
              ELSE provider[p]]
        /\ UNCHANGED <<clock, active, case, checks, recorded, lockVars, pc, call>>
  BY DEF Revalidate
<1>2. TypedCalls' /\ \A t \in Calls : CallInv(t)'
  BY <1>1, CallsStay
<1>3. RowInv
  BY DEF IInv
<1>4. TypedRows'
  BY <1>1, <1>3 DEF RowInv, TypedRows, Tiers, Dates
<1>5. FullTiersExpire'
  BY <1>1, <1>3 DEF RowInv, FullTiersExpire
<1>6. ChecksRecorded' /\ OneActive' /\ DecidedBefore' /\ DecisionReproducible'
  BY <1>1, <1>3 DEF RowInv, ChecksRecorded, OneActive, DecidedBefore, DecisionReproducible,
       ActiveCase
<1>7. TierFollowsDecisions'
  <2> SUFFICES ASSUME NEW p \in Providers
               PROVE  IF DecidedCases(p) = {}
                      THEN provider'[p].tier = "SELF_DECLARED"
                      ELSE \E c \in DecidedCases(p) :
                              /\ \A e \in DecidedCases(p) : case[e].decidedAt <= case[c].decidedAt
                              /\ \/ /\ provider'[p].tier = case[c].decision.tier
                                    /\ provider'[p].decidedAt = case[c].decidedAt
                                    /\ provider'[p].expiresAt = case[c].decision.expiry
                                 \/ /\ case[c].decision.tier = "FULLY_VERIFIED"
                                    /\ provider'[p].tier = "DOCUMENT_VERIFIED"
                                    /\ case[c].decision.expiry <= provider'[p].decidedAt
    BY <1>1 DEF TierFollowsDecisions, DecidedCases
  <2>1. CASE p \in batch
    <3>1. provider[p].tier = "FULLY_VERIFIED" /\ provider[p].expiresAt <= clock
      BY <2>1, <1>1 DEF Expired
    <3>2. provider'[p].tier = "DOCUMENT_VERIFIED" /\ provider'[p].decidedAt = clock
      BY <2>1, <1>1
    <3>3. DecidedCases(p) # {}
      BY <1>3, <3>1 DEF RowInv, TierFollowsDecisions
    <3>4. PICK c \in DecidedCases(p) :
            /\ \A e \in DecidedCases(p) : case[e].decidedAt <= case[c].decidedAt
            /\ provider[p].tier = case[c].decision.tier
            /\ provider[p].expiresAt = case[c].decision.expiry
      BY <1>3, <3>1, <3>3 DEF RowInv, TierFollowsDecisions
    <3> QED BY <3>1, <3>2, <3>3, <3>4
  <2>2. CASE p \notin batch
    <3>1. provider'[p] = provider[p]
      BY <2>2, <1>1
    <3> QED BY <3>1, <1>3 DEF RowInv, TierFollowsDecisions
  <2> QED BY <2>1, <2>2
<1> QED BY <1>2, <1>4, <1>5, <1>6, <1>7 DEF IInv, RowInv

(* Another policy concerns no row and no call that is running.              *)
LEMMA ActivatePolicyStep ==
    ASSUME IInv, NEW v \in Versions, ActivatePolicy(v)
    PROVE  IInv'
<1>1. active' = v /\ UNCHANGED <<clock, provider, case, checks, recorded, lockVars, pc, call>>
  BY DEF ActivatePolicy
<1>2. TypedCalls' /\ \A t \in Calls : CallInv(t)'
  BY <1>1, CallsStay
<1>3. RowInv'
  BY <1>1 DEF IInv, RowInv, TypedRows, FullTiersExpire, ChecksRecorded, OneActive, DecidedBefore,
       DecisionReproducible, TierFollowsDecisions, ActiveCase, DecidedCases
<1> QED BY <1>2, <1>3 DEF IInv

(* Time only makes the dates of calls and decisions older.                  *)
LEMMA TickStep ==
    ASSUME IInv, Tick
    PROVE  IInv'
<1>1. clock' = clock + 1 /\ UNCHANGED <<rowVars, lockVars, pc, call>> /\ clock \in Nat
  BY DEF Tick, IInv, RowInv, TypedRows
<1>2. TypedCalls'
  BY <1>1 DEF IInv, TypedCalls, lockVars
<1>3. ASSUME NEW t \in Calls PROVE CallInv(t)'
  <2>1. CallInv(t)
    BY DEF IInv
  <2>2. Called(t)'
    BY <1>1, <2>1 DEF CallInv, Called, rowVars
  <2>3. Holds(t)' /\ NotOlder(t)'
    BY <1>1, <2>1 DEF CallInv, Holds, NotOlder, ActiveCase, DecidedCases, rowVars, lockVars
  <2> QED BY <2>2, <2>3 DEF CallInv
<1>4. DecidedBefore'
  BY <1>1 DEF IInv, RowInv, DecidedBefore, rowVars
<1>5. TypedRows' /\ FullTiersExpire' /\ ChecksRecorded' /\ OneActive' /\ DecisionReproducible'
      /\ TierFollowsDecisions'
  BY <1>1 DEF IInv, RowInv, TypedRows, FullTiersExpire, ChecksRecorded, OneActive,
       DecisionReproducible, TierFollowsDecisions, ActiveCase, DecidedCases, rowVars
<1> QED BY <1>2, <1>3, <1>4, <1>5 DEF IInv, RowInv

(***************************************************************************)
(* The invariant                                                           *)
(***************************************************************************)
LEMMA InitIsSound ==
    ASSUME Init
    PROVE  IInv
<1>1. Idle \in CallRows /\ Unborn \in CaseRows
  BY DEF Idle, Unborn, CallRows, CaseRows, NoDecision, NotFull, Decision, Decisions, Reasons, Dates
<1>2. TypedRows /\ TypedCalls
  BY <1>1 DEF Init, TypedRows, TypedCalls, Tiers, Dates
<1>3. \A c \in Cases : case[c].status = "NONE" /\ checks[c] = {}
  BY DEF Init, Unborn
<1>4. \A p \in Providers : provider[p].tier = "SELF_DECLARED" /\ DecidedCases(p) = {}
  BY <1>3 DEF Init, DecidedCases
<1>5. FullTiersExpire /\ ChecksRecorded /\ OneActive /\ DecidedBefore /\ DecisionReproducible
      /\ TierFollowsDecisions
  BY <1>3, <1>4 DEF FullTiersExpire, ChecksRecorded, OneActive, DecidedBefore,
       DecisionReproducible, TierFollowsDecisions, ActiveCase
<1>6. \A t \in Calls : CallInv(t)
  BY DEF Init, CallInv, Called, Holds, NotOlder, NamesCase
<1> QED BY <1>2, <1>5, <1>6 DEF IInv, RowInv

LEMMA StepKeepsInvariant ==
    ASSUME IInv, [Next]_vars
    PROVE  IInv'
<1>1. CASE UNCHANGED vars
  <2>1. TypedCalls' /\ \A t \in Calls : CallInv(t)'
    BY <1>1, CallsStay DEF vars, rowVars
  <2>2. RowInv'
    BY <1>1 DEF vars, rowVars, IInv, RowInv, TypedRows, FullTiersExpire, ChecksRecorded,
         OneActive, DecidedBefore, DecisionReproducible, TierFollowsDecisions, ActiveCase,
         DecidedCases
  <2> QED BY <2>1, <2>2 DEF IInv
<1>2. ASSUME NEW t \in Calls, Start(t) PROVE IInv'
  BY <1>2, StartsKeep
<1>3. ASSUME NEW t \in Calls, Statement(t) PROVE IInv'
  BY <1>3, BeginStep, LockProviderStep, RecordReviewStep, PreflightStep, FinalizeStep,
     LockAdvisoryStep, FindCaseStep, CreateCaseStep DEF Statement
<1>4. ASSUME NEW t \in Calls, Abort(t) PROVE IInv'
  BY <1>4, RollbackStep DEF Abort
<1>5. CASE Revalidate
  BY <1>5, RevalidateStep
<1>6. CASE Tick
  BY <1>6, TickStep
<1>7. ASSUME NEW v \in Versions, ActivatePolicy(v) PROVE IInv'
  BY <1>7, ActivatePolicyStep
<1> QED BY <1>1, <1>2, <1>3, <1>4, <1>5, <1>6, <1>7 DEF Next

LEMMA Invariance == Spec => []IInv
BY InitIsSound, StepKeepsInvariant, PTL DEF Spec

(***************************************************************************)
(* What the runs check, for every value of the constants                   *)
(***************************************************************************)
(* Type correctness of the rail, with provider_fully_verified_expiry_check. *)
THEOREM TypeCorrect == Spec => []TypeOK
<1>1. IInv => TypeOK
  BY DEF IInv, RowInv, TypedRows, TypedCalls, FullTiersExpire, ChecksRecorded, TypeOK,
     CaseRows, CallRows
<1> QED BY <1>1, Invariance, PTL

(* Find-or-create under the advisory lock never meets the unique index      *)
(* (find-or-create-review-case.ts), however many calls race.                *)
THEOREM CreationSucceeds == Spec => []CreationNeverRefused
<1>1. IInv => CreationNeverRefused
  BY DEF IInv, CallInv, Holds, CreationNeverRefused
<1> QED BY <1>1, Invariance, PTL

(* What the preflight of finalizeCredentialDecision decided is what the     *)
(* database decides, unless the active policy changed in between.           *)
THEOREM PreflightStands == Spec => []PreflightHolds
<1>1. ASSUME IInv PROVE PreflightHolds
  <2> SUFFICES ASSUME NEW t \in Calls, pc[t] = "finalize"
               PROVE  /\ ActiveCase(call[t].case, call[t].provider)
                      /\ call[t].preflight = finalizeOutcome(PolicyOf[call[t].version],
                                                checks[call[t].case], call[t].at)
    BY DEF PreflightHolds
  <2>1. CallInv(t)
    BY <1>1 DEF IInv
  <2>2. /\ call[t].case \in Cases /\ call[t].at \in Nat
        /\ ValidPolicy(PolicyOf[call[t].version])
    BY <2>1 DEF CallInv, Called, Holds, NamesCase
  <2>3. Agree(PolicyOf[call[t].version], checks[call[t].case], call[t].at)
    BY <1>1, <2>2, RowsAreSound, PreflightAgreement
  <2> QED BY <2>1, <2>3 DEF CallInv, Holds, Agree
<1> QED BY <1>1, Invariance, PTL

(* The evidence and the policy stored with a decision reproduce it.         *)
THEOREM DecisionsReproducible == Spec => []DecisionReproducible
<1>1. IInv => DecisionReproducible
  BY DEF IInv, RowInv
<1> QED BY <1>1, Invariance, PTL

(* The tier of a provider is that of its newest decision or what the worker *)
(* left of it, whatever the calls raced.                                    *)
THEOREM TiersFollowDecisions == Spec => []TierFollowsDecisions
<1>1. IInv => TierFollowsDecisions
  BY DEF IInv, RowInv
<1> QED BY <1>1, Invariance, PTL

(* A full tier a directory shows now is earned now: the decision it rests   *)
(* on, made again on the same evidence, is full again.                      *)
THEOREM ShownTiersEarned == Spec => []ShownTierEarned
<1>1. ASSUME IInv PROVE ShownTierEarned
  <2> SUFFICES ASSUME NEW p \in Providers, provider[p].tier = "FULLY_VERIFIED",
                      provider[p].expiresAt > clock
               PROVE  \E c \in DecidedCases(p) :
                         decideTierFromRecordedChecks(PolicyOf[case[c].version],
                             Live(checks[c], case[c].decidedAt), clock).tier = "FULLY_VERIFIED"
    BY DEF ShownTierEarned
  <2>1. RowInv
    BY <1>1 DEF IInv
  <2>2. DecidedCases(p) # {}
    BY <2>1 DEF RowInv, TierFollowsDecisions
  <2>3. PICK c \in DecidedCases(p) :
          /\ provider[p].tier = case[c].decision.tier
          /\ provider[p].expiresAt = case[c].decision.expiry
    BY <2>1, <2>2 DEF RowInv, TierFollowsDecisions
  <2> DEFINE policy == PolicyOf[case[c].version]
             at == case[c].decidedAt
  <2>4. /\ c \in Cases /\ case[c].status = "DECIDED" /\ at \in Nat /\ at <= clock
        /\ ValidPolicy(policy) /\ clock \in Nat
        /\ case[c].decision = finalizeOutcome(policy, checks[c], at)
    BY <2>1 DEF RowInv, TypedRows, DecidedBefore, DecisionReproducible, DecidedCases
  <2>5. CaseChecks(checks[c])
    BY <1>1, <2>4, RowsAreSound
  <2> HIDE DEF policy, at
  <2>6. decideTierFromRecordedChecks(policy, checks[c], at) = case[c].decision
    BY <2>4, <2>5, PreflightAgreement DEF Agree
  <2>7. decideTierFromRecordedChecks(policy, Live(checks[c], at), at) = case[c].decision
    BY <2>6, OnlyLiveCount
  <2>8. /\ case[c].decision.tier = "FULLY_VERIFIED" /\ case[c].decision.expiry \in Nat
        /\ clock < case[c].decision.expiry
    BY <2>1, <2>3, <2>4 DEF RowInv, FullTiersExpire
  <2>9. FullUntilExpiry(policy, checks[c], at)
    BY <2>4, <2>5, ExpirySafety
  <2>10. clock \in at .. (case[c].decision.expiry - 1)
    BY <2>4, <2>8
  <2>11. decideTierFromRecordedChecks(policy, Live(checks[c], at), clock).tier = "FULLY_VERIFIED"
    BY <2>7, <2>8, <2>9, <2>10 DEF FullUntilExpiry
  <2> QED BY <2>11 DEF policy, at
<1> QED BY <1>1, Invariance, PTL

(* A check goes to a case in review, never to a decided one.                *)
LEMMA InsertLeavesDecided ==
    ASSUME IInv, NEW t \in Calls, NEW c \in Cases, InsertCheck(t, c),
           case[c].status # "DECIDED"
    PROVE  \A e \in Cases : case[e].status = "DECIDED" => checks'[e] = checks[e]
BY DEF InsertCheck, IInv, RowInv, TypedRows

(* No step changes a decided case or the checks it was decided on           *)
(* (migration 004:126-147).                                                 *)
THEOREM DecisionsFinal == Spec => DecisionsStand
<1> DEFINE Stand == \A c \in Cases : case[c].status = "DECIDED" =>
                       case'[c] = case[c] /\ checks'[c] = checks[c]
<1>1. ASSUME IInv, Next PROVE Stand
  <2>1. ASSUME NEW t \in Calls, Start(t) PROVE Stand
    BY <2>1 DEF Start, Decide, Review, SourceUnavailable, AuthorityAnswers, StartCall, rowVars
  <2>2. ASSUME NEW t \in Calls, Rollback(t) PROVE Stand
    BY <2>2 DEF Rollback, rowVars
  <2>3. ASSUME NEW t \in Calls,
               Begin(t) \/ LockProvider(t) \/ Preflight(t) \/ LockAdvisory(t)
        PROVE  Stand
    BY <2>2, <2>3 DEF Begin, LockProvider, Preflight, LockAdvisory, rowVars
  <2>4. ASSUME NEW t \in Calls, RecordReview(t) PROVE Stand
    <3>1. CASE ~ Rollback(t)
      <4>1. call[t].case \in Cases
        BY <1>1, <2>4 DEF RecordReview, IInv, CallInv, Called, NamesCase
      <4> QED BY <1>1, <2>4, <3>1, <4>1, InsertLeavesDecided DEF RecordReview, ActiveCase
    <3> QED BY <2>2, <3>1
  <2>5. ASSUME NEW t \in Calls, FindCase(t) PROVE Stand
    BY <1>1, <2>5, InsertLeavesDecided DEF FindCase, ActiveCase, rowVars
  <2>6. ASSUME NEW t \in Calls, CreateCase(t) PROVE Stand
    <3>1. CASE ~ Rollback(t)
      <4>1. PICK c \in Cases :
              /\ case[c].status = "NONE" /\ InsertCheck(t, c)
              /\ case' = [case EXCEPT ![c] =
                    [@ EXCEPT !.provider = call[t].provider, !.status = "REVIEW_REQUIRED"]]
        BY <2>6, <3>1 DEF CreateCase
      <4>2. \A e \in Cases \ {c} : case'[e] = case[e]
        BY <1>1, <4>1 DEF IInv, RowInv, TypedRows
      <4> QED BY <1>1, <4>1, <4>2, InsertLeavesDecided
    <3> QED BY <2>2, <3>1
  <2>7. ASSUME NEW t \in Calls, Finalize(t) PROVE Stand
    <3>1. CASE ~ Rollback(t)
      <4>1. /\ checks' = checks /\ case[call[t].case].status # "DECIDED"
            /\ \A e \in Cases \ {call[t].case} : case'[e] = case[e]
        BY <1>1, <2>7, <3>1 DEF Finalize, ActiveCase, IInv, RowInv, TypedRows
      <4> QED BY <4>1
    <3> QED BY <2>2, <3>1
  <2>8. ASSUME Revalidate \/ Tick \/ \E v \in Versions : ActivatePolicy(v) PROVE Stand
    BY <2>8 DEF Revalidate, Tick, ActivatePolicy, rowVars
  <2> QED BY <1>1, <2>1, <2>2, <2>3, <2>4, <2>5, <2>6, <2>7, <2>8 DEF Next, Statement, Abort
<1>2. ASSUME UNCHANGED vars PROVE Stand
  BY <1>2 DEF vars, rowVars
<1>3. IInv /\ [Next]_vars => [Stand]_vars
  BY <1>1, <1>2
<1> QED BY <1>3, Invariance, PTL DEF Spec, DecisionsStand

(***************************************************************************)
(* No circle of waits                                                      *)
(***************************************************************************)
(* A lock is held by a call that is past the statement that takes it.       *)
HoldsFor(u) ==
    /\ \A p \in Providers : providerOwner[p] = u =>
          call[u].provider = p /\ pc[u] \in {"recordReview", "preflight", "finalize"}
    /\ \A c \in Cases : caseOwner[c] = u => pc[u] = "finalize"
    /\ \A p \in Providers : advisoryOwner[p] = u =>
          call[u].provider = p /\ pc[u] \in {"findCase", "createCase"}

LockInv == \A u \in Calls : HoldsFor(u)

(* Call t does not move before call u has released a row or the advisory    *)
(* lock.  The worker skips locked rows and waits for nobody.                *)
WaitsFor(t, u) ==
    \/ pc[t] \in {"lockProvider", "createCase"} /\ providerOwner[call[t].provider] = u
    \/ /\ pc[t] \in {"recordReview", "preflight"}
       /\ call[t].case \in Cases /\ caseOwner[call[t].case] = u
    \/ pc[t] = "lockAdvisory" /\ advisoryOwner[call[t].provider] = u
    \/ /\ pc[t] = "findCase"
       /\ \E c \in Cases : ActiveCase(c, call[t].provider) /\ caseOwner[c] = u

NothingLeftLocked ==
    \A u \in Calls : pc[u] = "idle" =>
        /\ \A p \in Providers : providerOwner[p] # u /\ advisoryOwner[p] # u
        /\ \A c \in Cases : caseOwner[c] # u

NoCircle ==
    \A S \in SUBSET Calls : S # {} => \E t \in S : \A u \in S : ~ WaitsFor(t, u)

(* What a call still has to wait for: a case, the provider, the advisory    *)
(* lock.                                                                    *)
Rank(t) ==
    IF pc[t] = "finalize" THEN 0
    ELSE IF pc[t] \in {"recordReview", "preflight"} THEN 1
    ELSE IF pc[t] \in {"findCase", "createCase"} THEN 2 ELSE 3

LEMMA WaitsGoDown ==
    ASSUME IInv, LockInv, NEW t \in Calls, NEW u \in Calls, WaitsFor(t, u)
    PROVE  Rank(u) < Rank(t)
<1>1. HoldsFor(u)
  BY DEF LockInv
<1>2. pc[t] # "idle" => call[t].provider \in Providers
  BY DEF IInv, CallInv, Called
<1>3. CASE pc[t] \in {"lockProvider", "createCase"} /\ providerOwner[call[t].provider] = u
  BY <1>1, <1>2, <1>3 DEF HoldsFor, Rank
<1>4. CASE /\ pc[t] \in {"recordReview", "preflight"}
           /\ call[t].case \in Cases /\ caseOwner[call[t].case] = u
  BY <1>1, <1>4 DEF HoldsFor, Rank
<1>5. CASE pc[t] = "lockAdvisory" /\ advisoryOwner[call[t].provider] = u
  BY <1>1, <1>2, <1>5 DEF HoldsFor, Rank
<1>6. CASE /\ pc[t] = "findCase"
           /\ \E c \in Cases : ActiveCase(c, call[t].provider) /\ caseOwner[c] = u
  BY <1>1, <1>6 DEF HoldsFor, Rank
<1> QED BY <1>3, <1>4, <1>5, <1>6 DEF WaitsFor

LEMMA RanksBreakCircles ==
    ASSUME IInv, LockInv
    PROVE  NoCircle
<1> SUFFICES ASSUME NEW S \in SUBSET Calls, S # {},
                    \A t \in S : \E u \in S : WaitsFor(t, u)
             PROVE  FALSE
  BY DEF NoCircle
<1>1. \A t \in S : \E u \in S : Rank(u) < Rank(t)
  BY WaitsGoDown
<1>2. \A t \in S : Rank(t) \in 0 .. 3
  BY DEF Rank
<1>3. \A t \in S : Rank(t) > 0
  BY <1>1, <1>2
<1>4. \A t \in S : Rank(t) > 1
  BY <1>1, <1>2, <1>3
<1>5. \A t \in S : Rank(t) > 2
  BY <1>1, <1>2, <1>4
<1> QED BY <1>1, <1>2, <1>5

(* The end of a transaction leaves none of its locks behind.                *)
LEMMA EndCallLocks ==
    ASSUME IInv, LockInv, NEW t \in Calls, EndCall(t)
    PROVE  LockInv'
<1>1. TypedCalls /\ \A u \in Calls : u # None
  BY RailAssumption DEF IInv
<1> SUFFICES ASSUME NEW u \in Calls PROVE HoldsFor(u)'
  BY DEF LockInv
<1>2. /\ pc' = [pc EXCEPT ![t] = "idle"] /\ call' = [call EXCEPT ![t] = Idle]
      /\ providerOwner' = [row \in DOMAIN providerOwner |->
              IF providerOwner[row] = t THEN None ELSE providerOwner[row]]
      /\ caseOwner' = [row \in DOMAIN caseOwner |->
              IF caseOwner[row] = t THEN None ELSE caseOwner[row]]
      /\ advisoryOwner' = [row \in DOMAIN advisoryOwner |->
              IF advisoryOwner[row] = t THEN None ELSE advisoryOwner[row]]
  BY DEF EndCall, Goto, Released
<1>3. /\ \A p \in Providers : providerOwner'[p] = u => u # t /\ providerOwner[p] = u
      /\ \A c \in Cases : caseOwner'[c] = u => u # t /\ caseOwner[c] = u
      /\ \A p \in Providers : advisoryOwner'[p] = u => u # t /\ advisoryOwner[p] = u
  BY <1>1, <1>2 DEF TypedCalls
<1>4. u # t => pc'[u] = pc[u] /\ call'[u] = call[u]
  BY <1>1, <1>2 DEF TypedCalls
<1> QED BY <1>3, <1>4 DEF LockInv, HoldsFor

LEMMA LocksKept ==
    ASSUME IInv, LockInv, [Next]_vars
    PROVE  LockInv'
<1>1. TypedCalls /\ \A u \in Calls : u # None /\ CallInv(u) /\ HoldsFor(u)
  BY RailAssumption DEF IInv, LockInv
<1>2. ASSUME UNCHANGED <<lockVars, pc, call>> PROVE LockInv'
  BY <1>2 DEF LockInv, HoldsFor, lockVars
<1>3. ASSUME NEW t \in Calls, Start(t) PROVE LockInv'
  <2>1. ASSUME NEW statement, NEW arguments, StartCall(t, statement, arguments) PROVE LockInv'
    <3>1. /\ pc[t] = "idle" /\ UNCHANGED lockVars
          /\ \A u \in Calls \ {t} : pc'[u] = pc[u] /\ call'[u] = call[u]
      BY <1>1, <2>1 DEF StartCall, Goto, TypedCalls
    <3> QED BY <1>1, <3>1 DEF LockInv, HoldsFor, lockVars
  <2>2. PICK p \in Providers :
          \/ \E c \in Cases : Decide(t, p, c) \/ \E r \in Reviews : Review(t, p, c, r)
          \/ \E o \in Outages : SourceUnavailable(t, p, o)
          \/ \E a \in Answers : AuthorityAnswers(t, p, a)
    BY <1>3 DEF Start
  <2>3. ASSUME NEW c \in Cases, Decide(t, p, c) PROVE LockInv'
    BY <2>1, <2>3, Zenon DEF Decide
  <2>4. ASSUME NEW c \in Cases, NEW r \in Reviews, Review(t, p, c, r) PROVE LockInv'
    BY <2>1, <2>4, Zenon DEF Review
  <2>5. ASSUME NEW o \in Outages, SourceUnavailable(t, p, o) PROVE LockInv'
    BY <2>1, <2>5, Zenon DEF SourceUnavailable
  <2>6. ASSUME NEW a \in Answers, AuthorityAnswers(t, p, a) PROVE LockInv'
    BY <2>1, <2>6, Zenon DEF AuthorityAnswers
  <2> QED BY <2>2, <2>3, <2>4, <2>5, <2>6
<1>4. ASSUME NEW t \in Calls, Begin(t) PROVE LockInv'
  <2>1. /\ pc[t] = "begin" /\ pc' = [pc EXCEPT ![t] = "lockProvider"]
        /\ call' = [call EXCEPT ![t].begun = clock] /\ UNCHANGED lockVars
    BY <1>4 DEF Begin, Goto
  <2> QED BY <1>1, <2>1 DEF LockInv, HoldsFor, lockVars, TypedCalls
<1>5. ASSUME NEW t \in Calls, LockProvider(t) PROVE LockInv'
  <2>1. CASE Rollback(t)
    BY <2>1, EndCallLocks DEF Rollback
  <2>2. CASE ~ Rollback(t)
    <3>1. /\ pc[t] = "lockProvider" /\ providerOwner[call[t].provider] = None
          /\ providerOwner' = [providerOwner EXCEPT ![call[t].provider] = t]
          /\ call' = [call EXCEPT ![t].version = active]
          /\ pc' = [pc EXCEPT ![t] =
                IF call[t].input = None THEN "preflight" ELSE "recordReview"]
          /\ UNCHANGED <<caseOwner, advisoryOwner>>
      BY <1>5, <2>2 DEF LockProvider, Goto
    <3>2. /\ pc'[t] \in {"preflight", "recordReview"} /\ call'[t].provider = call[t].provider
          /\ \A u \in Calls \ {t} : pc'[u] = pc[u] /\ call'[u] = call[u]
      BY <1>1, <3>1 DEF TypedCalls, CallRows
    <3>3. \A p \in Providers, u \in Calls : providerOwner'[p] = u =>
            providerOwner[p] = u \/ (u = t /\ p = call[t].provider)
      BY <1>1, <3>1 DEF TypedCalls
    <3> QED BY <1>1, <3>1, <3>2, <3>3 DEF LockInv, HoldsFor
  <2> QED BY <2>1, <2>2
<1>6. ASSUME NEW t \in Calls, Preflight(t) PROVE LockInv'
  <2>1. CASE Rollback(t)
    BY <2>1, EndCallLocks DEF Rollback
  <2>2. CASE ~ Rollback(t)
    <3>1. PICK c, d : /\ pc[t] = "preflight" /\ c = call[t].case
                      /\ caseOwner' = [caseOwner EXCEPT ![c] = t]
                      /\ call' = [call EXCEPT ![t].preflight = d]
                      /\ pc' = [pc EXCEPT ![t] = "finalize"]
                      /\ UNCHANGED <<providerOwner, advisoryOwner>>
      BY <1>6, <2>2 DEF Preflight, Goto
    <3>2. /\ pc'[t] = "finalize" /\ call'[t].provider = call[t].provider
          /\ \A u \in Calls \ {t} : pc'[u] = pc[u] /\ call'[u] = call[u]
      BY <1>1, <3>1 DEF TypedCalls, CallRows
    <3>3. \A b \in Cases, u \in Calls : caseOwner'[b] = u => caseOwner[b] = u \/ u = t
      BY <1>1, <3>1 DEF TypedCalls
    <3> QED BY <1>1, <3>1, <3>2, <3>3 DEF LockInv, HoldsFor
  <2> QED BY <2>1, <2>2
<1>7. ASSUME NEW t \in Calls, LockAdvisory(t) PROVE LockInv'
  <2>1. /\ pc[t] = "lockAdvisory" /\ pc' = [pc EXCEPT ![t] = "findCase"]
        /\ advisoryOwner' = [advisoryOwner EXCEPT ![call[t].provider] = t]
        /\ UNCHANGED <<providerOwner, caseOwner, call>>
    BY <1>7 DEF LockAdvisory, Goto
  <2>2. /\ pc'[t] = "findCase" /\ \A u \in Calls \ {t} : pc'[u] = pc[u]
        /\ \A p \in Providers, u \in Calls : advisoryOwner'[p] = u =>
              advisoryOwner[p] = u \/ (u = t /\ p = call[t].provider)
    BY <1>1, <2>1 DEF TypedCalls
  <2> QED BY <1>1, <2>1, <2>2 DEF LockInv, HoldsFor
<1>8. ASSUME NEW t \in Calls, FindCase(t) PROVE LockInv'
  <2>1. CASE EndCall(t)
    BY <2>1, EndCallLocks
  <2>2. CASE ~ EndCall(t)
    <3>1. pc[t] = "findCase" /\ pc' = [pc EXCEPT ![t] = "createCase"] /\ UNCHANGED <<lockVars, call>>
      BY <1>8, <2>2 DEF FindCase, Goto
    <3>2. pc'[t] = "createCase" /\ \A u \in Calls \ {t} : pc'[u] = pc[u]
      BY <1>1, <3>1 DEF TypedCalls
    <3> QED BY <1>1, <3>1, <3>2 DEF LockInv, HoldsFor, lockVars
  <2> QED BY <2>1, <2>2
<1>9. ASSUME NEW t \in Calls, RecordReview(t) \/ Finalize(t) \/ CreateCase(t) \/ Abort(t)
      PROVE EndCall(t)
  <2>1. RecordReview(t) => EndCall(t)
    BY Zenon DEF RecordReview, Rollback
  <2>2. Finalize(t) => EndCall(t)
    BY Zenon DEF Finalize, Rollback
  <2>3. CreateCase(t) => EndCall(t)
    BY Zenon DEF CreateCase, Rollback
  <2> QED BY <1>9, <2>1, <2>2, <2>3 DEF Abort, Rollback
<1>10. ASSUME NEW t \in Calls, Statement(t) \/ Abort(t) PROVE LockInv'
  BY <1>4, <1>5, <1>6, <1>7, <1>8, <1>9, <1>10, EndCallLocks DEF Statement
<1>11. ASSUME Revalidate \/ Tick \/ (\E v \in Versions : ActivatePolicy(v)) \/ UNCHANGED vars
       PROVE UNCHANGED <<lockVars, pc, call>>
  BY <1>11 DEF Revalidate, Tick, ActivatePolicy, vars
<1> QED BY <1>2, <1>3, <1>10, <1>11 DEF Next

(* The provider row, the case and the advisory lock are taken in orders     *)
(* that never close a circle: among calls that wait for each other there is *)
(* always one that waits for none of them, and a call that has ended holds  *)
(* none, so a check, a decision and an unavailable source never block each  *)
(* other for good                                                           *)
(* (record-manual-review.ts, recompute-provider-tier.ts,                    *)
(* find-or-create-review-case.ts).                                          *)
THEOREM RailNeverDeadlocks == Spec => [](NoCircle /\ NothingLeftLocked)
<1>1. Init => LockInv
  BY RailAssumption DEF Init, LockInv, HoldsFor
<1>2. IInv /\ LockInv /\ [Next]_vars => LockInv'
  BY LocksKept
<1>3. IInv /\ LockInv => NoCircle
  BY RanksBreakCircles
<1>4. LockInv => NothingLeftLocked
  BY DEF LockInv, HoldsFor, NothingLeftLocked
<1> QED BY <1>1, <1>2, <1>3, <1>4, Invariance, PTL DEF Spec
=============================================================================
