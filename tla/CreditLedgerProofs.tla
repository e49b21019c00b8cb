--------------------------- MODULE CreditLedgerProofs ---------------------------
(***************************************************************************)
(* The ledger for any number of calls, providers, amounts and attempts:    *)
(* one event per call, a chain that verifies and is tamper-evident,        *)
(* exports that stay its beginning, a balance that is the sum, and no      *)
(* request that waits for one that does not move.                          *)
(***************************************************************************)
EXTENDS CreditLedger, FiniteSetTheorems, WellFoundedInduction, TLAPS

(***************************************************************************)
(* Least and greatest ids                                                  *)
(***************************************************************************)
(* The well-ordering of the ids.                                            *)
LEMMA LeastExists ==
    ASSUME NEW I \in SUBSET Nat, I # {}
    PROVE  \E x \in I : \A y \in I : x <= y
<1>1. IsWellFoundedOn(OpToRel(<, Nat), Nat)
  BY NatLessThanWellFounded
<1>2. PICK x \in I : \A y \in I : ~(<<y, x>> \in OpToRel(<, Nat))
  BY <1>1, WFMin
<1>3. \A y \in I : ~(y < x)
  BY <1>2 DEF OpToRel
<1>4. \A y \in I : x <= y
  BY <1>3
<1> QED BY <1>4

(* A set of rows has one with the smallest id.                              *)
LEMMA FirstExists ==
    ASSUME NEW S, S # {}, \A e \in S : e.id \in Nat
    PROVE  \E e \in S : \A f \in S : e.id <= f.id
<1> DEFINE I == {e.id : e \in S}
<1>1. I \in SUBSET Nat /\ I # {}
  OBVIOUS
<1>2. PICK x \in I : \A y \in I : x <= y
  <2> HIDE DEF I
  <2> QED BY <1>1, LeastExists
<1> QED BY <1>2

(* The row Last picks is the one with the greatest id.                      *)
LEMMA LastIs ==
    ASSUME NEW S, \A e \in S : e.id \in Nat, \A e, f \in S : e.id = f.id => e = f,
           NEW m \in S, \A f \in S : f.id <= m.id
    PROVE  Last(S) = m
<1>1. Last(S) \in S /\ \A f \in S : f.id <= Last(S).id
  BY DEF Last
<1> QED BY <1>1

(* Rows with bounded ids have a last one.                                   *)
LEMMA LastExists ==
    ASSUME NEW S, S # {}, \A e \in S : e.id \in Nat, NEW n \in Nat, \A e \in S : e.id <= n
    PROVE  Last(S) \in S /\ \A f \in S : f.id <= Last(S).id
<1> DEFINE B == {m \in Nat : \A e \in S : e.id <= m}
<1>1. B \in SUBSET Nat /\ B # {}
  OBVIOUS
<1>2. PICK m \in B : \A k \in B : m <= k
  <2> HIDE DEF B
  <2> QED BY <1>1, LeastExists
<1>3. m \in Nat /\ \A e \in S : e.id <= m
  OBVIOUS
<1>4. \E e \in S : e.id = m
  <2> SUFFICES ASSUME \A e \in S : e.id # m PROVE FALSE
    OBVIOUS
  <2>1. \A e \in S : e.id <= m - 1 /\ m - 1 \in Nat
    BY <1>3
  <2>2. m - 1 \in B
    BY <2>1
  <2> QED BY <1>2, <1>3, <2>2
<1>5. \E e \in S : \A f \in S : f.id <= e.id
  BY <1>3, <1>4
<1> QED BY <1>5 DEF Last

(***************************************************************************)
(* The sum of the amounts of a finite set of rows                          *)
(*                                                                         *)
(* MapThenSumSet takes the rows in the order CHOOSE gives; its recursive   *)
(* function is shown to exist, and any row may be taken first.             *)
(***************************************************************************)
Pick(s) == CHOOSE e \in s : TRUE
IsSum(f, T) ==
    f = [s \in SUBSET T |-> IF s = {} THEN 0 ELSE Pick(s).credits + f[s \ {Pick(s)}]]
Sum(T) == MapThenSumSet(LAMBDA e : e.credits, T)

LEMMA SumIs ==
    ASSUME NEW T
    PROVE  Sum(T) = (CHOOSE f : IsSum(f, T))[T]
BY DEF Sum, MapThenSumSet, MapThenFoldSet, IsSum, Pick

LEMMA Smaller ==
    ASSUME NEW T, IsFiniteSet(T), NEW s \in SUBSET T
    PROVE  /\ IsFiniteSet(s) /\ Cardinality(s) \in Nat /\ Cardinality(s) <= Cardinality(T)
           /\ Cardinality(s) = 0 <=> s = {}
           /\ \A e \in s : /\ s \ {e} \in SUBSET T
                           /\ Cardinality(s \ {e}) \in Nat /\ Cardinality(s \ {e}) < Cardinality(s)
<1>1. IsFiniteSet(s) /\ Cardinality(s) <= Cardinality(T)
  BY FS_Subset
<1>2. Cardinality(s) \in Nat /\ (Cardinality(s) = 0 <=> s = {})
  BY <1>1, FS_CardinalityType, FS_EmptySet
<1>3. ASSUME NEW e \in s
      PROVE  Cardinality(s \ {e}) \in Nat /\ Cardinality(s \ {e}) < Cardinality(s)
  <2>1. Cardinality(s \ {e}) = Cardinality(s) - 1 /\ IsFiniteSet(s \ {e})
    BY <1>1, FS_RemoveElement
  <2>2. Cardinality(s \ {e}) \in Nat
    BY <2>1, FS_CardinalityType
  <2> QED BY <1>2, <2>1, <2>2
<1> QED BY <1>1, <1>2, <1>3

LEMMA SumExists ==
    ASSUME NEW T, IsFiniteSet(T)
    PROVE  \E f : IsSum(f, T)
<1> DEFINE D(n) == {s \in SUBSET T : Cardinality(s) <= n}
           Upto(f, n) == f = [s \in D(n) |-> IF s = {} THEN 0 ELSE Pick(s).credits + f[s \ {Pick(s)}]]
           Bad == {n \in Nat : ~\E f : Upto(f, n)}
<1>1. \A s \in SUBSET T : s # {} => Pick(s) \in s
  BY DEF Pick
<1>2. 0 \notin Bad
  <2> DEFINE zero == [s \in D(0) |-> 0]
  <2>1. \A s \in D(0) : s = {}
    BY Smaller
  <2>2. Upto(zero, 0)
    BY <2>1
  <2> QED BY <2>2
<1>3. ASSUME NEW n \in Nat, n \notin Bad PROVE n + 1 \notin Bad
  <2>1. PICK f : Upto(f, n)
    BY <1>3
  <2> DEFINE g == [s \in D(n + 1) |-> IF s = {} THEN 0 ELSE Pick(s).credits + f[s \ {Pick(s)}]]
  <2>2. \A s \in D(n + 1) : s # {} => s \ {Pick(s)} \in D(n)
    BY <1>1, Smaller
  <2>3. D(n) \subseteq D(n + 1)
    BY Smaller
  <2>4. \A s \in D(n) : g[s] = f[s]
    BY <2>1, <2>3
  <2>5. Upto(g, n + 1)
    BY <2>2, <2>4
  <2> QED BY <2>5
<1>4. Bad = {}
  <2> SUFFICES ASSUME Bad # {} PROVE FALSE
    OBVIOUS
  <2>1. Bad \in SUBSET Nat
    OBVIOUS
  <2> HIDE DEF Bad
  <2>2. PICK m \in Bad : \A n \in Bad : m <= n
    BY <2>1, LeastExists
  <2>3. m \in Nat /\ m # 0
    BY <1>2, <2>1, <2>2
  <2>4. m - 1 \in Nat /\ ~(m <= m - 1)
    BY <2>3
  <2>5. (m - 1) + 1 \notin Bad
    BY <1>3, <2>2, <2>4
  <2> QED BY <2>2, <2>3, <2>5
<1>5. Cardinality(T) \in Nat /\ D(Cardinality(T)) = SUBSET T
  BY Smaller
<1>6. PICK f : Upto(f, Cardinality(T))
  BY <1>4, <1>5
<1> QED BY <1>5, <1>6 DEF IsSum

(* What a sum over the subsets of T has to be.                              *)
LEMMA SumStep ==
    ASSUME NEW T, NEW f, IsSum(f, T), NEW s \in SUBSET T
    PROVE  f[s] = IF s = {} THEN 0 ELSE Pick(s).credits + f[s \ {Pick(s)}]
BY DEF IsSum

(* The least cardinality at which something can go wrong.                   *)
LEMMA LeastSubset ==
    ASSUME NEW T, IsFiniteSet(T), NEW Wrong \in SUBSET SUBSET T, Wrong # {}
    PROVE  \E s \in Wrong : \A r \in SUBSET T : Cardinality(r) < Cardinality(s) => r \notin Wrong
<1> DEFINE I == {Cardinality(s) : s \in Wrong}
<1>1. I \in SUBSET Nat /\ I # {}
  BY Smaller
<1>2. PICK n \in I : \A m \in I : n <= m
  BY <1>1, LeastExists
<1>3. PICK s \in Wrong : Cardinality(s) = n
  OBVIOUS
<1>4. ASSUME NEW r \in Wrong PROVE ~(Cardinality(r) < Cardinality(s))
  BY <1>1, <1>2, <1>3
<1> QED BY <1>3, <1>4

LEMMA SumsAreIntegers ==
    ASSUME NEW T, IsFiniteSet(T), \A e \in T : e.credits \in Int, NEW f, IsSum(f, T)
    PROVE  \A s \in SUBSET T : f[s] \in Int
<1>0. \A r \in SUBSET T : f[r] = IF r = {} THEN 0 ELSE Pick(r).credits + f[r \ {Pick(r)}]
  BY SumStep
<1> DEFINE Wrong == {s \in SUBSET T : f[s] \notin Int}
<1> SUFFICES ASSUME Wrong # {} PROVE FALSE
  OBVIOUS
<1>1. PICK s \in Wrong : \A r \in SUBSET T : Cardinality(r) < Cardinality(s) => r \notin Wrong
  <2>1. Wrong \in SUBSET SUBSET T
    OBVIOUS
  <2> HIDE DEF Wrong
  <2> QED BY <2>1, LeastSubset
<1>2. s \in SUBSET T /\ f[s] \notin Int
  OBVIOUS
<1>3. f[s] = IF s = {} THEN 0 ELSE Pick(s).credits + f[s \ {Pick(s)}]
  BY <1>0, <1>2
<1>4. s # {} /\ Pick(s) \in s
  BY <1>2, <1>3 DEF Pick
<1>5. f[s \ {Pick(s)}] \in Int
  BY <1>1, <1>2, <1>4, Smaller
<1> QED BY <1>2, <1>3, <1>4, <1>5

(* Any row may be taken first.                                              *)
LEMMA AnyFirst ==
    ASSUME NEW T, IsFiniteSet(T), \A e \in T : e.credits \in Int, NEW f, IsSum(f, T),
           NEW s \in SUBSET T, NEW e \in s
    PROVE  f[s] = e.credits + f[s \ {e}]
<1>0. \A r \in SUBSET T : f[r] = IF r = {} THEN 0 ELSE Pick(r).credits + f[r \ {Pick(r)}]
  BY SumStep
<1> DEFINE Wrong == {r \in SUBSET T : \E d \in r : f[r] # d.credits + f[r \ {d}]}
<1> SUFFICES ASSUME Wrong # {} PROVE FALSE
  OBVIOUS
<1>1. PICK r \in Wrong : \A q \in SUBSET T : Cardinality(q) < Cardinality(r) => q \notin Wrong
  <2>1. Wrong \in SUBSET SUBSET T
    OBVIOUS
  <2> HIDE DEF Wrong
  <2> QED BY <2>1, LeastSubset
<1>2. PICK d \in r : r \in SUBSET T /\ f[r] # d.credits + f[r \ {d}]
  OBVIOUS
<1> DEFINE c == Pick(r)
<1>3. c \in r /\ f[r] = c.credits + f[r \ {c}]
  <2>1. f[r] = IF r = {} THEN 0 ELSE c.credits + f[r \ {c}]
    BY <1>0, <1>2
  <2>2. c \in r
    BY <1>2 DEF Pick
  <2> HIDE DEF c
  <2> QED BY <2>1, <2>2
<1> HIDE DEF c
<1>4. c # d
  BY <1>2, <1>3
<1>5. r \ {c} \notin Wrong /\ r \ {d} \notin Wrong
  <2> HIDE DEF Wrong
  <2> QED BY <1>1, <1>2, <1>3, Smaller
<1>6. /\ f[r \ {c}] = d.credits + f[(r \ {c}) \ {d}]
      /\ f[r \ {d}] = c.credits + f[(r \ {d}) \ {c}]
  BY <1>2, <1>3, <1>4, <1>5
<1>7. (r \ {c}) \ {d} = (r \ {d}) \ {c} /\ (r \ {c}) \ {d} \in SUBSET T
  OBVIOUS
<1>8. f[(r \ {c}) \ {d}] \in Int /\ c.credits \in Int /\ d.credits \in Int
  BY <1>2, <1>3, <1>7, SumsAreIntegers
<1> DEFINE k == f[(r \ {c}) \ {d}]
<1>9. f[r] = c.credits + (d.credits + k) /\ f[r \ {d}] = c.credits + k
  BY <1>3, <1>6, <1>7
<1> HIDE DEF Wrong, k
<1>10. k \in Int
  BY <1>8 DEF k
<1> QED BY <1>2, <1>8, <1>9, <1>10

(* The sum does not depend on the set it is a part of.                      *)
LEMMA SumsAgree ==
    ASSUME NEW T, IsFiniteSet(T), NEW f, IsSum(f, T), NEW U \in SUBSET T, NEW g, IsSum(g, U)
    PROVE  f[U] = g[U]
<1> DEFINE Wrong == {s \in SUBSET U : f[s] # g[s]}
<1> SUFFICES ASSUME Wrong # {} PROVE FALSE
  OBVIOUS
<1>0. IsFiniteSet(U)
  BY FS_Subset
<1>1. PICK s \in Wrong : \A r \in SUBSET U : Cardinality(r) < Cardinality(s) => r \notin Wrong
  <2>1. Wrong \in SUBSET SUBSET U
    OBVIOUS
  <2> HIDE DEF Wrong
  <2> QED BY <1>0, <2>1, LeastSubset
<1>2. s \in SUBSET U /\ s \in SUBSET T /\ f[s] # g[s]
  OBVIOUS
<1>3. /\ f[s] = IF s = {} THEN 0 ELSE Pick(s).credits + f[s \ {Pick(s)}]
      /\ g[s] = IF s = {} THEN 0 ELSE Pick(s).credits + g[s \ {Pick(s)}]
  BY <1>2, SumStep
<1>4. s # {} /\ Pick(s) \in s
  BY <1>2, <1>3 DEF Pick
<1>5. f[s \ {Pick(s)}] = g[s \ {Pick(s)}]
  BY <1>0, <1>1, <1>2, <1>4, Smaller
<1> QED BY <1>2, <1>3, <1>4, <1>5

(* A row more.                                                              *)
LEMMA SumAdds ==
    ASSUME NEW U, IsFiniteSet(U), NEW e, e \notin U, \A d \in U \cup {e} : d.credits \in Int
    PROVE  Sum(U \cup {e}) = Sum(U) + e.credits /\ Sum(U) \in Int
<1> DEFINE T == U \cup {e}
           f == CHOOSE h : IsSum(h, T)
           g == CHOOSE h : IsSum(h, U)
<1>1. IsFiniteSet(T)
  BY FS_AddElement
<1>2. IsSum(f, T) /\ IsSum(g, U)
  BY <1>1, SumExists
<1>3. Sum(T) = f[T] /\ Sum(U) = g[U]
  BY SumIs
<1> HIDE DEF f, g
<1>4. T \in SUBSET T /\ U \in SUBSET T /\ e \in T /\ T \ {e} = U
  OBVIOUS
<1>5. f[T] = e.credits + f[U]
  BY <1>1, <1>2, <1>4, AnyFirst
<1>6. f[U] = g[U]
  BY <1>1, <1>2, <1>4, SumsAgree
<1>7. g[U] \in Int
  BY <1>2, SumsAreIntegers
<1> QED BY <1>3, <1>5, <1>6, <1>7

LEMMA SumOfNothing == Sum({}) = 0
<1> DEFINE f == CHOOSE h : IsSum(h, {})
<1>1. IsSum(f, {})
  BY SumExists, FS_EmptySet
<1>2. Sum({}) = f[{}]
  BY SumIs
<1> HIDE DEF f
<1> QED BY <1>1, <1>2, SumStep

(***************************************************************************)
(* The inductive invariant                                                 *)
(***************************************************************************)
IsRow(e) ==
    /\ e = [id |-> e.id, provider |-> e.provider, credits |-> e.credits,
            previous |-> e.previous, hash |-> e.hash, request |-> e.request]
    /\ e.id \in Nat /\ e.provider \in Providers /\ e.credits \in Credits
    /\ e.request \in Requests

(* Ids are unique and come from the sequence.                               *)
Rows ==
    /\ \A e \in events : IsRow(e) /\ e.id <= sequence
    /\ \A e, f \in events : e.id = f.id => e = f

(* credit_balance.last_event_id is the end of the ledger of the provider.   *)
Heads ==
    \A p \in Providers : head[p] = IF EventsOf(p) = {} THEN None ELSE Last(EventsOf(p)).id

(* The row a call appends to the end of a ledger.                           *)
EndHash(p) == IF EventsOf(p) = {} THEN Genesis ELSE Last(EventsOf(p)).hash
Appended(t, id) ==
    [id |-> id, provider |-> provider[t], credits |-> credits[t],
     previous |-> IF EventsOf(provider[t]) = {} THEN None ELSE EndHash(provider[t]),
     hash |-> Hash(EndHash(provider[t]), id, provider[t], credits[t]),
     request |-> t]

(* A writer that has the head locked saw it as it is, and what it inserted  *)
(* comes after everything the provider has.                                 *)
CallInv(t) ==
    /\ pc[t] \in {"write", "commit"} =>
          headOwner[provider[t]] = t /\ seen[t] = head[provider[t]]
    /\ pc[t] = "commit" =>
          /\ pending[t] = Appended(t, pending[t].id)
          /\ pending[t].id \in Nat /\ pending[t].id <= sequence
          /\ \A e \in EventsOf(provider[t]) : e.id < pending[t].id
          /\ \A e \in events : e.id # pending[t].id
          /\ \A u \in Requests \ {t} : pc[u] = "commit" => pending[u].id # pending[t].id

LedgerInv ==
    /\ TypeOK /\ Rows /\ Heads /\ OncePerRequest /\ ExportsStayPrefixes
    /\ pending = [t \in Requests |-> pending[t]]
    /\ exported = [t \in Requests |-> exported[t]]
    /\ \A t \in Requests : CallInv(t)

(* The end of a ledger that has events.                                     *)
LEMMA EndOfLedger ==
    ASSUME LedgerInv, NEW p \in Providers, EventsOf(p) # {}
    PROVE  /\ Last(EventsOf(p)) \in EventsOf(p)
           /\ \A f \in EventsOf(p) : f.id <= Last(EventsOf(p)).id
<1>1. sequence \in Nat /\ \A e \in EventsOf(p) : e.id \in Nat /\ e.id <= sequence
  BY DEF LedgerInv, TypeOK, Rows, IsRow, EventsOf
<1> QED BY <1>1, LastExists

(***************************************************************************)
(* Steps that leave the ledger alone                                       *)
(***************************************************************************)
OthersStay(t) ==
    /\ provider' = provider /\ credits' = credits
    /\ \A u \in Requests \ {t} :
          /\ pc'[u] = pc[u] /\ seen'[u] = seen[u]
          /\ pending'[u] = pending[u] /\ exported'[u] = exported[u]
          /\ \A p \in Providers : headOwner'[p] = u <=> headOwner[p] = u

LEMMA QuietStep ==
    ASSUME LedgerInv, NEW t \in Requests, OthersStay(t), TypeOK', CallInv(t)',
           events' = events, head' = head, sequence <= sequence',
           pending' = [u \in Requests |-> pending'[u]],
           exported' = [u \in Requests |-> exported'[u]],
           pc'[t] \notin {"appended", "unknown"}, pc[t] \notin {"appended", "unknown"},
           pc'[t] \in {"issue", "issued"} => IsPrefixOf(exported'[t], EventsOf(provider[t]))
    PROVE  LedgerInv'
<1>1. provider' = provider /\ credits' = credits /\ sequence \in Nat /\ sequence' \in Nat
  BY DEF OthersStay, LedgerInv, TypeOK
<1>2. \A p : EventsOf(p)' = EventsOf(p)
  BY DEF EventsOf
<1>3. Rows'
  BY <1>1 DEF LedgerInv, Rows, IsRow
<1>4. Heads'
  BY <1>2 DEF LedgerInv, Heads
<1>5. OncePerRequest'
  BY DEF LedgerInv, OncePerRequest, OthersStay
<1>6. ExportsStayPrefixes'
  BY <1>1, <1>2 DEF LedgerInv, ExportsStayPrefixes, OthersStay
<1>7. ASSUME NEW u \in Requests, u # t PROVE CallInv(u)'
  <2>1. /\ pc'[u] = pc[u] /\ seen'[u] = seen[u] /\ pending'[u] = pending[u] /\ CallInv(u)
        /\ provider[u] \in Providers
        /\ \A p \in Providers : headOwner'[p] = u <=> headOwner[p] = u
    BY <1>7 DEF OthersStay, LedgerInv, TypeOK
  <2>2. Appended(u, pending[u].id)' = Appended(u, pending[u].id)
    BY <1>1, <1>2, <2>1 DEF Appended, EndHash
  <2>3. pc[u] = "commit" => \A w \in Requests \ {u} : pc'[w] = "commit" =>
          pending'[w].id # pending[u].id
    <3>1. pc[u] = "commit" /\ pc'[t] = "commit" => pending'[t].id # pending[u].id
      BY <1>7, <2>1 DEF CallInv
    <3> QED BY <2>1, <3>1 DEF CallInv, OthersStay
  <2>4. pc[u] = "commit" => pending[u].id <= sequence'
    BY <1>1, <2>1 DEF CallInv
  <2> QED BY <1>1, <1>2, <2>1, <2>2, <2>3, <2>4 DEF CallInv
<1> QED BY <1>3, <1>4, <1>5, <1>6, <1>7 DEF LedgerInv

(* ROLLBACK, with or without another attempt.                               *)
LEMMA UndoStep ==
    ASSUME LedgerInv, NEW t \in Requests, Undo(t), pc[t] \in Running,
           \/ /\ pc' = [pc EXCEPT ![t] = "begin"]
              /\ attempt[t] < MaxAttempts /\ attempt' = [attempt EXCEPT ![t] = @ + 1]
           \/ pc' = [pc EXCEPT ![t] = "failed"] /\ attempt' = attempt
    PROVE  LedgerInv'
<1>1. /\ headOwner' = [p \in Providers |-> IF headOwner[p] = t THEN None ELSE headOwner[p]]
      /\ pending' = [pending EXCEPT ![t] = None]
      /\ events' = events /\ total' = total /\ head' = head /\ sequence' = sequence
      /\ provider' = provider /\ credits' = credits /\ seen' = seen /\ exported' = exported
  BY DEF Undo, ledgerVars
<1>2. TypeOK /\ t # None /\ \A u \in Requests : u # None
  BY LedgerAssumption DEF LedgerInv
<1>3. attempt' \in [Requests -> 1 .. MaxAttempts]
  BY <1>2, LedgerAssumption DEF TypeOK
<1>4. TypeOK' /\ pc'[t] \in {"begin", "failed"}
  BY <1>1, <1>2, <1>3 DEF TypeOK, Running, Ended
<1>5. /\ pending' = [u \in Requests |-> pending'[u]]
      /\ exported' = [u \in Requests |-> exported'[u]]
  BY <1>1 DEF LedgerInv
<1>6. OthersStay(t)
  BY <1>1, <1>2 DEF OthersStay, TypeOK, LedgerInv
<1>7. CallInv(t)'
  BY <1>4 DEF CallInv
<1>8. sequence <= sequence'
  BY <1>1, <1>2 DEF TypeOK
<1> QED BY <1>1, <1>4, <1>5, <1>6, <1>7, <1>8, QuietStep DEF Running

LEMMA RetryStep ==
    ASSUME LedgerInv, NEW t \in Requests, Retry(t), pc[t] \in Running
    PROVE  LedgerInv'
BY UndoStep DEF Retry

(* The steps that only move a call on.                                      *)
LEMMA CallStep ==
    ASSUME LedgerInv, NEW t \in Requests, Call(t) \/ TakeSnapshot(t) \/ ReadEvidence(t) \/ Issue(t)
    PROVE  LedgerInv'
<1>1. TypeOK /\ CallInv(t) /\ ExportsStayPrefixes /\ provider[t] \in Providers
  BY DEF LedgerInv, TypeOK
<1>2. /\ UNCHANGED <<ledgerVars, sequence, headOwner, provider, credits, attempt, pending>>
      /\ pc[t] \in {"idle", "begin", "read", "issue"}
      /\ \E to \in {"begin", "read", "lockHead", "issue", "issued"} :
            pc' = [pc EXCEPT ![t] = to] /\ (to = "issued" => pc[t] = "issue" /\ exported' = exported)
      /\ seen' = seen \/ seen' = [seen EXCEPT ![t] = head[provider[t]]]
      /\ \/ exported' = exported
         \/ exported' = [exported EXCEPT ![t] = EventsOf(provider[t])]
      /\ pc'[t] = "issue" => exported' = [exported EXCEPT ![t] = EventsOf(provider[t])]
  BY <1>1 DEF Call, TakeSnapshot, ReadEvidence, Issue, TypeOK
<1>3. /\ events' = events /\ total' = total /\ head' = head /\ sequence' = sequence
      /\ headOwner' = headOwner
      /\ provider' = provider /\ credits' = credits /\ attempt' = attempt /\ pending' = pending
  BY <1>2 DEF ledgerVars
<1>4. seen' \in [Requests -> Nat \cup {None}]
  BY <1>1, <1>2 DEF TypeOK
<1>5. TypeOK' /\ pc'[t] \in {"begin", "read", "lockHead", "issue", "issued"}
  BY <1>1, <1>2, <1>3, <1>4 DEF TypeOK, Running, Ended
<1>6. /\ pending' = [u \in Requests |-> pending'[u]]
      /\ exported' = [u \in Requests |-> exported'[u]]
  BY <1>2, <1>3 DEF LedgerInv
<1>7. OthersStay(t)
  BY <1>1, <1>2, <1>3 DEF OthersStay, TypeOK, LedgerInv
<1>8. CallInv(t)'
  BY <1>5 DEF CallInv
<1>9. pc'[t] \in {"issue", "issued"} => IsPrefixOf(exported'[t], EventsOf(provider[t]))
  <2>1. CASE pc'[t] = "issue"
    <3>1. exported'[t] = EventsOf(provider[t])
      BY <1>2, <2>1 DEF LedgerInv
    <3> QED BY <3>1 DEF IsPrefixOf
  <2>2. CASE pc'[t] = "issued"
    BY <1>1, <1>2, <2>2 DEF ExportsStayPrefixes, TypeOK
  <2> QED BY <2>1, <2>2
<1>10. sequence <= sequence'
  BY <1>1, <1>3 DEF TypeOK
<1> QED BY <1>2, <1>3, <1>5, <1>6, <1>7, <1>8, <1>9, <1>10, QuietStep

(* The lock is granted on the version of the snapshot.                      *)
LEMMA LockHeadStep ==
    ASSUME LedgerInv, NEW t \in Requests, LockHead(t)
    PROVE  LedgerInv'
<1>1. TypeOK /\ pc[t] = "lockHead" /\ headOwner[provider[t]] = None /\ provider[t] \in Providers
      /\ \A u \in Requests : u # None
  BY LedgerAssumption DEF LedgerInv, LockHead, HeadFree, TypeOK
<1>2. CASE Retry(t)
  BY <1>1, <1>2, RetryStep DEF Running
<1>3. CASE ~Retry(t)
  <2>1. /\ head[provider[t]] = seen[t]
        /\ headOwner' = [headOwner EXCEPT ![provider[t]] = t]
        /\ pc' = [pc EXCEPT ![t] = "write"]
        /\ events' = events /\ total' = total /\ head' = head /\ sequence' = sequence
        /\ provider' = provider /\ credits' = credits /\ attempt' = attempt /\ seen' = seen
        /\ pending' = pending /\ exported' = exported
    BY <1>3 DEF LockHead, HeadUnchanged, ledgerVars
  <2>2. TypeOK' /\ pc'[t] = "write" /\ headOwner'[provider[t]] = t
    BY <1>1, <2>1 DEF TypeOK, Running
  <2>3. OthersStay(t)
    BY <1>1, <2>1 DEF OthersStay, TypeOK
  <2>4. CallInv(t)'
    BY <2>1, <2>2 DEF CallInv
  <2>5. sequence <= sequence'
    BY <1>1, <2>1 DEF TypeOK
  <2>6. /\ pending' = [u \in Requests |-> pending'[u]]
        /\ exported' = [u \in Requests |-> exported'[u]]
    BY <2>1 DEF LedgerInv
  <2> QED BY <1>1, <2>1, <2>2, <2>3, <2>4, <2>5, <2>6, QuietStep
<1> QED BY <1>2, <1>3

(* The inserted row is the next of the ledger: the head that was locked is  *)
(* the one the snapshot saw, and the id is drawn under the lock.            *)
LEMMA WriteStep ==
    ASSUME LedgerInv, NEW t \in Requests, Write(t)
    PROVE  LedgerInv'
<1>1. TypeOK /\ pc[t] = "write" /\ CallInv(t) /\ provider[t] \in Providers /\ Rows /\ Heads
      /\ sequence \in Nat
  BY DEF LedgerInv, Write, TypeOK
<1>2. /\ sequence' = sequence + 1 /\ pc' = [pc EXCEPT ![t] = "commit"]
      /\ events' = events /\ total' = total /\ head' = head /\ headOwner' = headOwner
      /\ provider' = provider /\ credits' = credits /\ attempt' = attempt /\ seen' = seen
      /\ exported' = exported
  BY DEF Write, ledgerVars
<1>3. PreviousHash(t) = EndHash(provider[t]) /\ (seen[t] = None <=> EventsOf(provider[t]) = {})
  <2>1. seen[t] = IF EventsOf(provider[t]) = {} THEN None ELSE Last(EventsOf(provider[t])).id
    BY <1>1 DEF CallInv, Heads
  <2>2. CASE EventsOf(provider[t]) = {}
    BY <2>1, <2>2 DEF PreviousHash, EndHash
  <2>3. CASE EventsOf(provider[t]) # {}
    <3>1. Last(EventsOf(provider[t])) \in EventsOf(provider[t])
      BY <1>1, <2>3, EndOfLedger
    <3>2. Last(EventsOf(provider[t])).id \in Nat
          /\ \A e \in EventsOf(provider[t]) :
                e.id = Last(EventsOf(provider[t])).id => e = Last(EventsOf(provider[t]))
      BY <1>1, <3>1 DEF Rows, IsRow, EventsOf
    <3>3. (CHOOSE e \in EventsOf(provider[t]) : e.id = seen[t]) = Last(EventsOf(provider[t]))
      <4> DEFINE c == CHOOSE e \in EventsOf(provider[t]) : e.id = seen[t]
      <4>1. \E e \in EventsOf(provider[t]) : e.id = seen[t]
        BY <2>1, <2>3, <3>1
      <4>2. c \in EventsOf(provider[t]) /\ c.id = seen[t]
        BY <4>1
      <4> HIDE DEF c
      <4>3. c = Last(EventsOf(provider[t]))
        BY <2>1, <2>3, <3>2, <4>2
      <4> QED BY <4>3 DEF c
    <3>4. seen[t] # None
      BY <2>1, <2>3, <3>2, LedgerAssumption
    <3>5. PreviousHash(t) = Last(EventsOf(provider[t])).hash
      BY <3>3, <3>4 DEF PreviousHash
    <3> QED BY <2>3, <3>4, <3>5 DEF EndHash
  <2> QED BY <2>2, <2>3
<1>4. pending' = [pending EXCEPT ![t] = Appended(t, sequence + 1)]
  BY <1>3 DEF Write, Appended
<1>5. /\ pending'[t] = Appended(t, sequence + 1) /\ pending'[t].id = sequence + 1
      /\ \A u \in Requests \ {t} : pending'[u] = pending[u]
      /\ pending' = [u \in Requests |-> pending'[u]]
      /\ exported' = [u \in Requests |-> exported'[u]]
  BY <1>2, <1>4 DEF LedgerInv, Appended
<1>6. TypeOK' /\ pc'[t] = "commit"
  BY <1>1, <1>2 DEF TypeOK, Running
<1>7. OthersStay(t)
  BY <1>1, <1>2, <1>5 DEF OthersStay, TypeOK
<1>8. CallInv(t)'
  <2>1. \A e \in events : e.id \in Nat /\ e.id <= sequence
    BY <1>1 DEF Rows, IsRow
  <2>2. \A u \in Requests \ {t} : pc'[u] = "commit" => pending'[u].id # pending'[t].id
    <3> TAKE u \in Requests \ {t}
    <3>1. pc[u] = "commit" => pending[u].id \in Nat /\ pending[u].id <= sequence
      BY DEF LedgerInv, CallInv
    <3> QED BY <1>1, <1>5, <1>7, <3>1 DEF OthersStay
  <2>3. pending'[t] = Appended(t, pending'[t].id) /\ EventsOf(provider[t])' = EventsOf(provider[t])
    BY <1>2, <1>5 DEF EventsOf
  <2>4. \A i : Appended(t, i)' = Appended(t, i)
    BY <1>2 DEF Appended, EndHash, EventsOf
  <2> QED BY <1>1, <1>2, <1>5, <1>6, <2>1, <2>2, <2>3, <2>4 DEF CallInv, EventsOf
<1>9. sequence <= sequence'
  BY <1>1, <1>2
<1> QED BY <1>1, <1>2, <1>5, <1>6, <1>7, <1>8, <1>9, QuietStep

(***************************************************************************)
(* COMMIT                                                                  *)
(***************************************************************************)
(* What a commit adds to the ledger of its provider: a row behind all the   *)
(* others, and nothing to any other ledger.                                 *)
LEMMA CommitEffect ==
    ASSUME LedgerInv, NEW t \in Requests, Commit(t)
    PROVE  LET e == pending[t]
               p == provider[t]
           IN  /\ p \in Providers /\ e = Appended(t, e.id) /\ IsRow(e) /\ e.provider = p
               /\ e \notin events /\ e.request = t /\ e.id <= sequence
               /\ \A f \in EventsOf(p) : f.id < e.id
               /\ \A f \in events : f.id # e.id
               /\ events' = events \cup {e}
               /\ EventsOf(p)' = EventsOf(p) \cup {e}
               /\ \A q \in Providers : q # p => EventsOf(q)' = EventsOf(q)
<1> DEFINE e == pending[t]
<1>1. TypeOK /\ pc[t] = "commit" /\ CallInv(t) /\ provider[t] \in Providers
      /\ credits[t] \in Credits
  BY DEF LedgerInv, Commit, TypeOK
<1>2. /\ e = Appended(t, e.id) /\ e.id \in Nat /\ e.id <= sequence
      /\ \A f \in EventsOf(provider[t]) : f.id < e.id
      /\ \A f \in events : f.id # e.id
  BY <1>1 DEF CallInv
<1>3. events' = events \cup {e} /\ provider' = provider
  BY DEF Commit
<1> HIDE DEF e
<1>4. IsRow(e) /\ e.provider = provider[t] /\ e.request = t
  BY <1>1, <1>2 DEF IsRow, Appended
<1>5. e \notin events
  BY <1>2
<1>6. /\ EventsOf(provider[t])' = EventsOf(provider[t]) \cup {e}
      /\ \A q \in Providers : q # provider[t] => EventsOf(q)' = EventsOf(q)
  BY <1>3, <1>4 DEF EventsOf
<1> QED BY <1>1, <1>2, <1>3, <1>4, <1>5, <1>6 DEF e

LEMMA CommitStep ==
    ASSUME LedgerInv, NEW t \in Requests, Commit(t)
    PROVE  LedgerInv'
<1>0. PICK p \in Providers : p = provider[t]
  BY DEF LedgerInv, TypeOK
<1>1. PICK e : e = pending[t] /\ p = provider[t]
  BY <1>0
<1>2. /\ e = Appended(t, e.id) /\ IsRow(e) /\ e.provider = p
      /\ e \notin events /\ e.request = t /\ e.id <= sequence
      /\ \A f \in EventsOf(p) : f.id < e.id
      /\ \A f \in events : f.id # e.id
      /\ events' = events \cup {e}
      /\ \A q \in Providers : q # p => EventsOf(q)' = EventsOf(q)
  BY <1>1, CommitEffect
<1>3. EventsOf(p)' = EventsOf(p) \cup {e}
  BY <1>2 DEF EventsOf
<1>4. /\ pc[t] = "commit" /\ total' = [total EXCEPT ![p] = total[p] + credits[t]]
      /\ head' = [head EXCEPT ![p] = e.id]
      /\ headOwner' = [headOwner EXCEPT ![p] = None]
      /\ pending' = [pending EXCEPT ![t] = None]
      /\ \E outcome \in {"appended", "unknown"} : pc' = [pc EXCEPT ![t] = outcome]
      /\ sequence' = sequence /\ provider' = provider /\ credits' = credits
      /\ attempt' = attempt /\ seen' = seen /\ exported' = exported
  BY <1>1 DEF Commit, NewTotal
<1>5. TypeOK /\ CallInv(t) /\ headOwner[p] = t /\ \A u \in Requests : u # None
  BY <1>1, <1>4, LedgerAssumption DEF LedgerInv, CallInv
<1>6. TypeOK'
  <2>1. total[p] + credits[t] \in Int
    <3>1. total[p] \in Int /\ credits[t] \in Credits /\ Credits \subseteq Int
      BY <1>5, LedgerAssumption DEF TypeOK
    <3>2. credits[t] \in Int
      BY <3>1
    <3> QED BY <3>1, <3>2
  <2>2. \A f \in events' : f.id \in Nat /\ f.provider \in Providers /\ f.credits \in Credits
    BY <1>2, <1>5 DEF TypeOK, IsRow
  <2> QED BY <1>2, <1>4, <1>5, <2>1, <2>2 DEF TypeOK, Ended, IsRow
<1>7. Rows'
  BY <1>2, <1>4 DEF LedgerInv, Rows, IsRow
<1>8. Heads'
  <2>1. Last(EventsOf(p) \cup {e}) = e
    <3>1. \A f \in EventsOf(p) \cup {e} : f.id \in Nat /\ f.id <= e.id
      BY <1>2, <1>5 DEF TypeOK, EventsOf, IsRow
    <3>2. \A f, g \in EventsOf(p) \cup {e} : f.id = g.id => f = g
      BY <1>2 DEF LedgerInv, Rows, EventsOf
    <3> QED BY <3>1, <3>2, LastIs
  <2>2. head'[p] = e.id /\ \A q \in Providers : q # p => head'[q] = head[q]
    BY <1>4, <1>5 DEF TypeOK
  <2>3. ASSUME NEW q \in Providers
        PROVE  head'[q] = IF EventsOf(q)' = {} THEN None ELSE Last(EventsOf(q)').id
    BY <1>2, <1>3, <2>1, <2>2 DEF LedgerInv, Heads
  <2>4. \A q \in Providers : Last(EventsOf(q))' = Last(EventsOf(q)')
    BY DEF Last, EventsOf
  <2> QED BY <2>3, <2>4 DEF Heads
<1>9. pc'[t] \in {"appended", "unknown"} /\ \A u \in Requests \ {t} : pc'[u] = pc[u]
  BY <1>4, <1>5 DEF TypeOK
<1>10. OncePerRequest'
  BY <1>2, <1>4, <1>9 DEF LedgerInv, OncePerRequest
<1>11. ExportsStayPrefixes'
  <2> SUFFICES ASSUME NEW u \in Requests, pc'[u] \in {"issue", "issued"}
               PROVE  IsPrefixOf(exported[u], EventsOf(provider[u])')
    BY <1>4 DEF ExportsStayPrefixes, IsPrefixOf, EventsOf
  <2>1. IsPrefixOf(exported[u], EventsOf(provider[u])) /\ provider[u] \in Providers
    BY <1>5, <1>9 DEF LedgerInv, ExportsStayPrefixes, TypeOK
  <2>2. CASE provider[u] = p
    <3>1. EventsOf(provider[u])' = EventsOf(p) \cup {e}
      BY <1>2, <1>4, <2>2 DEF EventsOf
    <3>2. \A f \in EventsOf(p) : f.id \in Nat /\ e.id \in Nat
      BY <1>2, <1>5 DEF TypeOK, EventsOf, IsRow
    <3> QED BY <1>2, <2>1, <2>2, <3>1, <3>2 DEF IsPrefixOf
  <2>3. CASE provider[u] # p
    <3>1. EventsOf(provider[u])' = EventsOf(provider[u])
      BY <1>2, <1>4, <2>1, <2>3 DEF EventsOf
    <3> QED BY <2>1, <3>1
  <2> QED BY <2>2, <2>3
<1>12. ASSUME NEW u \in Requests PROVE CallInv(u)'
  <2>1. CASE u = t
    BY <1>9, <2>1 DEF CallInv
  <2>2. CASE u # t /\ pc[u] \in {"write", "commit"}
    <3>1. CallInv(u) /\ provider[u] \in Providers /\ provider[u] # p
      BY <1>5, <2>2 DEF LedgerInv, CallInv, TypeOK
    <3>2. /\ headOwner'[provider[u]] = u /\ seen'[u] = head'[provider[u]]
          /\ pending'[u] = pending[u] /\ pc'[u] = pc[u]
      BY <1>4, <1>5, <1>9, <2>2, <3>1 DEF TypeOK, LedgerInv, CallInv
    <3>3. EventsOf(provider[u])' = EventsOf(provider[u])
      BY <1>2, <1>4, <3>1 DEF EventsOf
    <3>4. Appended(u, pending[u].id)' = Appended(u, pending[u].id)
      BY <1>4, <3>2, <3>3 DEF Appended, EndHash
    <3>5. pc[u] = "commit" => \A f \in events' : f.id # pending[u].id
      BY <1>1, <1>2, <1>4, <2>2, <3>1 DEF CallInv
    <3>6. pc[u] = "commit" => \A w \in Requests \ {u} : pc'[w] = "commit" =>
            pending'[w].id # pending[u].id
      BY <1>4, <1>9, <3>1 DEF CallInv, LedgerInv
    <3> QED BY <1>4, <3>1, <3>2, <3>3, <3>4, <3>5, <3>6 DEF CallInv
  <2>3. CASE u # t /\ pc[u] \notin {"write", "commit"}
    BY <1>9, <2>3 DEF CallInv
  <2> QED BY <2>1, <2>2, <2>3
<1>13. /\ pending' = [u \in Requests |-> pending'[u]]
       /\ exported' = [u \in Requests |-> exported'[u]]
  BY <1>4 DEF LedgerInv
<1> QED BY <1>6, <1>7, <1>8, <1>10, <1>11, <1>12, <1>13 DEF LedgerInv

(***************************************************************************)
(* The invariant                                                           *)
(***************************************************************************)
LEMMA InitIsSound == Init => LedgerInv
<1> SUFFICES ASSUME Init PROVE LedgerInv
  OBVIOUS
<1>1. TypeOK /\ Rows
  BY LedgerAssumption DEF Init, TypeOK, Rows
<1>2. Heads /\ OncePerRequest /\ ExportsStayPrefixes
  BY DEF Init, Heads, OncePerRequest, ExportsStayPrefixes, EventsOf
<1>3. \A t \in Requests : CallInv(t)
  BY DEF Init, CallInv
<1>4. pending = [t \in Requests |-> pending[t]] /\ exported = [t \in Requests |-> exported[t]]
  BY DEF Init
<1> QED BY <1>1, <1>2, <1>3, <1>4 DEF LedgerInv

LEMMA StutterKeeps ==
    ASSUME LedgerInv, UNCHANGED vars
    PROVE  LedgerInv'
<1>1. /\ events' = events /\ total' = total /\ head' = head /\ sequence' = sequence
      /\ headOwner' = headOwner /\ pc' = pc /\ provider' = provider /\ credits' = credits
      /\ attempt' = attempt /\ seen' = seen /\ pending' = pending /\ exported' = exported
  BY DEF vars, ledgerVars, txVars
<1>2. \A p : EventsOf(p)' = EventsOf(p)
  BY <1>1 DEF EventsOf
<1>3. TypeOK' /\ Rows' /\ Heads' /\ OncePerRequest' /\ ExportsStayPrefixes'
  BY <1>1, <1>2 DEF LedgerInv, TypeOK, Rows, Heads, OncePerRequest, ExportsStayPrefixes
<1>4. \A t \in Requests : CallInv(t)'
  BY <1>1, <1>2 DEF LedgerInv, CallInv, Appended, EndHash
<1> QED BY <1>1, <1>3, <1>4 DEF LedgerInv

LEMMA StepKeepsInvariant == LedgerInv /\ [Next]_vars => LedgerInv'
<1> SUFFICES ASSUME LedgerInv, [Next]_vars PROVE LedgerInv'
  OBVIOUS
<1>1. CASE UNCHANGED vars
  BY <1>1, StutterKeeps
<1>2. ASSUME NEW t \in Requests, Call(t) PROVE LedgerInv'
  BY <1>2, CallStep
<1>3. ASSUME NEW t \in Requests, Step(t) PROVE LedgerInv'
  BY <1>3, CallStep, LockHeadStep, WriteStep, CommitStep DEF Step
<1>4. ASSUME NEW t \in Requests, SerializationFailure(t) PROVE LedgerInv'
  BY <1>4, RetryStep DEF SerializationFailure, Running
<1>5. ASSUME NEW t \in Requests, Fail(t) PROVE LedgerInv'
  BY <1>5, UndoStep DEF Fail
<1> QED BY <1>1, <1>2, <1>3, <1>4, <1>5 DEF Next

LEMMA Invariance == Spec => []LedgerInv
BY InitIsSound, StepKeepsInvariant, PTL DEF Spec

(* The rows and the calls keep their types, and no call makes more attempts *)
(* than withSerializableRetry allows (transaction.ts:27).                   *)
THEOREM TypeCorrect == Spec => []TypeOK
<1>1. LedgerInv => TypeOK
  BY DEF LedgerInv
<1> QED BY <1>1, Invariance, PTL

(* A call writes one event when it reports success and none when it reports *)
(* failure, whatever its attempts did (transaction.ts:22-36).               *)
THEOREM WritesOnce == Spec => []OncePerRequest
<1>1. LedgerInv => OncePerRequest
  BY DEF LedgerInv
<1> QED BY <1>1, Invariance, PTL

(* What an export read stays the beginning of the ledger                    *)
(* (ledger-settlement.ts:79-111).                                           *)
THEOREM ExportsStay == Spec => []ExportsStayPrefixes
<1>1. LedgerInv => ExportsStayPrefixes
  BY DEF LedgerInv
<1> QED BY <1>1, Invariance, PTL

(***************************************************************************)
(* The chain                                                               *)
(***************************************************************************)
(* SHA-256 yields neither LEDGER_GENESIS_HASH nor NULL.                     *)
GenuineHashes == \A previous, id, p, c : Hash(previous, id, p, c) \notin {Genesis, None}

Chained == \A p \in Providers : Verifies(EventsOf(p))

(* The predecessor verifyLedgerChain expects of a row.                      *)
Before(S, e) == {f \in S : f.id < e.id}
Expected(S, e) == IF Before(S, e) = {} THEN Genesis ELSE Last(Before(S, e)).hash

LEMMA VerifiesMeans ==
    ASSUME NEW S
    PROVE  Verifies(S) <=>
              \A e \in S : /\ Before(S, e) # {} => e.previous # None
                           /\ e.previous # None => e.previous = Expected(S, e)
                           /\ e.hash = Hash(Expected(S, e), e.id, e.provider, e.credits)
BY DEF Verifies, Before, Expected

(* A verified chain stays one when a row is appended that carries the hash  *)
(* of the last.                                                             *)
LEMMA ChainGrows ==
    ASSUME LedgerInv, GenuineHashes, NEW t \in Requests, Commit(t),
           Verifies(EventsOf(provider[t]))
    PROVE  Verifies(EventsOf(provider[t]) \cup {pending[t]})
<1>1. PICK p, e : e = pending[t] /\ p = provider[t]
  OBVIOUS
<1> DEFINE S == EventsOf(p)
           T == S \cup {e}
<1>2. /\ p \in Providers /\ e = Appended(t, e.id) /\ IsRow(e)
      /\ \A f \in S : f.id < e.id
  BY <1>1, CommitEffect
<1>3. \A f \in S : f.id \in Nat /\ f # e
  BY <1>2 DEF EventsOf, LedgerInv, TypeOK, IsRow
<1>4. \A f \in S : Before(T, f) = Before(S, f)
  BY <1>2, <1>3 DEF Before, IsRow
<1>5. Before(T, e) = S
  BY <1>2, <1>3 DEF Before, IsRow
<1> HIDE DEF S
<1>6. Expected(T, e) = EndHash(p)
  BY <1>5 DEF Expected, EndHash, S
<1>7. \A f \in S : Expected(T, f) = Expected(S, f)
  BY <1>4 DEF Expected
<1>8. /\ e.previous = IF S = {} THEN None ELSE EndHash(p)
      /\ e.hash = Hash(EndHash(p), e.id, e.provider, e.credits)
  BY <1>1, <1>2 DEF Appended, S
<1>9. S # {} => EndHash(p) # None
  <2> SUFFICES ASSUME S # {} PROVE EndHash(p) # None
    OBVIOUS
  <2>1. Last(S) \in S /\ EndHash(p) = Last(S).hash
    BY <1>2, EndOfLedger DEF S, EndHash
  <2>2. \E x : Last(S).hash = Hash(x, Last(S).id, Last(S).provider, Last(S).credits)
    BY <1>1, <2>1 DEF Verifies, S
  <2> QED BY <2>1, <2>2 DEF GenuineHashes
<1>10. \A f \in S : /\ Before(S, f) # {} => f.previous # None
                    /\ f.previous # None => f.previous = Expected(S, f)
                    /\ f.hash = Hash(Expected(S, f), f.id, f.provider, f.credits)
  BY <1>1, VerifiesMeans DEF S
<1>11. \A f \in T : /\ Before(T, f) # {} => f.previous # None
                    /\ f.previous # None => f.previous = Expected(T, f)
                    /\ f.hash = Hash(Expected(T, f), f.id, f.provider, f.credits)
  <2>1. /\ Before(T, e) # {} => e.previous # None
        /\ e.previous # None => e.previous = Expected(T, e)
        /\ e.hash = Hash(Expected(T, e), e.id, e.provider, e.credits)
    BY <1>5, <1>6, <1>8, <1>9
  <2> QED BY <1>4, <1>7, <1>10, <2>1
<1>12. Verifies(T)
  <2> HIDE DEF T
  <2> QED BY <1>11, VerifiesMeans
<1> QED BY <1>1, <1>12 DEF S

LEMMA ChainKept ==
    ASSUME LedgerInv, GenuineHashes, Chained, [Next]_vars
    PROVE  Chained'
<1>1. ASSUME NEW t \in Requests, Commit(t) PROVE Chained'
  <2>1. ASSUME NEW p \in Providers PROVE Verifies(EventsOf(p)')
    <3>1. CASE p = provider[t]
      <4>1. EventsOf(p)' = EventsOf(provider[t]) \cup {pending[t]}
        BY <1>1, <3>1, CommitEffect DEF EventsOf
      <4> QED BY <1>1, <3>1, <4>1, ChainGrows DEF Chained
    <3>2. CASE p # provider[t]
      <4>1. EventsOf(p)' = EventsOf(p)
        BY <1>1, <3>2, CommitEffect
      <4> QED BY <4>1 DEF Chained
    <3> QED BY <3>1, <3>2
  <2>2. \A p : Verifies(EventsOf(p))' = Verifies(EventsOf(p)')
    BY DEF Verifies, EventsOf, Last
  <2> QED BY <2>1, <2>2 DEF Chained
<1>2. ASSUME events' = events PROVE Chained'
  BY <1>2 DEF Chained, Verifies, EventsOf, Last
<1>3. ASSUME NEW t \in Requests, Step(t), ~Commit(t) PROVE events' = events
  BY <1>3 DEF Step, TakeSnapshot, LockHead, Retry, Undo, Write, ReadEvidence, Issue, ledgerVars
<1>4. ASSUME NEW t \in Requests, Call(t) \/ SerializationFailure(t) \/ Fail(t)
      PROVE  events' = events
  BY <1>4 DEF Call, SerializationFailure, Retry, Fail, Undo, ledgerVars
<1>5. UNCHANGED vars => events' = events
  BY DEF vars, ledgerVars
<1> QED BY <1>1, <1>2, <1>3, <1>4, <1>5 DEF Next

(* A set of rows of one provider that verifies is what was appended first:  *)
(* a row missing before a later one would break the later one's hash.       *)
LEMMA OnlyPrefixesVerify ==
    ASSUME LedgerInv, GenuineHashes, Chained, NEW p \in Providers,
           NEW S \in SUBSET EventsOf(p)
    PROVE  Verifies(S) <=> IsPrefixOf(S, EventsOf(p))
<1> DEFINE All == EventsOf(p)
<1>1. /\ \A e \in All : e.id \in Nat /\ e.id <= sequence /\ sequence \in Nat
      /\ \A e, f \in All : e.id = f.id => e = f
  BY DEF LedgerInv, TypeOK, Rows, IsRow, EventsOf
<1>2. \A e \in All : /\ Before(All, e) # {} => e.previous # None
                     /\ e.previous # None => e.previous = Expected(All, e)
                     /\ e.hash = Hash(Expected(All, e), e.id, e.provider, e.credits)
  BY VerifiesMeans DEF Chained
<1> HIDE DEF All
<1>3. ASSUME IsPrefixOf(S, All) PROVE Verifies(S)
  <2>1. \A e \in S : Before(S, e) = Before(All, e) /\ e \in All
    BY <1>1, <1>3 DEF IsPrefixOf, Before
  <2>2. \A e \in S : Expected(S, e) = Expected(All, e)
    BY <2>1 DEF Expected
  <2> QED BY <1>2, <2>1, <2>2, VerifiesMeans
<1>4. ASSUME Verifies(S) PROVE IsPrefixOf(S, All)
  <2> SUFFICES ASSUME NEW e \in S, NEW f \in All, f.id <= e.id, f \notin S
               PROVE  FALSE
    BY DEF IsPrefixOf, All
  <2> DEFINE G == {g \in S : f.id < g.id}
  <2>1. \A g \in S : g \in All
    BY DEF All
  <2>2. e \in G
    BY <1>1, <2>1
  <2>3. PICK g \in G : \A h \in G : g.id <= h.id
    <3>1. \A h \in G : h.id \in Nat
      BY <1>1, <2>1
    <3> HIDE DEF G
    <3> QED BY <2>2, <3>1, FirstExists
  <2>4. g \in S /\ g \in All /\ f.id < g.id /\ f \in Before(All, g)
    BY <2>1, <2>3 DEF Before
  <2> DEFINE m == Last(Before(All, g))
  <2>5. m \in Before(All, g) /\ \A h \in Before(All, g) : h.id <= m.id
    <3>1. Before(All, g) # {} /\ \A h \in Before(All, g) : h.id \in Nat /\ h.id <= sequence
      BY <1>1, <2>4 DEF Before
    <3> QED BY <1>1, <2>4, <3>1, LastExists
  <2> HIDE DEF m
  <2>6. Expected(S, g) = Expected(All, g) /\ Expected(All, g) = m.hash
    <3>1. g.hash = Hash(Expected(S, g), g.id, g.provider, g.credits)
      BY <1>4, <2>4, VerifiesMeans
    <3>2. g.hash = Hash(Expected(All, g), g.id, g.provider, g.credits)
      BY <1>2, <2>4
    <3>3. Expected(All, g) = m.hash
      BY <2>4 DEF Expected, m
    <3> QED BY <3>1, <3>2, <3>3 DEF Hash
  <2>7. m \in All /\ m.id < g.id /\ f.id <= m.id
    BY <2>4, <2>5 DEF Before
  <2>8. \E x : m.hash = Hash(x, m.id, m.provider, m.credits)
    BY <1>2, <2>7
  <2>9. Before(S, g) # {}
    BY <2>6, <2>8 DEF Expected, GenuineHashes
  <2> DEFINE k == Last(Before(S, g))
  <2>10. k \in Before(S, g)
    <3>1. \A h \in Before(S, g) : h.id \in Nat /\ h.id <= sequence
      BY <1>1, <2>1 DEF Before
    <3> QED BY <1>1, <2>4, <2>9, <3>1, LastExists
  <2>11. k.hash = m.hash
    BY <2>6, <2>9 DEF Expected
  <2> HIDE DEF k
  <2>12. k \in S /\ k \in All
    BY <2>1, <2>10 DEF Before
  <2>13. k.id = m.id
    <3>1. \E x : k.hash = Hash(x, k.id, k.provider, k.credits)
      BY <1>2, <2>12
    <3> QED BY <2>8, <2>11, <3>1 DEF Hash
  <2>14. m \in S
    BY <1>1, <2>7, <2>12, <2>13
  <2>15. f.id < m.id
    BY <1>1, <2>7, <2>14
  <2>16. m \in G
    BY <2>14, <2>15
  <2> QED BY <1>1, <2>3, <2>4, <2>7, <2>16
<1> QED BY <1>3, <1>4 DEF All

(* The hash of a row covers its amount.                                     *)
LEMMA AmountsAreCovered ==
    ASSUME LedgerInv, GenuineHashes, Chained, NEW p \in Providers, NEW e \in EventsOf(p)
    PROVE  ~Verifies((EventsOf(p) \ {e}) \cup {[e EXCEPT !.credits = @ + 1]})
<1> DEFINE d == [e EXCEPT !.credits = @ + 1]
           T == (EventsOf(p) \ {e}) \cup {d}
<1>1. IsRow(e)
  BY DEF LedgerInv, Rows, EventsOf
<1>2. e.credits \in Int
  BY <1>1, LedgerAssumption DEF IsRow
<1>3. d.id = e.id /\ d.provider = e.provider /\ d.hash = e.hash /\ d.credits = e.credits + 1
  BY <1>1 DEF IsRow
<1>4. \E x : e.hash = Hash(x, e.id, e.provider, e.credits)
  BY VerifiesMeans DEF Chained
<1> HIDE DEF d
<1> SUFFICES ASSUME Verifies(T) PROVE FALSE
  BY DEF d
<1>5. \E x : d.hash = Hash(x, d.id, d.provider, d.credits)
  BY VerifiesMeans
<1>6. e.credits = e.credits + 1
  BY <1>3, <1>4, <1>5 DEF Hash
<1> QED BY <1>2, <1>6

(* The chain of every provider verifies, its prefixes verify, nothing else  *)
(* does, and no amount can be changed (hash-chain.ts:35-47), as long as     *)
(* hashes do not collide.                                                   *)
THEOREM ChainIsTamperEvident ==
    ASSUME GenuineHashes
    PROVE  Spec => []TamperEvident
<1>1. Init => Chained
  BY DEF Init, Chained, Verifies, EventsOf
<1>2. LedgerInv /\ Chained /\ [Next]_vars => Chained'
  BY ChainKept
<1>3. LedgerInv /\ Chained => TamperEvident
  BY OnlyPrefixesVerify, AmountsAreCovered DEF TamperEvident
<1> QED BY <1>1, <1>2, <1>3, Invariance, PTL DEF Spec

(***************************************************************************)
(* The balance                                                             *)
(***************************************************************************)
(* The stored total of a provider is the sum of its events, of which there  *)
(* are finitely many.                                                       *)
Totals ==
    /\ IsFiniteSet(events)
    /\ \A p \in Providers : total[p] = Sum(EventsOf(p))

LEMMA TotalsKept ==
    ASSUME LedgerInv, Totals, [Next]_vars
    PROVE  Totals'
<1>1. ASSUME NEW t \in Requests, Commit(t) PROVE Totals'
  <2> DEFINE e == pending[t]
  <2>1. /\ provider[t] \in Providers /\ e = Appended(t, e.id) /\ IsRow(e) /\ e \notin events
        /\ e.provider = provider[t] /\ events' = events \cup {e}
        /\ \A q \in Providers : q # provider[t] => EventsOf(q)' = EventsOf(q)
    BY <1>1, CommitEffect
  <2>2. total' = [total EXCEPT ![provider[t]] = total[provider[t]] + credits[t]]
    BY <1>1 DEF Commit, NewTotal
  <2>3. total \in [Providers -> Int] /\ \A d \in events : d.credits \in Int
    BY LedgerAssumption DEF LedgerInv, TypeOK
  <2> HIDE DEF e
  <2>4. e.credits = credits[t] /\ e.credits \in Int
    <3>1. e.credits = credits[t]
      BY <2>1 DEF Appended
    <3> QED BY <2>1, <3>1, LedgerAssumption DEF IsRow
  <2>5. IsFiniteSet(events')
    BY <2>1, FS_AddElement DEF Totals
  <2>6. ASSUME NEW p \in Providers PROVE total'[p] = Sum(EventsOf(p)')
    <3>1. CASE p = provider[t]
      <4>1. total'[p] = total[p] + e.credits
        BY <2>2, <2>3, <2>4, <3>1
      <4>2. IsFiniteSet(EventsOf(p)) /\ e \notin EventsOf(p)
        BY <2>1, FS_Subset DEF EventsOf, Totals
      <4>3. \A d \in EventsOf(p) \cup {e} : d.credits \in Int
        BY <2>3, <2>4 DEF EventsOf
      <4>4. Sum(EventsOf(p) \cup {e}) = Sum(EventsOf(p)) + e.credits
        BY <4>2, <4>3, SumAdds
      <4>5. EventsOf(p)' = EventsOf(p) \cup {e}
        BY <2>1, <3>1 DEF EventsOf
      <4> QED BY <4>1, <4>4, <4>5 DEF Totals
    <3>2. CASE p # provider[t]
      BY <2>1, <2>2, <2>3, <3>2 DEF Totals
    <3> QED BY <3>1, <3>2
  <2>7. \A p : Sum(EventsOf(p))' = Sum(EventsOf(p)')
    OBVIOUS
  <2> QED BY <2>5, <2>6, <2>7 DEF Totals
<1>2. ASSUME UNCHANGED <<events, total>> PROVE Totals'
  <2>1. \A p : EventsOf(p)' = EventsOf(p)
    BY <1>2 DEF EventsOf
  <2> QED BY <1>2, <2>1 DEF Totals
<1>3. ASSUME NEW t \in Requests, Step(t), ~Commit(t) PROVE UNCHANGED <<events, total>>
  BY <1>3 DEF Step, TakeSnapshot, LockHead, Retry, Undo, Write, ReadEvidence, Issue, ledgerVars
<1>4. ASSUME NEW t \in Requests, Call(t) \/ SerializationFailure(t) \/ Fail(t)
      PROVE  UNCHANGED <<events, total>>
  BY <1>4 DEF Call, SerializationFailure, Retry, Fail, Undo, ledgerVars
<1>5. UNCHANGED vars => UNCHANGED <<events, total>>
  BY DEF vars, ledgerVars
<1> QED BY <1>1, <1>2, <1>3, <1>4, <1>5 DEF Next

(* total_credits of a provider is the sum of the amounts of its events,     *)
(* and last_event_id the last of them, for any number of concurrent appends *)
(* with retries and failures (append_credit_event,                          *)
(* 002_integrity_hardening.sql).                                            *)
THEOREM BalanceIsSum == Spec => []BalanceReconciles
<1>1. Init => Totals
  <2>1. ASSUME Init, NEW p \in Providers PROVE total[p] = 0 /\ EventsOf(p) = {}
    BY <2>1 DEF Init, EventsOf
  <2>2. Init => events = {}
    BY DEF Init
  <2> QED BY <2>1, <2>2, SumOfNothing, FS_EmptySet DEF Totals
<1>2. LedgerInv /\ Totals /\ [Next]_vars => Totals'
  BY TotalsKept
<1>3. LedgerInv /\ Totals => BalanceReconciles
  BY DEF LedgerInv, Heads, Totals, Sum, BalanceReconciles
<1> QED BY <1>1, <1>2, <1>3, Invariance, PTL DEF Spec

(***************************************************************************)
(* No circle of waits                                                      *)
(***************************************************************************)
(* Who has a balance row locked is past its only wait.                      *)
HoldersMove ==
    \A p \in Providers, u \in Requests :
        headOwner[p] = u => provider[u] = p /\ pc[u] \in {"write", "commit"}

(* Request t waits for the balance row that request u has locked.           *)
WaitsFor(t, u) == pc[t] = "lockHead" /\ headOwner[provider[t]] = u

LEMMA HoldersKeepMoving ==
    ASSUME LedgerInv, HoldersMove, [Next]_vars
    PROVE  HoldersMove'
<1>1. TypeOK /\ \A u \in Requests : u # None
  BY LedgerAssumption DEF LedgerInv
<1>2. ASSUME NEW t \in Requests, Undo(t), NEW next, pc' = [pc EXCEPT ![t] = next]
      PROVE  HoldersMove'
  <2>1. /\ \A u \in Requests \ {t} : pc'[u] = pc[u]
        /\ \A p \in Providers, u \in Requests :
              headOwner'[p] = u => u # t /\ headOwner[p] = u
    BY <1>1, <1>2 DEF Undo, TypeOK
  <2> QED BY <1>2, <2>1 DEF Undo, HoldersMove
<1>3. ASSUME NEW t \in Requests, Retry(t) PROVE HoldersMove'
  BY <1>2, <1>3 DEF Retry
<1>4. ASSUME NEW t \in Requests, LockHead(t) PROVE HoldersMove'
  <2>1. CASE HeadUnchanged(t)
    <3>1. /\ pc[t] = "lockHead" /\ headOwner' = [headOwner EXCEPT ![provider[t]] = t]
          /\ pc' = [pc EXCEPT ![t] = "write"] /\ provider' = provider
      BY <1>4, <2>1 DEF LockHead
    <3> QED BY <1>1, <3>1 DEF HoldersMove, TypeOK
  <2> QED BY <1>3, <1>4, <2>1 DEF LockHead
<1>5. ASSUME NEW t \in Requests, Commit(t) PROVE HoldersMove'
  <2>1. headOwner[provider[t]] = t /\ provider[t] \in Providers
    BY <1>1, <1>5 DEF Commit, LedgerInv, CallInv, TypeOK
  <2>2. /\ headOwner' = [headOwner EXCEPT ![provider[t]] = None] /\ provider' = provider
        /\ \A u \in Requests \ {t} : pc'[u] = pc[u]
    BY <1>1, <1>5 DEF Commit, TypeOK
  <2> QED BY <1>1, <2>1, <2>2 DEF HoldersMove, TypeOK
<1>6. ASSUME NEW t \in Requests,
             Call(t) \/ TakeSnapshot(t) \/ Write(t) \/ ReadEvidence(t) \/ Issue(t)
      PROVE  HoldersMove'
  BY <1>1, <1>6 DEF Call, TakeSnapshot, Write, ReadEvidence, Issue, HoldersMove, TypeOK
<1>7. ASSUME NEW t \in Requests, SerializationFailure(t) \/ Fail(t) PROVE HoldersMove'
  BY <1>2, <1>3, <1>7 DEF SerializationFailure, Fail
<1>8. CASE UNCHANGED vars
  BY <1>8 DEF vars, txVars, HoldersMove
<1> QED BY <1>4, <1>5, <1>6, <1>7, <1>8 DEF Next, Step

(* A request waits only for one that waits for nobody and has not ended,    *)
(* however its attempts failed: appends never block each other for good     *)
(* (append-credit-event.ts, shared/transaction.ts).                          *)
THEOREM AppendsNeverDeadlock ==
    Spec => []\A t, u \in Requests :
                WaitsFor(t, u) => pc[u] \in {"write", "commit"} /\ provider[u] = provider[t]
<1> DEFINE Good == \A t, u \in Requests :
                WaitsFor(t, u) => pc[u] \in {"write", "commit"} /\ provider[u] = provider[t]
<1>1. Init => HoldersMove
  BY LedgerAssumption DEF Init, HoldersMove
<1>2. LedgerInv /\ HoldersMove /\ [Next]_vars => HoldersMove'
  BY HoldersKeepMoving
<1>3. LedgerInv /\ HoldersMove => Good
  BY DEF LedgerInv, TypeOK, HoldersMove, WaitsFor
<1> QED BY <1>1, <1>2, <1>3, Invariance, PTL DEF Spec
=============================================================================
