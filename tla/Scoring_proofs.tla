--------------------------- MODULE Scoring_proofs ---------------------------
(***************************************************************************)
(* Lemmas about what Scoring computes: sums over finite sets, the points of *)
(* a challenge as it is solved more often, the score of a team and what its *)
(* unlocks cost. A table here is a function with finitely many rows: all of *)
(* a table, or what is left of it before the freeze.                        *)
(***************************************************************************)
EXTENDS Scoring, FiniteSetTheorems, TLAPS

\* The rows of a sequence are finitely many.
LEMMA SeqFinite ==
  ASSUME NEW S, NEW rows \in Seq(S)
  PROVE  IsFiniteSet(DOMAIN rows)
<1>1. Len(rows) \in Nat /\ DOMAIN rows = 1..Len(rows)
  OBVIOUS
<1> QED
  BY <1>1, FS_Interval

\* Of sets of subsets of a finite set, one contains no other.
LEMMA MinimalSet ==
  ASSUME NEW D, IsFiniteSet(D), NEW Bad \in SUBSET SUBSET D, Bad # {}
  PROVE  \E s \in Bad : \A r \in Bad : r \subseteq s => r = s
<1>1. Bad \subseteq FiniteSubsetsOf(D)
  BY FS_FiniteSubsetsOfFinite
<1>2. PICK s \in Bad : \A r \in Bad : ~ (<<r, s>> \in StrictSubsetOrdering(D))
  BY <1>1, FS_StrictSubsetOrderingWellFounded, WFMin, Zenon
<1>3. \A r \in Bad : r \subseteq s => r = s
  BY <1>2 DEF StrictSubsetOrdering
<1> QED
  BY <1>3

\* The element a sum takes next, and a table of the sums of f over the sets of S.
Pick(s) == CHOOSE x \in s : TRUE

TableEntry(g, f, s) == IF s = {} THEN 0 ELSE f[Pick(s)] + g[s \ {Pick(s)}]

IsTable(g, f, S) == g = [s \in S |-> TableEntry(g, f, s)]

\* What is picked is an element.
LEMMA PickIn ==
  ASSUME NEW s, s # {}
  PROVE  Pick(s) \in s
BY DEF Pick

\* A table at one set.
LEMMA TableAt ==
  ASSUME NEW g, NEW f, NEW S, IsTable(g, f, S), NEW s \in S
  PROVE  g[s] = TableEntry(g, f, s)
BY DEF IsTable

\* There is such a table for the subsets of a finite set: by the least size for
\* which there is none.
LEMMA TableExists ==
  ASSUME NEW D, IsFiniteSet(D), NEW f
  PROVE  \E g : IsTable(g, f, SUBSET D)
<1> DEFINE Upto(n) == {s \in SUBSET D : Cardinality(s) <= n}
           Bad     == {n \in Nat : ~ \E g : IsTable(g, f, Upto(n))}
<1>0. \A s \in SUBSET D : /\ IsFiniteSet(s) /\ Cardinality(s) \in Nat
                          /\ Cardinality(s) <= Cardinality(D)
  BY FS_Subset, FS_CardinalityType
<1>1. ASSUME Bad # {}
      PROVE  FALSE
  <2>1. PICK n \in Bad : \A m \in Bad : ~ (<<m, n>> \in OpToRel(<, Nat))
    <3>1. Bad \subseteq Nat
      OBVIOUS
    <3> HIDE DEF Bad
    <3> QED
      BY <1>1, <3>1, NatLessThanWellFounded, WFMin, Zenon
  <2>2. CASE n = 0
    <3> DEFINE g == [s \in Upto(0) |-> 0]
    <3>1. \A s \in Upto(0) : s = {}
      <4>1. \A s \in Upto(0) : IsFiniteSet(s) /\ Cardinality(s) = 0
        BY <1>0
      <4> QED
        BY <4>1, FS_EmptySet
    <3>2. IsTable(g, f, Upto(0))
      BY <3>1 DEF IsTable, TableEntry
    <3> QED
      BY <2>1, <2>2, <3>2
  <2>3. CASE n # 0
    <3> DEFINE m == n - 1
    <3>1. n \in Nat /\ m \in Nat /\ m < n /\ n = m + 1
      <4>1. n \in Nat
        OBVIOUS
      <4> HIDE DEF Bad
      <4> QED
        BY <2>3, <4>1
    <3>2. m \notin Bad
      BY <2>1, <3>1 DEF OpToRel
    <3>3. PICK g : IsTable(g, f, Upto(m))
      BY <3>1, <3>2
    <3> DEFINE k == [s \in Upto(n) |-> TableEntry(g, f, s)]
    <3>4. \A s \in Upto(m) : g[s] = TableEntry(g, f, s)
      BY <3>3, TableAt
    <3>5. ASSUME NEW s \in Upto(n), s # {}
          PROVE  s \ {Pick(s)} \in Upto(m)
      <4>1. IsFiniteSet(s) /\ Cardinality(s) \in Nat /\ Cardinality(s) <= n
            /\ s \ {Pick(s)} \in SUBSET D
        BY <1>0, <3>5
      <4>2. Cardinality(s \ {Pick(s)}) = Cardinality(s) - 1
        <5>1. Pick(s) \in s
          BY <3>5, PickIn
        <5> HIDE DEF Upto
        <5> QED
          BY <4>1, <5>1, FS_RemoveElement
      <4>3. Cardinality(s \ {Pick(s)}) <= m
        BY <3>1, <4>1, <4>2
      <4> QED
        BY <4>2, <4>3
    <3>6. \A s \in Upto(m) : k[s] = g[s]
      <4>1. \A s \in Upto(m) : s \in Upto(n)
        BY <1>0, <3>1
      <4> HIDE DEF Upto
      <4> QED
        BY <3>4, <4>1
    <3>7. \A s \in Upto(n) : TableEntry(g, f, s) = TableEntry(k, f, s)
      BY <3>5, <3>6 DEF TableEntry
    <3>8. k = [s \in Upto(n) |-> TableEntry(k, f, s)]
      <4>1. k = [s \in Upto(n) |-> TableEntry(g, f, s)]
        OBVIOUS
      <4> HIDE DEF k, Upto
      <4> QED
        BY <3>7, <4>1
    <3>9. IsTable(k, f, Upto(n))
      <4> HIDE DEF k, Upto
      <4> QED
        BY <3>8 DEF IsTable
    <3> HIDE DEF k, Upto
    <3>10. \E h : IsTable(h, f, Upto(n))
      BY <3>9
    <3> QED
      BY <2>1, <3>10 DEF Bad
  <2> QED
    BY <2>2, <2>3
<1>2. Cardinality(D) \in Nat /\ Upto(Cardinality(D)) = SUBSET D
  BY <1>0, FS_CardinalityType
<1>3. \E g : IsTable(g, f, Upto(Cardinality(D)))
  BY <1>1, <1>2
<1> QED
  BY <1>2, <1>3

\* SumOf is read off such a table.
LEMMA SumTable ==
  ASSUME NEW f, IsFiniteSet(DOMAIN f)
  PROVE  \E g : IsTable(g, f, SUBSET DOMAIN f) /\ SumOf(f) = g[DOMAIN f]
<1> DEFINE g == CHOOSE g : IsTable(g, f, SUBSET DOMAIN f)
<1>1. IsTable(g, f, SUBSET DOMAIN f)
  BY TableExists
<1>2. SumOf(f) = g[DOMAIN f]
  BY DEF SumOf, Folds!MapThenFoldSet, IsTable, TableEntry, Pick
<1> QED
  BY <1>1, <1>2, Zenon

AgreeOn(f, e, S) == \A x \in S : f[x] = e[x]

\* What such a table holds for a set does not depend on the rest of it.
LEMMA TablesAgree ==
  ASSUME NEW D, IsFiniteSet(D), NEW f, NEW g, IsTable(g, f, SUBSET D),
         NEW E \in SUBSET D, NEW e, NEW k, IsTable(k, e, SUBSET E), AgreeOn(f, e, E)
  PROVE  AgreeOn(g, k, SUBSET E)
<1> USE DEF AgreeOn
<1> DEFINE Bad == {s \in SUBSET D : s \subseteq E /\ g[s] # k[s]}
<1>1. ASSUME Bad # {}
      PROVE  FALSE
  <2>1. PICK s \in Bad : \A r \in Bad : r \subseteq s => r = s
    <3>1. Bad \in SUBSET SUBSET D
      OBVIOUS
    <3> HIDE DEF Bad
    <3> QED
      BY <1>1, <3>1, MinimalSet
  <2>2. g[s] = TableEntry(g, f, s) /\ k[s] = TableEntry(k, e, s)
    <3>1. s \in SUBSET D /\ s \in SUBSET E
      OBVIOUS
    <3> QED
      BY <3>1, TableAt, Zenon
  <2>3. s # {} => Pick(s) \in s
    BY PickIn
  <2>4. s # {} => g[s \ {Pick(s)}] = k[s \ {Pick(s)}]
    <3>1. s # {} => s \ {Pick(s)} # s /\ s \ {Pick(s)} \subseteq s
      BY <2>3
    <3>2. s \ {Pick(s)} \in SUBSET D /\ s \ {Pick(s)} \subseteq E
      OBVIOUS
    <3> QED
      BY <2>1, <3>1, <3>2
  <2>5. s # {} => f[Pick(s)] = e[Pick(s)]
    BY <2>3
  <2>6. g[s] # k[s]
    OBVIOUS
  <2> HIDE DEF Bad
  <2> QED
    BY <2>2, <2>4, <2>5, <2>6 DEF TableEntry
<1> QED
  BY <1>1

\* A table of sums of naturals holds naturals.
LEMMA TableNat ==
  ASSUME NEW D, IsFiniteSet(D), NEW f \in [D -> Nat], NEW g, IsTable(g, f, SUBSET D)
  PROVE  \A s \in SUBSET D : g[s] \in Nat
<1> DEFINE Bad == {s \in SUBSET D : g[s] \notin Nat}
<1>1. ASSUME Bad # {}
      PROVE  FALSE
  <2>1. PICK s \in Bad : \A r \in Bad : r \subseteq s => r = s
    <3>1. Bad \in SUBSET SUBSET D
      OBVIOUS
    <3> HIDE DEF Bad
    <3> QED
      BY <1>1, <3>1, MinimalSet
  <2>2. g[s] = TableEntry(g, f, s)
    <3>1. s \in SUBSET D
      OBVIOUS
    <3> QED
      BY <3>1, TableAt, Zenon
  <2>3. s # {} => Pick(s) \in s
    BY PickIn
  <2>4. s # {} => g[s \ {Pick(s)}] \in Nat /\ f[Pick(s)] \in Nat
    <3>1. s # {} => s \ {Pick(s)} # s /\ s \ {Pick(s)} \subseteq s
      BY <2>3
    <3>2. s \ {Pick(s)} \in SUBSET D
      OBVIOUS
    <3>3. s # {} => Pick(s) \in D
      BY <2>3
    <3>4. s # {} => g[s \ {Pick(s)}] \in Nat
      BY <2>1, <3>1, <3>2
    <3> QED
      BY <3>3, <3>4
  <2>5. g[s] \notin Nat
    OBVIOUS
  <2> HIDE DEF Bad
  <2> QED
    BY <2>2, <2>4, <2>5 DEF TableEntry
<1> QED
  BY <1>1

\* Whichever element is taken first, the sum is the same.
AnyFirst(g, f, S) == \A s \in S : \A x \in s : g[s] = f[x] + g[s \ {x}]

\* A table of sums of naturals is so, although it was built by taking Pick first.
LEMMA TableTake ==
  ASSUME NEW D, IsFiniteSet(D), NEW f \in [D -> Nat], NEW g, IsTable(g, f, SUBSET D)
  PROVE  AnyFirst(g, f, SUBSET D)
<1> DEFINE Bad == {s \in SUBSET D : \E x \in s : g[s] # f[x] + g[s \ {x}]}
<1>1. ASSUME Bad # {}
      PROVE  FALSE
  <2>1. PICK s \in Bad : \A r \in Bad : r \subseteq s => r = s
    <3>1. Bad \in SUBSET SUBSET D
      OBVIOUS
    <3> HIDE DEF Bad
    <3> QED
      BY <1>1, <3>1, MinimalSet
  <2>2. PICK x \in s : g[s] # f[x] + g[s \ {x}]
    OBVIOUS
  <2> DEFINE p == Pick(s)
  <2>3. p \in s /\ x \in s /\ s \in SUBSET D
    BY <2>2, PickIn
  <2>4. \A r \in SUBSET D : r \subseteq s /\ r # s => \A y \in r : g[r] = f[y] + g[r \ {y}]
    BY <2>1
  <2> HIDE DEF Bad
  <2>5. g[s] = TableEntry(g, f, s)
    BY <2>3, TableAt, Zenon
  <2>6. g[s] = f[p] + g[s \ {p}]
    BY <2>3, <2>5 DEF TableEntry
  <2> HIDE DEF p
  <2>7. x # p
    BY <2>2, <2>6
  <2>8. g[s \ {p}] = f[x] + g[(s \ {p}) \ {x}]
    <3>1. s \ {p} \in SUBSET D /\ s \ {p} \subseteq s /\ s \ {p} # s /\ x \in s \ {p}
      BY <2>3, <2>7
    <3> QED
      BY <2>4, <3>1
  <2>9. g[s \ {x}] = f[p] + g[(s \ {x}) \ {p}]
    <3>1. s \ {x} \in SUBSET D /\ s \ {x} \subseteq s /\ s \ {x} # s /\ p \in s \ {x}
      BY <2>3, <2>7
    <3> QED
      BY <2>4, <3>1
  <2>10. (s \ {p}) \ {x} = (s \ {x}) \ {p}
    OBVIOUS
  <2>11. f[p] \in Nat /\ f[x] \in Nat
    BY <2>3
  <2>12. g[(s \ {x}) \ {p}] \in Nat
    <3>1. (s \ {x}) \ {p} \in SUBSET D
      BY <2>3
    <3> QED
      BY <3>1, TableNat
  <2>13. g[s] # f[x] + g[s \ {x}]
    BY <2>2
  <2> DEFINE rest == g[(s \ {x}) \ {p}]
  <2>14. g[s] = f[p] + (f[x] + rest) /\ g[s \ {x}] = f[p] + rest /\ rest \in Nat
    BY <2>6, <2>8, <2>9, <2>10, <2>12
  <2> HIDE DEF rest
  <2> QED
    BY <2>11, <2>13, <2>14
<1> QED
  BY <1>1 DEF AnyFirst
-----------------------------------------------------------------------------
\* The sum of naturals is one.
LEMMA SumNat ==
  ASSUME NEW D, IsFiniteSet(D), NEW f \in [D -> Nat]
  PROVE  SumOf(f) \in Nat
<1>1. DOMAIN f = D
  OBVIOUS
<1>2. PICK g : IsTable(g, f, SUBSET D) /\ SumOf(f) = g[D]
  BY <1>1, SumTable
<1>3. \A s \in SUBSET D : g[s] \in Nat
  BY <1>2, TableNat
<1> QED
  BY <1>2, <1>3

\* The sum of nothing is zero.
LEMMA SumEmpty ==
  ASSUME NEW f, DOMAIN f = {}
  PROVE  SumOf(f) = 0
<1>1. IsFiniteSet(DOMAIN f)
  BY FS_EmptySet
<1>2. PICK g : IsTable(g, f, SUBSET {}) /\ SumOf(f) = g[{}]
  BY <1>1, SumTable
<1>3. g[{}] = TableEntry(g, f, {})
  BY <1>2, TableAt
<1> QED
  BY <1>2, <1>3 DEF TableEntry

\* One element more adds what it is worth.
LEMMA SumTake ==
  ASSUME NEW D, IsFiniteSet(D), NEW f \in [D -> Nat], NEW x \in D
  PROVE  SumOf(f) = f[x] + SumOf([y \in D \ {x} |-> f[y]])
<1> DEFINE E == D \ {x}
           e == [y \in E |-> f[y]]
<1>1. IsFiniteSet(E) /\ DOMAIN e = E /\ DOMAIN f = D
  BY FS_RemoveElement
<1>2. PICK g : IsTable(g, f, SUBSET D) /\ SumOf(f) = g[D]
  BY <1>1, SumTable
<1>3. PICK k : IsTable(k, e, SUBSET E) /\ SumOf(e) = k[E]
  BY <1>1, SumTable
<1>4. g[E] = k[E]
  <2>1. AgreeOn(f, e, E)
    BY DEF AgreeOn
  <2>2. E \in SUBSET D /\ E \in SUBSET E
    OBVIOUS
  <2>3. IsTable(g, f, SUBSET D) /\ IsTable(k, e, SUBSET E)
    BY <1>2, <1>3
  <2> HIDE DEF E, e
  <2>4. AgreeOn(g, k, SUBSET E)
    BY <2>1, <2>2, <2>3, TablesAgree, Zenon
  <2> QED
    BY <2>2, <2>4 DEF AgreeOn
<1>5. g[D] = f[x] + g[D \ {x}]
  <2>1. AnyFirst(g, f, SUBSET D)
    BY <1>2, TableTake, Zenon
  <2> QED
    BY <2>1 DEF AnyFirst
<1> QED
  BY <1>2, <1>3, <1>4, <1>5

\* A sum over fewer elements that are worth no more is no larger.
LEMMA SumLess ==
  ASSUME NEW D, IsFiniteSet(D), NEW f \in [D -> Nat],
         NEW E \in SUBSET D, NEW e \in [E -> Nat], \A x \in E : e[x] <= f[x]
  PROVE  SumOf(e) <= SumOf(f)
<1>1. IsFiniteSet(E) /\ DOMAIN e = E /\ DOMAIN f = D
  BY FS_Subset
<1>2. PICK g : IsTable(g, f, SUBSET D) /\ SumOf(f) = g[D]
  BY <1>1, SumTable
<1>3. PICK k : IsTable(k, e, SUBSET E) /\ SumOf(e) = k[E]
  BY <1>1, SumTable
<1>4. /\ \A s \in SUBSET D : g[s] \in Nat /\ \A x \in s : g[s] = f[x] + g[s \ {x}]
      /\ \A s \in SUBSET E : k[s] \in Nat /\ \A x \in s : k[s] = e[x] + k[s \ {x}]
  <2>1. \A s \in SUBSET D : g[s] \in Nat
    BY <1>2, TableNat, Zenon
  <2>2. AnyFirst(g, f, SUBSET D)
    BY <1>2, TableTake, Zenon
  <2>3. \A s \in SUBSET E : k[s] \in Nat
    BY <1>1, <1>3, TableNat, Zenon
  <2>4. AnyFirst(k, e, SUBSET E)
    BY <1>1, <1>3, TableTake, Zenon
  <2> QED
    BY <2>1, <2>2, <2>3, <2>4 DEF AnyFirst
<1>5. k[E] <= g[E]
  <2> DEFINE Bad == {s \in SUBSET E : ~ (k[s] <= g[s])}
  <2>1. ASSUME Bad # {}
        PROVE  FALSE
    <3>1. PICK s \in Bad : \A r \in Bad : r \subseteq s => r = s
      <4>1. Bad \in SUBSET SUBSET E
        OBVIOUS
      <4> HIDE DEF Bad
      <4> QED
        BY <1>1, <2>1, <4>1, MinimalSet
    <3>2. s \in SUBSET E /\ s \in SUBSET D /\ ~ (k[s] <= g[s])
      OBVIOUS
    <3>3. CASE s = {}
      <4>1. k[{}] = TableEntry(k, e, {}) /\ g[{}] = TableEntry(g, f, {})
        <5>1. {} \in SUBSET E /\ {} \in SUBSET D
          OBVIOUS
        <5>2. IsTable(k, e, SUBSET E) /\ IsTable(g, f, SUBSET D)
          BY <1>2, <1>3, Zenon
        <5>3. k[{}] = TableEntry(k, e, {})
          BY <5>1, <5>2 DEF IsTable
        <5>4. g[{}] = TableEntry(g, f, {})
          BY <5>1, <5>2 DEF IsTable
        <5> QED
          BY <5>3, <5>4
      <4>2. k[{}] = 0 /\ g[{}] = 0
        BY <4>1 DEF TableEntry
      <4> QED
        BY <3>2, <3>3, <4>2
    <3>4. ASSUME NEW x \in s
          PROVE  FALSE
      <4>1. k[s \ {x}] <= g[s \ {x}]
        BY <3>1, <3>4
      <4>2. k[s] = e[x] + k[s \ {x}] /\ g[s] = f[x] + g[s \ {x}]
        BY <1>4, <3>2
      <4>3. /\ k[s \ {x}] \in Nat /\ g[s \ {x}] \in Nat /\ e[x] \in Nat /\ f[x] \in Nat
            /\ e[x] <= f[x]
        BY <1>4, <3>2
      <4> QED
        BY <3>2, <4>1, <4>2, <4>3
    <3> QED
      BY <3>3, <3>4
  <2> QED
    BY <2>1
<1>6. g[E] <= g[D]
  <2> DEFINE Bad == {s \in SUBSET D : E \subseteq s /\ ~ (g[E] <= g[s])}
  <2>1. ASSUME Bad # {}
        PROVE  FALSE
    <3>1. PICK s \in Bad : \A r \in Bad : r \subseteq s => r = s
      <4>1. Bad \in SUBSET SUBSET D
        OBVIOUS
      <4> HIDE DEF Bad
      <4> QED
        BY <2>1, <4>1, MinimalSet
    <3>2. s \in SUBSET D /\ E \subseteq s /\ ~ (g[E] <= g[s])
      OBVIOUS
    <3>3. s # E
      BY <1>4, <3>2
    <3>4. PICK x \in s : x \notin E
      BY <3>2, <3>3
    <3>5. g[E] <= g[s \ {x}]
      BY <3>1, <3>2, <3>4
    <3>6. g[s] = f[x] + g[s \ {x}] /\ f[x] \in Nat
      BY <1>4, <3>2
    <3>7. g[s \ {x}] \in Nat /\ g[E] \in Nat
      BY <1>4, <3>2
    <3> QED
      BY <3>2, <3>5, <3>6, <3>7
  <2> QED
    BY <2>1
<1>7. k[E] \in Nat /\ g[E] \in Nat /\ g[D] \in Nat
  BY <1>4
<1> QED
  BY <1>2, <1>3, <1>5, <1>6, <1>7
-----------------------------------------------------------------------------
\* A product of naturals is one.
LEMMA TimesNat ==
  ASSUME NEW m \in Nat, NEW n \in Nat
  PROVE  m * n \in Nat
OBVIOUS

\* So is a quotient.
LEMMA DivNat ==
  ASSUME NEW m \in Nat, NEW n \in Nat, n > 0
  PROVE  m \div n \in Nat
OBVIOUS

\* So is what f64::round makes of it.
LEMMA RoundedNat ==
  ASSUME NEW m \in Nat, NEW n \in Nat, n > 0
  PROVE  Rounded(m, n) \in Nat
BY TimesNat, DivNat DEF Rounded

\* A quotient is the largest number that times the divisor is not more.
LEMMA DivBounds ==
  ASSUME NEW a \in Nat, NEW b \in Nat, b > 0
  PROVE  /\ (a \div b) * b <= a
         /\ a < (a \div b) * b + b
<1>1. a = (a \div b) * b + (a % b) /\ a % b \in 0..(b - 1) /\ (a \div b) * b \in Nat
  BY DivNat, TimesNat
<1> DEFINE q == (a \div b) * b
           r == a % b
<1>2. a = q + r /\ r \in 0..(b - 1) /\ q \in Nat
  BY <1>1
<1> HIDE DEF q, r
<1>3. q <= a /\ a < q + b
  BY <1>2
<1> QED  BY <1>3 DEF q

\* A product grows with its factor.
LEMMA TimesMore ==
  ASSUME NEW m \in Nat, NEW n \in Nat, m <= n, NEW k \in Nat
  PROVE  m * k <= n * k
<1>1. n * k = m * k + (n - m) * k /\ n - m \in Nat
  OBVIOUS
<1>2. (n - m) * k \in Nat /\ m * k \in Nat /\ n * k \in Nat
  BY <1>1, TimesNat
<1> QED BY <1>1, <1>2

\* What times the divisor is not more is at most the quotient.
LEMMA DivAtLeast ==
  ASSUME NEW a \in Nat, NEW b \in Nat, b > 0, NEW q \in Nat, q * b <= a
  PROVE  q <= a \div b
<1> SUFFICES ASSUME ~ (q <= a \div b)  PROVE FALSE
  OBVIOUS
<1>1. a \div b \in Nat
  BY DivNat
<1> DEFINE p == a \div b
<1>2. p \in Nat /\ p + 1 <= q /\ p + 1 \in Nat
  BY <1>1
<1>3. a < p * b + b
  BY DivBounds
<1> HIDE DEF p
<1>4. (p + 1) * b <= q * b
  BY <1>2, TimesMore
<1>5. (p + 1) * b = p * b + b
  BY <1>2
<1>6. p * b \in Nat /\ q * b \in Nat
  BY <1>2, TimesNat
<1> QED  BY <1>3, <1>4, <1>5, <1>6

\* More divided by the same is no less.
LEMMA DivLess ==
  ASSUME NEW a \in Nat, NEW c \in Nat, a <= c, NEW b \in Nat, b > 0
  PROVE  a \div b <= c \div b
<1>1. a \div b \in Nat /\ (a \div b) * b <= a
  BY DivNat, DivBounds
<1> DEFINE q == a \div b
<1> HIDE DEF q
<1>2. q \in Nat /\ q * b <= a
  BY <1>1 DEF q
<1>3. q * b <= c
  <2>1. q * b \in Nat
    BY <1>2, TimesNat
  <2> QED  BY <1>2, <2>1
<1>4. q <= c \div b
  BY <1>2, <1>3, DivAtLeast
<1> QED  BY <1>4 DEF q

\* f64::round is monotone.
LEMMA RoundedMore ==
  ASSUME NEW m \in Nat, NEW n \in Nat, m <= n, NEW d \in Nat, d > 0
  PROVE  Rounded(m, d) <= Rounded(n, d)
<1>1. 2 * m + d \in Nat /\ 2 * n + d \in Nat /\ 2 * m + d <= 2 * n + d /\ 2 * d \in Nat /\ 2 * d > 0
  OBVIOUS
<1> QED  BY <1>1, DivLess DEF Rounded

\* A part of n is no more than n, rounded.
LEMMA RoundedPart ==
  ASSUME NEW n \in Nat, NEW d \in Nat, NEW x \in Nat, d <= x, x > 0
  PROVE  Rounded(n * d, x) <= n
<1> SUFFICES ASSUME ~ (Rounded(n * d, x) <= n)  PROVE FALSE
  OBVIOUS
<1>0. n * d \in Nat
  BY TimesNat
<1> DEFINE a == 2 * (n * d) + x
           b == 2 * x
           q == a \div b
<1>1. a \in Nat /\ b \in Nat /\ b > 0
  BY <1>0
<1>2. q \in Nat /\ q * b <= a /\ q = Rounded(n * d, x)
  BY <1>1, DivNat, DivBounds DEF Rounded
<1> HIDE DEF q
<1>3. n + 1 \in Nat /\ n + 1 <= q
  BY <1>2
<1>4. (n + 1) * b <= q * b /\ q * b \in Nat /\ (n + 1) * b \in Nat
  BY <1>1, <1>2, <1>3, TimesMore, TimesNat
<1>5. (n + 1) * b = 2 * (n * x) + 2 * x
  OBVIOUS
<1>6. n * d <= n * x /\ n * x \in Nat
  <2>1. d * n <= x * n
    BY TimesMore
  <2>2. d * n = n * d /\ x * n = n * x
    OBVIOUS
  <2> QED  BY <2>1, <2>2, TimesNat
<1> DEFINE u == n * d
           v == n * x
<1>7. u \in Nat /\ v \in Nat /\ u <= v /\ 2 * v + 2 * x <= 2 * u + x
  BY <1>0, <1>1, <1>2, <1>4, <1>5, <1>6
<1> HIDE DEF u, v
<1> QED  BY <1>7

\* The same part of more is no more, rounded.
LEMMA RoundedLess ==
  ASSUME NEW n \in Nat, NEW x \in Nat, NEW y \in Nat, x > 0, x <= y
  PROVE  Rounded(n, y) <= Rounded(n, x)
<1> DEFINE a == 2 * n + y
           q == a \div (2 * y)
<1>1. a \in Nat /\ 2 * y \in Nat /\ 2 * y > 0
  OBVIOUS
<1>2. q \in Nat /\ q * (2 * y) <= a /\ q = Rounded(n, y)
  BY <1>1, DivNat, DivBounds DEF Rounded
<1> HIDE DEF q
<1>3. q * (2 * x) <= 2 * n + x
  <2>1. CASE q = 0
    BY <2>1
  <2>2. CASE q > 0
    <3> DEFINE p == 2 * q - 1
    <3>1. p \in Nat
      BY <1>2, <2>2
    <3>2. p * y = q * (2 * y) - y /\ p * x = q * (2 * x) - x
      BY <1>2
    <3>3. q * (2 * y) \in Nat /\ q * (2 * x) \in Nat
      BY <1>2, TimesNat
    <3> HIDE DEF p
    <3>4. p * x <= p * y /\ p * x \in Nat /\ p * y \in Nat
      <4>1. x * p <= y * p
        BY <3>1, TimesMore
      <4>2. x * p = p * x /\ y * p = p * y
        BY <3>1
      <4> QED  BY <3>1, <4>1, <4>2, TimesNat
    <3> DEFINE u == q * (2 * y)
               v == q * (2 * x)
    <3>5. u \in Nat /\ v \in Nat /\ u - y >= v - x /\ u <= 2 * n + y
      BY <1>2, <3>2, <3>3, <3>4
    <3> HIDE DEF u, v
    <3>6. v <= 2 * n + x
      BY <3>5
    <3> QED  BY <3>6 DEF v
  <2> QED  BY <1>2, <2>1, <2>2
<1>4. 2 * n + x \in Nat /\ 2 * x \in Nat /\ 2 * x > 0
  OBVIOUS
<1>5. q <= (2 * n + x) \div (2 * x)
  BY <1>2, <1>3, <1>4, DivAtLeast
<1> QED  BY <1>2, <1>5 DEF Rounded

\* Nothing rounds to nothing.
LEMMA RoundedZero ==
  ASSUME NEW n \in Nat, n > 0
  PROVE  Rounded(0, n) = 0
BY DEF Rounded

\* calculate_dynamic_points never divides by zero: past one solve x is positive.
LEMMA Squared ==
  ASSUME NEW n \in Nat, n > 1
  PROVE  (n - 1) * (n - 1) \in Nat /\ (n - 1) * (n - 1) > 0
<1>1. n - 1 \in Nat /\ n - 1 > 0
  OBVIOUS
<1> QED
  BY <1>1

\* calculate_dynamic_points gives a natural number, the initial one if it is least.
LEMMA DynamicNat ==
  ASSUME NEW p \in ScoringMode, p.minimum <= p.initial, NEW n \in Nat
  PROVE  /\ DynamicPoints(p, n) \in Nat
         /\ p.minimum = p.initial => DynamicPoints(p, n) = p.initial
<1>0. p.minimum \in Nat /\ p.initial \in Nat /\ p.decay \in Nat
  BY DEF ScoringMode
<1>1. CASE n <= 1
  BY <1>0, <1>1 DEF DynamicPoints
<1>2. CASE n > 1
  <2> DEFINE x == (n - 1) * (n - 1)
             d == p.decay * p.decay
             k == p.initial - p.minimum
  <2>1. x \in Nat /\ x > 0 /\ d \in Nat /\ k \in Nat
    BY <1>0, <1>2, Squared, TimesNat
  <2>2. DynamicPoints(p, n) = p.minimum + Rounded(k * d, d + x)
    BY <1>2 DEF DynamicPoints
  <2> HIDE DEF x, d, k
  <2>3. k * d \in Nat /\ d + x \in Nat /\ d + x > 0
    BY <2>1, TimesNat
  <2>4. Rounded(k * d, d + x) \in Nat
    BY <2>3, RoundedNat
  <2>5. p.minimum = p.initial => k * d = 0
    BY <1>0, <2>1 DEF k
  <2>6. p.minimum = p.initial => Rounded(k * d, d + x) = 0
    BY <2>3, <2>5, RoundedZero
  <2> QED
    BY <1>0, <2>2, <2>4, <2>6
<1> QED
  BY <1>1, <1>2

\* The parts compute_team_solve_score counts for a team, and what each is worth.
ScoredParts(subs, t, members) ==
  {x \in UNION {{c} \X DOMAIN Config[c].parts : c \in Challenges} :
     Scored(subs, t, members, x[1], x[2])}

Worths(subs, t, members) ==
  [x \in ScoredParts(subs, t, members) |->
     PartPoints(x[1], x[2], Cardinality(Solvers(subs, x[1])))]

\* compute_team_solve_score is their sum.
LEMMA PointsOfParts ==
  ASSUME NEW subs, NEW t, NEW members
  PROVE  SolvePoints(subs, t, members) = SumOf(Worths(subs, t, members))
BY DEF SolvePoints, Worths, ScoredParts

\* A team scores finitely many parts, each one of a challenge.
LEMMA ScoredFinite ==
  ASSUME NEW subs, NEW t, NEW members
  PROVE  /\ IsFiniteSet(ScoredParts(subs, t, members))
         /\ \A x \in ScoredParts(subs, t, members) :
              x[1] \in Challenges /\ x[2] \in DOMAIN Config[x[1]].parts
<1> DEFINE S == {{c} \X DOMAIN Config[c].parts : c \in Challenges}
           f == [c \in Challenges |-> {c} \X DOMAIN Config[c].parts]
<1>1. IsFiniteSet(S)
  <2>1. f \in Surjection(Challenges, S)
    BY DEF Surjection
  <2>2. IsFiniteSet(Challenges)
    BY ScoringAssumption
  <2> HIDE DEF S, f
  <2> QED
    BY <2>1, <2>2, FS_Surjection, Zenon
<1>2. ASSUME NEW T \in S
      PROVE  IsFiniteSet(T)
  <2>1. PICK c \in Challenges : T = {c} \X DOMAIN Config[c].parts
    OBVIOUS
  <2>2. Len(Config[c].parts) \in Nat /\ DOMAIN Config[c].parts = 1..Len(Config[c].parts)
    BY SubmissionsAssumption DEF Challenge
  <2>3. IsFiniteSet({c}) /\ IsFiniteSet(DOMAIN Config[c].parts)
    <3>1. IsFiniteSet({c})
      BY FS_Singleton, Zenon
    <3>2. IsFiniteSet(1..Len(Config[c].parts))
      BY <2>2, FS_Interval
    <3> QED
      BY <2>2, <3>1, <3>2
  <2> QED
    BY <2>1, <2>3, FS_Product
<1>3. IsFiniteSet(UNION S)
  <2>1. \A T \in S : IsFiniteSet(T)
    BY <1>2
  <2> HIDE DEF S
  <2> QED
    BY <1>1, <2>1, FS_UNION, Zenon
<1>4. ScoredParts(subs, t, members) \subseteq UNION S
  BY DEF ScoredParts
<1>5. \A x \in UNION S : x[1] \in Challenges /\ x[2] \in DOMAIN Config[x[1]].parts
  OBVIOUS
<1> HIDE DEF S
<1> QED
  BY <1>3, <1>4, <1>5, FS_Subset

\* A part is worth a natural number, and where scores are steady always the same.
LEMMA PartNat ==
  ASSUME NEW c \in Challenges, NEW i \in DOMAIN Config[c].parts, NEW n \in Nat
  PROVE  /\ PartPoints(c, i, n) \in Nat
         /\ Points[c].minimum = Points[c].initial => PartPoints(c, i, n) = PartPoints(c, i, 1)
<1>1. /\ Points[c] \in ScoringMode /\ Points[c].minimum <= Points[c].initial
      /\ Weights[c] \in Seq(Nat) /\ Len(Weights[c]) = Len(Config[c].parts)
  BY ScoringAssumption
<1>2. Config[c].parts \in Seq(FlagValidator)
  BY SubmissionsAssumption DEF Challenge
<1>3. Weights[c][i] \in Nat
  BY <1>1, <1>2
<1>4. /\ DynamicPoints(Points[c], n) \in Nat
      /\ Points[c].minimum = Points[c].initial =>
           DynamicPoints(Points[c], n) = DynamicPoints(Points[c], 1)
  BY <1>1, DynamicNat
<1>5. DynamicPoints(Points[c], n) * Weights[c][i] \in Nat
  BY <1>3, <1>4, TimesNat
<1>6. Rounded(DynamicPoints(Points[c], n) * Weights[c][i], 100) \in Nat
  BY <1>5, RoundedNat
<1> QED
  BY <1>4, <1>6 DEF PartPoints
\* A table has finitely many solvers.
LEMMA FiniteSolvers ==
  ASSUME NEW subs, IsFiniteSet(DOMAIN subs), NEW c
  PROVE  IsFiniteSet(Solvers(subs, c)) /\ Cardinality(Solvers(subs, c)) \in Nat
<1>1. IsFiniteSet(Solves(subs, c))
  <2>1. Solves(subs, c) \subseteq DOMAIN subs
    BY DEF Solves
  <2> QED
    BY <2>1, FS_Subset, Zenon
<1> DEFINE f == [i \in Solves(subs, c) |-> Solver(subs[i])]
<1>2. f \in Surjection(Solves(subs, c), Solvers(subs, c))
  BY DEF Surjection, Solvers
<1> HIDE DEF f
<1> QED
  BY <1>1, <1>2, FS_Surjection, FS_CardinalityType, Zenon

\* All that a team scores is worth natural numbers.
LEMMA FiniteWorths ==
  ASSUME NEW subs, IsFiniteSet(DOMAIN subs), NEW t, NEW members
  PROVE  Worths(subs, t, members) \in [ScoredParts(subs, t, members) -> Nat]
<1>1. ASSUME NEW x \in ScoredParts(subs, t, members)
      PROVE  PartPoints(x[1], x[2], Cardinality(Solvers(subs, x[1]))) \in Nat
  <2>1. x[1] \in Challenges /\ x[2] \in DOMAIN Config[x[1]].parts
    BY ScoredFinite
  <2>2. Cardinality(Solvers(subs, x[1])) \in Nat
    BY FiniteSolvers
  <2> QED
    BY <2>1, <2>2, PartNat
<1> QED
  BY <1>1 DEF Worths

\* So a score is a natural number.
LEMMA FiniteScore ==
  ASSUME NEW subs, IsFiniteSet(DOMAIN subs), NEW t, NEW members
  PROVE  SolvePoints(subs, t, members) \in Nat
<1>1. SumOf(Worths(subs, t, members)) \in Nat
  <2>1. Worths(subs, t, members) \in [ScoredParts(subs, t, members) -> Nat]
    BY FiniteWorths
  <2> QED
    BY <2>1, ScoredFinite, SumNat
<1> QED
  BY <1>1, PointsOfParts
-----------------------------------------------------------------------------
\* What the rows of a team cost.
Charged(rows, t) == {k \in DOMAIN rows : rows[k].team = t}

ChargedCosts(rows, t) == [k \in Charged(rows, t) |-> rows[k].cost]

\* A table of unlocks.
Priced(rows) == IsFiniteSet(DOMAIN rows) /\ \A k \in DOMAIN rows : rows[k].cost \in Nat

\* total_hint_cost of a team does not look at accounts, and is a natural number.
LEMMA FiniteCost ==
  ASSUME NEW rows, Priced(rows), NEW t \in Teams, NEW a
  PROVE  /\ TotalCost(rows, t, a) = SumOf(ChargedCosts(rows, t))
         /\ TotalCost(rows, t, a) \in Nat
         /\ IsFiniteSet(Charged(rows, t))
         /\ ChargedCosts(rows, t) \in [Charged(rows, t) -> Nat]
<1>1. t # NoTeam
  BY SubmissionsAssumption
<1>2. {k \in DOMAIN rows : Unlocker(rows[k], t, a)} = Charged(rows, t)
  BY <1>1 DEF Unlocker, Charged
<1>3. TotalCost(rows, t, a) = SumOf(ChargedCosts(rows, t))
  BY <1>2 DEF TotalCost, ChargedCosts
<1>4. Charged(rows, t) \subseteq DOMAIN rows
  BY DEF Charged
<1>5. IsFiniteSet(Charged(rows, t))
  <2>1. IsFiniteSet(DOMAIN rows)
    BY DEF Priced
  <2> QED
    BY <1>4, <2>1, FS_Subset, Zenon
<1>6. ChargedCosts(rows, t) \in [Charged(rows, t) -> Nat]
  BY <1>4 DEF ChargedCosts, Priced
<1>7. SumOf(ChargedCosts(rows, t)) \in Nat
  BY <1>5, <1>6, SumNat, Zenon
<1> QED
  BY <1>3, <1>5, <1>6, <1>7

\* A challenge is worth no more to anyone once more have solved it.
LEMMA DynamicLess ==
  ASSUME NEW p \in ScoringMode, p.minimum <= p.initial,
         NEW m \in Nat, NEW n \in Nat, m <= n
  PROVE  DynamicPoints(p, n) <= DynamicPoints(p, m)
<1>0. p.minimum \in Nat /\ p.initial \in Nat /\ p.decay \in Nat
  BY DEF ScoringMode
<1> DEFINE d    == p.decay * p.decay
           k    == p.initial - p.minimum
           x(i) == (i - 1) * (i - 1)
<1>1. d \in Nat /\ k \in Nat /\ k * d \in Nat
  BY <1>0, TimesNat
<1>2. \A i \in Nat : i > 1 =>
        /\ x(i) \in Nat /\ x(i) > 0
        /\ DynamicPoints(p, i) = p.minimum + Rounded(k * d, d + x(i))
  BY Squared DEF DynamicPoints
<1>3. CASE n <= 1
  BY <1>0, <1>3 DEF DynamicPoints
<1>4. CASE n > 1 /\ m <= 1
  <2>1. DynamicPoints(p, m) = p.initial
    BY <1>4 DEF DynamicPoints
  <2>2. Rounded(k * d, d + x(n)) <= k
    <3>0. x(n) \in Nat /\ x(n) > 0
      BY <1>2, <1>4
    <3> HIDE DEF d, k, x
    <3>1. d + x(n) \in Nat /\ d <= d + x(n) /\ d + x(n) > 0
      BY <1>1, <3>0
    <3> QED  BY <1>1, <3>1, RoundedPart
  <2>3. Rounded(k * d, d + x(n)) \in Nat
    <3>0. x(n) \in Nat /\ x(n) > 0
      BY <1>2, <1>4
    <3> HIDE DEF d, k, x
    <3>1. d + x(n) \in Nat /\ d + x(n) > 0
      BY <1>1, <3>0
    <3> QED  BY <1>1, <3>1, RoundedNat
  <2>4. DynamicPoints(p, n) = p.minimum + Rounded(k * d, d + x(n))
    BY <1>2, <1>4
  <2> DEFINE r == Rounded(k * d, d + x(n))
  <2>5. r <= k /\ r \in Nat /\ DynamicPoints(p, n) = p.minimum + r
    BY <2>2, <2>3, <2>4
  <2> HIDE DEF r
  <2>6. p.minimum + r <= p.initial
    BY <1>0, <2>5
  <2> QED  BY <2>1, <2>5, <2>6
<1>5. CASE n > 1 /\ m > 1
  <2>1. x(m) <= x(n)
    <3>1. m - 1 \in Nat /\ n - 1 \in Nat /\ m - 1 <= n - 1
      BY <1>5
    <3> DEFINE a == m - 1
               b == n - 1
    <3>2. a \in Nat /\ b \in Nat /\ a <= b
      BY <3>1
    <3> HIDE DEF a, b
    <3>3. a * a <= b * a /\ a * b <= b * b /\ a * b = b * a
      BY <3>2, TimesMore
    <3>4. a * a <= b * b
      BY <3>2, <3>3, TimesNat
    <3> QED  BY <3>4 DEF a, b
  <2>2. /\ d + x(m) \in Nat /\ d + x(n) \in Nat
        /\ d + x(m) > 0 /\ d + x(n) > 0 /\ d + x(m) <= d + x(n)
    <3>1. x(m) \in Nat /\ x(m) > 0 /\ x(n) \in Nat /\ x(n) > 0
      BY <1>2, <1>5
    <3> HIDE DEF d, k, x
    <3> QED  BY <1>1, <2>1, <3>1
  <2>3. /\ DynamicPoints(p, n) = p.minimum + Rounded(k * d, d + x(n))
        /\ DynamicPoints(p, m) = p.minimum + Rounded(k * d, d + x(m))
    BY <1>2, <1>5
  <2> DEFINE r == Rounded(k * d, d + x(n))
             s == Rounded(k * d, d + x(m))
  <2>4. r \in Nat /\ s \in Nat /\ r <= s
    <3> HIDE DEF d, k, x
    <3> QED  BY <1>1, <2>2, RoundedNat, RoundedLess
  <2> HIDE DEF r, s
  <2>5. p.minimum + r <= p.minimum + s
    BY <1>0, <2>4
  <2>6. DynamicPoints(p, n) = p.minimum + r /\ DynamicPoints(p, m) = p.minimum + s
    BY <2>3 DEF r, s
  <2> QED  BY <2>5, <2>6
<1> QED  BY <1>3, <1>4, <1>5

\* Neither is a part of it.
LEMMA PartLess ==
  ASSUME NEW c \in Challenges, NEW i \in DOMAIN Config[c].parts,
         NEW m \in Nat, NEW n \in Nat, m <= n
  PROVE  PartPoints(c, i, n) <= PartPoints(c, i, m)
<1>1. /\ Points[c] \in ScoringMode /\ Points[c].minimum <= Points[c].initial
      /\ Weights[c] \in Seq(Nat) /\ Len(Weights[c]) = Len(Config[c].parts)
  BY ScoringAssumption
<1>2. Config[c].parts \in Seq(FlagValidator)
  BY SubmissionsAssumption DEF Challenge
<1>3. Weights[c][i] \in Nat
  BY <1>1, <1>2
<1> DEFINE u == DynamicPoints(Points[c], n)
           v == DynamicPoints(Points[c], m)
<1>4. u \in Nat /\ v \in Nat /\ u <= v
  BY <1>1, DynamicNat, DynamicLess
<1>5. Rounded(u * Weights[c][i], 100) <= Rounded(v * Weights[c][i], 100)
  <2> HIDE DEF u, v
  <2>1. u * Weights[c][i] <= v * Weights[c][i]
    BY <1>3, <1>4, TimesMore
  <2> QED  BY <1>3, <1>4, <2>1, TimesNat, RoundedMore
<1> QED  BY <1>4, <1>5 DEF PartPoints

\* Some unlocks cost a team no more than all of them.
LEMMA CostLess ==
  ASSUME NEW old, NEW new, Priced(old), Priced(new),
         \A k \in DOMAIN old : k \in DOMAIN new /\ new[k] = old[k],
         NEW t \in Teams, NEW a
  PROVE  TotalCost(old, t, a) <= TotalCost(new, t, a)
<1> DEFINE D == Charged(new, t)
           E == Charged(old, t)
           f == ChargedCosts(new, t)
           e == ChargedCosts(old, t)
<1>1. /\ IsFiniteSet(D) /\ f \in [D -> Nat] /\ e \in [E -> Nat]
      /\ TotalCost(old, t, a) = SumOf(e) /\ TotalCost(new, t, a) = SumOf(f)
  BY FiniteCost
<1>2. E \in SUBSET D /\ \A k \in E : e[k] = f[k]
  BY DEF Charged, ChargedCosts
<1>3. \A k \in E : e[k] <= f[k]
  <2>1. \A k \in E : e[k] \in Nat
    BY <1>1
  <2> QED  BY <1>2, <2>1
<1> HIDE DEF D, E, f, e
<1>4. SumOf(e) <= SumOf(f)
  BY <1>1, <1>2, <1>3, SumLess
<1> QED  BY <1>1, <1>4

\* Where every part a team scored in a table it scores in another as well, and none is
\* worth less there, it has no less.
LEMMA ScoreLess ==
  ASSUME NEW old, IsFiniteSet(DOMAIN old), NEW new, IsFiniteSet(DOMAIN new),
         NEW t, NEW before, NEW after,
         \A c \in Challenges : \A i \in DOMAIN Config[c].parts :
           Scored(old, t, before, c, i) =>
             /\ Scored(new, t, after, c, i)
             /\ Cardinality(Solvers(new, c)) <= Cardinality(Solvers(old, c))
  PROVE  SolvePoints(old, t, before) <= SolvePoints(new, t, after)
<1> DEFINE D == ScoredParts(new, t, after)
           E == ScoredParts(old, t, before)
           f == Worths(new, t, after)
           e == Worths(old, t, before)
<1>1. IsFiniteSet(D) /\ f \in [D -> Nat] /\ e \in [E -> Nat]
  BY ScoredFinite, FiniteWorths
<1>2. ASSUME NEW x \in E
      PROVE  x \in D /\ e[x] <= f[x]
  <2>1. /\ x[1] \in Challenges /\ x[2] \in DOMAIN Config[x[1]].parts
        /\ Scored(old, t, before, x[1], x[2])
        /\ x \in UNION {{c} \X DOMAIN Config[c].parts : c \in Challenges}
    BY ScoredFinite DEF ScoredParts
  <2>2. /\ Scored(new, t, after, x[1], x[2])
        /\ Cardinality(Solvers(new, x[1])) <= Cardinality(Solvers(old, x[1]))
    BY <2>1
  <2>3. x \in D
    BY <2>1, <2>2 DEF ScoredParts
  <2>4. Cardinality(Solvers(new, x[1])) \in Nat /\ Cardinality(Solvers(old, x[1])) \in Nat
    BY FiniteSolvers
  <2>5. PartPoints(x[1], x[2], Cardinality(Solvers(old, x[1])))
          <= PartPoints(x[1], x[2], Cardinality(Solvers(new, x[1])))
    BY <2>1, <2>2, <2>4, PartLess
  <2> QED  BY <2>3, <2>5 DEF Worths
<1>3. E \in SUBSET D /\ \A x \in E : e[x] <= f[x]
  BY <1>2
<1> HIDE DEF D, E, f, e
<1>4. SumOf(e) <= SumOf(f)
  BY <1>1, <1>3, SumLess
<1> QED  BY <1>4, PointsOfParts DEF e, f
=============================================================================
