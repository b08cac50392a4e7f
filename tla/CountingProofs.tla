----------------------------- MODULE CountingProofs -----------------------------
(***************************************************************************)
(* Lemmas about least elements and about sums, that the proofs about the   *)
(* limiter and the harness rest on.  MapThenSumSet adds up a finite set by *)
(* a recursive function on its subsets; here that function is shown to     *)
(* exist, and the sum not to depend on the order of its elements.  The     *)
(* inductions are on subsets, each by a least counterexample.              *)
(***************************************************************************)
EXTENDS Integers, FiniteSets, FiniteSetsExt, FiniteSetTheorems, NaturalsInduction, TLAPS

LEMMA LeastExists ==
    ASSUME NEW S \in SUBSET Nat, S # {}
    PROVE  \E x \in S : \A y \in S : x <= y
<1> DEFINE Less == {ss \in Nat \X Nat : ss[1] < ss[2]}
<1>1. IsWellFoundedOn(Less, Nat)
  BY NatLessThanWellFounded DEF OpToRel
<1>2. \E x \in S : \A y \in S : ~ (<<y, x>> \in Less)
  <2> HIDE DEF Less
  <2> QED
    BY <1>1, WFMin
<1>3. PICK x \in S : \A y \in S : ~ (<<y, x>> \in Less)
  BY <1>2
<1>4. ASSUME NEW y \in S  PROVE x <= y
  <2>1. <<y, x>> \in Less <=> y < x
    OBVIOUS
  <2>2. x \in Nat /\ y \in Nat /\ ~ (y < x)
    BY <1>3, <2>1
  <2>3. QED
    BY <2>2
<1>5. QED
  BY <1>4

\* Among subsets of a finite set one has no other of them strictly inside it.
LEMMA LeastSubset ==
    ASSUME NEW S, IsFiniteSet(S), NEW C, C \subseteq SUBSET S, C # {}
    PROVE  \E s \in C : \A t \in C : t \subseteq s => t = s
<1>1. FiniteSubsetsOf(S) = SUBSET S
  BY FS_FiniteSubsetsOfFinite
<1>2. IsWellFoundedOn(StrictSubsetOrdering(S), SUBSET S)
  BY <1>1, FS_StrictSubsetOrderingWellFounded
<1>3. \E s \in C : \A t \in C : ~ (<<t, s>> \in StrictSubsetOrdering(S))
  BY <1>2, WFMin
<1>4. QED
  BY <1>3 DEF StrictSubsetOrdering

-----------------------------------------------------------------------------
(* The recursive function that MapThenSumSet is defined by.                  *)

Choice(s) == CHOOSE x \in s : TRUE

Adds(f, g, S) ==
    f = [s \in SUBSET S |-> IF s = {} THEN 0 ELSE g[Choice(s)] + f[s \ {Choice(s)}]]
Sums(g, S) == CHOOSE f : Adds(f, g, S)
Total(g, S) == Sums(g, S)[S]

LEMMA SumIsTotal ==
    ASSUME NEW g, NEW S
    PROVE  MapThenSumSet(LAMBDA k : g[k], S) = Total(g, S)
BY DEF MapThenSumSet, MapThenFoldSet, Total, Sums, Adds, Choice

LEMMA ChoiceInside == ASSUME NEW s, s # {} PROVE Choice(s) \in s
BY DEF Choice

LEMMA AddsOnce ==
    ASSUME NEW S, IsFiniteSet(S), NEW g, NEW f, NEW T, NEW U, NEW e,
           Adds(f, g, T), Adds(e, g, U), S \subseteq T, S \subseteq U
    PROVE  f[S] = e[S]
<1> DEFINE C == {s \in SUBSET S : f[s] # e[s]}
<1> SUFFICES ASSUME C # {} PROVE FALSE
  OBVIOUS
<1>1. PICK s \in C : \A t \in C : t \subseteq s => t = s
  <2>1. C \subseteq SUBSET S
    OBVIOUS
  <2> HIDE DEF C
  <2>2. QED
    BY <2>1, LeastSubset
<1>2. /\ f[s] = IF s = {} THEN 0 ELSE g[Choice(s)] + f[s \ {Choice(s)}]
      /\ e[s] = IF s = {} THEN 0 ELSE g[Choice(s)] + e[s \ {Choice(s)}]
  <2>1. s \in SUBSET T /\ s \in SUBSET U
    OBVIOUS
  <2>2. QED
    BY <2>1 DEF Adds
<1>3. s # {}
  BY <1>1, <1>2
<1>4. s \ {Choice(s)} \notin C
  BY <1>1, <1>3, ChoiceInside
<1>5. QED
  BY <1>1, <1>2, <1>3, <1>4

LEMMA SumsExist ==
    ASSUME NEW S, IsFiniteSet(S), NEW g
    PROVE  Adds(Sums(g, S), g, S)
<1> DEFINE C == {s \in SUBSET S : ~ \E f : Adds(f, g, s)}
<1> SUFFICES ASSUME C # {} PROVE FALSE
  BY DEF Sums
<1>1. PICK s \in C : \A t \in C : t \subseteq s => t = s
  <2>1. C \subseteq SUBSET S
    OBVIOUS
  <2> HIDE DEF C
  <2>2. QED
    BY <2>1, LeastSubset
<1>2. ASSUME NEW t \in SUBSET s, t # s
      PROVE  Adds(Sums(g, t), g, t)
  BY <1>1, <1>2 DEF Sums
<1> DEFINE Less(u) == u \ {Choice(u)}
           f == [u \in SUBSET s |-> IF u = {} THEN 0 ELSE g[Choice(u)] + Total(g, Less(u))]
<1>3. ASSUME NEW t \in SUBSET s, t # s
      PROVE  f[t] = Total(g, t)
  <2>1. Total(g, t) = IF t = {} THEN 0 ELSE g[Choice(t)] + Sums(g, t)[Less(t)]
    <3> DEFINE a == Sums(g, t)
    <3>1. Adds(a, g, t)
      BY <1>2, <1>3
    <3> HIDE DEF a
    <3>2. a[t] = IF t = {} THEN 0 ELSE g[Choice(t)] + a[t \ {Choice(t)}]
      BY <3>1 DEF Adds
    <3>3. QED
      BY <3>2 DEF a, Total
  <2>2. CASE t = {}
    BY <2>1, <2>2
  <2>3. CASE t # {}
    <3>1. Less(t) \subseteq t /\ Less(t) # s /\ Less(t) \in SUBSET s
      BY <1>3
    <3>2. Adds(Sums(g, t), g, t) /\ Adds(Sums(g, Less(t)), g, Less(t))
      BY <1>2, <1>3, <3>1
    <3>3. IsFiniteSet(Less(t))
      BY <3>1, FS_Subset
    <3>4. Sums(g, t)[Less(t)] = Sums(g, Less(t))[Less(t)]
      BY <3>1, <3>2, <3>3, AddsOnce
    <3>5. QED
      BY <2>1, <2>3, <3>4 DEF Total
  <2>4. QED
    BY <2>2, <2>3
<1>4. ASSUME NEW u \in SUBSET s, u # {}
      PROVE  Total(g, Less(u)) = f[Less(u)]
  <2>1. Less(u) \in SUBSET s /\ Less(u) # s
    BY <1>4, ChoiceInside
  <2>2. QED
    BY <1>3, <2>1
<1>5. Adds(f, g, s)
  BY <1>4 DEF Adds
<1>6. QED
  BY <1>1, <1>5

-----------------------------------------------------------------------------
(* Sums.                                                                     *)

LEMMA TotalChosen ==
    ASSUME NEW S, IsFiniteSet(S), NEW g
    PROVE  Total(g, S) = IF S = {} THEN 0 ELSE g[Choice(S)] + Total(g, S \ {Choice(S)})
<1> DEFINE a == Sums(g, S)
           L == S \ {Choice(S)}
           b == Sums(g, L)
<1>1. IsFiniteSet(L) /\ L \subseteq S
  BY FS_Subset
<1>2. Adds(a, g, S) /\ Adds(b, g, L)
  BY <1>1, SumsExist
<1> HIDE DEF a, b
<1>3. a[L] = b[L]
  <2> HIDE DEF L
  <2> QED
    BY <1>1, <1>2, AddsOnce
<1>4. a[S] = IF S = {} THEN 0 ELSE g[Choice(S)] + a[L]
  BY <1>2 DEF Adds
<1>5. QED
  BY <1>3, <1>4 DEF Total, a, b

LEMMA TotalEmpty == ASSUME NEW g PROVE Total(g, {}) = 0
BY TotalChosen, FS_EmptySet

\* The pattern of the inductions: what fails for a set fails for one that is
\* not empty and fails for no proper subset.
LEMMA TotalNat ==
    ASSUME NEW S, IsFiniteSet(S), NEW g, \A x \in S : g[x] \in Nat
    PROVE  Total(g, S) \in Nat
<1> DEFINE C == {s \in SUBSET S : Total(g, s) \notin Nat}
<1> SUFFICES ASSUME C # {} PROVE FALSE
  OBVIOUS
<1>1. PICK s \in C : \A t \in C : t \subseteq s => t = s
  <2>1. C \subseteq SUBSET S
    OBVIOUS
  <2> HIDE DEF C
  <2>2. QED
    BY <2>1, LeastSubset
<1>2. IsFiniteSet(s)
  BY FS_Subset
<1>3. Total(g, s) = IF s = {} THEN 0 ELSE g[Choice(s)] + Total(g, s \ {Choice(s)})
  BY <1>2, TotalChosen
<1>4. s # {} /\ Choice(s) \in s
  BY <1>1, <1>3, ChoiceInside
<1>5. s \ {Choice(s)} \notin C
  BY <1>1, <1>4
<1>6. QED
  BY <1>1, <1>3, <1>4, <1>5

\* Any element may be added last.
LEMMA TotalAny ==
    ASSUME NEW S, IsFiniteSet(S), NEW g, \A x \in S : g[x] \in Nat, NEW x \in S
    PROVE  Total(g, S) = g[x] + Total(g, S \ {x})
<1> DEFINE C == {s \in SUBSET S : \E y \in s : Total(g, s) # g[y] + Total(g, s \ {y})}
<1> SUFFICES ASSUME C # {} PROVE FALSE
  OBVIOUS
<1>1. PICK s \in C : \A t \in C : t \subseteq s => t = s
  <2>1. C \subseteq SUBSET S
    OBVIOUS
  <2> HIDE DEF C
  <2>2. QED
    BY <2>1, LeastSubset
<1>2. PICK y \in s : Total(g, s) # g[y] + Total(g, s \ {y})
  BY <1>1
<1> DEFINE c == Choice(s)
<1>3. \A t \in SUBSET S : IsFiniteSet(t) /\ Total(g, t) \in Nat
  BY FS_Subset, TotalNat
<1>4. c \in s /\ Total(g, s) = g[c] + Total(g, s \ {c})
  BY <1>2, <1>3, ChoiceInside, TotalChosen
<1> HIDE DEF c
<1>5. y # c
  BY <1>2, <1>4
<1>6. Total(g, s \ {c}) = g[y] + Total(g, (s \ {c}) \ {y})
  BY <1>1, <1>4, <1>5
<1>7. Total(g, s \ {y}) = g[c] + Total(g, (s \ {y}) \ {c})
  BY <1>1, <1>2, <1>4, <1>5
<1>8. (s \ {y}) \ {c} = (s \ {c}) \ {y}
  OBVIOUS
<1>9. Total(g, (s \ {c}) \ {y}) \in Nat /\ g[y] \in Nat /\ g[c] \in Nat
  BY <1>1, <1>3, <1>4
<1>10. QED
  BY <1>2, <1>4, <1>6, <1>7, <1>8, <1>9

LEMMA TotalAdd ==
    ASSUME NEW S, IsFiniteSet(S), NEW x, x \notin S,
           NEW g, \A y \in S \cup {x} : g[y] \in Nat
    PROVE  Total(g, S \cup {x}) = g[x] + Total(g, S)
<1> DEFINE T == S \cup {x}
<1>1. IsFiniteSet(T) /\ x \in T /\ T \ {x} = S
  BY FS_AddElement
<1>2. Total(g, T) = g[x] + Total(g, T \ {x})
  <2> HIDE DEF T
  <2>1. \A y \in T : g[y] \in Nat
    BY DEF T
  <2>2. QED
    BY <1>1, <2>1, TotalAny
<1>3. QED
  BY <1>1, <1>2

\* A sum depends on what is added up and on nothing else.
LEMMA TotalSame ==
    ASSUME NEW S, IsFiniteSet(S), NEW g, NEW e, \A x \in S : g[x] = e[x]
    PROVE  Total(g, S) = Total(e, S)
<1> DEFINE C == {s \in SUBSET S : Total(g, s) # Total(e, s)}
<1> SUFFICES ASSUME C # {} PROVE FALSE
  OBVIOUS
<1>1. PICK s \in C : \A t \in C : t \subseteq s => t = s
  <2>1. C \subseteq SUBSET S
    OBVIOUS
  <2> HIDE DEF C
  <2>2. QED
    BY <2>1, LeastSubset
<1>2. IsFiniteSet(s)
  BY FS_Subset
<1>3. /\ Total(g, s) = IF s = {} THEN 0 ELSE g[Choice(s)] + Total(g, s \ {Choice(s)})
      /\ Total(e, s) = IF s = {} THEN 0 ELSE e[Choice(s)] + Total(e, s \ {Choice(s)})
  BY <1>2, TotalChosen
<1>4. s # {} /\ Choice(s) \in s
  BY <1>1, <1>3, ChoiceInside
<1>5. s \ {Choice(s)} \notin C
  BY <1>1, <1>4
<1>6. QED
  BY <1>1, <1>3, <1>4, <1>5

LEMMA TotalSplit ==
    ASSUME NEW S, IsFiniteSet(S), NEW T, IsFiniteSet(T), S \cap T = {},
           NEW g, \A x \in S \cup T : g[x] \in Nat
    PROVE  Total(g, S \cup T) = Total(g, S) + Total(g, T)
<1> DEFINE C == {t \in SUBSET T : Total(g, S \cup t) # Total(g, S) + Total(g, t)}
<1> SUFFICES ASSUME C # {} PROVE FALSE
  OBVIOUS
<1>1. PICK t \in C : \A u \in C : u \subseteq t => u = t
  <2>1. C \subseteq SUBSET T
    OBVIOUS
  <2> HIDE DEF C
  <2>2. QED
    BY <2>1, LeastSubset
<1>2. \A u \in SUBSET T :
         IsFiniteSet(u) /\ IsFiniteSet(S \cup u) /\ Total(g, u) \in Nat /\ Total(g, S) \in Nat
  <2> TAKE u \in SUBSET T
  <2>1. IsFiniteSet(u)
    BY FS_Subset
  <2>2. IsFiniteSet(S \cup u)
    BY <2>1, FS_Union
  <2>3. (\A x \in u : g[x] \in Nat) /\ (\A x \in S : g[x] \in Nat)
    OBVIOUS
  <2>4. QED
    BY <2>1, <2>2, <2>3, TotalNat
<1>3. t # {}
  <2>1. S \cup {} = S /\ Total(g, {}) = 0 /\ Total(g, S) \in Nat
    BY <1>2, TotalEmpty
  <2>2. Total(g, S \cup {}) = Total(g, S) + Total(g, {})
    BY <2>1
  <2>3. QED
    BY <1>1, <2>2
<1>4. PICK x \in t : TRUE
  BY <1>3
<1>5. Total(g, S \cup (t \ {x})) = Total(g, S) + Total(g, t \ {x})
  BY <1>1, <1>4
<1>6. Total(g, t) = g[x] + Total(g, t \ {x})
  BY <1>2, <1>4, TotalAny
<1>7. Total(g, S \cup t) = g[x] + Total(g, S \cup (t \ {x}))
  <2>1. x \notin S \cup (t \ {x}) /\ S \cup t = (S \cup (t \ {x})) \cup {x}
    BY <1>4
  <2>2. IsFiniteSet(S \cup (t \ {x})) /\ \A y \in (S \cup (t \ {x})) \cup {x} : g[y] \in Nat
    BY <1>2, <1>4
  <2>3. Total(g, (S \cup (t \ {x})) \cup {x}) = g[x] + Total(g, S \cup (t \ {x}))
    <3> DEFINE u == S \cup (t \ {x})
    <3> HIDE DEF u
    <3>1. Total(g, u \cup {x}) = g[x] + Total(g, u)
      BY <2>1, <2>2, TotalAdd DEF u
    <3>2. QED
      BY <3>1 DEF u
  <2>4. QED
    BY <2>1, <2>3
<1>8. Total(g, t \ {x}) \in Nat /\ Total(g, S) \in Nat /\ g[x] \in Nat
  BY <1>2, <1>4
<1>9. QED
  BY <1>1, <1>5, <1>6, <1>7, <1>8

RowsOf(R, owner, p) == {r \in R : owner[r] = p}

\* Counting owner by owner counts every row of theirs once.
LEMMA TotalByOwner ==
    ASSUME NEW P, IsFiniteSet(P), NEW R, IsFiniteSet(R), NEW owner, NEW g,
           \A p \in P : g[p] = Cardinality(RowsOf(R, owner, p))
    PROVE  Total(g, P) = Cardinality({r \in R : owner[r] \in P})
<1>0. \A p \in P : g[p] = Cardinality({r \in R : owner[r] = p})
  BY DEF RowsOf
<1> DEFINE N(s) == Cardinality({r \in R : owner[r] \in s})
           C == {s \in SUBSET P : Total(g, s) # N(s)}
<1> SUFFICES ASSUME C # {} PROVE FALSE
  OBVIOUS
<1>1. PICK s \in C : \A t \in C : t \subseteq s => t = s
  <2>1. C \subseteq SUBSET P
    OBVIOUS
  <2> HIDE DEF C
  <2>2. QED
    BY <2>1, LeastSubset
<1>2. ASSUME NEW p PROVE p \in P => IsFiniteSet({r \in R : owner[r] = p}) /\ g[p] \in Nat
  <2>1. IsFiniteSet({r \in R : owner[r] = p})
    BY FS_Subset
  <2>2. QED
    BY <1>0, <2>1, FS_CardinalityType
<1>3. s # {}
  <2>1. {r \in R : owner[r] \in {}} = {}
    OBVIOUS
  <2>2. N({}) = 0 /\ Total(g, {}) = 0
    BY <2>1, TotalEmpty, FS_EmptySet
  <2>3. QED
    BY <1>1, <2>2
<1>4. PICK p \in s : TRUE
  BY <1>3
<1> DEFINE u == s \ {p}
<1>5. Total(g, u) = N(u)
  BY <1>1, <1>4
<1>6. Total(g, s) = g[p] + Total(g, u)
  <2>1. IsFiniteSet(s) /\ \A x \in s : g[x] \in Nat
    BY <1>2, FS_Subset
  <2>2. QED
    BY <1>4, <2>1, TotalAny
<1>7. N(s) = g[p] + N(u)
  <2> DEFINE A == {r \in R : owner[r] = p}
             B == {r \in R : owner[r] \in u}
  <2>1. {r \in R : owner[r] \in s} = A \cup B /\ A \cap B = {}
    BY <1>4
  <2>2. IsFiniteSet(A) /\ IsFiniteSet(B) /\ g[p] = Cardinality(A) /\ p \in P
    BY <1>0, <1>4, FS_Subset
  <2> HIDE DEF A, B
  <2>3. Cardinality(A \cup B) = Cardinality(A) + Cardinality(B) - Cardinality(A \cap B)
    BY <2>2, FS_Union
  <2>4. Cardinality(A \cap B) = 0 /\ Cardinality(A) \in Nat /\ Cardinality(B) \in Nat
    BY <2>1, <2>2, FS_EmptySet, FS_CardinalityType
  <2>5. Cardinality(A \cup B) = Cardinality(A) + Cardinality(B)
    BY <2>3, <2>4
  <2>6. QED
    BY <2>1, <2>2, <2>5 DEF B
<1>8. QED
  BY <1>1, <1>5, <1>6, <1>7

LEMMA TotalOfSum ==
    ASSUME NEW S, IsFiniteSet(S), NEW g, NEW e, NEW f,
           \A x \in S : g[x] \in Nat /\ e[x] \in Nat /\ f[x] = g[x] + e[x]
    PROVE  Total(f, S) = Total(g, S) + Total(e, S)
<1> DEFINE C == {s \in SUBSET S : Total(f, s) # Total(g, s) + Total(e, s)}
<1> SUFFICES ASSUME C # {} PROVE FALSE
  OBVIOUS
<1>1. PICK s \in C : \A t \in C : t \subseteq s => t = s
  <2>1. C \subseteq SUBSET S
    OBVIOUS
  <2> HIDE DEF C
  <2>2. QED
    BY <2>1, LeastSubset
<1>2. IsFiniteSet(s)
  BY FS_Subset
<1>3. s # {}
  <2>1. Total(f, {}) = 0 /\ Total(g, {}) = 0 /\ Total(e, {}) = 0
    BY TotalEmpty
  <2>2. Total(f, {}) = Total(g, {}) + Total(e, {})
    BY <2>1
  <2>3. QED
    BY <1>1, <2>2
<1> DEFINE c == Choice(s)
           u == s \ {c}
<1>4. /\ c \in s /\ c \in S
      /\ Total(g, s) = g[c] + Total(g, u)
      /\ Total(e, s) = e[c] + Total(e, u)
      /\ Total(f, s) = f[c] + Total(f, u)
  BY <1>2, <1>3, ChoiceInside, TotalChosen
<1>5. Total(f, u) = Total(g, u) + Total(e, u)
  BY <1>1, <1>4
<1>6. Total(g, u) \in Nat /\ Total(e, u) \in Nat
  <2>1. IsFiniteSet(u) /\ \A x \in u : g[x] \in Nat /\ e[x] \in Nat
    BY <1>2, FS_Subset
  <2>2. QED
    BY <2>1, TotalNat
<1> HIDE DEF c, u
<1>7. QED
  BY <1>1, <1>4, <1>5, <1>6

\* What nobody has more than m of, n of them have no more than n * m of.
LEMMA TotalWithin ==
    ASSUME NEW S, IsFiniteSet(S), NEW g, NEW m \in Nat,
           \A x \in S : g[x] \in Nat /\ g[x] <= m
    PROVE  Total(g, S) <= Cardinality(S) * m
<1> DEFINE C == {s \in SUBSET S : ~(Total(g, s) <= Cardinality(s) * m)}
<1> SUFFICES ASSUME C # {} PROVE FALSE
  <2>1. Total(g, S) <= Cardinality(S) * m \/ S \in C
    OBVIOUS
  <2>2. QED
    BY <2>1
<1>1. PICK s \in C : \A t \in C : t \subseteq s => t = s
  <2>1. C \subseteq SUBSET S
    OBVIOUS
  <2> HIDE DEF C
  <2>2. QED
    BY <2>1, LeastSubset
<1>2. s \subseteq S /\ ~(Total(g, s) <= Cardinality(s) * m)
  BY <1>1
<1>3. \A t \in SUBSET S : IsFiniteSet(t) /\ Cardinality(t) \in Nat /\ Total(g, t) \in Nat
  <2> TAKE t \in SUBSET S
  <2>1. IsFiniteSet(t)
    BY FS_Subset
  <2>2. \A x \in t : g[x] \in Nat
    OBVIOUS
  <2>3. QED
    BY <2>1, <2>2, TotalNat, FS_CardinalityType
<1>4. s # {}
  <2>1. ASSUME s = {} PROVE FALSE
    <3>1. Total(g, {}) = 0 /\ Cardinality({}) = 0
      BY TotalEmpty, FS_EmptySet
    <3>2. 0 <= 0 * m
      OBVIOUS
    <3>3. QED
      BY <1>2, <2>1, <3>1, <3>2
  <2>2. QED
    BY <2>1
<1>5. PICK x \in s : TRUE
  BY <1>4
<1>6. Total(g, s) = g[x] + Total(g, s \ {x})
  BY <1>2, <1>3, <1>5, TotalAny
<1>7. Cardinality(s \ {x}) = Cardinality(s) - 1
  BY <1>2, <1>3, <1>5, FS_RemoveElement
<1>8. Total(g, s \ {x}) <= Cardinality(s \ {x}) * m
  BY <1>1, <1>2, <1>5
<1>9. ASSUME NEW a \in Nat, NEW b \in Nat, NEW c \in Nat, NEW d \in Nat, NEW e \in Nat,
             e = d + a, a <= m, d <= b * m, b = c - 1
      PROVE  e <= c * m
  <2>1. c = b + 1
    BY <1>9
  <2>2. c * m = b * m + m /\ b * m \in Nat
    BY <2>1
  <2> DEFINE y == b * m
             z == c * m
  <2>3. z = y + m /\ y \in Nat /\ d <= y
    BY <1>9, <2>2
  <2> HIDE DEF y, z
  <2>4. e <= z
    BY <1>9, <2>3
  <2>5. QED
    BY <2>4 DEF z
<1>10. /\ Cardinality(s) \in Nat /\ Cardinality(s \ {x}) \in Nat
       /\ Total(g, s) \in Nat /\ Total(g, s \ {x}) \in Nat /\ g[x] \in Nat /\ g[x] <= m
  BY <1>2, <1>3, <1>5
<1> HIDE DEF C
<1>11. \A a, b, c, d, e \in Nat : e = d + a /\ a <= m /\ d <= b * m /\ b = c - 1 => e <= c * m
  BY <1>9
<1>12. Total(g, s) <= Cardinality(s) * m
  BY <1>6, <1>7, <1>8, <1>10, <1>11
<1>13. QED
  BY <1>2, <1>12
================================================================================
