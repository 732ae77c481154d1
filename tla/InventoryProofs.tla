---------------------------- MODULE InventoryProofs ----------------------------
(***************************************************************************)
(* What the inventory operations do to the totals of the items, for any    *)
(* sizes, limits, widths of the counts and recipes: the lemmas that        *)
(* PredictionProofs and ChestsProofs need of them.  A total is a fold, so  *)
(* nothing of it can be had by induction; instead, of the subsets for      *)
(* which a claim fails one is smallest, and giving it up by one element    *)
(* leads to a contradiction.  That the inputs of a recipe are what the     *)
(* crafting square loses is a bijection between the cells that hold        *)
(* something and the inputs that are.                                      *)
(***************************************************************************)
EXTENDS Inventory, FiniteSetTheorems, WellFoundedInduction, TLAPS

-----------------------------------------------------------------------------
(* Folds *)

\* it folds F over the subsets of S, taking the element that pick says.
Folds(it, S, pick, F, base) ==
    it = [s \in SUBSET S |-> IF s = {} THEN base ELSE F[pick[s]][it[s \ {pick[s]}]]]

Picks(pick, S) == \A s \in SUBSET S : s # {} => pick[s] \in s

LEMMA Smallest ==
    ASSUME NEW T, T \subseteq Nat, T # {}
    PROVE  \E m \in T : \A y \in T : m <= y
<1>1. PICK m \in T : \A y \in T : ~(<<y, m>> \in OpToRel(<, Nat))
  BY NatLessThanWellFounded, WFMin
<1>2. ASSUME NEW y \in T PROVE m <= y
  <2>1. m \in Nat /\ y \in Nat
    OBVIOUS
  <2>2. ~(y < m)
    BY <1>1, <2>1 DEF OpToRel
  <2> QED
    BY <2>1, <2>2
<1> QED
  BY <1>2

LEMMA OneLess ==
    ASSUME NEW S, IsFiniteSet(S), NEW x \in S
    PROVE  /\ IsFiniteSet(S \ {x}) /\ Cardinality(S) \in Nat /\ Cardinality(S \ {x}) \in Nat
           /\ Cardinality(S \ {x}) = Cardinality(S) - 1
  BY FS_RemoveElement, FS_CardinalityType

\* Of some subsets of a finite set, one has no smaller one among them.
LEMMA SmallestSet ==
    ASSUME NEW S, IsFiniteSet(S), NEW B, B \subseteq SUBSET S, B # {}
    PROVE  \E s \in B : IsFiniteSet(s) /\ \A x \in s : s \ {x} \notin B
<1>1. \A s \in B : IsFiniteSet(s) /\ Cardinality(s) \in Nat
  BY FS_Subset, FS_CardinalityType
<1> DEFINE T == {Cardinality(s) : s \in B}
<1>2. T \subseteq Nat /\ T # {}
  BY <1>1
<1>3. PICK m \in T : \A y \in T : m <= y
  <2> HIDE DEF T
  <2> QED
    BY <1>2, Smallest
<1>4. PICK s \in B : Cardinality(s) = m
  OBVIOUS
<1>5. ASSUME NEW x \in s, s \ {x} \in B PROVE FALSE
  <2>1. Cardinality(s \ {x}) = m - 1 /\ m \in Nat
    BY <1>1, <1>4, OneLess
  <2>2. Cardinality(s \ {x}) \in T
    BY <1>5
  <2>3. m <= Cardinality(s \ {x})
    BY <1>3, <2>2
  <2> QED
    BY <2>1, <2>3
<1> QED
  BY <1>1, <1>5

\* What the community module's recursive definitions define.
LEMMA FoldExists ==
    ASSUME NEW S, IsFiniteSet(S), NEW A, NEW base \in A, NEW pick, Picks(pick, S),
           NEW F, \A x \in S : \A a \in A : F[x][a] \in A
    PROVE  \E it \in [SUBSET S -> A] : Folds(it, S, pick, F, base)
<1> DEFINE Step(g, s) == IF s = {} THEN base ELSE F[pick[s]][g[s \ {pick[s]}]]
           Upto(g, n) == \A s \in SUBSET S : Cardinality(s) <= n => g[s] = Step(g, s)
           T == {n \in Nat : ~\E g \in [SUBSET S -> A] : Upto(g, n)}
<1>1. \A s \in SUBSET S : IsFiniteSet(s) /\ Cardinality(s) \in Nat /\ Cardinality(s) <= Cardinality(S)
  BY FS_Subset, FS_CardinalityType
<1>2. \A s \in SUBSET S : s # {} =>
         /\ pick[s] \in s /\ pick[s] \in S /\ s \ {pick[s]} \in SUBSET S
         /\ Cardinality(s \ {pick[s]}) = Cardinality(s) - 1
         /\ Cardinality(s \ {pick[s]}) \in Nat
  BY <1>1, OneLess DEF Picks
<1>3. ASSUME NEW g \in [SUBSET S -> A], NEW s \in SUBSET S PROVE Step(g, s) \in A
  BY <1>2
<1>4. T = {}
  <2> SUFFICES ASSUME T # {} PROVE FALSE
    OBVIOUS
  <2>1. PICK m \in T : \A y \in T : m <= y
    <3>1. T \subseteq Nat
      OBVIOUS
    <3> HIDE DEF T
    <3> QED
      BY <3>1, Smallest
  <2>2. CASE m = 0
    <3> DEFINE g == [s \in SUBSET S |-> base]
    <3>1. \A s \in SUBSET S : Cardinality(s) <= 0 => s = {}
      BY <1>1, FS_EmptySet
    <3>2. g \in [SUBSET S -> A] /\ Upto(g, 0)
      BY <3>1
    <3> QED
      BY <2>2, <3>2
  <2>3. CASE m # 0
    <3>1. m - 1 \in Nat /\ ~(m <= m - 1)
      BY <2>3
    <3>2. m - 1 \notin T
      BY <2>1, <3>1
    <3>3. PICK g \in [SUBSET S -> A] : Upto(g, m - 1)
      BY <3>1, <3>2
    <3> DEFINE h == [s \in SUBSET S |-> IF Cardinality(s) <= m - 1 THEN g[s] ELSE Step(g, s)]
    <3>4. h \in [SUBSET S -> A]
      BY <1>3
    <3>5. ASSUME NEW s \in SUBSET S, Cardinality(s) <= m PROVE h[s] = Step(g, s)
      BY <3>3
    <3>6. ASSUME NEW s \in SUBSET S, Cardinality(s) <= m PROVE Step(h, s) = Step(g, s)
      <4>1. CASE s # {}
        <5>1. Cardinality(s \ {pick[s]}) <= m - 1 /\ s \ {pick[s]} \in SUBSET S
          BY <1>1, <1>2, <3>6, <4>1
        <5>2. h[s \ {pick[s]}] = g[s \ {pick[s]}]
          BY <5>1
        <5> HIDE DEF h
        <5> QED
          BY <4>1, <5>2
      <4> QED
        BY <4>1
    <3>7. Upto(h, m)
      <4> HIDE DEF h
      <4> QED
        BY <3>5, <3>6
    <3> QED
      BY <3>4, <3>7
  <2> QED
    BY <2>2, <2>3
<1>5. Cardinality(S) \in Nat
  BY FS_CardinalityType
<1>6. PICK g \in [SUBSET S -> A] : Upto(g, Cardinality(S))
  BY <1>4, <1>5
<1>7. \A s \in SUBSET S : g[s] = Step(g, s)
  BY <1>1, <1>6
<1>8. g = [s \in SUBSET S |-> g[s]]
  OBVIOUS
<1>9. Folds(g, S, pick, F, base)
  BY <1>7, <1>8, Zenon DEF Folds
<1> QED
  BY <1>9

-----------------------------------------------------------------------------
(* Sums *)

Sum(f, S) == MapThenSumSet(LAMBDA s : f[s], S)

AnyOf(s) == CHOOSE x \in s : TRUE

\* it has the sums of f over the subsets of S.
SumsOf(it, f, S) ==
    /\ it \in [SUBSET S -> Int]
    /\ \A s \in SUBSET S : it[s] = IF s = {} THEN 0 ELSE f[AnyOf(s)] + it[s \ {AnyOf(s)}]

LEMMA SumIsAFold ==
    ASSUME NEW S, IsFiniteSet(S), NEW f, \A x \in S : f[x] \in Int
    PROVE  \E it : SumsOf(it, f, S) /\ Sum(f, S) = it[S]
<1> DEFINE pick == [s \in SUBSET S |-> AnyOf(s)]
           F == [x \in S |-> [a \in Int |-> f[x] + a]]
           Is(it) == it = [s \in SUBSET S |-> IF s = {} THEN 0
                                              ELSE f[AnyOf(s)] + it[s \ {AnyOf(s)}]]
<1>1. ASSUME NEW s \in SUBSET S, s # {}
      PROVE  AnyOf(s) \in s /\ AnyOf(s) \in S /\ s \ {AnyOf(s)} \in SUBSET S
  BY <1>1 DEF AnyOf
<1>2. Picks(pick, S)
  BY <1>1 DEF Picks
<1>3. PICK g \in [SUBSET S -> Int] : Folds(g, S, pick, F, 0)
  <2>1. \A x \in S : \A a \in Int : F[x][a] \in Int
    OBVIOUS
  <2> HIDE DEF F, pick
  <2>2. ASSUME NEW A, A = Int PROVE \E g \in [SUBSET S -> A] : Folds(g, S, pick, F, 0)
    <3>1. 0 \in A /\ \A x \in S : \A a \in A : F[x][a] \in A
      BY <2>1, <2>2
    <3> QED
      BY <1>2, <3>1, FoldExists
  <2> QED
    BY <2>2
<1>4. ASSUME NEW s \in SUBSET S
      PROVE  g[s] = IF s = {} THEN 0 ELSE f[AnyOf(s)] + g[s \ {AnyOf(s)}]
  <2>1. g[s] = IF s = {} THEN 0 ELSE F[pick[s]][g[s \ {pick[s]}]]
    BY <1>3 DEF Folds
  <2> QED
    BY <1>1, <2>1
<1>5. Is(g)
  BY <1>4
<1>6. Sum(f, S) = (CHOOSE it : Is(it))[S]
  BY DEF Sum, MapThenSumSet, MapThenFoldSet, AnyOf
<1> DEFINE it == CHOOSE it : Is(it)
<1>7. Is(it)
  BY <1>5
<1> HIDE DEF it
<1>8. \A s \in SUBSET S : it[s] = IF s = {} THEN 0 ELSE f[AnyOf(s)] + it[s \ {AnyOf(s)}]
  BY <1>7
<1>9. \A s \in SUBSET S : it[s] \in Int
  <2> DEFINE B == {s \in SUBSET S : it[s] \notin Int}
  <2> SUFFICES ASSUME B # {} PROVE FALSE
    OBVIOUS
  <2>1. PICK s \in B : \A x \in s : s \ {x} \notin B
    BY SmallestSet
  <2>2. s # {}
    BY <1>8
  <2>3. it[s \ {AnyOf(s)}] \in Int
    BY <1>1, <2>1, <2>2
  <2> QED
    BY <1>1, <1>8, <2>2, <2>3
<1>10. SumsOf(it, f, S)
  <2>1. it = [s \in SUBSET S |-> it[s]]
    BY <1>7
  <2> QED
    BY <1>8, <1>9, <2>1 DEF SumsOf
<1>11. Sum(f, S) = it[S]
  BY <1>6 DEF it
<1> QED
  BY <1>10, <1>11

LEMMA SumType ==
    ASSUME NEW S, IsFiniteSet(S), NEW f, \A x \in S : f[x] \in Int
    PROVE  Sum(f, S) \in Int
<1>1. PICK it : SumsOf(it, f, S) /\ Sum(f, S) = it[S]
  BY SumIsAFold
<1>2. S \in SUBSET S
  OBVIOUS
<1> QED
  BY <1>1, <1>2 DEF SumsOf

LEMMA SumOfNone == ASSUME NEW f, NEW S, S = {} PROVE Sum(f, S) = 0
<1>1. IsFiniteSet(S) /\ \A x \in S : f[x] \in Int
  BY FS_EmptySet
<1>2. PICK it : SumsOf(it, f, S) /\ Sum(f, S) = it[S]
  BY <1>1, SumIsAFold
<1>3. S \in SUBSET S
  OBVIOUS
<1> QED
  BY <1>2, <1>3 DEF SumsOf

LEMMA SumStep ==
    ASSUME NEW S, IsFiniteSet(S), S # {}, NEW f, \A x \in S : f[x] \in Int
    PROVE  AnyOf(S) \in S /\ Sum(f, S) = f[AnyOf(S)] + Sum(f, S \ {AnyOf(S)})
<1> DEFINE x == AnyOf(S)
           R == S \ {x}
<1>1. x \in S /\ IsFiniteSet(R) /\ R \subseteq S
  BY OneLess DEF AnyOf
<1>2. PICK it : SumsOf(it, f, S) /\ Sum(f, S) = it[S]
  BY SumIsAFold
<1>3. PICK it2 : SumsOf(it2, f, R) /\ Sum(f, R) = it2[R]
  BY <1>1, SumIsAFold
<1>4. \A s \in SUBSET R : it[s] = it2[s]
  <2> DEFINE B == {s \in SUBSET R : it[s] # it2[s]}
  <2> SUFFICES ASSUME B # {} PROVE FALSE
    OBVIOUS
  <2>1. PICK s \in B : \A y \in s : s \ {y} \notin B
    <3>1. B \subseteq SUBSET R
      OBVIOUS
    <3> HIDE DEF B, R
    <3> QED
      BY <1>1, <3>1, SmallestSet
  <2>2. s \in SUBSET R /\ s \in SUBSET S
    BY <1>1
  <2>3. s # {}
    BY <1>2, <1>3, <2>2 DEF SumsOf
  <2>4. AnyOf(s) \in s
    BY <2>3 DEF AnyOf
  <2>5. s \ {AnyOf(s)} \in SUBSET R
    BY <2>2
  <2>6. it[s \ {AnyOf(s)}] = it2[s \ {AnyOf(s)}]
    BY <2>1, <2>4, <2>5
  <2> QED
    BY <1>2, <1>3, <2>2, <2>3, <2>6 DEF SumsOf
<1> QED
  BY <1>1, <1>2, <1>3, <1>4 DEF SumsOf

\* Any element may be taken first.
LEMMA SumTakes ==
    ASSUME NEW S, IsFiniteSet(S), NEW a \in S, NEW f, \A x \in S : f[x] \in Int
    PROVE  Sum(f, S) = f[a] + Sum(f, S \ {a})
<1> DEFINE B == {s \in SUBSET S : \E x \in s : Sum(f, s) # f[x] + Sum(f, s \ {x})}
<1> SUFFICES ASSUME B # {} PROVE FALSE
  OBVIOUS
<1>1. PICK s \in B : IsFiniteSet(s) /\ \A x \in s : s \ {x} \notin B
  BY SmallestSet
<1>2. PICK b \in s : Sum(f, s) # f[b] + Sum(f, s \ {b})
  BY <1>1
<1> DEFINE c == AnyOf(s)
<1>3. s \subseteq S /\ \A x \in s : f[x] \in Int
  OBVIOUS
<1>4. c \in s /\ Sum(f, s) = f[c] + Sum(f, s \ {c})
  BY <1>1, <1>2, <1>3, SumStep
<1> HIDE DEF c
<1>5. b # c
  BY <1>2, <1>4
<1>6. s \ {c} \in SUBSET S /\ s \ {b} \in SUBSET S /\ b \in s \ {c} /\ c \in s \ {b}
  BY <1>2, <1>3, <1>4, <1>5
<1>7. s \ {c} \notin B /\ s \ {b} \notin B
  BY <1>1, <1>2, <1>4
<1>8. Sum(f, s \ {c}) = f[b] + Sum(f, (s \ {c}) \ {b})
  BY <1>6, <1>7
<1>9. Sum(f, s \ {b}) = f[c] + Sum(f, (s \ {b}) \ {c})
  BY <1>6, <1>7
<1>10. Sum(f, (s \ {c}) \ {b}) = Sum(f, (s \ {b}) \ {c})
  <2>1. (s \ {c}) \ {b} = (s \ {b}) \ {c}
    OBVIOUS
  <2> QED
    BY <2>1
<1>11. Sum(f, (s \ {b}) \ {c}) \in Int
  BY <1>1, <1>3, FS_Difference, SumType
<1>12. f[b] \in Int /\ f[c] \in Int
  BY <1>2, <1>3, <1>4
<1> HIDE DEF B
<1> QED
  BY <1>2, <1>4, <1>8, <1>9, <1>10, <1>11, <1>12

\* Were it false, it would be so of a smallest subset, which has an element, and true
\* without that.
LEMMA SumsCompare ==
    ASSUME NEW S, IsFiniteSet(S), NEW f, NEW g,
           \A x \in S : f[x] \in Int /\ g[x] \in Int /\ f[x] <= g[x]
    PROVE  Sum(f, S) <= Sum(g, S)
<1> DEFINE B == {s \in SUBSET S : ~(Sum(f, s) <= Sum(g, s))}
<1> SUFFICES ASSUME B # {} PROVE FALSE
  OBVIOUS
<1>1. PICK s \in B : IsFiniteSet(s) /\ \A x \in s : s \ {x} \notin B
  BY SmallestSet
<1>2. s # {}
  BY SumOfNone
<1>3. PICK x \in s : TRUE
  BY <1>2
<1>4. Sum(f, s) = f[x] + Sum(f, s \ {x}) /\ Sum(g, s) = g[x] + Sum(g, s \ {x})
  BY <1>1, SumTakes
<1>5. Sum(f, s \ {x}) <= Sum(g, s \ {x})
  BY <1>1
<1>6. Sum(f, s \ {x}) \in Int /\ Sum(g, s \ {x}) \in Int
  BY <1>1, FS_Difference, SumType
<1>7. f[x] \in Int /\ g[x] \in Int /\ f[x] <= g[x]
  OBVIOUS
<1>8. ~(Sum(f, s) <= Sum(g, s))
  OBVIOUS
<1> HIDE DEF B
<1> QED
  BY <1>4, <1>5, <1>6, <1>7, <1>8

LEMMA SumsAgree ==
    ASSUME NEW S, IsFiniteSet(S), NEW f, NEW g,
           \A x \in S : f[x] \in Int /\ f[x] = g[x]
    PROVE  Sum(f, S) = Sum(g, S)
<1>1. Sum(f, S) <= Sum(g, S) /\ Sum(g, S) <= Sum(f, S)
  BY SumsCompare
<1>2. Sum(f, S) \in Int /\ Sum(g, S) \in Int
  BY SumType
<1> QED
  BY <1>1, <1>2

\* One value changes.
LEMMA SumChanges ==
    ASSUME NEW S, IsFiniteSet(S), NEW a \in S, NEW f, NEW g,
           \A x \in S : f[x] \in Int /\ g[x] \in Int /\ (x # a => f[x] = g[x])
    PROVE  Sum(g, S) = Sum(f, S) - f[a] + g[a]
<1>1. Sum(f, S) = f[a] + Sum(f, S \ {a}) /\ Sum(g, S) = g[a] + Sum(g, S \ {a})
  BY SumTakes
<1>2. IsFiniteSet(S \ {a})
  BY FS_Difference
<1>3. Sum(f, S \ {a}) = Sum(g, S \ {a})
  BY <1>2, SumsAgree
<1>4. Sum(f, S \ {a}) \in Int
  BY <1>2, SumType
<1> QED
  BY <1>1, <1>3, <1>4

\* Two values change.
LEMMA SumChangesTwice ==
    ASSUME NEW S, IsFiniteSet(S), NEW a \in S, NEW b \in S, a # b, NEW f, NEW g,
           \A x \in S : f[x] \in Int /\ g[x] \in Int /\ (x \notin {a, b} => f[x] = g[x])
    PROVE  Sum(g, S) = Sum(f, S) - f[a] - f[b] + g[a] + g[b]
<1> DEFINE h == [x \in S |-> IF x = a THEN g[x] ELSE f[x]]
<1>1. \A x \in S : h[x] \in Int /\ (x # a => f[x] = h[x]) /\ (x # b => h[x] = g[x])
  OBVIOUS
<1>2. h[a] = g[a] /\ h[b] = f[b]
  OBVIOUS
<1> HIDE DEF h
<1>3. Sum(h, S) = Sum(f, S) - f[a] + h[a]
  BY <1>1, SumChanges
<1>4. Sum(g, S) = Sum(h, S) - h[b] + g[b]
  BY <1>1, SumChanges
<1>5. Sum(f, S) \in Int /\ Sum(g, S) \in Int /\ Sum(h, S) \in Int
  BY <1>1, SumType
<1> QED
  BY <1>2, <1>3, <1>4, <1>5

\* Two sets that have nothing in common.
LEMMA SumOfBoth ==
    ASSUME NEW S, IsFiniteSet(S), NEW T, IsFiniteSet(T), S \cap T = {}, NEW f,
           \A x \in S \cup T : f[x] \in Int
    PROVE  Sum(f, S \cup T) = Sum(f, S) + Sum(f, T)
<1> DEFINE B == {s \in SUBSET S : Sum(f, s \cup T) # Sum(f, s) + Sum(f, T)}
<1> SUFFICES ASSUME B # {} PROVE FALSE
  OBVIOUS
<1>1. PICK s \in B : IsFiniteSet(s) /\ \A x \in s : s \ {x} \notin B
  BY SmallestSet
<1>2. s # {}
  <2> SUFFICES ASSUME s = {} PROVE FALSE
    OBVIOUS
  <2>1. Sum(f, s \cup T) = Sum(f, T)
    <3>1. s \cup T = T
      OBVIOUS
    <3> QED
      BY <3>1
  <2>2. Sum(f, s) = 0 /\ Sum(f, T) \in Int
    BY SumOfNone, SumType
  <2> QED
    BY <2>1, <2>2
<1>3. PICK x \in s : TRUE
  BY <1>2
<1>4. \A y \in s \cup T : f[y] \in Int
  OBVIOUS
<1>5. IsFiniteSet(s \cup T) /\ IsFiniteSet(s \ {x}) /\ IsFiniteSet((s \ {x}) \cup T)
  BY <1>1, FS_Union, FS_Difference
<1>6. Sum(f, s) = f[x] + Sum(f, s \ {x})
  BY <1>1, <1>4, SumTakes
<1>7. Sum(f, s \cup T) = f[x] + Sum(f, (s \ {x}) \cup T)
  <2>1. (s \cup T) \ {x} = (s \ {x}) \cup T
    OBVIOUS
  <2>2. x \in s \cup T
    OBVIOUS
  <2> QED
    BY <1>4, <1>5, <2>1, <2>2, SumTakes
<1>8. Sum(f, (s \ {x}) \cup T) = Sum(f, s \ {x}) + Sum(f, T)
  BY <1>1
<1>9. Sum(f, s \ {x}) \in Int /\ Sum(f, T) \in Int /\ f[x] \in Int
  BY <1>4, <1>5, SumType
<1>10. Sum(f, s \cup T) # Sum(f, s) + Sum(f, T)
  OBVIOUS
<1> HIDE DEF B
<1> QED
  BY <1>6, <1>7, <1>8, <1>9, <1>10

\* As many of the values as there are are one less.
LEMMA SumCounts ==
    ASSUME NEW S, IsFiniteSet(S), NEW f, NEW g, NEW D \in SUBSET S,
           \A x \in S : f[x] \in Int /\ g[x] = IF x \in D THEN f[x] - 1 ELSE f[x]
    PROVE  Sum(f, S) - Sum(g, S) = Cardinality(D)
<1> DEFINE B == {s \in SUBSET S : Sum(f, s) - Sum(g, s) # Cardinality(D \cap s)}
<1>1. B = {}
  <2> SUFFICES ASSUME B # {} PROVE FALSE
    OBVIOUS
  <2>1. PICK s \in B : IsFiniteSet(s) /\ \A x \in s : s \ {x} \notin B
    BY SmallestSet
  <2>2. s # {}
    <3> SUFFICES ASSUME s = {} PROVE FALSE
      OBVIOUS
    <3>1. D \cap s = {}
      OBVIOUS
    <3>2. Cardinality(D \cap s) = 0
      BY <3>1, FS_EmptySet
    <3>3. Sum(f, s) = 0 /\ Sum(g, s) = 0
      BY SumOfNone
    <3> QED
      BY <3>2, <3>3
  <2>3. PICK x \in s : TRUE
    BY <2>2
  <2>4. \A y \in s : f[y] \in Int /\ g[y] \in Int
    OBVIOUS
  <2>5. Sum(f, s) = f[x] + Sum(f, s \ {x}) /\ Sum(g, s) = g[x] + Sum(g, s \ {x})
    BY <2>1, <2>4, SumTakes
  <2>6. Sum(f, s \ {x}) - Sum(g, s \ {x}) = Cardinality(D \cap (s \ {x}))
    BY <2>1
  <2>7. Sum(f, s \ {x}) \in Int /\ Sum(g, s \ {x}) \in Int
    BY <2>1, <2>4, FS_Difference, SumType
  <2>8. IsFiniteSet(D \cap s) /\ IsFiniteSet(D \cap (s \ {x}))
        /\ Cardinality(D \cap s) \in Nat /\ Cardinality(D \cap (s \ {x})) \in Nat
    <3>1. IsFiniteSet(D \cap s) /\ IsFiniteSet(D \cap (s \ {x}))
      BY <2>1, FS_Subset
    <3> QED
      BY <3>1, FS_CardinalityType
  <2>9. Cardinality(D \cap s) = Cardinality(D \cap (s \ {x})) + (IF x \in D THEN 1 ELSE 0)
    <3>1. CASE x \in D
      <4>1. x \in D \cap s
            /\ Cardinality((D \cap s) \ {x}) = Cardinality(D \cap (s \ {x}))
        <5>1. (D \cap s) \ {x} = D \cap (s \ {x})
          OBVIOUS
        <5> QED
          BY <3>1, <5>1
      <4>2. Cardinality((D \cap s) \ {x}) = Cardinality(D \cap s) - 1
        BY <2>8, <4>1, OneLess
      <4> QED
        BY <2>8, <3>1, <4>1, <4>2
    <3>2. CASE x \notin D
      <4>1. Cardinality(D \cap s) = Cardinality(D \cap (s \ {x}))
        <5>1. D \cap s = D \cap (s \ {x})
          BY <3>2
        <5> QED
          BY <5>1
      <4> QED
        BY <2>8, <3>2, <4>1
    <3> QED
      BY <3>1, <3>2
  <2>10. f[x] \in Int /\ g[x] = f[x] - (IF x \in D THEN 1 ELSE 0)
    OBVIOUS
  <2>11. Sum(f, s) - Sum(g, s) # Cardinality(D \cap s)
    OBVIOUS
  <2> HIDE DEF B
  <2> QED
    BY <2>5, <2>6, <2>7, <2>8, <2>9, <2>10, <2>11
<1>2. S \in SUBSET S /\ D \cap S = D
  OBVIOUS
<1>3. Sum(f, S) - Sum(g, S) = Cardinality(D \cap S)
  BY <1>1
<1> QED
  BY <1>2, <1>3

-----------------------------------------------------------------------------
(* Stacks *)

Amount(stack, item) == IF stack.item = item THEN stack.count ELSE 0

Limited(stack) == stack.count <= Limit

\* What the stacks a and b hold, and what c and d do.
AtMost(a, b, c, d) ==
    \A i \in Items : Amount(a, i) + Amount(b, i) <= Amount(c, i) + Amount(d, i)
Same(a, b, c, d) ==
    \A i \in Items : Amount(a, i) + Amount(b, i) = Amount(c, i) + Amount(d, i)

Numbers == Limit \in Nat \ {0} /\ Width \in Nat \ {0} /\ Limit < Width

LEMMA TheNumbers == Numbers
  BY InventoryAssumption DEF Numbers

LEMMA CutToWidth ==
    ASSUME NEW n \in Nat, NEW w \in Nat \ {0}
    PROVE  n % w \in 0..(w - 1) /\ n % w <= n /\ (n < w => n % w = n)
  OBVIOUS

LEMMA StackIs ==
    ASSUME NEW st \in Stack
    PROVE  /\ st.count \in Nat /\ st.count <= Width - 1 /\ (st = Empty <=> st.count = 0)
           /\ (st = Empty <=> st.item = NoItem)
           /\ st # Empty => st.item \in Items
           /\ st = [item |-> st.item, count |-> st.count]
  BY InventoryAssumption, TheNumbers DEF Stack, Empty, Numbers

LEMMA WithIs ==
    ASSUME NEW item \in Items, NEW count \in Nat, count <= Width - 1
    PROVE  /\ With(item, count) \in Stack
           /\ With(item, count).count = count
           /\ \A i \in Items : Amount(With(item, count), i) = IF i = item THEN count ELSE 0
  BY InventoryAssumption, TheNumbers DEF With, Stack, Empty, Amount, Numbers

LEMMA NothingIs ==
    /\ Empty \in Stack /\ Limited(Empty) /\ Empty.count = 0
    /\ \A i \in Items : Amount(Empty, i) = 0
  BY InventoryAssumption, TheNumbers DEF Stack, Empty, Amount, Limited, Numbers

LEMMA PutIs ==
    ASSUME NEW st \in Stack, NEW other \in Stack, NEW allow, NEW p, p = Put(st, other, allow)
    PROVE  /\ p.stack \in Stack /\ p.rest \in Stack
           /\ AtMost(p.stack, p.rest, st, other)
           /\ Limited(st) /\ Limited(other) =>
                 /\ Limited(p.stack) /\ Limited(p.rest) /\ Same(p.stack, p.rest, st, other)
                 /\ \A i \in Items : Amount(p.rest, i) <= Amount(other, i)
<1> DEFINE wanted == st.count + other.count
           exceeding == IF wanted > Limit THEN wanted - Limit ELSE 0
<1>1. CASE st = Empty /\ allow
  <2>1. p.stack = other /\ p.rest = Empty
    BY <1>1 DEF Put
  <2>2. \A i \in Items : Amount(Empty, i) = 0 /\ Amount(other, i) \in Nat
    BY NothingIs, StackIs DEF Amount
  <2>3. st = Empty
    BY <1>1
  <2>4. \A i \in Items : Amount(st, i) = 0 /\ Amount(p.rest, i) = 0 /\ Amount(p.stack, i) = Amount(other, i)
    BY <2>1, <2>2, <2>3
  <2> QED
    BY <2>1, <2>2, <2>4, NothingIs DEF AtMost, Same
<1>2. CASE ~(st = Empty /\ allow) /\ Empty \notin {st, other} /\ st.item = other.item
  <2>1. /\ p.stack = With(st.item, wanted - exceeding)
        /\ p.rest = With(st.item, exceeding % Width)
    BY <1>2 DEF Put
  <2>2. /\ st.item \in Items /\ st.count \in Nat \ {0} /\ other.count \in Nat \ {0}
        /\ st.count <= Width - 1 /\ other.count <= Width - 1
    BY <1>2, StackIs
  <2>3. /\ wanted \in Nat /\ exceeding \in Nat /\ wanted - exceeding \in Nat
        /\ wanted - exceeding <= Limit /\ wanted - exceeding <= Width - 1
        /\ Limited(st) /\ Limited(other) => exceeding < Width /\ exceeding <= other.count
                                            /\ exceeding <= Limit
    BY <2>2, TheNumbers DEF Numbers, Limited
  <2>4. /\ exceeding % Width \in Nat /\ exceeding % Width <= Width - 1
        /\ exceeding % Width <= exceeding
        /\ exceeding < Width => exceeding % Width = exceeding
    <3>1. ASSUME NEW e \in Nat, NEW w \in Nat \ {0}
          PROVE  e % w \in Nat /\ e % w <= w - 1 /\ e % w <= e /\ (e < w => e % w = e)
      OBVIOUS
    <3>2. exceeding \in Nat /\ Width \in Nat \ {0}
      BY <2>3, TheNumbers DEF Numbers
    <3> HIDE DEF exceeding
    <3> QED
      BY <3>1, <3>2
  <2>5. \A i \in Items : /\ Amount(st, i) = IF i = st.item THEN st.count ELSE 0
                         /\ Amount(other, i) = IF i = st.item THEN other.count ELSE 0
    BY <1>2 DEF Amount
  <2> DEFINE kept == wanted - exceeding
             over == exceeding % Width
  <2>6. /\ kept \in Nat /\ over \in Nat /\ kept <= Width - 1 /\ over <= Width - 1
        /\ kept + over <= wanted /\ kept <= Limit
        /\ Limited(st) /\ Limited(other) =>
              kept + over = wanted /\ over <= Limit /\ over <= other.count
    BY <2>3, <2>4
  <2>7. p.stack = With(st.item, kept) /\ p.rest = With(st.item, over)
    BY <2>1
  <2> HIDE DEF kept, over
  <2>8. /\ p.stack \in Stack /\ p.stack.count = kept
        /\ \A i \in Items : Amount(p.stack, i) = IF i = st.item THEN kept ELSE 0
    BY <2>2, <2>6, <2>7, WithIs, TheNumbers DEF Numbers
  <2>9. /\ p.rest \in Stack /\ p.rest.count = over
        /\ \A i \in Items : Amount(p.rest, i) = IF i = st.item THEN over ELSE 0
    BY <2>2, <2>6, <2>7, WithIs, TheNumbers DEF Numbers
  <2>10. ASSUME NEW i \in Items
         PROVE  /\ Amount(p.stack, i) + Amount(p.rest, i) <= Amount(st, i) + Amount(other, i)
                /\ Limited(st) /\ Limited(other) =>
                     /\ Amount(p.stack, i) + Amount(p.rest, i) = Amount(st, i) + Amount(other, i)
                     /\ Amount(p.rest, i) <= Amount(other, i)
    <3>1. CASE i = st.item
      <4>1. /\ Amount(st, i) = st.count /\ Amount(other, i) = other.count
            /\ Amount(p.stack, i) = kept /\ Amount(p.rest, i) = over
        BY <2>5, <2>8, <2>9, <3>1
      <4> QED
        BY <2>2, <2>6, <4>1
    <3>2. CASE i # st.item
      BY <2>2, <2>5, <2>6, <2>8, <2>9, <3>2
    <3> QED
      BY <3>1, <3>2
  <2> QED
    BY <2>6, <2>8, <2>9, <2>10, TheNumbers DEF Limited, Numbers, AtMost, Same
<1>3. CASE ~(st = Empty /\ allow) /\ ~(Empty \notin {st, other} /\ st.item = other.item)
  <2>1. p.stack = st /\ p.rest = other
    BY <1>3 DEF Put
  <2>2. \A i \in Items : Amount(st, i) \in Nat /\ Amount(other, i) \in Nat
    BY StackIs DEF Amount
  <2> QED
    BY <2>1, <2>2 DEF AtMost, Same
<1> QED
  BY <1>1, <1>2, <1>3

LEMMA TakeIs ==
    ASSUME NEW st \in Stack, NEW n \in Nat, NEW t, t = TakeN(st, n)
    PROVE  /\ t.stack \in Stack /\ t.taken \in Stack
           /\ t.stack.count <= st.count /\ t.taken.count <= st.count /\ t.taken.count <= n
           /\ t.stack.count + t.taken.count = st.count
           /\ t.stack = Empty \/ t.stack.item = st.item
           /\ t.taken = Empty \/ t.taken.item = st.item
           /\ \A i \in Items : Amount(t.stack, i) + Amount(t.taken, i) = Amount(st, i)
<1> DEFINE left == IF st.count > n THEN st.count - n ELSE 0
           off == st.count - left
<1>1. t.stack = With(st.item, left) /\ t.taken = With(st.item, off)
  BY DEF TakeN
<1>2. st.count \in Nat /\ st.count <= Width - 1 /\ Width \in Nat
  BY StackIs, TheNumbers DEF Numbers
<1>3. /\ left \in Nat /\ off \in Nat /\ left <= st.count /\ off <= st.count /\ off <= n
      /\ left + off = st.count /\ left <= Width - 1 /\ off <= Width - 1
  <2>1. CASE st.count > n
    BY <1>2, <2>1
  <2>2. CASE ~(st.count > n)
    BY <1>2, <2>2
  <2> QED
    BY <2>1, <2>2
<1> HIDE DEF left, off
<1>4. CASE st = Empty
  <2>1. st.count = 0 /\ left = 0 /\ off = 0
    BY <1>3, <1>4, NothingIs
  <2>2. t.stack = Empty /\ t.taken = Empty
    BY <1>1, <2>1 DEF With
  <2> QED
    BY <1>4, <2>2, NothingIs
<1>5. CASE st # Empty
  <2>1. st.item \in Items
    BY <1>5, StackIs
  <2>2. /\ t.stack \in Stack /\ t.stack.count = left
        /\ \A i \in Items : Amount(t.stack, i) = IF i = st.item THEN left ELSE 0
    BY <1>1, <1>3, <2>1, WithIs
  <2>3. /\ t.taken \in Stack /\ t.taken.count = off
        /\ \A i \in Items : Amount(t.taken, i) = IF i = st.item THEN off ELSE 0
    BY <1>1, <1>3, <2>1, WithIs
  <2>4. \A i \in Items : Amount(st, i) = IF i = st.item THEN st.count ELSE 0
    BY DEF Amount
  <2>5. (t.stack = Empty \/ t.stack.item = st.item) /\ (t.taken = Empty \/ t.taken.item = st.item)
    BY <1>1 DEF With
  <2>6. ASSUME NEW i \in Items PROVE Amount(t.stack, i) + Amount(t.taken, i) = Amount(st, i)
    BY <1>3, <2>2, <2>3, <2>4
  <2> QED
    BY <1>3, <2>2, <2>3, <2>5, <2>6
<1> QED
  BY <1>4, <1>5

\* What is put back where it came from fits.
LEMMA PutBack ==
    ASSUME NEW st \in Stack, NEW other \in Stack, NEW p, p = Put(st, other, TRUE),
           st.count + other.count <= Limit,
           st = Empty \/ other = Empty \/ st.item = other.item
    PROVE  p.rest = Empty
<1>1. CASE st = Empty \/ other = Empty
  BY <1>1 DEF Put
<1>2. CASE st # Empty /\ other # Empty
  <2>1. st.count \in Nat /\ other.count \in Nat /\ Limit \in Nat /\ Width \in Nat \ {0}
    BY StackIs, TheNumbers DEF Numbers
  <2>2. ~(st.count + other.count > Limit)
    BY <2>1
  <2>3. p.rest = With(st.item, 0 % Width)
    BY <1>2, <2>2 DEF Put
  <2>4. 0 % Width = 0
    BY <2>1
  <2> QED
    BY <2>3, <2>4 DEF With
<1> QED
  BY <1>1, <1>2

-----------------------------------------------------------------------------
(* Totals *)

Amounts(stacks, slots, item) == [s \in slots |-> Amount(stacks[s], item)]

LEMMA TotalIs ==
    ASSUME NEW stacks, NEW slots, NEW item
    PROVE  Total(stacks, slots, item) = Sum(Amounts(stacks, slots, item), slots)
  BY DEF Total, Sum, MapThenSumSet, MapThenFoldSet, Amounts, Amount

AllLimited(stacks, slots) == \A s \in slots : Limited(stacks[s])

\* Nothing is made, and nothing is lost unless there was a stack above the limit.
Kept(before, after, slots) ==
    /\ after \in [slots -> Stack]
    /\ \A i \in Items : Total(after, slots, i) <= Total(before, slots, i)
    /\ AllLimited(before, slots) =>
          AllLimited(after, slots)
          /\ \A i \in Items : Total(after, slots, i) = Total(before, slots, i)

LEMMA AmountsAre ==
    ASSUME NEW slots, NEW stacks, \A s \in slots : stacks[s] \in Stack,
           NEW i \in Items
    PROVE  \A s \in slots : /\ Amounts(stacks, slots, i)[s] = Amount(stacks[s], i)
                            /\ Amounts(stacks, slots, i)[s] \in Nat
                            /\ Amounts(stacks, slots, i)[s] \in Int
  BY StackIs DEF Amounts, Amount

LEMMA SumOfZeros ==
    ASSUME NEW S, IsFiniteSet(S), NEW f, \A x \in S : f[x] = 0
    PROVE  Sum(f, S) = 0
<1> DEFINE B == {t \in SUBSET S : Sum(f, t) # 0}
<1> SUFFICES ASSUME B # {} PROVE FALSE
  OBVIOUS
<1>1. PICK t \in B : IsFiniteSet(t) /\ \A x \in t : t \ {x} \notin B
  BY SmallestSet
<1>2. PICK x \in t : TRUE
  BY <1>1, SumOfNone
<1>3. Sum(f, t) = f[x] + Sum(f, t \ {x})
  BY <1>1, SumTakes
<1>4. Sum(f, t \ {x}) = 0
  BY <1>1
<1> QED
  BY <1>1, <1>2, <1>3, <1>4

LEMMA TotalType ==
    ASSUME NEW slots, IsFiniteSet(slots), NEW stacks, \A s \in slots : stacks[s] \in Stack,
           NEW i \in Items
    PROVE  Total(stacks, slots, i) \in Nat
<1> DEFINE f == Amounts(stacks, slots, i)
           zero == [s \in slots |-> 0]
<1>1. \A s \in slots : f[s] \in Nat
  BY AmountsAre
<1> HIDE DEF f
<1>2. Sum(f, slots) \in Int
  BY <1>1, SumType
<1>3. Sum(zero, slots) = 0
  <2>1. \A s \in slots : zero[s] = 0
    OBVIOUS
  <2> HIDE DEF zero
  <2> QED
    BY <2>1, SumOfZeros
<1>4. Sum(zero, slots) <= Sum(f, slots)
  <2>1. \A s \in slots : zero[s] \in Int /\ f[s] \in Int /\ zero[s] <= f[s]
    BY <1>1
  <2> HIDE DEF zero
  <2> QED
    BY <2>1, SumsCompare
<1> QED
  BY <1>2, <1>3, <1>4, TotalIs DEF f

LEMMA TotalsAgree ==
    ASSUME NEW slots, NEW a, NEW b, \A s \in slots : a[s] = b[s], NEW i
    PROVE  Total(a, slots, i) = Total(b, slots, i)
<1>1. Amounts(a, slots, i) = Amounts(b, slots, i)
  BY DEF Amounts
<1> QED
  BY <1>1, TotalIs

LEMMA TotalOfBoth ==
    ASSUME NEW S, IsFiniteSet(S), NEW T, IsFiniteSet(T), S \cap T = {}, NEW stacks,
           \A s \in S \cup T : stacks[s] \in Stack, NEW i \in Items
    PROVE  Total(stacks, S \cup T, i) = Total(stacks, S, i) + Total(stacks, T, i)
<1> DEFINE f == Amounts(stacks, S \cup T, i)
           g == Amounts(stacks, S, i)
           h == Amounts(stacks, T, i)
<1>1. /\ \A s \in S : f[s] \in Int /\ g[s] \in Int /\ f[s] = g[s]
      /\ \A s \in T : f[s] \in Int /\ h[s] \in Int /\ f[s] = h[s]
  BY AmountsAre
<1>2. /\ Total(stacks, S \cup T, i) = Sum(f, S \cup T)
      /\ Total(stacks, S, i) = Sum(g, S) /\ Total(stacks, T, i) = Sum(h, T)
  BY TotalIs
<1> HIDE DEF f, g, h
<1>3. Sum(f, S \cup T) = Sum(f, S) + Sum(f, T)
  BY <1>1, SumOfBoth
<1>4. Sum(f, S) = Sum(g, S) /\ Sum(f, T) = Sum(h, T)
  BY <1>1, SumsAgree
<1> QED
  BY <1>2, <1>3, <1>4

\* One stack changes.
LEMMA OneChanges ==
    ASSUME NEW slots, IsFiniteSet(slots), NEW before, NEW a \in slots,
           NEW after, \A s \in slots : before[s] \in Stack /\ after[s] \in Stack,
           \A s \in slots \ {a} : after[s] = before[s],
           NEW i \in Items
    PROVE  Total(after, slots, i) =
              Total(before, slots, i) - Amount(before[a], i) + Amount(after[a], i)
<1>1. /\ Amounts(before, slots, i)[a] = Amount(before[a], i)
      /\ Amounts(after, slots, i)[a] = Amount(after[a], i)
  BY AmountsAre
<1>2. \A s \in slots : /\ Amounts(before, slots, i)[s] \in Int /\ Amounts(after, slots, i)[s] \in Int
                       /\ s # a => Amounts(before, slots, i)[s] = Amounts(after, slots, i)[s]
  BY AmountsAre
<1>3. Sum(Amounts(after, slots, i), slots) = Sum(Amounts(before, slots, i), slots)
         - Amounts(before, slots, i)[a] + Amounts(after, slots, i)[a]
  BY <1>2, SumChanges
<1> QED
  BY <1>1, <1>3, TotalIs

LEMMA TwoChange ==
    ASSUME NEW slots, IsFiniteSet(slots), NEW before \in [slots -> Stack],
           NEW a \in slots, NEW b \in slots, a # b,
           NEW after \in [slots -> Stack], \A s \in slots \ {a, b} : after[s] = before[s],
           NEW i \in Items
    PROVE  Total(after, slots, i) =
              Total(before, slots, i) - Amount(before[a], i) - Amount(before[b], i)
                                      + Amount(after[a], i) + Amount(after[b], i)
<1>1. /\ Amounts(before, slots, i)[a] = Amount(before[a], i)
      /\ Amounts(after, slots, i)[a] = Amount(after[a], i)
      /\ Amounts(before, slots, i)[b] = Amount(before[b], i)
      /\ Amounts(after, slots, i)[b] = Amount(after[b], i)
  BY AmountsAre
<1>2. \A s \in slots : /\ Amounts(before, slots, i)[s] \in Int /\ Amounts(after, slots, i)[s] \in Int
                       /\ s \notin {a, b} => Amounts(before, slots, i)[s] = Amounts(after, slots, i)[s]
  BY AmountsAre
<1>3. Sum(Amounts(after, slots, i), slots) = Sum(Amounts(before, slots, i), slots)
         - Amounts(before, slots, i)[a] - Amounts(before, slots, i)[b]
         + Amounts(after, slots, i)[a] + Amounts(after, slots, i)[b]
  BY <1>2, SumChangesTwice
<1> QED
  BY <1>1, <1>3, TotalIs

-----------------------------------------------------------------------------
(* Moves *)

LEMMA Balanced ==
    ASSUME NEW t \in Nat, NEW u \in Nat, NEW v \in Nat, NEW x \in Nat, NEW y \in Nat,
           x + y = u + v
    PROVE  t - u - v + x + y = t
  OBVIOUS

LEMMA PairKept ==
    ASSUME NEW slots, IsFiniteSet(slots), NEW before \in [slots -> Stack],
           NEW a \in slots, NEW b \in slots, a # b,
           NEW after \in [slots -> Stack], \A s \in slots \ {a, b} : after[s] = before[s],
           AtMost(after[a], after[b], before[a], before[b]),
           Limited(before[a]) /\ Limited(before[b]) =>
              /\ Limited(after[a]) /\ Limited(after[b])
              /\ Same(after[a], after[b], before[a], before[b])
    PROVE  Kept(before, after, slots)
<1>1. ASSUME NEW i \in Items
      PROVE  /\ Amount(before[a], i) \in Nat /\ Amount(before[b], i) \in Nat
             /\ Amount(after[a], i) \in Nat /\ Amount(after[b], i) \in Nat
             /\ Total(before, slots, i) \in Nat
  BY StackIs, TotalType DEF Amount
<1>2. ASSUME NEW i \in Items
      PROVE  Total(after, slots, i) =
                Total(before, slots, i) - Amount(before[a], i) - Amount(before[b], i)
                                        + Amount(after[a], i) + Amount(after[b], i)
  BY TwoChange
<1>3. ASSUME NEW i \in Items PROVE Total(after, slots, i) <= Total(before, slots, i)
  BY <1>1, <1>2 DEF AtMost
<1>4. ASSUME AllLimited(before, slots)
      PROVE  /\ AllLimited(after, slots)
             /\ \A i \in Items : Total(after, slots, i) = Total(before, slots, i)
  <2>1. Limited(before[a]) /\ Limited(before[b])
    BY <1>4 DEF AllLimited
  <2>2. AllLimited(after, slots)
    BY <1>4, <2>1 DEF AllLimited
  <2>3. ASSUME NEW i \in Items PROVE Total(after, slots, i) = Total(before, slots, i)
    <3>1. Amount(after[a], i) + Amount(after[b], i) = Amount(before[a], i) + Amount(before[b], i)
      BY <2>1 DEF Same
    <3> DEFINE t == Total(before, slots, i)
               u == Amount(before[a], i)
               v == Amount(before[b], i)
               x == Amount(after[a], i)
               y == Amount(after[b], i)
    <3>2. t \in Nat /\ u \in Nat /\ v \in Nat /\ x \in Nat /\ y \in Nat /\ x + y = u + v
      BY <1>1, <3>1
    <3>3. Total(after, slots, i) = t - u - v + x + y
      BY <1>2
    <3> HIDE DEF t, u, v, x, y
    <3>4. Total(after, slots, i) = t
      BY <3>2, <3>3, Balanced
    <3> QED
      BY <3>4 DEF t
  <2> QED
    BY <2>2, <2>3
<1> QED
  BY <1>3, <1>4 DEF Kept

LEMMA OneKept ==
    ASSUME NEW slots, IsFiniteSet(slots), NEW before \in [slots -> Stack], NEW a \in slots,
           NEW after \in [slots -> Stack], \A s \in slots \ {a} : after[s] = before[s],
           \A i \in Items : Amount(after[a], i) <= Amount(before[a], i),
           Limited(before[a]) =>
              /\ Limited(after[a])
              /\ \A i \in Items : Amount(after[a], i) = Amount(before[a], i)
    PROVE  Kept(before, after, slots)
<1>1. ASSUME NEW i \in Items
      PROVE  /\ Amount(before[a], i) \in Nat /\ Amount(after[a], i) \in Nat
             /\ Total(before, slots, i) \in Nat
  BY StackIs, TotalType DEF Amount
<1>2. ASSUME NEW i \in Items
      PROVE  Total(after, slots, i) =
                Total(before, slots, i) - Amount(before[a], i) + Amount(after[a], i)
  BY OneChanges
<1>3. ASSUME NEW i \in Items PROVE Total(after, slots, i) <= Total(before, slots, i)
  BY <1>1, <1>2
<1>4. ASSUME AllLimited(before, slots)
      PROVE  /\ AllLimited(after, slots)
             /\ \A i \in Items : Total(after, slots, i) = Total(before, slots, i)
  <2>1. Limited(before[a])
    BY <1>4 DEF AllLimited
  <2>2. AllLimited(after, slots)
    BY <1>4, <2>1 DEF AllLimited
  <2>3. ASSUME NEW i \in Items PROVE Total(after, slots, i) = Total(before, slots, i)
    BY <1>1, <1>2, <2>1
  <2> QED
    BY <2>2, <2>3
<1> QED
  BY <1>3, <1>4 DEF Kept

LEMMA SwapKept ==
    ASSUME NEW slots, IsFiniteSet(slots), NEW stacks \in [slots -> Stack],
           NEW from \in slots, NEW to \in slots
    PROVE  Kept(stacks, MergeOrSwap(stacks, from, to), slots)
<1> DEFINE p == Put(stacks[to], stacks[from], FALSE)
<1>1. /\ p.stack \in Stack /\ p.rest \in Stack
      /\ AtMost(p.stack, p.rest, stacks[to], stacks[from])
      /\ Limited(stacks[to]) /\ Limited(stacks[from]) =>
            /\ Limited(p.stack) /\ Limited(p.rest)
            /\ Same(p.stack, p.rest, stacks[to], stacks[from])
  BY PutIs
<1> DEFINE after == MergeOrSwap(stacks, from, to)
<1>2. CASE from = to
  <2>1. after = stacks
    BY <1>2 DEF MergeOrSwap
  <2>2. \A i \in Items : Amount(stacks[from], i) <= Amount(stacks[from], i)
    BY StackIs DEF Amount
  <2> HIDE DEF after
  <2> QED
    BY <2>1, <2>2, OneKept DEF after
<1>3. CASE from # to
  <2>1. \/ after = [stacks EXCEPT ![to] = p.stack, ![from] = p.rest]
        \/ p.rest = stacks[from] /\ after = [stacks EXCEPT ![to] = stacks[from], ![from] = p.stack]
    BY <1>3 DEF MergeOrSwap
  <2> HIDE DEF after, p
  <2>2. /\ after \in [slots -> Stack] /\ \A s \in slots \ {from, to} : after[s] = stacks[s]
        /\ \/ after[to] = p.stack /\ after[from] = p.rest
           \/ after[to] = p.rest /\ after[from] = p.stack
    BY <1>1, <1>3, <2>1
  <2>3. \A i \in Items : /\ Amount(p.stack, i) \in Nat /\ Amount(p.rest, i) \in Nat
                         /\ Amount(stacks[from], i) \in Nat /\ Amount(stacks[to], i) \in Nat
    BY <1>1, StackIs DEF Amount
  <2>4. /\ AtMost(after[from], after[to], stacks[from], stacks[to])
        /\ Limited(stacks[from]) /\ Limited(stacks[to]) =>
              /\ Limited(after[from]) /\ Limited(after[to])
              /\ Same(after[from], after[to], stacks[from], stacks[to])
    BY <1>1, <2>2, <2>3 DEF AtMost, Same
  <2> QED
    BY <1>3, <2>2, <2>4, PairKept DEF after
<1> QED
  BY <1>2, <1>3

LEMMA RestOfTaken ==
    ASSUME NEW rest \in Stack, NEW taken \in Stack,
           \A i \in Items : Amount(rest, i) <= Amount(taken, i)
    PROVE  rest.count <= taken.count /\ (rest = Empty \/ rest.item = taken.item)
<1>1. rest.count \in Nat /\ taken.count \in Nat
  BY StackIs
<1>2. CASE rest = Empty
  BY <1>1, <1>2, NothingIs
<1>3. CASE rest # Empty
  <2>1. rest.item \in Items /\ rest.count # 0
    BY <1>3, StackIs
  <2>2. Amount(rest, rest.item) = rest.count
    BY DEF Amount
  <2>3. rest.count <= Amount(taken, rest.item)
    BY <2>1, <2>2
  <2> QED
    BY <1>1, <2>1, <2>3 DEF Amount
<1> QED
  BY <1>2, <1>3

LEMMA MoveKept ==
    ASSUME NEW slots, IsFiniteSet(slots), NEW stacks \in [slots -> Stack],
           NEW from \in slots, NEW to \in slots
    PROVE  Kept(stacks, MoveN(stacks, from, to, 1), slots)
<1> DEFINE st == stacks[from]
           t == TakeN(st, 1)
           less == [stacks EXCEPT ![from] = t.stack]
           p == Put(less[to], t.taken, TRUE)
           moved == [less EXCEPT ![to] = p.stack]
           back == Put(moved[from], p.rest, TRUE)
           after == [moved EXCEPT ![from] = back.stack]
<1>1. MoveN(stacks, from, to, 1) = after
  BY DEF MoveN
<1>2. st \in Stack /\ st.count \in Nat
  BY StackIs
<1> HIDE DEF st
<1>3. /\ t.stack \in Stack /\ t.taken \in Stack
      /\ t.stack.count + t.taken.count = st.count
      /\ t.stack.count <= st.count /\ t.taken.count <= st.count
      /\ t.stack = Empty \/ t.stack.item = st.item
      /\ t.taken = Empty \/ t.taken.item = st.item
      /\ \A i \in Items : Amount(t.stack, i) + Amount(t.taken, i) = Amount(st, i)
  BY <1>2, TakeIs
<1>4. t.stack.count \in Nat /\ t.taken.count \in Nat /\ Limit \in Nat
  BY <1>3, StackIs, TheNumbers DEF Numbers
<1>5. Limited(st) => Limited(t.stack) /\ Limited(t.taken)
  BY <1>2, <1>3, <1>4 DEF Limited
<1> HIDE DEF t
<1>6. less \in [slots -> Stack] /\ less[to] = IF from = to THEN t.stack ELSE stacks[to]
  BY <1>3
<1> HIDE DEF less
<1>7. /\ p.stack \in Stack /\ p.rest \in Stack /\ AtMost(p.stack, p.rest, less[to], t.taken)
      /\ Limited(less[to]) /\ Limited(t.taken) =>
            /\ Limited(p.stack) /\ Limited(p.rest) /\ Same(p.stack, p.rest, less[to], t.taken)
            /\ \A i \in Items : Amount(p.rest, i) <= Amount(t.taken, i)
  <2>1. less[to] \in Stack /\ t.taken \in Stack /\ p = Put(less[to], t.taken, TRUE)
    BY <1>3, <1>6
  <2> HIDE DEF p
  <2>2. p.stack \in Stack /\ p.rest \in Stack /\ AtMost(p.stack, p.rest, less[to], t.taken)
    BY <2>1, PutIs
  <2>3. Limited(less[to]) /\ Limited(t.taken) =>
            Limited(p.stack) /\ Limited(p.rest) /\ Same(p.stack, p.rest, less[to], t.taken)
    BY <2>1, PutIs
  <2>4. Limited(less[to]) /\ Limited(t.taken) =>
            \A i \in Items : Amount(p.rest, i) <= Amount(t.taken, i)
    BY <2>1, PutIs
  <2> QED
    BY <2>2, <2>3, <2>4
<1> DEFINE pStack == p.stack
           pRest == p.rest
<1> HIDE DEF p
<1>8. /\ moved \in [slots -> Stack] /\ moved[to] = p.stack
      /\ moved[from] = IF from = to THEN p.stack ELSE t.stack
      /\ \A s \in slots \ {from, to} : moved[s] = stacks[s]
  BY <1>3, <1>6, <1>7 DEF less
<1> HIDE DEF moved
<1>9. /\ back.stack \in Stack /\ back.rest \in Stack
      /\ AtMost(back.stack, back.rest, moved[from], p.rest)
      /\ Limited(moved[from]) /\ Limited(p.rest) =>
            Limited(back.stack) /\ Same(back.stack, back.rest, moved[from], p.rest)
  <2>1. moved[from] \in Stack /\ p.rest \in Stack /\ back = Put(moved[from], p.rest, TRUE)
    BY <1>7, <1>8
  <2> HIDE DEF back
  <2>2. /\ back.stack \in Stack /\ back.rest \in Stack
        /\ AtMost(back.stack, back.rest, moved[from], p.rest)
    BY <2>1, PutIs
  <2>3. Limited(moved[from]) /\ Limited(p.rest) =>
            Limited(back.stack) /\ Same(back.stack, back.rest, moved[from], p.rest)
    BY <2>1, PutIs
  <2> QED
    BY <2>2, <2>3
<1>10. ASSUME moved[from].count + p.rest.count <= Limit,
              moved[from] = Empty \/ p.rest = Empty \/ moved[from].item = p.rest.item
       PROVE  back.rest = Empty
  <2>1. moved[from] \in Stack /\ p.rest \in Stack
    BY <1>7, <1>8
  <2> QED
    BY <1>10, <2>1, PutBack
<1> HIDE DEF back
<1>11. /\ after \in [slots -> Stack] /\ after[from] = back.stack
       /\ from # to => after[to] = p.stack
       /\ \A s \in slots \ {from, to} : after[s] = stacks[s]
  BY <1>8, <1>9
<1> HIDE DEF after
<1>12. ASSUME NEW i \in Items
       PROVE  /\ Amount(st, i) \in Nat /\ Amount(t.stack, i) \in Nat /\ Amount(t.taken, i) \in Nat
              /\ Amount(p.stack, i) \in Nat /\ Amount(p.rest, i) \in Nat
              /\ Amount(back.stack, i) \in Nat /\ Amount(back.rest, i) \in Nat
              /\ Amount(stacks[to], i) \in Nat
              /\ Amount(t.stack, i) + Amount(t.taken, i) = Amount(st, i)
  BY <1>2, <1>3, <1>7, <1>9, StackIs DEF Amount
<1>13. ASSUME Limited(t.taken), Limited(less[to])
       PROVE  p.rest.count <= t.taken.count /\ (p.rest = Empty \/ p.rest.item = t.taken.item)
  BY <1>3, <1>7, <1>13, RestOfTaken
<1>14. CASE from # to
  <2>1. less[to] = stacks[to] /\ moved[from] = t.stack
    BY <1>6, <1>8, <1>14
  <2>2. ASSUME NEW i \in Items
        PROVE  Amount(after[from], i) + Amount(after[to], i) <= Amount(st, i) + Amount(stacks[to], i)
    <3>1. /\ Amount(p.stack, i) + Amount(p.rest, i) <= Amount(stacks[to], i) + Amount(t.taken, i)
          /\ Amount(back.stack, i) + Amount(back.rest, i) <= Amount(t.stack, i) + Amount(p.rest, i)
      BY <1>7, <1>9, <2>1 DEF AtMost
    <3>2. after[from] = back.stack /\ after[to] = p.stack
      BY <1>11, <1>14
    <3> QED
      BY <1>12, <3>1, <3>2
  <2>3. ASSUME Limited(st), Limited(stacks[to])
        PROVE  /\ Limited(after[from]) /\ Limited(after[to])
               /\ Same(after[from], after[to], st, stacks[to])
    <3>1. /\ Limited(p.stack) /\ Limited(p.rest) /\ Limited(back.stack)
          /\ Same(p.stack, p.rest, stacks[to], t.taken)
          /\ Same(back.stack, back.rest, t.stack, p.rest)
      BY <1>5, <1>7, <1>9, <2>1, <2>3
    <3>2. p.rest.count <= t.taken.count /\ (p.rest = Empty \/ p.rest.item = t.taken.item)
      BY <1>5, <1>13, <2>1, <2>3
    <3>3. p.rest.count \in Nat /\ st.count <= Limit
      BY <1>7, <2>3, StackIs DEF Limited
    <3>4. t.stack.count + p.rest.count <= Limit
      BY <1>2, <1>3, <1>4, <3>2, <3>3
    <3>5. t.stack = Empty \/ p.rest = Empty \/ t.stack.item = p.rest.item
      <4>1. t.taken = Empty => p.rest = Empty
        <5>1. t.taken = Empty => p.rest.count = 0
          BY <1>4, <3>2, <3>3, NothingIs
        <5> QED
          BY <1>7, <5>1, StackIs
      <4> QED
        BY <1>3, <3>2, <4>1
    <3>6. \A i \in Items : Amount(back.rest, i) = 0
      BY <1>10, <2>1, <3>4, <3>5, NothingIs
    <3>7. ASSUME NEW i \in Items
          PROVE  Amount(back.stack, i) + Amount(p.stack, i) = Amount(st, i) + Amount(stacks[to], i)
      <4>1. /\ Amount(p.stack, i) + Amount(p.rest, i) = Amount(stacks[to], i) + Amount(t.taken, i)
            /\ Amount(back.stack, i) + Amount(back.rest, i) = Amount(t.stack, i) + Amount(p.rest, i)
        BY <3>1 DEF Same
      <4> QED
        BY <1>12, <3>6, <4>1
    <3> QED
      BY <1>11, <1>14, <3>1, <3>7 DEF Same
  <2>4. AtMost(after[from], after[to], st, stacks[to])
    BY <2>2 DEF AtMost
  <2>5. \A s \in slots \ {from, to} : after[s] = stacks[s]
    BY <1>11
  <2>6. Kept(stacks, after, slots)
    BY <1>11, <1>14, <2>3, <2>4, <2>5, PairKept DEF st
  <2> QED
    BY <1>1, <2>6
<1>15. CASE from = to
  <2>1. less[to] = t.stack /\ moved[from] = p.stack
    BY <1>6, <1>8, <1>15
  <2>2. ASSUME NEW i \in Items
        PROVE  Amount(after[from], i) <= Amount(st, i)
    <3>1. /\ Amount(p.stack, i) + Amount(p.rest, i) <= Amount(t.stack, i) + Amount(t.taken, i)
          /\ Amount(back.stack, i) + Amount(back.rest, i) <= Amount(p.stack, i) + Amount(p.rest, i)
      BY <1>7, <1>9, <2>1 DEF AtMost
    <3> QED
      BY <1>11, <1>12, <3>1
  <2>3. ASSUME Limited(st)
        PROVE  Limited(after[from]) /\ \A i \in Items : Amount(after[from], i) = Amount(st, i)
    <3>1. /\ Limited(p.stack) /\ Limited(p.rest) /\ Limited(back.stack)
          /\ Same(p.stack, p.rest, t.stack, t.taken)
          /\ Same(back.stack, back.rest, p.stack, p.rest)
      BY <1>5, <1>7, <1>9, <2>1, <2>3
    <3>2. t.stack.count + t.taken.count <= Limit
          /\ (t.stack = Empty \/ t.taken = Empty \/ t.stack.item = t.taken.item)
      BY <1>3, <2>3 DEF Limited
    <3>3. p.rest = Empty
      BY <1>3, <2>1, <3>2, PutBack DEF p
    <3>4. p.stack.count + p.rest.count <= Limit
      BY <1>4, <1>7, <3>1, <3>3, NothingIs, StackIs DEF Limited
    <3>5. \A i \in Items : Amount(back.rest, i) = 0 /\ Amount(p.rest, i) = 0
      BY <1>10, <2>1, <3>3, <3>4, NothingIs
    <3>6. ASSUME NEW i \in Items PROVE Amount(back.stack, i) = Amount(st, i)
      <4>1. /\ Amount(p.stack, i) + Amount(p.rest, i) = Amount(t.stack, i) + Amount(t.taken, i)
            /\ Amount(back.stack, i) + Amount(back.rest, i) = Amount(p.stack, i) + Amount(p.rest, i)
        BY <3>1 DEF Same
      <4> QED
        BY <1>12, <3>5, <4>1
    <3> QED
      BY <1>11, <3>1, <3>6
  <2>4. \A s \in slots \ {from} : after[s] = stacks[s]
    BY <1>11, <1>15
  <2>5. Kept(stacks, after, slots)
    BY <1>11, <2>2, <2>3, <2>4, OneKept DEF st
  <2> QED
    BY <1>1, <2>5
<1> QED
  BY <1>14, <1>15

LEMMA MergeOrMoveKept ==
    ASSUME NEW slots, IsFiniteSet(slots), NEW inv, inv.stacks \in [slots -> Stack],
           NEW from \in slots, NEW to \in slots, NEW one \in BOOLEAN,
           inv = [selection |-> inv.selection, stacks |-> inv.stacks]
    PROVE  /\ MergeOrMove(inv, from, to, one) =
                 [selection |-> inv.selection, stacks |-> MergeOrMove(inv, from, to, one).stacks]
           /\ Kept(inv.stacks, MergeOrMove(inv, from, to, one).stacks, slots)
<1> DEFINE st == IF one THEN MoveN(inv.stacks, from, to, 1) ELSE MergeOrSwap(inv.stacks, from, to)
<1>1. MergeOrMove(inv, from, to, one) = [selection |-> inv.selection, stacks |-> st]
  <2>1. MergeOrMove(inv, from, to, one) = [inv EXCEPT !.stacks = st]
    BY DEF MergeOrMove
  <2> HIDE DEF st
  <2> QED
    BY <2>1
<1>2. Kept(inv.stacks, st, slots)
  BY MoveKept, SwapKept
<1> HIDE DEF st
<1> QED
  BY <1>1, <1>2

-----------------------------------------------------------------------------
(* Putting a stack into an inventory *)

LEMMA Largest ==
    ASSUME NEW n \in Nat, NEW s \in SUBSET (1..n), s # {}
    PROVE  Max(s) \in s
<1> DEFINE T == {n - x : x \in s}
<1>1. T \subseteq Nat /\ T # {}
  <2>1. ASSUME NEW x \in s PROVE n - x \in Nat
    <3>1. x \in Nat /\ x <= n
      OBVIOUS
    <3> QED
      BY <3>1
  <2> QED
    BY <2>1
<1>2. PICK m \in T : \A y \in T : m <= y
  <2> HIDE DEF T
  <2> QED
    BY <1>1, Smallest
<1>3. PICK x \in s : m = n - x
  OBVIOUS
<1>4. ASSUME NEW y \in s PROVE x >= y
  <2>1. n - y \in T
    OBVIOUS
  <2>2. n - x <= n - y
    BY <1>2, <1>3, <2>1
  <2> QED
    BY <2>2
<1> QED
  BY <1>3, <1>4 DEF Max

\* What every turn of a loop keeps, a round keeps.
LEMMA RoundStays ==
    ASSUME NEW n \in Nat, NEW A, NEW start \in A, NEW order, DOMAIN order = 1..n, NEW allow,
           \A k \in 1..n : \A acc \in A : Try(acc, order[k], allow) \in A
    PROVE  Round(start, order, allow) \in A
<1> DEFINE S == 1..n
           pick == [s \in SUBSET S |-> Max(s)]
           F == [k \in S |-> [acc \in A |-> Try(acc, order[k], allow)]]
           Is(it) == it = [s \in SUBSET S |-> IF s = {} THEN start
                              ELSE Try(it[s \ {Max(s)}], order[Max(s)], allow)]
<1>1. ASSUME NEW s \in SUBSET S, s # {}
      PROVE  Max(s) \in s /\ Max(s) \in S /\ s \ {Max(s)} \in SUBSET S
  BY <1>1, Largest
<1>2. IsFiniteSet(S)
  BY FS_Interval
<1>3. PICK g \in [SUBSET S -> A] : Folds(g, S, pick, F, start)
  <2>1. \A x \in S : \A a \in A : F[x][a] \in A
    OBVIOUS
  <2>2. Picks(pick, S)
    BY <1>1 DEF Picks
  <2> HIDE DEF F, pick, S
  <2> QED
    BY <1>2, <2>1, <2>2, FoldExists
<1>4. ASSUME NEW s \in SUBSET S
      PROVE  g[s] = IF s = {} THEN start ELSE Try(g[s \ {Max(s)}], order[Max(s)], allow)
  <2>1. g[s] = IF s = {} THEN start ELSE F[pick[s]][g[s \ {pick[s]}]]
    BY <1>3 DEF Folds
  <2> QED
    BY <1>1, <2>1
<1>5. Is(g)
  BY <1>4
<1>6. Round(start, order, allow) = (CHOOSE it : Is(it))[S]
  BY DEF Round, FoldLeft, MapThenFoldSet
<1> DEFINE it == CHOOSE it : Is(it)
<1>7. Is(it)
  BY <1>5
<1> HIDE DEF it
<1>8. \A s \in SUBSET S : it[s] \in A
  <2> DEFINE B == {s \in SUBSET S : it[s] \notin A}
  <2> SUFFICES ASSUME B # {} PROVE FALSE
    OBVIOUS
  <2>1. PICK s \in B : \A x \in s : s \ {x} \notin B
    BY <1>2, SmallestSet
  <2>2. s # {}
    BY <1>7
  <2>3. it[s \ {Max(s)}] \in A /\ Max(s) \in S
    BY <1>1, <2>1, <2>2
  <2>4. it[s] = Try(it[s \ {Max(s)}], order[Max(s)], allow)
    BY <1>7, <2>2
  <2> QED
    BY <2>3, <2>4
<1>9. S \in SUBSET S
  OBVIOUS
<1> QED
  BY <1>6, <1>8, <1>9 DEF it

\* What a loop has made of stacks and of what is to be put there.
Accs(slots) == [stacks : [slots -> Stack], rest : Stack, last : 0..MainSize]

\* Nothing is made on the way from stacks and stack to acc, nor lost.
PutSoFar(acc, stacks, stack) ==
    /\ \A s \in DOMAIN stacks \ MainSlots : acc.stacks[s] = stacks[s]
    /\ \A i \in Items : Total(acc.stacks, MainSlots, i) + Amount(acc.rest, i)
                           <= Total(stacks, MainSlots, i) + Amount(stack, i)
    /\ AllLimited(stacks, MainSlots) /\ Limited(stack) =>
          /\ AllLimited(acc.stacks, MainSlots) /\ Limited(acc.rest)
          /\ \A i \in Items : Total(acc.stacks, MainSlots, i) + Amount(acc.rest, i)
                                 = Total(stacks, MainSlots, i) + Amount(stack, i)
          /\ \A i \in Items : Amount(acc.rest, i) <= Amount(stack, i)

LEMMA MainIsFinite == IsFiniteSet(MainSlots)
<1>1. IsFiniteSet({"main"}) /\ IsFiniteSet(1..MainSize)
  <2>1. 1 \in Int /\ MainSize \in Int
    BY InventoryAssumption
  <2> QED
    BY <2>1, FS_Singleton, FS_Interval
<1> QED
  BY <1>1, FS_Product DEF MainSlots

LEMMA TryKeeps ==
    ASSUME NEW slots, MainSlots \subseteq slots, NEW stacks \in [slots -> Stack], NEW stack \in Stack,
           NEW acc \in Accs(slots), PutSoFar(acc, stacks, stack), NEW idx \in 1..MainSize, NEW allow
    PROVE  Try(acc, idx, allow) \in Accs(slots) /\ PutSoFar(Try(acc, idx, allow), stacks, stack)
<1> DEFINE a == <<"main", idx>>
           p == Put(acc.stacks[a], acc.rest, allow)
           next == Try(acc, idx, allow)
<1>1. a \in MainSlots /\ a \in slots
  BY DEF MainSlots
<1>2. acc.stacks \in [slots -> Stack] /\ acc.rest \in Stack /\ acc.last \in 0..MainSize
  BY DEF Accs
<1>3. next = [stacks |-> [acc.stacks EXCEPT ![a] = p.stack], rest |-> p.rest,
              last |-> IF p.rest # acc.rest THEN idx ELSE acc.last]
  BY DEF Try
<1>4. acc.stacks[a] \in Stack
  BY <1>1, <1>2
<1> HIDE DEF a, next
<1>5. /\ p.stack \in Stack /\ p.rest \in Stack
      /\ AtMost(p.stack, p.rest, acc.stacks[a], acc.rest)
      /\ Limited(acc.stacks[a]) /\ Limited(acc.rest) =>
            /\ Limited(p.stack) /\ Limited(p.rest) /\ Same(p.stack, p.rest, acc.stacks[a], acc.rest)
            /\ \A i \in Items : Amount(p.rest, i) <= Amount(acc.rest, i)
  <2>1. p = Put(acc.stacks[a], acc.rest, allow)
    OBVIOUS
  <2> HIDE DEF p
  <2>2. p.stack \in Stack /\ p.rest \in Stack /\ AtMost(p.stack, p.rest, acc.stacks[a], acc.rest)
    BY <1>2, <1>4, <2>1, PutIs
  <2>3. Limited(acc.stacks[a]) /\ Limited(acc.rest) =>
            Limited(p.stack) /\ Limited(p.rest) /\ Same(p.stack, p.rest, acc.stacks[a], acc.rest)
    BY <1>2, <1>4, <2>1, PutIs
  <2>4. Limited(acc.stacks[a]) /\ Limited(acc.rest) =>
            \A i \in Items : Amount(p.rest, i) <= Amount(acc.rest, i)
    BY <1>2, <1>4, <2>1, PutIs
  <2> QED
    BY <2>2, <2>3, <2>4
<1> HIDE DEF p
<1>6. /\ next.stacks \in [slots -> Stack] /\ next.rest = p.rest /\ next.last \in 0..MainSize
      /\ next.stacks[a] = p.stack /\ \A s \in slots \ {a} : next.stacks[s] = acc.stacks[s]
      /\ next \in Accs(slots)
  <2>1. (IF p.rest # acc.rest THEN idx ELSE acc.last) \in 0..MainSize
    BY <1>2, InventoryAssumption
  <2> QED
    BY <1>1, <1>2, <1>3, <1>5, <2>1 DEF Accs
<1>7. ASSUME NEW i \in Items
      PROVE  /\ Total(next.stacks, MainSlots, i) =
                   Total(acc.stacks, MainSlots, i) - Amount(acc.stacks[a], i) + Amount(p.stack, i)
             /\ Total(acc.stacks, MainSlots, i) \in Nat /\ Total(stacks, MainSlots, i) \in Nat
             /\ Amount(acc.stacks[a], i) \in Nat /\ Amount(p.stack, i) \in Nat
             /\ Amount(acc.rest, i) \in Nat /\ Amount(p.rest, i) \in Nat /\ Amount(stack, i) \in Nat
  <2>1. /\ \A s \in MainSlots : acc.stacks[s] \in Stack /\ next.stacks[s] \in Stack /\ stacks[s] \in Stack
        /\ \A s \in MainSlots \ {a} : next.stacks[s] = acc.stacks[s]
    BY <1>2, <1>6
  <2>2. Total(next.stacks, MainSlots, i) =
                   Total(acc.stacks, MainSlots, i) - Amount(acc.stacks[a], i) + Amount(next.stacks[a], i)
    BY <1>1, <2>1, MainIsFinite, OneChanges
  <2>3. Total(acc.stacks, MainSlots, i) \in Nat /\ Total(stacks, MainSlots, i) \in Nat
    BY <2>1, MainIsFinite, TotalType
  <2> QED
    BY <1>2, <1>4, <1>5, <1>6, <2>2, <2>3, StackIs DEF Amount
<1>8. \A s \in DOMAIN stacks \ MainSlots : next.stacks[s] = stacks[s]
  BY <1>1, <1>6 DEF PutSoFar
<1>9. ASSUME NEW i \in Items
      PROVE  Total(next.stacks, MainSlots, i) + Amount(next.rest, i)
                <= Total(stacks, MainSlots, i) + Amount(stack, i)
  <2>1. Amount(p.stack, i) + Amount(p.rest, i) <= Amount(acc.stacks[a], i) + Amount(acc.rest, i)
    BY <1>5 DEF AtMost
  <2>2. Total(acc.stacks, MainSlots, i) + Amount(acc.rest, i)
           <= Total(stacks, MainSlots, i) + Amount(stack, i)
    BY DEF PutSoFar
  <2> QED
    BY <1>6, <1>7, <2>1, <2>2
<1>10. ASSUME AllLimited(stacks, MainSlots), Limited(stack)
       PROVE  /\ AllLimited(next.stacks, MainSlots) /\ Limited(next.rest)
              /\ \A i \in Items : Total(next.stacks, MainSlots, i) + Amount(next.rest, i)
                                     = Total(stacks, MainSlots, i) + Amount(stack, i)
              /\ \A i \in Items : Amount(next.rest, i) <= Amount(stack, i)
  <2>1. AllLimited(acc.stacks, MainSlots) /\ Limited(acc.rest)
    BY <1>10 DEF PutSoFar
  <2>2. Limited(acc.stacks[a])
    BY <1>1, <2>1 DEF AllLimited
  <2>3. Limited(p.stack) /\ Limited(p.rest) /\ Same(p.stack, p.rest, acc.stacks[a], acc.rest)
    BY <1>5, <2>1, <2>2
  <2>4. AllLimited(next.stacks, MainSlots)
    <3> SUFFICES ASSUME NEW s \in MainSlots PROVE Limited(next.stacks[s])
      BY DEF AllLimited
    <3>1. s \in slots /\ Limited(acc.stacks[s])
      BY <2>1 DEF AllLimited
    <3> QED
      BY <1>6, <2>3, <3>1
  <2>5. ASSUME NEW i \in Items
        PROVE  /\ Total(next.stacks, MainSlots, i) + Amount(next.rest, i)
                     = Total(stacks, MainSlots, i) + Amount(stack, i)
               /\ Amount(next.rest, i) <= Amount(stack, i)
    <3>1. Amount(p.stack, i) + Amount(p.rest, i) = Amount(acc.stacks[a], i) + Amount(acc.rest, i)
      BY <2>3 DEF Same
    <3>2. Amount(p.rest, i) <= Amount(acc.rest, i)
      BY <1>5, <2>1, <2>2
    <3>3. Total(acc.stacks, MainSlots, i) + Amount(acc.rest, i)
             = Total(stacks, MainSlots, i) + Amount(stack, i)
      BY <1>10 DEF PutSoFar
    <3>4. Amount(acc.rest, i) <= Amount(stack, i)
      BY <1>10 DEF PutSoFar
    <3> QED
      BY <1>6, <1>7, <3>1, <3>2, <3>3, <3>4
  <2> QED
    BY <1>6, <2>3, <2>4, <2>5
<1>11. PutSoFar(next, stacks, stack)
  BY <1>8, <1>9, <1>10 DEF PutSoFar
<1> QED
  BY <1>6, <1>11 DEF next

Packs(slots) == [selection : 0..MainSize, stacks : [slots -> Stack]]

\* What does not fit is lost, but never what there was before.
Inserted(inv, stack, new) ==
    /\ \A i \in Items : Total(new.stacks, MainSlots, i)
                           <= Total(inv.stacks, MainSlots, i) + Amount(stack, i)
    /\ AllLimited(inv.stacks, MainSlots) /\ Limited(stack) =>
          /\ AllLimited(new.stacks, MainSlots)
          /\ \A i \in Items : Total(new.stacks, MainSlots, i) >= Total(inv.stacks, MainSlots, i)

SameBeside(inv, new, slots) == \A s \in slots \ MainSlots : new.stacks[s] = inv.stacks[s]

LEMMA InsertKeeps ==
    ASSUME NEW slots, MainSlots \subseteq slots, NEW inv \in Packs(slots),
           NEW stack \in Stack, NEW new, new = Insert(inv, stack)
    PROVE  new \in Packs(slots) /\ SameBeside(inv, new, slots) /\ Inserted(inv, stack, new)
<1>0. /\ inv = [selection |-> inv.selection, stacks |-> inv.stacks]
      /\ inv.selection \in 0..MainSize /\ inv.stacks \in [slots -> Stack]
  BY DEF Packs
<1> USE <1>0
<1> DEFINE n == MainSize
           first == IF inv.selection = 0 THEN 1 ELSE inv.selection
           order == [k \in 1..MainSize |-> ((first + k - 2) % MainSize) + 1]
           start == [stacks |-> inv.stacks, rest |-> stack, last |-> 0]
           filled == Round(start, order, FALSE)
           placed == Round(filled, order, TRUE)
           A == {acc \in Accs(slots) : PutSoFar(acc, inv.stacks, stack)}
<1>1. n \in Nat \ {0}
  BY InventoryAssumption
<1>2. DOMAIN order = 1..n /\ \A k \in 1..n : order[k] \in 1..n
  <2>1. ASSUME NEW e \in Nat, NEW w \in Nat \ {0} PROVE e % w \in 0..(w - 1)
    OBVIOUS
  <2>2. first \in 1..n
    BY <1>1
  <2> HIDE DEF first
  <2>3. ASSUME NEW k \in 1..n PROVE ((first + k - 2) % MainSize) + 1 \in 1..n
    <3>1. first + k - 2 \in Nat /\ MainSize \in Nat \ {0}
      BY <1>1, <2>2
    <3>2. (first + k - 2) % MainSize \in 0..(MainSize - 1)
      <4> DEFINE e == first + k - 2
      <4>1. e \in Nat
        BY <3>1
      <4> HIDE DEF e
      <4>2. e % MainSize \in 0..(MainSize - 1)
        BY <2>1, <3>1, <4>1
      <4> QED
        BY <4>2 DEF e
    <3> QED
      BY <3>1, <3>2
  <2> QED
    BY <2>3
<1> HIDE DEF order
<1>3. start \in A
  <2>1. start \in Accs(slots)
    BY <1>1 DEF Accs
  <2>2. ASSUME NEW i \in Items
        PROVE  Total(inv.stacks, MainSlots, i) \in Nat /\ Amount(stack, i) \in Nat
    <3>1. \A s \in MainSlots : inv.stacks[s] \in Stack
      OBVIOUS
    <3> QED
      BY <3>1, MainIsFinite, TotalType, StackIs DEF Amount
  <2>3. start.stacks = inv.stacks /\ start.rest = stack
    OBVIOUS
  <2> HIDE DEF start
  <2>4. PutSoFar(start, inv.stacks, stack)
    BY <2>2, <2>3 DEF PutSoFar
  <2> QED
    BY <2>1, <2>4
<1> HIDE DEF start
<1>4. ASSUME NEW k \in 1..n, NEW acc \in A, NEW allow PROVE Try(acc, order[k], allow) \in A
  <2>1. order[k] \in 1..MainSize
    BY <1>2
  <2> QED
    BY <2>1, TryKeeps
<1> HIDE DEF A
<1>5. filled \in A
  BY <1>1, <1>2, <1>3, <1>4, RoundStays
<1>6. placed \in A
  <2> HIDE DEF filled
  <2> QED
    BY <1>1, <1>2, <1>4, <1>5, RoundStays
<1>7. Placed(inv, stack) = placed
  BY DEF Placed, order, start
<1> HIDE DEF placed
<1>8. placed \in Accs(slots) /\ PutSoFar(placed, inv.stacks, stack)
  BY <1>6 DEF A
<1>9. /\ new.selection = IF inv.selection = 0 THEN placed.last ELSE inv.selection
      /\ new = [selection |-> new.selection, stacks |-> new.stacks]
      /\ new.stacks = [s \in slots |-> IF s \in MainSlots THEN placed.stacks[s] ELSE inv.stacks[s]]
  <2>1. DOMAIN inv.stacks = slots
    OBVIOUS
  <2> QED
    BY <1>7, <2>1 DEF Insert
<1>10. new.selection \in 0..MainSize
  BY <1>8, <1>9 DEF Accs
<1>11. new.stacks \in [slots -> Stack] /\ \A s \in slots \ MainSlots : new.stacks[s] = inv.stacks[s]
  BY <1>8, <1>9 DEF Accs
<1>12. ASSUME NEW i \in Items
       PROVE  /\ Total(new.stacks, MainSlots, i) = Total(placed.stacks, MainSlots, i)
              /\ Total(placed.stacks, MainSlots, i) \in Nat /\ Total(inv.stacks, MainSlots, i) \in Nat
              /\ Amount(placed.rest, i) \in Nat /\ Amount(stack, i) \in Nat
  <2>1. /\ \A s \in MainSlots : inv.stacks[s] \in Stack /\ placed.stacks[s] \in Stack
        /\ \A s \in MainSlots : new.stacks[s] = placed.stacks[s]
    BY <1>8, <1>9 DEF Accs
  <2>2. Amounts(new.stacks, MainSlots, i) = Amounts(placed.stacks, MainSlots, i)
    BY <2>1 DEF Amounts
  <2>3. Total(new.stacks, MainSlots, i) = Total(placed.stacks, MainSlots, i)
    BY <2>2, TotalIs
  <2> QED
    BY <1>8, <2>1, <2>3, MainIsFinite, TotalType, StackIs DEF Amount, Accs
<1>13. ASSUME NEW i \in Items
       PROVE  Total(new.stacks, MainSlots, i) <= Total(inv.stacks, MainSlots, i) + Amount(stack, i)
  <2>1. Total(placed.stacks, MainSlots, i) + Amount(placed.rest, i)
           <= Total(inv.stacks, MainSlots, i) + Amount(stack, i)
    BY <1>8 DEF PutSoFar
  <2> QED
    BY <1>12, <2>1
<1>14. ASSUME AllLimited(inv.stacks, MainSlots), Limited(stack)
       PROVE  /\ AllLimited(new.stacks, MainSlots)
              /\ \A i \in Items : Total(new.stacks, MainSlots, i) >= Total(inv.stacks, MainSlots, i)
  <2>1. AllLimited(placed.stacks, MainSlots)
    BY <1>8, <1>14 DEF PutSoFar
  <2>2. AllLimited(new.stacks, MainSlots)
    BY <1>9, <2>1 DEF AllLimited
  <2>3. ASSUME NEW i \in Items
        PROVE  Total(new.stacks, MainSlots, i) >= Total(inv.stacks, MainSlots, i)
    <3>1. /\ Total(placed.stacks, MainSlots, i) + Amount(placed.rest, i)
                = Total(inv.stacks, MainSlots, i) + Amount(stack, i)
          /\ Amount(placed.rest, i) <= Amount(stack, i)
      BY <1>8, <1>14 DEF PutSoFar
    <3> QED
      BY <1>12, <3>1
  <2> QED
    BY <2>2, <2>3
<1>15. SameBeside(inv, new, slots)
  BY <1>9 DEF SameBeside
<1>16. new \in Packs(slots)
  BY <1>9, <1>10, <1>11 DEF Packs
<1>17. Inserted(inv, stack, new)
  BY <1>13, <1>14 DEF Inserted
<1> QED
  BY <1>15, <1>16, <1>17

-----------------------------------------------------------------------------
(* Recipes *)

\* Line by line, the cells of a square are numbered from 1.
LEMMA CellsAreNumbered ==
    ASSUME NEW d \in Nat \ {0}
    PROVE  /\ \A l, c \in 0..(d - 1) : l * d + c + 1 \in 1..(d * d)
           /\ \A l, c, m, e \in 0..(d - 1) : l * d + c + 1 = m * d + e + 1 => l = m /\ c = e
           /\ \A k \in 1..(d * d) : \E l, c \in 0..(d - 1) : k = l * d + c + 1
<1>1. ASSUME NEW l \in 0..(d - 1), NEW c \in 0..(d - 1) PROVE l * d + c + 1 \in 1..(d * d)
  OBVIOUS
<1>2. ASSUME NEW l \in 0..(d - 1), NEW c \in 0..(d - 1),
             NEW m \in 0..(d - 1), NEW e \in 0..(d - 1), l * d + c + 1 = m * d + e + 1
      PROVE  l = m /\ c = e
  <2>1. ~(l < m)
    <3> SUFFICES ASSUME l < m PROVE FALSE
      OBVIOUS
    <3>1. PICK x \in Nat : m = l + 1 + x
      OBVIOUS
    <3>2. m * d = l * d + d + x * d /\ x * d >= 0
      BY <3>1
    <3> QED
      BY <1>2, <3>2
  <2>2. ~(m < l)
    <3> SUFFICES ASSUME m < l PROVE FALSE
      OBVIOUS
    <3>1. PICK x \in Nat : l = m + 1 + x
      OBVIOUS
    <3>2. l * d = m * d + d + x * d /\ x * d >= 0
      BY <3>1
    <3> QED
      BY <1>2, <3>2
  <2>3. l = m
    BY <2>1, <2>2
  <2> QED
    BY <1>2, <2>3
<1>3. ASSUME NEW k \in 1..(d * d) PROVE \E l, c \in 0..(d - 1) : k = l * d + c + 1
  <2> DEFINE n == k - 1
             l == n \div d
             c == n % d
  <2>1. n \in Nat /\ n < d * d
    OBVIOUS
  <2> HIDE DEF n
  <2>2. n = l * d + c /\ l \in Nat /\ c \in 0..(d - 1)
    BY <2>1
  <2> HIDE DEF l, c
  <2>3. l < d
    <3> SUFFICES ASSUME l >= d PROVE FALSE
      BY <2>2
    <3>1. l * d >= d * d
      BY <2>2
    <3> QED
      BY <2>1, <2>2, <3>1
  <2> QED
    BY <2>2, <2>3 DEF n
<1> QED
  BY <1>1, <1>2, <1>3

LEMMA SideIs ==
    ASSUME NEW n \in DOMAIN Recipes, NEW r, r = Side(Recipes[n].inputs)
    PROVE  /\ r \in Nat /\ r * r = Len(Recipes[n].inputs)
           /\ Recipes[n].inputs \in Seq(Items \cup {NoItem}) /\ Recipes[n].output \in Stack
<1> DEFINE inputs == Recipes[n].inputs
<1>1. Recipes[n] \in [inputs : Seq(Items \cup {NoItem}), output : Stack]
  <2>1. ASSUME NEW T, Recipes \in Seq(T) PROVE Recipes[n] \in T
    BY <2>1
  <2> QED
    BY <2>1, RecipesAssumption
<1>2. inputs \in Seq(Items \cup {NoItem}) /\ Recipes[n].output \in Stack
  BY <1>1
<1>3. \E side \in 0..Len(inputs) : side * side = Len(inputs)
  BY RecipesAssumption
<1> HIDE DEF inputs
<1>4. Side(inputs) \in 0..Len(inputs) /\ Side(inputs) * Side(inputs) = Len(inputs)
  BY <1>3 DEF Side
<1>5. Len(inputs) \in Nat
  BY <1>2
<1> QED
  BY <1>2, <1>4, <1>5 DEF inputs

LEMMA CraftIsFinite == IsFiniteSet(CraftSlots)
<1>1. IsFiniteSet({"craft"}) /\ IsFiniteSet(1..(CraftSide * CraftSide))
  <2>1. 1 \in Int /\ CraftSide * CraftSide \in Int
    BY InventoryAssumption
  <2> QED
    BY <2>1, FS_Singleton, FS_Interval
<1> QED
  BY <1>1, FS_Product DEF CraftSlots

Holding(stacks, item) == {s \in CraftSlots : stacks[s].item = item}
Inputs(recipe, item) == {k \in DOMAIN recipe.inputs : recipe.inputs[k] = item}

\* Where a recipe matches, there are as many stacks of an item as it has inputs of it.
LEMMA MatchCounts ==
    ASSUME NEW n \in DOMAIN Recipes, NEW stacks, Matches(Recipes[n], stacks), NEW i \in Items
    PROVE  Cardinality(Holding(stacks, i)) = Cardinality(Inputs(Recipes[n], i))
<1> DEFINE r == Side(Recipes[n].inputs)
           inputs == Recipes[n].inputs
           d == CraftSide
<1>1. r \in Nat /\ r * r = Len(inputs) /\ inputs \in Seq(Items \cup {NoItem})
  BY SideIs
<1>2. d \in Nat \ {0}
  BY InventoryAssumption
<1>3. r <= d
  BY DEF Matches
<1>4. PICK line \in 0..(d - r), col \in 0..(d - r) :
         \A l, c \in 0..(d - 1) :
            Cell(stacks, l, c) = IF {l - line, c - col} \subseteq 0..(r - 1)
                                   THEN inputs[(l - line) * r + (c - col) + 1] ELSE NoItem
  BY DEF Matches
<1> HIDE DEF r, d
<1> DEFINE C == {x \in (0..(r - 1)) \X (0..(r - 1)) : inputs[x[1] * r + x[2] + 1] = i}
           In == [x \in C |-> x[1] * r + x[2] + 1]
           At == [x \in C |-> <<"craft", (line + x[1]) * d + (col + x[2]) + 1>>]
<1>5. ExistsBijection(C, Inputs(Recipes[n], i))
  <2>1. DOMAIN inputs = 1..(r * r)
    BY <1>1
  <2>2. r # 0 => /\ \A l, c \in 0..(r - 1) : l * r + c + 1 \in 1..(r * r)
                 /\ \A l, c, m, e \in 0..(r - 1) : l * r + c + 1 = m * r + e + 1 => l = m /\ c = e
                 /\ \A k \in 1..(r * r) : \E l, c \in 0..(r - 1) : k = l * r + c + 1
    BY <1>1, CellsAreNumbered
  <2>3. CASE r = 0
    <3>1. C = {} /\ Inputs(Recipes[n], i) = {}
      BY <2>1, <2>3 DEF Inputs
    <3>2. [x \in {} |-> x] \in Bijection({}, {})
      BY DEF Bijection, Injection, Surjection, IsInjective
    <3> QED
      BY <3>1, <3>2 DEF ExistsBijection
  <2>4. CASE r # 0
    <3> DEFINE K(l, c) == l * r + c + 1
    <3>1. /\ \A l, c \in 0..(r - 1) : K(l, c) \in 1..(r * r)
          /\ \A l, c, m, e \in 0..(r - 1) : K(l, c) = K(m, e) => l = m /\ c = e
          /\ \A k \in 1..(r * r) : \E l, c \in 0..(r - 1) : k = K(l, c)
      BY <2>2, <2>4
    <3>2. C = {x \in (0..(r - 1)) \X (0..(r - 1)) : inputs[K(x[1], x[2])] = i}
          /\ In = [x \in C |-> K(x[1], x[2])]
      OBVIOUS
    <3> HIDE DEF K, C, In, inputs
    <3>3. Inputs(Recipes[n], i) = {k \in 1..(r * r) : inputs[k] = i}
      BY <2>1 DEF Inputs, inputs
    <3>4. In \in [C -> Inputs(Recipes[n], i)]
      BY <3>1, <3>2, <3>3
    <3>5. IsInjective(In)
      <4> SUFFICES ASSUME NEW x \in C, NEW y \in C, In[x] = In[y] PROVE x = y
        BY <3>4 DEF IsInjective
      <4>1. x[1] = y[1] /\ x[2] = y[2]
        BY <3>1, <3>2
      <4> QED
        BY <3>2, <4>1
    <3>6. \A k \in Inputs(Recipes[n], i) : \E x \in C : In[x] = k
      <4> SUFFICES ASSUME NEW k \in Inputs(Recipes[n], i) PROVE \E x \in C : In[x] = k
        OBVIOUS
      <4>1. PICK l \in 0..(r - 1), c \in 0..(r - 1) : k = K(l, c)
        BY <3>1, <3>3
      <4>2. <<l, c>> \in C
        BY <3>2, <3>3, <4>1
      <4>3. In[<<l, c>>] = k
        BY <3>2, <4>1, <4>2
      <4> QED
        BY <4>2, <4>3
    <3> QED
      BY <3>4, <3>5, <3>6 DEF ExistsBijection, Bijection, Injection, Surjection
  <2> QED
    BY <2>3, <2>4
<1>6. ExistsBijection(C, Holding(stacks, i))
  <2> DEFINE K(l, c) == l * d + c + 1
  <2>1. /\ \A l, c \in 0..(d - 1) : K(l, c) \in 1..(d * d)
        /\ \A l, c, m, e \in 0..(d - 1) : K(l, c) = K(m, e) => l = m /\ c = e
        /\ \A k \in 1..(d * d) : \E l, c \in 0..(d - 1) : k = K(l, c)
    BY <1>2, CellsAreNumbered
  <2>2. \A l, c \in 0..(d - 1) : Cell(stacks, l, c) = stacks[<<"craft", K(l, c)>>].item
    BY DEF Cell, d
  <2>3. CraftSlots = {"craft"} \X (1..(d * d))
    BY DEF CraftSlots, d
  <2>4. At = [x \in C |-> <<"craft", K(line + x[1], col + x[2])>>]
    OBVIOUS
  <2>5. \A x \in C : /\ x[1] \in 0..(r - 1) /\ x[2] \in 0..(r - 1) /\ x = <<x[1], x[2]>>
                     /\ inputs[x[1] * r + x[2] + 1] = i
    OBVIOUS
  <2>6. \A l, c \in 0..(r - 1) : inputs[l * r + c + 1] = i => <<l, c>> \in C
    OBVIOUS
  <2> HIDE DEF K, C, At, inputs
  <2>7. ASSUME NEW l \in 0..(r - 1), NEW c \in 0..(r - 1)
        PROVE  /\ line + l \in 0..(d - 1) /\ col + c \in 0..(d - 1)
               /\ Cell(stacks, line + l, col + c) = inputs[l * r + c + 1]
    <3>1. line + l \in 0..(d - 1) /\ col + c \in 0..(d - 1)
          /\ (line + l) - line = l /\ (col + c) - col = c
      BY <1>1, <1>2, <1>3
    <3>2. {(line + l) - line, (col + c) - col} \subseteq 0..(r - 1)
      BY <3>1
    <3> QED
      BY <1>4, <3>1, <3>2
  <2>8. ASSUME NEW x \in C PROVE At[x] \in Holding(stacks, i)
    <3>1. /\ line + x[1] \in 0..(d - 1) /\ col + x[2] \in 0..(d - 1)
          /\ Cell(stacks, line + x[1], col + x[2]) = i
      BY <2>5, <2>7
    <3> QED
      BY <2>1, <2>2, <2>3, <2>4, <3>1 DEF Holding
  <2>9. IsInjective(At)
    <3> SUFFICES ASSUME NEW x \in C, NEW y \in C, At[x] = At[y] PROVE x = y
      BY <2>4 DEF IsInjective
    <3>1. K(line + x[1], col + x[2]) = K(line + y[1], col + y[2])
      BY <2>4
    <3>2. line + x[1] = line + y[1] /\ col + x[2] = col + y[2]
      <4>1. /\ line + x[1] \in 0..(d - 1) /\ col + x[2] \in 0..(d - 1)
            /\ line + y[1] \in 0..(d - 1) /\ col + y[2] \in 0..(d - 1)
        BY <2>5, <2>7
      <4>2. ASSUME NEW l \in 0..(d - 1), NEW c \in 0..(d - 1),
                   NEW m \in 0..(d - 1), NEW e \in 0..(d - 1), K(l, c) = K(m, e)
            PROVE  l = m /\ c = e
        BY <2>1, <4>2
      <4> QED
        BY <3>1, <4>1, <4>2
    <3>3. x[1] = y[1] /\ x[2] = y[2]
      BY <2>5, <3>2
    <3> QED
      BY <2>5, <3>3
  <2>10. ASSUME NEW s \in Holding(stacks, i) PROVE \E x \in C : At[x] = s
    <3>1. PICK k \in 1..(d * d) : s = <<"craft", k>>
      BY <2>3 DEF Holding
    <3>2. PICK l \in 0..(d - 1), c \in 0..(d - 1) : k = K(l, c)
      BY <2>1
    <3>3. Cell(stacks, l, c) = i
      BY <2>2, <3>1, <3>2 DEF Holding
    <3>4. /\ {l - line, c - col} \subseteq 0..(r - 1)
          /\ inputs[(l - line) * r + (c - col) + 1] = i
      BY <1>4, <3>3, InventoryAssumption
    <3> DEFINE a == l - line
               b == c - col
    <3>5. line + a = l /\ col + b = c
      OBVIOUS
    <3>6. a \in 0..(r - 1) /\ b \in 0..(r - 1) /\ inputs[a * r + b + 1] = i
      BY <3>4
    <3> HIDE DEF a, b
    <3>7. <<a, b>> \in C
      BY <2>6, <3>6
    <3>8. At[<<a, b>>] = s
      BY <2>4, <3>1, <3>2, <3>5, <3>7
    <3> QED
      BY <3>7, <3>8
  <2>11. At \in [C -> Holding(stacks, i)]
    BY <2>4, <2>8
  <2> QED
    BY <2>9, <2>10, <2>11 DEF ExistsBijection, Bijection, Injection, Surjection
<1>7. IsFiniteSet(C)
  <2>1. IsFiniteSet(0..(r - 1))
    BY <1>1, FS_Interval
  <2>2. IsFiniteSet((0..(r - 1)) \X (0..(r - 1)))
    BY <2>1, FS_Product
  <2> QED
    BY <2>2, FS_Subset
<1> HIDE DEF C, In, At
<1>8. Cardinality(Inputs(Recipes[n], i)) = Cardinality(C)
  BY <1>5, <1>7, FS_Bijection
<1>9. Cardinality(Holding(stacks, i)) = Cardinality(C)
  BY <1>6, <1>7, FS_Bijection
<1> QED
  BY <1>8, <1>9

LEMMA MatchingIs ==
    ASSUME NEW stacks, MatchingRecipe(stacks) # 0
    PROVE  /\ MatchingRecipe(stacks) \in DOMAIN Recipes
           /\ Matches(Recipes[MatchingRecipe(stacks)], stacks)
<1> DEFINE I == {n \in 1..Len(Recipes) : Matches(Recipes[n], stacks)}
<1>1. MatchingRecipe(stacks) = IF I # {} THEN Min(I) ELSE 0
  BY DEF MatchingRecipe, SelectInSeq
<1>2. I # {}
  BY <1>1
<1>3. DOMAIN Recipes = 1..Len(Recipes)
  <2>1. ASSUME NEW T, Recipes \in Seq(T) PROVE DOMAIN Recipes = 1..Len(Recipes)
    BY <2>1
  <2> QED
    BY <2>1, RecipesAssumption
<1>4. I \subseteq Nat
  OBVIOUS
<1>5. Min(I) \in I
  <2> HIDE DEF I
  <2>1. PICK m \in I : \A y \in I : m <= y
    BY <1>2, <1>4, Smallest
  <2> QED
    BY <1>4, <2>1 DEF Min
<1> QED
  BY <1>1, <1>2, <1>3, <1>5

LEMMA OutputIs == ASSUME NEW stacks PROVE Output(stacks) \in Stack
  BY MatchingIs, SideIs, NothingIs DEF Output

\* Crafting takes one item from every stack.
LEMMA CraftUses ==
    ASSUME NEW before, NEW after, \A s \in CraftSlots : before[s] \in Stack,
           \A s \in CraftSlots : after[s] = TakeN(before[s], 1).stack, NEW i \in Items
    PROVE  Total(before, CraftSlots, i) - Total(after, CraftSlots, i)
              = Cardinality(Holding(before, i))
<1> DEFINE f == Amounts(before, CraftSlots, i)
           g == Amounts(after, CraftSlots, i)
           D == Holding(before, i)
<1>1. ASSUME NEW s \in CraftSlots
      PROVE  /\ f[s] = Amount(before[s], i) /\ g[s] = Amount(after[s], i)
             /\ f[s] \in Int /\ g[s] = IF s \in D THEN f[s] - 1 ELSE f[s]
  <2>1. f[s] = Amount(before[s], i) /\ g[s] = Amount(after[s], i)
    BY DEF Amounts
  <2>2. /\ before[s].count \in Nat /\ (before[s] = Empty <=> before[s].count = 0)
        /\ before[s] = Empty <=> before[s].item = NoItem
    BY StackIs
  <2>3. s \in D <=> before[s].item = i
    BY DEF Holding
  <2> HIDE DEF f, g, D
  <2>4. CASE before[s].item = i
    <3>1. before[s].count # 0
      BY <2>2, <2>4, InventoryAssumption
    <3>2. TakeN(before[s], 1).stack = With(i, before[s].count - 1)
      <4>1. (IF before[s].count > 1 THEN before[s].count - 1 ELSE 0) = before[s].count - 1
        BY <2>2, <3>1
      <4> QED
        BY <2>4, <4>1 DEF TakeN
    <3>3. before[s].count - 1 \in Nat /\ before[s].count - 1 <= Width - 1
      BY <2>2, <3>1, StackIs, TheNumbers DEF Numbers
    <3>4. Amount(after[s], i) = before[s].count - 1
      BY <3>2, <3>3, WithIs
    <3>5. Amount(before[s], i) = before[s].count
      BY <2>4 DEF Amount
    <3> QED
      BY <2>1, <2>2, <2>3, <2>4, <3>4, <3>5
  <2>5. CASE before[s].item # i
    <3>1. Amount(before[s], i) = 0
      BY <2>5 DEF Amount
    <3>2. after[s] = Empty \/ after[s].item = before[s].item
      <4> DEFINE left == IF before[s].count > 1 THEN before[s].count - 1 ELSE 0
      <4>1. after[s] = With(before[s].item, left)
        BY DEF TakeN
      <4> HIDE DEF left
      <4> QED
        BY <4>1 DEF With
    <3>3. Amount(after[s], i) = 0
      BY <2>5, <3>2, NothingIs DEF Amount
    <3> QED
      BY <2>1, <2>3, <2>5, <3>1, <3>3
  <2> QED
    BY <2>4, <2>5
<1>2. D \in SUBSET CraftSlots
  BY DEF Holding
<1> HIDE DEF f, g, D
<1>3. Sum(f, CraftSlots) - Sum(g, CraftSlots) = Cardinality(D)
  BY <1>1, <1>2, CraftIsFinite, SumCounts
<1> QED
  BY <1>3, TotalIs DEF f, g, D

-----------------------------------------------------------------------------
(* A player's inventories *)

LEMMA SlotsAre ==
    /\ MainSlots \subseteq Slots /\ CraftSlots \subseteq Slots
    /\ MainSlots \cap CraftSlots = {} /\ IsFiniteSet(Slots)
<1>1. MainSlots \cap CraftSlots = {}
  BY DEF MainSlots, CraftSlots
<1>2. IsFiniteSet(Slots)
  BY MainIsFinite, CraftIsFinite, FS_Union DEF Slots
<1> QED
  BY <1>1, <1>2 DEF Slots

LEMMA InventoryIs ==
    ASSUME NEW inv \in Inventories
    PROVE  /\ inv = [selection |-> inv.selection, stacks |-> inv.stacks]
           /\ inv.selection \in 0..MainSize /\ inv.stacks \in [Slots -> Stack]
           /\ DOMAIN inv.stacks = Slots
  BY DEF Inventories

LEMMA InsertTypes ==
    ASSUME NEW inv \in Inventories, NEW stack \in Stack
    PROVE  /\ Insert(inv, stack) \in Inventories
           /\ \A s \in CraftSlots : Insert(inv, stack).stacks[s] = inv.stacks[s]
<1>1. Inventories = Packs(Slots)
  BY DEF Inventories, Packs
<1>2. Insert(inv, stack) \in Packs(Slots) /\ SameBeside(inv, Insert(inv, stack), Slots)
  BY <1>1, SlotsAre, InsertKeeps
<1> QED
  BY <1>1, <1>2, SlotsAre DEF SameBeside

LEMMA CraftTypes ==
    ASSUME NEW inv \in Inventories, NEW output \in Stack
    PROVE  /\ CraftInto(inv, output) \in Inventories
           /\ \A s \in CraftSlots :
                 CraftInto(inv, output).stacks[s] = TakeN(inv.stacks[s], 1).stack
<1> DEFINE put == Insert(inv, output)
           st == [s \in Slots |-> IF s \in CraftSlots THEN TakeN(put.stacks[s], 1).stack
                                  ELSE put.stacks[s]]
<1>1. put \in Inventories /\ \A s \in CraftSlots : put.stacks[s] = inv.stacks[s]
  BY InsertTypes
<1>2. CraftInto(inv, output) = [put EXCEPT !.stacks = st]
  BY DEF CraftInto
<1> HIDE DEF put
<1>3. CraftInto(inv, output) = [selection |-> put.selection, stacks |-> st]
  BY <1>1, <1>2, InventoryIs
<1>4. st \in [Slots -> Stack]
  <2> SUFFICES ASSUME NEW s \in Slots PROVE st[s] \in Stack
    OBVIOUS
  <2>1. put.stacks[s] \in Stack
    BY <1>1, InventoryIs
  <2>2. TakeN(put.stacks[s], 1).stack \in Stack
    BY <2>1, TakeIs
  <2> QED
    BY <2>1, <2>2
<1>5. \A s \in CraftSlots : st[s] = TakeN(inv.stacks[s], 1).stack
  BY <1>1, SlotsAre
<1> HIDE DEF st
<1> QED
  BY <1>1, <1>3, <1>4, <1>5, InventoryIs DEF Inventories

LEMMA TakeSelectedKeeps ==
    ASSUME NEW slots, IsFiniteSet(slots), MainSlots \subseteq slots, NEW inv \in Packs(slots),
           Selected(inv) # Empty, NEW new, new = TakeSelected(inv)
    PROVE  /\ new \in Packs(slots)
           /\ \A i \in Items : Total(new.stacks, slots, i) = Total(inv.stacks, slots, i)
                                   - (IF i = Selected(inv).item THEN 1 ELSE 0)
<1> DEFINE a == <<"main", inv.selection>>
           t == TakeN(inv.stacks[a], 1)
           st == [inv.stacks EXCEPT ![a] = t.stack]
<1>0. /\ inv = [selection |-> inv.selection, stacks |-> inv.stacks]
      /\ inv.selection \in 0..MainSize /\ inv.stacks \in [slots -> Stack]
  BY DEF Packs
<1>1. inv.selection # 0 /\ Selected(inv) = inv.stacks[a]
  BY DEF Selected
<1>2. a \in slots
  <2>1. inv.selection \in 1..MainSize
    BY <1>0, <1>1
  <2> QED
    BY <2>1 DEF MainSlots
<1>3. new = [inv EXCEPT !.stacks[a] = t.stack]
  BY DEF TakeSelected
<1> HIDE DEF a
<1>4. inv.stacks[a] \in Stack
  BY <1>0, <1>2
<1>5. t.stack \in Stack /\ t.stack.count <= inv.stacks[a].count
      /\ \A i \in Items : Amount(inv.stacks[a], i) - Amount(t.stack, i)
                             = IF i = inv.stacks[a].item THEN 1 ELSE 0
  <2>1. /\ t.stack \in Stack /\ t.taken \in Stack /\ t.taken.count <= 1
        /\ t.stack.count <= inv.stacks[a].count
        /\ t.stack.count + t.taken.count = inv.stacks[a].count
        /\ t.taken = Empty \/ t.taken.item = inv.stacks[a].item
        /\ \A i \in Items : Amount(t.stack, i) + Amount(t.taken, i) = Amount(inv.stacks[a], i)
    BY <1>4, TakeIs
  <2>2. t.taken = With(inv.stacks[a].item, inv.stacks[a].count
                          - (IF inv.stacks[a].count > 1 THEN inv.stacks[a].count - 1 ELSE 0))
    BY DEF TakeN
  <2>3. inv.stacks[a].count \in Nat \ {0} /\ inv.stacks[a].item \in Items
    BY <1>1, <1>4, StackIs
  <2>4. t.taken = With(inv.stacks[a].item, 1)
    BY <2>2, <2>3
  <2>5. \A i \in Items : /\ Amount(t.taken, i) = (IF i = inv.stacks[a].item THEN 1 ELSE 0)
                         /\ Amount(t.stack, i) \in Nat
    <3>1. ASSUME NEW i \in Items PROVE Amount(t.stack, i) \in Nat
      BY <2>1, StackIs DEF Amount
    <3>2. t.taken = [item |-> inv.stacks[a].item, count |-> 1]
      BY <2>4 DEF With
    <3> HIDE DEF t
    <3> QED
      BY <3>1, <3>2 DEF Amount
  <2>6. ASSUME NEW i \in Items
        PROVE  Amount(inv.stacks[a], i) - Amount(t.stack, i)
                  = IF i = inv.stacks[a].item THEN 1 ELSE 0
    <3>1. Amount(t.stack, i) + Amount(t.taken, i) = Amount(inv.stacks[a], i)
      BY <2>1
    <3> HIDE DEF t
    <3> QED
      BY <2>5, <3>1
  <2> QED
    BY <2>1, <2>6
<1> HIDE DEF t
<1>6. new = [selection |-> inv.selection, stacks |-> st] /\ st \in [slots -> Stack]
      /\ st[a] = t.stack /\ \A s \in slots \ {a} : st[s] = inv.stacks[s]
  BY <1>0, <1>2, <1>3, <1>5
<1> HIDE DEF st
<1>7. ASSUME NEW i \in Items
      PROVE  Total(st, slots, i) = Total(inv.stacks, slots, i)
                                     - (IF i = inv.stacks[a].item THEN 1 ELSE 0)
  <2>1. \A s \in slots : inv.stacks[s] \in Stack /\ st[s] \in Stack
    BY <1>0, <1>6
  <2>2. Total(st, slots, i)
           = Total(inv.stacks, slots, i) - Amount(inv.stacks[a], i) + Amount(st[a], i)
    BY <1>2, <1>6, <2>1, OneChanges
  <2>3. Total(inv.stacks, slots, i) \in Nat /\ Amount(inv.stacks[a], i) \in Nat
        /\ Amount(t.stack, i) \in Nat
    BY <1>4, <1>5, <2>1, TotalType, StackIs DEF Amount
  <2> QED
    BY <1>5, <1>6, <2>2, <2>3
<1>8. new \in Packs(slots)
  BY <1>0, <1>6 DEF Packs
<1> QED
  BY <1>1, <1>6, <1>7, <1>8

LEMMA TakeSelectedTypes ==
    ASSUME NEW inv \in Inventories, Selected(inv) # Empty
    PROVE  TakeSelected(inv) \in Inventories
<1>1. Inventories = Packs(Slots)
  BY DEF Inventories, Packs
<1> QED
  BY <1>1, SlotsAre, TakeSelectedKeeps

LEMMA RotateTypes ==
    ASSUME NEW inv \in Inventories, NEW forwards \in BOOLEAN
    PROVE  /\ Rotate(inv, forwards) \in Inventories
           /\ Rotate(inv, forwards).selection \in 0..MainSize
<1> DEFINE selection == IF inv.selection = 0 THEN 1 ELSE inv.selection
           count == IF MainSize < HudSize THEN MainSize ELSE HudSize
           next == IF forwards THEN (selection % count) + 1
                   ELSE ((count + selection - 2) % count) + 1
<1>1. ASSUME NEW e \in Nat, NEW w \in Nat \ {0} PROVE e % w \in 0..(w - 1)
  OBVIOUS
<1>2. /\ count \in Nat \ {0} /\ count <= MainSize /\ MainSize \in Nat
      /\ selection \in Nat \ {0} /\ count + selection - 2 \in Nat
  BY InventoryAssumption, InventoryIs
<1>3. Rotate(inv, forwards) = [selection |-> next, stacks |-> inv.stacks]
  <2>1. Rotate(inv, forwards) = [inv EXCEPT !.selection = next]
    BY DEF Rotate
  <2> HIDE DEF next
  <2> QED
    BY <2>1, InventoryIs
<1> HIDE DEF count, selection
<1>4. next \in 0..MainSize
  <2> DEFINE e == count + selection - 2
  <2>1. e \in Nat
    BY <1>2
  <2> HIDE DEF e
  <2>2. selection % count \in 0..(count - 1) /\ e % count \in 0..(count - 1)
    BY <1>1, <1>2, <2>1
  <2>3. next = IF forwards THEN (selection % count) + 1 ELSE (e % count) + 1
    BY DEF e
  <2> HIDE DEF next
  <2> QED
    BY <1>2, <2>2, <2>3
<1> HIDE DEF next
<1> QED
  BY <1>3, <1>4, InventoryIs DEF Inventories

LEMMA MergeOrMoveTypes ==
    ASSUME NEW inv \in Inventories, NEW from \in Slots, NEW to \in Slots, NEW one \in BOOLEAN
    PROVE  /\ MergeOrMove(inv, from, to, one) \in Inventories
           /\ Kept(inv.stacks, MergeOrMove(inv, from, to, one).stacks, Slots)
<1> DEFINE new == MergeOrMove(inv, from, to, one)
<1>1. /\ inv.stacks \in [Slots -> Stack]
      /\ inv = [selection |-> inv.selection, stacks |-> inv.stacks]
      /\ inv.selection \in 0..MainSize
  BY InventoryIs
<1>2. new = [selection |-> inv.selection, stacks |-> new.stacks]
  BY <1>1, SlotsAre, MergeOrMoveKept
<1>3. Kept(inv.stacks, new.stacks, Slots)
  BY <1>1, SlotsAre, MergeOrMoveKept
<1>4. new.stacks \in [Slots -> Stack]
  BY <1>3 DEF Kept
<1> HIDE DEF new
<1>5. new \in Inventories
  BY <1>1, <1>2, <1>4 DEF Inventories
<1> QED
  BY <1>3, <1>5 DEF new
=============================================================================
