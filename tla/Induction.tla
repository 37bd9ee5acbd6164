------------------------------ MODULE Induction ------------------------------
(***************************************************************************)
(* Induction over data for the other proof modules.  The induction         *)
(* theorems of the library take a predicate as parameter, which the        *)
(* provers cannot instantiate; here induction is stated for sets, and what *)
(* the sums and folds of the community modules compute is derived from it. *)
(***************************************************************************)
EXTENDS Integers, FiniteSetsExt, FiniteSetTheorems, WellFoundedInduction, TLAPS

-----------------------------------------------------------------------------
(* Induction over the natural numbers, for a set instead of a predicate:   *)
(* the least number outside the set would have a predecessor inside.       *)

Below == {ss \in Nat \X Nat : ss[1] < ss[2]}

LEMMA BelowWellFounded == IsWellFoundedOn(Below, Nat)
BY NatLessThanWellFounded, Zenon DEF OpToRel, Below

LEMMA NatInduct ==
    ASSUME NEW T, T \subseteq Nat, 0 \in T, \A n \in T : n + 1 \in T
    PROVE  T = Nat
<1> DEFINE B == Nat \ T
<1>1. SUFFICES ASSUME B # {} PROVE FALSE
  OBVIOUS
<1>2. PICK x \in B : \A y \in B : ~ (<<y, x>> \in Below)
  BY <1>1, WFMin, BelowWellFounded, Zenon
<1>3. x # 0 /\ x \in Nat
  OBVIOUS
<1>4. x - 1 \in B
  BY <1>3
<1>5. <<x - 1, x>> \in Below
  BY <1>3 DEF Below
<1> QED BY <1>2, <1>4, <1>5

-----------------------------------------------------------------------------
(* The sum of a function over a finite set: MapThenSumSet takes the        *)
(* elements one by one, in an order that depends on the set alone.         *)

Chosen(s) == CHOOSE x \in s : TRUE

SumStep(w, D, g) ==
    g = [s \in D |-> IF s = {} THEN 0 ELSE w[Chosen(s)] + g[s \ {Chosen(s)}]]

\* The subsets of S of at most n elements.
Upto(S, n) == {s \in SUBSET S : Cardinality(s) <= n}

Total(w, S) == MapThenSumSet(LAMBDA x : w[x], S)

\* Taking one element out of a finite set.
LEMMA TakenOut ==
    ASSUME NEW S, IsFiniteSet(S), NEW s \in SUBSET S
    PROVE  /\ IsFiniteSet(s) /\ Cardinality(s) \in Nat
           /\ (s = {}) <=> (Cardinality(s) = 0)
           /\ \A x \in s : Cardinality(s \ {x}) = Cardinality(s) - 1
           /\ s # {} => Chosen(s) \in s
<1>1. IsFiniteSet(s) /\ Cardinality(s) \in Nat
  BY FS_Subset, FS_CardinalityType
<1>2. (s = {}) <=> (Cardinality(s) = 0)
  BY <1>1, FS_EmptySet
<1>3. \A x \in s : Cardinality(s \ {x}) = Cardinality(s) - 1
  BY <1>1, FS_RemoveElement
<1> QED BY <1>1, <1>2, <1>3 DEF Chosen

LEMMA SumExists ==
    ASSUME NEW w, NEW S, IsFiniteSet(S)
    PROVE  \E g : SumStep(w, SUBSET S, g)
<1> DEFINE T == {m \in Nat : \E g : SumStep(w, Upto(S, m), g)}
<1>0. \A s \in SUBSET S : Cardinality(s) \in Nat
  BY TakenOut
<1>1. 0 \in T
  <2> DEFINE g == [s \in Upto(S, 0) |-> 0]
  <2>1. \A s \in Upto(S, 0) : s = {}
    <3> TAKE s \in Upto(S, 0)
    <3>1. Cardinality(s) = 0
      BY <1>0 DEF Upto
    <3> QED BY <3>1, TakenOut DEF Upto
  <2>2. SumStep(w, Upto(S, 0), g)
    BY <2>1 DEF SumStep
  <2> QED BY <2>2
<1>2. ASSUME NEW m \in T PROVE m + 1 \in T
  <2>1. PICK g : SumStep(w, Upto(S, m), g)
    OBVIOUS
  <2> DEFINE D == Upto(S, m + 1)
             h == [s \in D |-> IF s = {} THEN 0 ELSE w[Chosen(s)] + g[s \ {Chosen(s)}]]
  <2>2. \A s \in Upto(S, m) : g[s] = IF s = {} THEN 0 ELSE w[Chosen(s)] + g[s \ {Chosen(s)}]
    BY <2>1 DEF SumStep
  <2>3. ASSUME NEW s \in D
        PROVE  h[s] = IF s = {} THEN 0 ELSE w[Chosen(s)] + h[s \ {Chosen(s)}]
    <3>1. CASE s = {}
      BY <3>1
    <3>2. CASE s # {}
      <4> DEFINE r == s \ {Chosen(s)}
      <4>1. s \in SUBSET S /\ Cardinality(s) <= m + 1
        BY DEF Upto
      <4>2. Cardinality(s) \in Nat /\ Cardinality(r) = Cardinality(s) - 1
        BY <3>2, <4>1, TakenOut
      <4>3. r \in Upto(S, m) /\ r \in D
        BY <4>1, <4>2 DEF Upto
      <4>4. h[r] = g[r]
        BY <2>2, <4>3
      <4> QED BY <3>2, <4>4
    <3> QED BY <3>1, <3>2
  <2>4. h = [s \in D |-> h[s]]
    OBVIOUS
  <2> HIDE DEF h
  <2>5. SumStep(w, Upto(S, m + 1), h)
    BY <2>3, <2>4 DEF SumStep
  <2> QED BY <2>5
<1> HIDE DEF T
<1>3. T = Nat
  BY <1>1, <1>2, NatInduct DEF T
<1>4. Cardinality(S) \in T
  BY <1>0, <1>3
<1>5. Upto(S, Cardinality(S)) = SUBSET S
  BY FS_Subset DEF Upto
<1> QED BY <1>4, <1>5 DEF T

LEMMA SumUnique ==
    ASSUME NEW w, NEW S, NEW R, NEW g, NEW h, IsFiniteSet(S), R \subseteq S,
           SumStep(w, SUBSET S, g), SumStep(w, SUBSET R, h)
    PROVE  \A s \in SUBSET R : g[s] = h[s]
<1> DEFINE T == {m \in Nat : \A s \in Upto(R, m) : g[s] = h[s]}
<1>0. \A s \in SUBSET R : s \in SUBSET S /\ Cardinality(s) \in Nat
  BY TakenOut
<1>1. /\ \A s \in SUBSET S : g[s] = IF s = {} THEN 0 ELSE w[Chosen(s)] + g[s \ {Chosen(s)}]
      /\ \A s \in SUBSET R : h[s] = IF s = {} THEN 0 ELSE w[Chosen(s)] + h[s \ {Chosen(s)}]
  BY DEF SumStep
<1>2. 0 \in T
  <2>1. \A s \in Upto(R, 0) : s = {}
    <3> TAKE s \in Upto(R, 0)
    <3>1. Cardinality(s) = 0 /\ s \in SUBSET S
      BY <1>0 DEF Upto
    <3> QED BY <3>1, TakenOut
  <2> QED BY <1>1, <2>1
<1>3. ASSUME NEW m \in T PROVE m + 1 \in T
  <2>1. ASSUME NEW s \in Upto(R, m + 1) PROVE g[s] = h[s]
    <3>1. s \in SUBSET R /\ s \in SUBSET S /\ Cardinality(s) <= m + 1
      BY <1>0 DEF Upto
    <3>2. CASE s = {}
      BY <1>1, <3>1, <3>2
    <3>3. CASE s # {}
      <4> DEFINE r == s \ {Chosen(s)}
      <4>1. Cardinality(s) \in Nat /\ Cardinality(r) = Cardinality(s) - 1
        BY <3>1, <3>3, TakenOut
      <4>2. r \in Upto(R, m)
        BY <3>1, <4>1 DEF Upto
      <4>3. g[r] = h[r]
        BY <4>2
      <4> QED BY <1>1, <3>1, <3>3, <4>3
    <3> QED BY <3>2, <3>3
  <2> QED BY <2>1
<1> HIDE DEF T
<1>4. T = Nat
  BY <1>2, <1>3, NatInduct DEF T
<1>5. ASSUME NEW s \in SUBSET R PROVE g[s] = h[s]
  <2>1. Cardinality(s) \in T /\ s \in Upto(R, Cardinality(s))
    BY <1>0, <1>4 DEF Upto
  <2> QED BY <2>1 DEF T
<1> QED BY <1>5

LEMMA TotalValue ==
    ASSUME NEW w, NEW S, IsFiniteSet(S)
    PROVE  \E h : SumStep(w, SUBSET S, h) /\ Total(w, S) = h[S]
<1> DEFINE h == CHOOSE h : SumStep(w, SUBSET S, h)
<1>1. SumStep(w, SUBSET S, h)
  BY SumExists
<1>2. Total(w, S) = h[S]
  BY DEF Total, MapThenSumSet, MapThenFoldSet, SumStep, Chosen
<1> QED BY <1>1, <1>2

\* A step of the sum, ...
LEMMA TotalStep ==
    ASSUME NEW w, NEW S, IsFiniteSet(S)
    PROVE  Total(w, S) = IF S = {} THEN 0 ELSE w[Chosen(S)] + Total(w, S \ {Chosen(S)})
<1>1. PICK g : SumStep(w, SUBSET S, g) /\ Total(w, S) = g[S]
  BY TotalValue
<1>2. g[S] = IF S = {} THEN 0 ELSE w[Chosen(S)] + g[S \ {Chosen(S)}]
  BY <1>1 DEF SumStep
<1> DEFINE R == S \ {Chosen(S)}
<1>3. R \subseteq S /\ IsFiniteSet(R)
  BY FS_Subset
<1>4. PICK h : SumStep(w, SUBSET R, h) /\ Total(w, R) = h[R]
  BY <1>3, TotalValue
<1> HIDE DEF R
<1>5. g[R] = h[R]
  <2>1. R \in SUBSET R
    OBVIOUS
  <2> QED BY <1>1, <1>3, <1>4, <2>1, SumUnique
<1> QED BY <1>1, <1>2, <1>4, <1>5 DEF R

\* ... which may take any element first.
LEMMA TotalPick ==
    ASSUME NEW w, NEW S, IsFiniteSet(S), \A x \in S : w[x] \in Nat
    PROVE  /\ Total(w, S) \in Nat
           /\ \A a \in S : Total(w, S) = w[a] + Total(w, S \ {a})
<1> DEFINE Good(s) == /\ Total(w, s) \in Nat
                      /\ \A a \in s : Total(w, s) = w[a] + Total(w, s \ {a})
           T == {n \in Nat : \A s \in Upto(S, n) : Good(s)}
<1>0. \A s \in SUBSET S : IsFiniteSet(s) /\ Cardinality(s) \in Nat
  BY TakenOut
<1>1. 0 \in T
  <2>1. ASSUME NEW s \in Upto(S, 0) PROVE Good(s)
    <3>1. Cardinality(s) = 0 /\ s \in SUBSET S
      BY <1>0 DEF Upto
    <3>2. s = {} /\ IsFiniteSet(s)
      BY <3>1, TakenOut
    <3>3. Total(w, s) = 0
      BY <3>2, TotalStep
    <3> QED BY <3>2, <3>3
  <2> QED BY <2>1
<1>2. ASSUME NEW n \in T PROVE n + 1 \in T
  <2>1. ASSUME NEW s \in Upto(S, n + 1) PROVE Good(s)
    <3>1. s \in SUBSET S /\ Cardinality(s) <= n + 1 /\ IsFiniteSet(s)
      BY <1>0 DEF Upto
    <3>2. CASE s = {}
      <4>1. Total(w, s) = 0
        BY <3>1, <3>2, TotalStep
      <4> QED BY <3>2, <4>1
    <3>3. CASE s # {}
      <4> DEFINE x == Chosen(s)
                 r == s \ {x}
      <4>1. x \in s /\ \A a \in s : s \ {a} \in Upto(S, n)
        BY <3>1, <3>3, TakenOut DEF Upto
      <4>2. \A a \in s : Good(s \ {a})
        BY <4>1
      <4>3. Total(w, s) = w[x] + Total(w, r)
        BY <3>1, <3>3, TotalStep
      <4>4. w[x] \in Nat /\ Total(w, r) \in Nat
        BY <3>1, <4>1, <4>2
      <4>5. ASSUME NEW a \in s PROVE Total(w, s) = w[a] + Total(w, s \ {a})
        <5>1. CASE a = x
          BY <4>3, <5>1
        <5>2. CASE a # x
          <6> DEFINE both == r \ {a}
          <6>1. both = (s \ {a}) \ {x} /\ a \in r /\ x \in s \ {a}
            BY <4>1, <5>2
          <6>2. both \in SUBSET S /\ IsFiniteSet(both)
            BY <1>0, <3>1
          <6>3. Total(w, r) = w[a] + Total(w, both)
            BY <4>1, <4>2, <6>1
          <6>4. Total(w, s \ {a}) = w[x] + Total(w, both)
            BY <4>2, <6>1
          <6>5. both \in Upto(S, n)
            <7>1. s \ {a} \in SUBSET S /\ Cardinality(s \ {a}) <= n
              BY <4>1 DEF Upto
            <7>2. Cardinality(both) = Cardinality(s \ {a}) - 1 /\ Cardinality(s \ {a}) \in Nat
              BY <6>1, <7>1, TakenOut
            <7> QED BY <6>2, <7>1, <7>2 DEF Upto
          <6>6. Total(w, both) \in Nat /\ w[a] \in Nat
            BY <3>1, <6>5
          <6> HIDE DEF both, r, x
          <6> QED BY <4>3, <4>4, <6>3, <6>4, <6>6
        <5> QED BY <5>1, <5>2
      <4>6. Total(w, s) \in Nat
        <5> HIDE DEF r, x
        <5> QED BY <4>3, <4>4
      <4> QED BY <4>5, <4>6
    <3> QED BY <3>2, <3>3
  <2> QED BY <2>1
<1> HIDE DEF T
<1>3. T = Nat
  BY <1>1, <1>2, NatInduct DEF T
<1>4. S \in Upto(S, Cardinality(S)) /\ Cardinality(S) \in T
  BY <1>0, <1>3 DEF Upto
<1> QED BY <1>4 DEF T

\* Functions that agree on the set have the same sum.
LEMMA TotalSame ==
    ASSUME NEW w, NEW v, NEW S, IsFiniteSet(S), \A x \in S : w[x] = v[x]
    PROVE  Total(w, S) = Total(v, S)
<1> DEFINE T == {n \in Nat : \A s \in Upto(S, n) : Total(w, s) = Total(v, s)}
<1>0. \A s \in SUBSET S : IsFiniteSet(s) /\ Cardinality(s) \in Nat
  BY TakenOut
<1>1. 0 \in T
  <2>1. ASSUME NEW s \in Upto(S, 0) PROVE Total(w, s) = Total(v, s)
    <3>1. Cardinality(s) = 0 /\ s \in SUBSET S
      BY <1>0 DEF Upto
    <3>2. s = {} /\ IsFiniteSet(s)
      BY <3>1, TakenOut
    <3> QED BY <3>2, TotalStep
  <2> QED BY <2>1
<1>2. ASSUME NEW n \in T PROVE n + 1 \in T
  <2>1. ASSUME NEW s \in Upto(S, n + 1) PROVE Total(w, s) = Total(v, s)
    <3>1. s \in SUBSET S /\ Cardinality(s) <= n + 1 /\ IsFiniteSet(s)
      BY <1>0 DEF Upto
    <3>2. CASE s = {}
      BY <3>1, <3>2, TotalStep
    <3>3. CASE s # {}
      <4> DEFINE r == s \ {Chosen(s)}
      <4>1. Chosen(s) \in s /\ r \in Upto(S, n)
        BY <3>1, <3>3, TakenOut DEF Upto
      <4>2. Total(w, r) = Total(v, r) /\ w[Chosen(s)] = v[Chosen(s)]
        BY <3>1, <4>1
      <4>3. Total(w, s) = w[Chosen(s)] + Total(w, r)
        BY <3>1, <3>3, TotalStep
      <4>4. Total(v, s) = v[Chosen(s)] + Total(v, r)
        BY <3>1, <3>3, TotalStep
      <4> QED BY <4>2, <4>3, <4>4
    <3> QED BY <3>2, <3>3
  <2> QED BY <2>1
<1> HIDE DEF T
<1>3. T = Nat
  BY <1>1, <1>2, NatInduct DEF T
<1>4. S \in Upto(S, Cardinality(S)) /\ Cardinality(S) \in T
  BY <1>0, <1>3 DEF Upto
<1> QED BY <1>4 DEF T

\* Nothing adds up to nothing.
LEMMA TotalZero ==
    ASSUME NEW w, NEW S, IsFiniteSet(S), \A x \in S : w[x] = 0
    PROVE  Total(w, S) = 0
<1> DEFINE T == {n \in Nat : \A s \in Upto(S, n) : Total(w, s) = 0}
<1>0. \A s \in SUBSET S : IsFiniteSet(s) /\ Cardinality(s) \in Nat
  BY TakenOut
<1>1. 0 \in T
  <2>1. ASSUME NEW s \in Upto(S, 0) PROVE Total(w, s) = 0
    <3>1. Cardinality(s) = 0 /\ s \in SUBSET S
      BY <1>0 DEF Upto
    <3>2. s = {} /\ IsFiniteSet(s)
      BY <3>1, TakenOut
    <3> QED BY <3>2, TotalStep
  <2> QED BY <2>1
<1>2. ASSUME NEW n \in T PROVE n + 1 \in T
  <2>1. ASSUME NEW s \in Upto(S, n + 1) PROVE Total(w, s) = 0
    <3>1. s \in SUBSET S /\ Cardinality(s) <= n + 1 /\ IsFiniteSet(s)
      BY <1>0 DEF Upto
    <3>2. CASE s = {}
      BY <3>1, <3>2, TotalStep
    <3>3. CASE s # {}
      <4> DEFINE r == s \ {Chosen(s)}
      <4>1. Chosen(s) \in s /\ r \in Upto(S, n)
        BY <3>1, <3>3, TakenOut DEF Upto
      <4>2. Total(w, r) = 0 /\ w[Chosen(s)] = 0
        BY <3>1, <4>1
      <4>3. Total(w, s) = w[Chosen(s)] + Total(w, r)
        BY <3>1, <3>3, TotalStep
      <4> HIDE DEF r
      <4> QED BY <4>2, <4>3
    <3> QED BY <3>2, <3>3
  <2> QED BY <2>1
<1> HIDE DEF T
<1>3. T = Nat
  BY <1>1, <1>2, NatInduct DEF T
<1>4. S \in Upto(S, Cardinality(S)) /\ Cardinality(S) \in T
  BY <1>0, <1>3 DEF Upto
<1> QED BY <1>4 DEF T

\* The sum when one summand changes.
LEMMA TotalChange ==
    ASSUME NEW w, NEW v, NEW S, NEW a \in S, IsFiniteSet(S),
           \A x \in S : w[x] \in Nat /\ v[x] \in Nat,
           \A x \in S \ {a} : w[x] = v[x]
    PROVE  Total(v, S) + w[a] = Total(w, S) + v[a]
<1>1. /\ Total(w, S) = w[a] + Total(w, S \ {a})
      /\ Total(v, S) = v[a] + Total(v, S \ {a})
  BY TotalPick
<1>2. IsFiniteSet(S \ {a})
  BY FS_Subset
<1>3. Total(w, S \ {a}) = Total(v, S \ {a})
  BY <1>2, TotalSame
<1>4. Total(w, S \ {a}) \in Nat
  BY <1>2, TotalPick
<1> QED BY <1>1, <1>3, <1>4

\* Larger summands, larger sum.
LEMMA TotalBelow ==
    ASSUME NEW w, NEW v, NEW S, IsFiniteSet(S),
           \A x \in S : w[x] \in Nat /\ v[x] \in Nat /\ w[x] <= v[x]
    PROVE  Total(w, S) <= Total(v, S)
<1> DEFINE T == {n \in Nat : \A s \in Upto(S, n) : Total(w, s) <= Total(v, s)}
<1>0. \A s \in SUBSET S : IsFiniteSet(s) /\ Cardinality(s) \in Nat
  BY TakenOut
<1>1. 0 \in T
  <2>1. ASSUME NEW s \in Upto(S, 0) PROVE Total(w, s) <= Total(v, s)
    <3>1. Cardinality(s) = 0 /\ s \in SUBSET S
      BY <1>0 DEF Upto
    <3>2. s = {} /\ IsFiniteSet(s)
      BY <3>1, TakenOut
    <3>3. Total(w, s) = 0 /\ Total(v, s) = 0
      BY <3>2, TotalStep
    <3> QED BY <3>3
  <2> QED BY <2>1
<1>2. ASSUME NEW n \in T PROVE n + 1 \in T
  <2>1. ASSUME NEW s \in Upto(S, n + 1) PROVE Total(w, s) <= Total(v, s)
    <3>1. s \in SUBSET S /\ Cardinality(s) <= n + 1 /\ IsFiniteSet(s)
      BY <1>0 DEF Upto
    <3>2. CASE s = {}
      <4>1. Total(w, s) = 0 /\ Total(v, s) = 0
        BY <3>1, <3>2, TotalStep
      <4> QED BY <4>1
    <3>3. CASE s # {}
      <4> DEFINE x == Chosen(s)
                 r == s \ {x}
      <4>1. x \in s /\ r \in Upto(S, n) /\ IsFiniteSet(r)
        BY <1>0, <3>1, <3>3, TakenOut DEF Upto
      <4>2. Total(w, r) <= Total(v, r)
        BY <4>1
      <4>3. Total(w, s) = w[x] + Total(w, r)
        BY <3>1, <3>3, TotalStep
      <4>4. Total(v, s) = v[x] + Total(v, r)
        BY <3>1, <3>3, TotalStep
      <4>5. x \in S /\ \A y \in r : w[y] \in Nat /\ v[y] \in Nat
        BY <3>1, <4>1
      <4>6. Total(w, r) \in Nat /\ Total(v, r) \in Nat
        BY <4>1, <4>5, TotalPick
      <4>7. w[x] \in Nat /\ v[x] \in Nat /\ w[x] <= v[x]
        BY <4>5
      <4> HIDE DEF r, x
      <4> QED BY <4>2, <4>3, <4>4, <4>6, <4>7
    <3> QED BY <3>2, <3>3
  <2> QED BY <2>1
<1> HIDE DEF T
<1>3. T = Nat
  BY <1>1, <1>2, NatInduct DEF T
<1>4. S \in Upto(S, Cardinality(S)) /\ Cardinality(S) \in T
  BY <1>0, <1>3 DEF Upto
<1> QED BY <1>4 DEF T

\* The sum of the pointwise sum.
LEMMA TotalPlus ==
    ASSUME NEW w, NEW v, NEW u, NEW S, IsFiniteSet(S),
           \A x \in S : w[x] \in Nat /\ v[x] \in Nat /\ u[x] = w[x] + v[x]
    PROVE  Total(u, S) = Total(w, S) + Total(v, S)
<1> DEFINE T == {n \in Nat : \A s \in Upto(S, n) : Total(u, s) = Total(w, s) + Total(v, s)}
<1>0. \A s \in SUBSET S : IsFiniteSet(s) /\ Cardinality(s) \in Nat
  BY TakenOut
<1>1. 0 \in T
  <2>1. ASSUME NEW s \in Upto(S, 0) PROVE Total(u, s) = Total(w, s) + Total(v, s)
    <3>1. Cardinality(s) = 0 /\ s \in SUBSET S
      BY <1>0 DEF Upto
    <3>2. s = {} /\ IsFiniteSet(s)
      BY <3>1, TakenOut
    <3>3. Total(w, s) = 0 /\ Total(v, s) = 0 /\ Total(u, s) = 0
      BY <3>2, TotalStep
    <3> QED BY <3>3
  <2> QED BY <2>1
<1>2. ASSUME NEW n \in T PROVE n + 1 \in T
  <2>1. ASSUME NEW s \in Upto(S, n + 1) PROVE Total(u, s) = Total(w, s) + Total(v, s)
    <3>1. s \in SUBSET S /\ Cardinality(s) <= n + 1 /\ IsFiniteSet(s)
      BY <1>0 DEF Upto
    <3>2. CASE s = {}
      <4>1. Total(w, s) = 0 /\ Total(v, s) = 0 /\ Total(u, s) = 0
        BY <3>1, <3>2, TotalStep
      <4> QED BY <4>1
    <3>3. CASE s # {}
      <4> DEFINE x == Chosen(s)
                 r == s \ {x}
      <4>1. x \in s /\ r \in Upto(S, n) /\ IsFiniteSet(r)
        BY <1>0, <3>1, <3>3, TakenOut DEF Upto
      <4>2. Total(u, r) = Total(w, r) + Total(v, r)
        BY <4>1
      <4>3. Total(w, s) = w[x] + Total(w, r)
        BY <3>1, <3>3, TotalStep
      <4>4. Total(v, s) = v[x] + Total(v, r)
        BY <3>1, <3>3, TotalStep
      <4>4a. Total(u, s) = u[x] + Total(u, r)
        BY <3>1, <3>3, TotalStep
      <4>5. x \in S /\ \A y \in r : w[y] \in Nat /\ v[y] \in Nat
        BY <3>1, <4>1
      <4>6. Total(w, r) \in Nat /\ Total(v, r) \in Nat
        BY <4>1, <4>5, TotalPick
      <4>7. w[x] \in Nat /\ v[x] \in Nat /\ u[x] = w[x] + v[x]
        BY <4>5
      <4> HIDE DEF r, x
      <4> QED BY <4>2, <4>3, <4>4, <4>4a, <4>6, <4>7
    <3> QED BY <3>2, <3>3
  <2> QED BY <2>1
<1> HIDE DEF T
<1>3. T = Nat
  BY <1>1, <1>2, NatInduct DEF T
<1>4. S \in Upto(S, Cardinality(S)) /\ Cardinality(S) \in T
  BY <1>0, <1>3 DEF Upto
<1> QED BY <1>4 DEF T

\* A finite set of naturals has a largest element.
LEMMA MaxOfFinite ==
    ASSUME NEW S \in SUBSET Nat, IsFiniteSet(S), S # {}
    PROVE  Max(S) \in S /\ \A y \in S : y <= Max(S)
<1> DEFINE Topped(s) == s # {} => \E x \in s : \A y \in s : y <= x
           T == {n \in Nat : \A s \in Upto(S, n) : Topped(s)}
<1>0. \A s \in SUBSET S : IsFiniteSet(s) /\ Cardinality(s) \in Nat
  BY TakenOut
<1>1. 0 \in T
  <2>1. ASSUME NEW s \in Upto(S, 0) PROVE s = {}
    <3>1. Cardinality(s) = 0 /\ s \in SUBSET S
      BY <1>0 DEF Upto
    <3> QED BY <3>1, TakenOut
  <2> QED BY <2>1
<1>2. ASSUME NEW n \in T PROVE n + 1 \in T
  <2>1. ASSUME NEW s \in Upto(S, n + 1), s # {} PROVE \E x \in s : \A y \in s : y <= x
    <3> DEFINE a == Chosen(s)
               r == s \ {a}
    <3>0. s \in SUBSET S /\ Cardinality(s) <= n + 1 /\ Cardinality(s) \in Nat /\ n \in Nat
      BY <1>0 DEF Upto
    <3>1. s \in SUBSET S /\ a \in s /\ r \in Upto(S, n)
      <4>1. a \in s /\ \A x \in s : Cardinality(s \ {x}) = Cardinality(s) - 1
        BY <2>1, <3>0, TakenOut
      <4> HIDE DEF a, T
      <4>2. Cardinality(r) <= n /\ r \in SUBSET S
        BY <3>0, <4>1
      <4> QED BY <3>0, <4>1, <4>2 DEF Upto
    <3>2. CASE r = {}
      <4>1. \A y \in s : y = a
        BY <3>2
      <4> HIDE DEF a, r
      <4> QED BY <3>1, <4>1
    <3>3. CASE r # {}
      <4>1. PICK b \in r : \A y \in r : y <= b
        BY <3>1, <3>3
      <4>2. a \in Nat /\ b \in Nat /\ b \in s /\ \A y \in s : y \in Nat /\ (y = a \/ y \in r)
        BY <3>1
      <4> HIDE DEF a, r
      <4>3. CASE a <= b
        BY <4>1, <4>2, <4>3
      <4>4. CASE b <= a
        <5>1. \A y \in s : y <= a
          BY <4>1, <4>2, <4>4
        <5> QED BY <3>1, <5>1
      <4> QED BY <4>2, <4>3, <4>4
    <3> QED BY <3>2, <3>3
  <2> QED BY <2>1
<1> HIDE DEF T
<1>3. T = Nat
  BY <1>1, <1>2, NatInduct DEF T
<1>4. S \in Upto(S, Cardinality(S)) /\ Cardinality(S) \in T
  BY <1>0, <1>3 DEF Upto
<1>5. \E x \in S : \A y \in S : y <= x
  BY <1>4 DEF T
<1>6. \E x \in S : \A y \in S : x >= y
  BY <1>5
<1>7. Max(S) \in S /\ \A y \in S : Max(S) >= y
  BY <1>6 DEF Max
<1> QED BY <1>7

\* What lies outside a part adds nothing when it weighs nothing.
LEMMA TotalPart ==
    ASSUME NEW w, NEW v, NEW S, NEW P \in SUBSET S, IsFiniteSet(S),
           \A x \in S : w[x] \in Nat /\ v[x] = IF x \in P THEN w[x] ELSE 0
    PROVE  Total(v, S) = Total(w, P)
<1> DEFINE T == {n \in Nat : \A s \in Upto(S, n) : Total(v, s) = Total(w, s \cap P)}
<1>0. \A s \in SUBSET S : IsFiniteSet(s) /\ Cardinality(s) \in Nat
  BY TakenOut
<1>1. 0 \in T
  <2>1. ASSUME NEW s \in Upto(S, 0) PROVE Total(v, s) = Total(w, s \cap P)
    <3>1. Cardinality(s) = 0 /\ s \in SUBSET S
      BY <1>0 DEF Upto
    <3>2. s = {} /\ IsFiniteSet(s) /\ s \cap P = {}
      BY <3>1, TakenOut
    <3>3. Total(w, s) = 0 /\ Total(v, s) = 0
      BY <3>2, TotalStep
    <3> QED BY <3>2, <3>3
  <2> QED BY <2>1
<1>2. ASSUME NEW n \in T PROVE n + 1 \in T
  <2>1. ASSUME NEW s \in Upto(S, n + 1) PROVE Total(v, s) = Total(w, s \cap P)
    <3>1. s \in SUBSET S /\ Cardinality(s) <= n + 1 /\ IsFiniteSet(s)
      BY <1>0 DEF Upto
    <3>2. CASE s = {}
      <4>1. Total(w, s) = 0 /\ Total(v, s) = 0 /\ s \cap P = s
        BY <3>1, <3>2, TotalStep
      <4> QED BY <4>1
    <3>3. CASE s # {}
      <4> DEFINE x == Chosen(s)
                 r == s \ {x}
      <4>1. x \in s /\ r \in Upto(S, n) /\ IsFiniteSet(r) /\ x \in S /\ r \subseteq S
        BY <1>0, <3>1, <3>3, TakenOut DEF Upto
      <4>2. Total(v, r) = Total(w, r \cap P)
        BY <4>1
      <4>3. Total(v, s) = v[x] + Total(v, r)
        BY <3>1, <3>3, TotalStep
      <4>4. CASE x \in P
        <5>1. x \in s \cap P /\ (s \cap P) \ {x} = r \cap P
          BY <4>1, <4>4
        <5>2. s \cap P \in SUBSET S /\ IsFiniteSet(s \cap P)
          BY <1>0, <3>1
        <5>3. \A y \in s \cap P : w[y] \in Nat
          BY <5>2
        <5> HIDE DEF r, x
        <5>4. Total(w, s \cap P) = w[x] + Total(w, (s \cap P) \ {x})
          BY <5>1, <5>2, <5>3, TotalPick
        <5> QED BY <4>1, <4>2, <4>3, <4>4, <5>1, <5>4
      <4>5. CASE x \notin P
        <5>1. s \cap P = r \cap P
          BY <4>5
        <5>2. v[x] = 0
          BY <4>1, <4>5
        <5>3. \A y \in r : v[y] \in Nat
          BY <4>1
        <5>4. Total(v, r) \in Nat
          BY <4>1, <5>3, TotalPick
        <5> HIDE DEF r, x
        <5> QED BY <4>2, <4>3, <5>1, <5>2, <5>4
      <4> QED BY <4>4, <4>5
    <3> QED BY <3>2, <3>3
  <2> QED BY <2>1
<1> HIDE DEF T
<1>3. T = Nat
  BY <1>1, <1>2, NatInduct DEF T
<1>4. S \in Upto(S, Cardinality(S)) /\ Cardinality(S) \in T
  BY <1>0, <1>3 DEF Upto
<1>5. Total(v, S) = Total(w, S \cap P) /\ S \cap P = P
  BY <1>4 DEF T
<1> QED BY <1>5

-----------------------------------------------------------------------------
(* FoldLeft and MapThenFoldSet take the indices of a sequence from the     *)
(* last one down.                                                          *)

LEMMA MaxOfPart ==
    ASSUME NEW n \in Nat, NEW s \in SUBSET (1..n), s # {}
    PROVE  Max(s) \in s /\ \A i \in s : i <= Max(s)
<1> DEFINE B == {i \in Nat : \A j \in s : j <= i}
<1>1. n \in B
  OBVIOUS
<1>2. PICK b \in B : \A c \in B : ~ (<<c, b>> \in Below)
  BY <1>1, WFMin, BelowWellFounded, Zenon
<1>3. b \in Nat /\ \A c \in B : ~ (c < b)
  <2>1. b \in Nat
    OBVIOUS
  <2>2. ASSUME NEW c \in B, c < b PROVE FALSE
    <3>1. <<c, b>> \in Below
      BY <2>1, <2>2 DEF Below
    <3> QED BY <1>2, <3>1
  <2> QED BY <2>1, <2>2
<1>4. b \in s
  <2> SUFFICES ASSUME b \notin s PROVE FALSE
    OBVIOUS
  <2>1. PICK i \in s : TRUE
    OBVIOUS
  <2>2. b # 0 /\ b - 1 \in Nat
    BY <1>3, <2>1
  <2>3. b - 1 \in B
    BY <1>3, <2>2
  <2> QED BY <1>3, <2>2, <2>3
<1>5. \E i \in s : \A j \in s : i >= j
  BY <1>3, <1>4
<1> QED BY <1>5 DEF Max

LEMMA MaxOfSegment ==
    ASSUME NEW i \in Nat \ {0}
    PROVE  Max(1..i) = i /\ (1..i) \ {i} = 1..(i - 1)
<1>1. 1..i \in SUBSET (1..i) /\ 1..i # {} /\ i \in 1..i
  OBVIOUS
<1>2. Max(1..i) \in 1..i /\ i <= Max(1..i)
  BY <1>1, MaxOfPart
<1> QED BY <1>2


LEMMA MinOfPart ==
    ASSUME NEW n \in Nat, NEW s \in SUBSET (1..n), s # {}
    PROVE  Min(s) \in s
<1>1. s \subseteq Nat
  OBVIOUS
<1>2. PICK b \in s : \A c \in s : ~ (<<c, b>> \in Below)
  BY <1>1, WFMin, BelowWellFounded, Zenon
<1>3. ASSUME NEW c \in s PROVE b <= c
  <2>1. b \in Nat /\ c \in Nat
    BY <1>1
  <2>2. c < b => <<c, b>> \in Below
    BY <2>1 DEF Below
  <2> QED BY <1>2, <2>1, <2>2
<1> QED BY <1>2, <1>3 DEF Min


-----------------------------------------------------------------------------
(* A step function applied n times: the recursion exists.                  *)

Iterates(a, F, n, h) ==
    h = [i \in 0..n |-> IF i = 0 THEN a ELSE F[<<i, h[i - 1]>>]]

LEMMA IterationExists ==
    ASSUME NEW S, NEW a \in S, NEW N \in Nat, NEW F,
           \A i \in 1..N, x \in S : F[<<i, x>>] \in S
    PROVE  \E h \in [0..N -> S] : Iterates(a, F, N, h)
<1> DEFINE T == {n \in Nat : n <= N => \E h \in [0..n -> S] : Iterates(a, F, n, h)}
<1>1. 0 \in T
  <2> DEFINE h == [i \in 0..0 |-> a]
  <2>1. h \in [0..0 -> S] /\ \A i \in 0..0 : i = 0
    OBVIOUS
  <2>2. Iterates(a, F, 0, h)
    BY <2>1 DEF Iterates
  <2> HIDE DEF h
  <2> QED BY <2>1, <2>2
<1>2. ASSUME NEW n \in T PROVE n + 1 \in T
  <2>1. SUFFICES ASSUME n + 1 <= N
                 PROVE  \E h \in [0..(n + 1) -> S] : Iterates(a, F, n + 1, h)
    OBVIOUS
  <2>2. n \in Nat
    OBVIOUS
  <2>3. PICK g \in [0..n -> S] : Iterates(a, F, n, g)
    BY <2>1
  <2> DEFINE h == [i \in 0..(n + 1) |-> IF i <= n THEN g[i] ELSE F[<<n + 1, g[n]>>]]
  <2>4. \A i \in 0..n : g[i] = IF i = 0 THEN a ELSE F[<<i, g[i - 1]>>]
    BY <2>3 DEF Iterates
  <2>5. F[<<n + 1, g[n]>>] \in S
    BY <2>1, <2>2
  <2>6. h \in [0..(n + 1) -> S]
    BY <2>2, <2>5
  <2>7. ASSUME NEW i \in 0..(n + 1)
        PROVE  h[i] = IF i = 0 THEN a ELSE F[<<i, h[i - 1]>>]
    <3>1. CASE i <= n
      <4>1. i = 0 \/ (i - 1 \in 0..n /\ i - 1 <= n /\ i - 1 \in 0..(n + 1))
        BY <2>2, <3>1
      <4>2. i \in 0..n /\ h[i] = g[i]
        BY <2>2, <3>1
      <4> QED BY <2>4, <4>1, <4>2
    <3>2. CASE ~ (i <= n)
      <4>1. i = n + 1 /\ i # 0 /\ i - 1 = n /\ n \in 0..(n + 1) /\ n <= n
        BY <2>2, <3>2
      <4> QED BY <3>2, <4>1
    <3> QED BY <3>1, <3>2
  <2>8. h = [i \in 0..(n + 1) |-> h[i]]
    OBVIOUS
  <2> HIDE DEF h
  <2>9. Iterates(a, F, n + 1, h)
    BY <2>7, <2>8 DEF Iterates
  <2> QED BY <2>6, <2>9
<1> HIDE DEF T
<1>3. N \in T
  BY <1>1, <1>2, NatInduct DEF T
<1> QED BY <1>3 DEF T
=============================================================================
