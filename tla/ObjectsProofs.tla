---------------------------- MODULE ObjectsProofs ----------------------------
(***************************************************************************)
(* Proofs about Objects: types, HSCAN, the reads, and that the objects     *)
(* implement TypedStore.                                                   *)
(***************************************************************************)
EXTENDS Objects, SequenceTheorems, Induction

-----------------------------------------------------------------------------
(* Hashes: a table is determined by the number of its buckets and the set  *)
(* of its nodes.                                                           *)

Strings == Text \cup Int

HashNodes == [field : Fields, val : Strings]

Keyed == {S \in SUBSET HashNodes : /\ IsFiniteSet(S)
                                   /\ \A r \in S, q \in S : r.field = q.field => r = q}

Hash(n, S) == HashOf(Table(n, S), Cardinality(S))

Sizes == Nat \ {0}

Hashes == {Hash(n, S) : n \in Sizes, S \in Keyed}

\* What the commands do to the set of nodes.
OutOf(S, f) == {r \in S : r.field # f}

Node(f, v) == [field |-> f, val |-> v]

LEMMA ModDoubles ==
    ASSUME NEW h \in Nat, NEW n \in Nat \ {0}
    PROVE  h % (2 * n) >= h % n
<1> DEFINE q == h \div n
           p == h \div (2 * n)
           r == h % n
           s == h % (2 * n)
<1>1. h = n * q + r /\ q \in Nat /\ r \in 0..(n - 1)
  OBVIOUS
<1>2. 2 * n \in Nat \ {0}
  OBVIOUS
<1>3. \A m \in Nat \ {0} : /\ h = m * (h \div m) + (h % m) /\ h \div m \in Nat
                           /\ h % m \in 0..(m - 1)
  OBVIOUS
<1>4. h = (2 * n) * p + s /\ p \in Nat /\ s \in 0..(2 * n - 1)
  BY <1>2, <1>3
<1> HIDE DEF q, p, r, s
<1>5. SUFFICES ASSUME s < r PROVE FALSE
  BY <1>1, <1>4 DEF r, s
<1>6. s - r = n * (q - 2 * p)
  <2>1. n * (q - 2 * p) = n * q - (2 * n) * p
    BY <1>1, <1>4
  <2> QED BY <1>1, <1>4, <2>1
<1>7. CASE q - 2 * p >= 0
  <2>1. n * (q - 2 * p) >= 0
    BY <1>1, <1>4, <1>7
  <2> QED BY <1>1, <1>4, <1>5, <1>6, <2>1
<1>8. CASE q - 2 * p <= -1
  <2>1. n * (q - 2 * p) <= n * (-1)
    BY <1>1, <1>4, <1>8
  <2> QED BY <1>1, <1>4, <1>5, <1>6, <2>1
<1> QED BY <1>1, <1>4, <1>7, <1>8

LEMMA SlotRange ==
    ASSUME NEW f \in Fields, NEW n \in Sizes
    PROVE  /\ Slot(f, n) \in 1..n
           /\ 2 * n \in Sizes
           /\ Slot(f, n) <= Slot(f, 2 * n)
<1> DEFINE h == FieldHash[f]
<1>1. h \in Nat
  BY ObjectsAssumption
<1>2. n \in Nat \ {0} /\ 2 * n \in Nat \ {0}
  BY DEF Sizes
<1> HIDE DEF h
<1>3. \A m \in Nat \ {0} : h % m \in 0..(m - 1)
  BY <1>1
<1>4. h % n <= h % (2 * n)
  BY <1>1, <1>2, ModDoubles
<1>5. h % n \in 0..(n - 1) /\ h % (2 * n) \in Nat
  BY <1>2, <1>3
<1> QED BY <1>2, <1>4, <1>5 DEF Slot, Sizes, h

LEMMA TableIs ==
    ASSUME NEW n \in Sizes, NEW S \in Keyed
    PROVE  /\ Table(n, S) \in [1..n -> SUBSET HashNodes]
           /\ Len(Table(n, S)) = n
           /\ UNION Range(Table(n, S)) = S
<1> DEFINE t == Table(n, S)
<1>1. n \in Nat /\ S \subseteq HashNodes
  BY DEF Sizes, Keyed
<1>2. t \in [1..n -> SUBSET HashNodes]
  BY <1>1 DEF Table
<1>3. Len(t) = n
  <2> HIDE DEF t
  <2>1. t \in Seq(SUBSET HashNodes) /\ DOMAIN t = 1..n
    BY <1>1, <1>2
  <2> QED BY <1>1, <2>1
<1>4. \A r \in S : Slot(r.field, n) \in 1..n /\ r \in t[Slot(r.field, n)]
  <2> TAKE r \in S
  <2>1. r.field \in Fields
    BY <1>1 DEF HashNodes
  <2>2. Slot(r.field, n) \in 1..n
    BY <2>1, SlotRange
  <2> QED BY <2>2 DEF Table
<1>5. \A b \in 1..n : t[b] \subseteq S
  BY DEF Table
<1> HIDE DEF t
<1>6. UNION Range(t) = S
  BY <1>2, <1>4, <1>5 DEF Range
<1> QED BY <1>2, <1>3, <1>6 DEF t

LEMMA HashIs ==
    ASSUME NEW n \in Sizes, NEW S \in Keyed
    PROVE  LET e == Hash(n, S)
           IN  /\ e.type = "hash" /\ e.buckets = Table(n, S) /\ e.nfields = Cardinality(S)
               /\ e.list = <<>> /\ e.arr = <<>>
               /\ Len(e.buckets) = n
               /\ Nodes(e) = S
               /\ FieldsOf(e) = {r.field : r \in S}
               /\ Cardinality(S) \in Nat /\ (S = {} <=> Cardinality(S) = 0)
<1> DEFINE e == Hash(n, S)
<1>1. /\ e.type = "hash" /\ e.buckets = Table(n, S) /\ e.nfields = Cardinality(S)
      /\ e.list = <<>> /\ e.arr = <<>>
  BY DEF Hash, HashOf
<1> HIDE DEF e
<1>2. Len(e.buckets) = n /\ Nodes(e) = S
  BY <1>1, TableIs DEF Nodes
<1>3. FieldsOf(e) = {r.field : r \in S}
  BY <1>2 DEF FieldsOf
<1>4. Cardinality(S) \in Nat /\ (S = {} <=> Cardinality(S) = 0)
  BY FS_CardinalityType, FS_EmptySet DEF Keyed
<1> QED BY <1>1, <1>2, <1>3, <1>4 DEF e

LEMMA FindIs ==
    ASSUME NEW n \in Sizes, NEW S \in Keyed, NEW f \in Fields
    PROVE  HashFind(Hash(n, S), f) = {r \in S : r.field = f}
<1>1. HashFind(Hash(n, S), f) = {r \in Table(n, S)[Slot(f, n)] : r.field = f}
  BY HashIs DEF HashFind
<1>2. Slot(f, n) \in 1..n
  BY SlotRange
<1>3. Table(n, S)[Slot(f, n)] = {r \in S : Slot(r.field, n) = Slot(f, n)}
  BY <1>2 DEF Table
<1> QED BY <1>1, <1>3

LEMMA OutOfKeyed ==
    ASSUME NEW S \in Keyed, NEW f \in Fields
    PROVE  /\ OutOf(S, f) \in Keyed
           /\ Cardinality(OutOf(S, f)) = Cardinality(S) - Cardinality({r \in S : r.field = f})
           /\ Cardinality({r \in S : r.field = f}) = IF \E r \in S : r.field = f THEN 1 ELSE 0
<1> DEFINE F == {r \in S : r.field = f}
           O == OutOf(S, f)
<1>1. IsFiniteSet(S) /\ O \subseteq S /\ F \subseteq S /\ O = S \ F
  BY DEF Keyed, OutOf
<1>2. O \in Keyed
  BY <1>1, FS_Subset DEF Keyed
<1>3. Cardinality(F) = IF \E r \in S : r.field = f THEN 1 ELSE 0
  <2>1. CASE \E r \in S : r.field = f
    <3>1. PICK r \in S : r.field = f
      BY <2>1
    <3>2. F = {r}
      BY <3>1 DEF Keyed
    <3> QED BY <2>1, <3>2, FS_Singleton
  <2>2. CASE ~ \E r \in S : r.field = f
    <3>1. F = {}
      BY <2>2
    <3> QED BY <2>2, <3>1, FS_EmptySet
  <2> QED BY <2>1, <2>2
<1>4. Cardinality(O) = Cardinality(S) - Cardinality(F)
  <2>1. CASE F = {}
    <3>1. O = S /\ Cardinality(F) = 0
      BY <1>1, <2>1, FS_EmptySet
    <3>2. Cardinality(S) \in Nat
      BY <1>1, FS_CardinalityType
    <3> QED BY <3>1, <3>2
  <2>2. CASE F # {}
    <3>1. PICK r \in F : TRUE
      BY <2>2
    <3>2. F = {r}
      BY <3>1 DEF Keyed
    <3>3. Cardinality(S \ {r}) = Cardinality(S) - 1 /\ Cardinality(F) = 1
      BY <1>1, <3>1, <3>2, FS_RemoveElement, FS_Singleton
    <3> QED BY <1>1, <3>2, <3>3
  <2> QED BY <2>1, <2>2
<1> QED BY <1>2, <1>3, <1>4

\* A field gets a value.
With(S, f, v) == OutOf(S, f) \cup {Node(f, v)}

LEMMA WithKeyed ==
    ASSUME NEW S \in Keyed, NEW f \in Fields, NEW v \in Strings
    PROVE  /\ With(S, f, v) \in Keyed
           /\ Cardinality(With(S, f, v)) =
                 Cardinality(S) + IF \E r \in S : r.field = f THEN 0 ELSE 1
           /\ With(S, f, v) # {}
           /\ {r.field : r \in With(S, f, v)} = {r.field : r \in S} \cup {f}
<1> DEFINE O == OutOf(S, f)
           x == Node(f, v)
<1>1. O \in Keyed /\ x \in HashNodes /\ x.field = f /\ x \notin O
  BY OutOfKeyed DEF Node, HashNodes, OutOf
<1>2. Cardinality(O) = Cardinality(S) - (IF \E r \in S : r.field = f THEN 1 ELSE 0)
  BY OutOfKeyed
<1>3. Cardinality(S) \in Nat /\ IsFiniteSet(O)
  BY <1>1, FS_CardinalityType DEF Keyed
<1>4. IsFiniteSet(O \cup {x}) /\ Cardinality(O \cup {x}) = Cardinality(O) + 1
  BY <1>1, <1>3, FS_AddElement
<1>5. \A r \in O : r.field # f /\ r \in S
  BY DEF OutOf
<1>6. O \cup {x} \in Keyed
  <2>1. O \cup {x} \subseteq HashNodes
    BY <1>1 DEF Keyed
  <2>2. \A r \in O, q \in O : r.field = q.field => r = q
    BY <1>1 DEF Keyed
  <2> HIDE DEF O, x
  <2> QED BY <1>1, <1>4, <1>5, <2>1, <2>2 DEF Keyed
<1>7. {r.field : r \in O \cup {x}} = {r.field : r \in S} \cup {f}
  <2>1. \A r \in S : r \in O \/ r.field = f
    BY DEF OutOf
  <2> HIDE DEF O, x
  <2> QED BY <1>1, <1>5, <2>1
<1> HIDE DEF O, x
<1>8. With(S, f, v) = O \cup {x}
  BY DEF With, O, x
<1> QED BY <1>2, <1>3, <1>4, <1>6, <1>7, <1>8

LEMMA StoredIs ==
    ASSUME NEW n \in Sizes, NEW S \in Keyed, NEW f \in Fields, NEW v \in Strings
    PROVE  Stored(Hash(n, S), f, v) = Hash(n, With(S, f, v))
<1> DEFINE e == Hash(n, S)
           F == {r \in S : r.field = f}
           s == Slot(f, n)
           x == Node(f, v)
           t == [e.buckets EXCEPT ![s] = (@ \ F) \cup {x}]
           R == With(S, f, v)
<1>1. HashFind(e, f) = F /\ e.buckets = Table(n, S) /\ Len(e.buckets) = n /\ e.nfields = Cardinality(S)
  BY FindIs, HashIs
<1>2. s \in 1..n
  BY SlotRange
<1>3. t = Table(n, R)
  <2>1. \A b \in 1..n : t[b] = {r \in R : Slot(r.field, n) = b}
    <3> TAKE b \in 1..n
    <3>1. Table(n, S)[b] = {r \in S : Slot(r.field, n) = b}
      BY DEF Table
    <3>2. R = OutOf(S, f) \cup {x} /\ x.field = f
      BY DEF With, Node
    <3>3. CASE b = s
      <4>1. t[b] = (Table(n, S)[b] \ F) \cup {x}
        BY <1>1, <1>2, <3>3 DEF Table
      <4> HIDE DEF t, x, R
      <4> QED BY <3>1, <3>2, <3>3, <4>1 DEF OutOf
    <3>4. CASE b # s
      <4>1. t[b] = Table(n, S)[b]
        BY <1>1, <1>2, <3>4 DEF Table
      <4> HIDE DEF t, x, R
      <4> QED BY <3>1, <3>2, <3>4, <4>1 DEF OutOf
    <3> QED BY <3>3, <3>4
  <2>2. t = [b \in 1..n |-> t[b]]
    BY <1>1 DEF Table
  <2> HIDE DEF t, R
  <2> QED BY <2>1, <2>2 DEF Table
<1>4. (IF F = {} THEN Cardinality(S) + 1 ELSE Cardinality(S)) = Cardinality(R)
  <2>1. Cardinality(S) \in Nat
    BY HashIs
  <2>2. (F = {}) <=> ~ \E r \in S : r.field = f
    OBVIOUS
  <2> QED BY <2>1, <2>2, WithKeyed
<1>5. Stored(e, f, v) = HashOf(t, IF F = {} THEN Cardinality(S) + 1 ELSE Cardinality(S))
  BY <1>1 DEF Stored, Node
<1> HIDE DEF t, R, F, e
<1>6. Stored(e, f, v) = Hash(n, R)
  BY <1>3, <1>4, <1>5 DEF Hash
<1> QED BY <1>6 DEF e, R

LEMMA RehashIs ==
    ASSUME NEW n \in Sizes, NEW S \in Keyed
    PROVE  HashMaybeRehash(Hash(n, S)) = Hash(IF Cardinality(S) <= n THEN n ELSE 2 * n, S)
<1> DEFINE e == Hash(n, S)
<1>1. e.nfields = Cardinality(S) /\ Len(e.buckets) = n /\ Nodes(e) = S
  BY HashIs
<1> HIDE DEF e
<1>2. CASE Cardinality(S) <= n
  BY <1>1, <1>2 DEF HashMaybeRehash, e
<1>3. CASE ~ (Cardinality(S) <= n)
  BY <1>1, <1>3 DEF HashMaybeRehash, Hash, e
<1> QED BY <1>2, <1>3

\* Slots that a table of n buckets gives do not go down in one of m.
Grows(n, m) == \A f \in Fields : Slot(f, n) <= Slot(f, m)

LEMMA GrowsOn ==
    ASSUME NEW n \in Sizes, NEW m \in Sizes, NEW l \in Sizes, Grows(n, m), Grows(m, l)
    PROVE  Grows(n, l)
<1> SUFFICES ASSUME NEW f \in Fields PROVE Slot(f, n) <= Slot(f, l)
  BY DEF Grows
<1>1. Slot(f, n) \in Nat /\ Slot(f, m) \in Nat /\ Slot(f, l) \in Nat
  <2>1. \A i \in Sizes : i \in Nat /\ Slot(f, i) \in 1..i
    BY SlotRange DEF Sizes
  <2> QED BY <2>1
<1>2. Slot(f, n) <= Slot(f, m) /\ Slot(f, m) <= Slot(f, l)
  BY DEF Grows
<1> QED BY <1>1, <1>2

LEMMA GrowsBy ==
    ASSUME NEW n \in Sizes
    PROVE  Grows(n, n) /\ Grows(n, 2 * n)
<1> SUFFICES ASSUME NEW f \in Fields
             PROVE  Slot(f, n) <= Slot(f, n) /\ Slot(f, n) <= Slot(f, 2 * n)
  BY DEF Grows
<1>1. n \in Nat /\ Slot(f, n) \in 1..n /\ Slot(f, n) <= Slot(f, 2 * n)
  BY SlotRange DEF Sizes
<1> QED BY <1>1

LEMMA HSetOneIs ==
    ASSUME NEW n \in Sizes, NEW S \in Keyed, NEW f \in Fields, NEW v \in Strings
    PROVE  \E m \in Sizes : /\ HSetOne(Hash(n, S), <<f, v>>) = Hash(m, With(S, f, v))
                            /\ Grows(n, m)
<1> DEFINE R == With(S, f, v)
<1>1. R \in Keyed
  BY WithKeyed
<1>2. Stored(Hash(n, S), f, v) = Hash(n, R)
  BY StoredIs
<1>3. 2 * n \in Sizes
  BY DEF Sizes
<1> HIDE DEF R
<1>4. PICK m \in Sizes : HashMaybeRehash(Hash(n, R)) = Hash(m, R) /\ m \in {n, 2 * n}
  BY <1>1, <1>3, RehashIs
<1>5. CASE HashFind(Hash(n, S), f) = {}
  <2>1. HSetOne(Hash(n, S), <<f, v>>) = Hash(m, R)
    BY <1>2, <1>4, <1>5 DEF HSetOne
  <2> QED BY <1>4, <2>1, GrowsBy DEF R
<1>6. CASE HashFind(Hash(n, S), f) # {}
  <2>1. HSetOne(Hash(n, S), <<f, v>>) = Hash(n, R)
    BY <1>2, <1>6 DEF HSetOne
  <2> QED BY <2>1, GrowsBy DEF R
<1> QED BY <1>5, <1>6

LEMMA HDelOneIs ==
    ASSUME NEW n \in Sizes, NEW S \in Keyed, NEW f \in Fields
    PROVE  HDelOne(Hash(n, S), f) = Hash(n, OutOf(S, f))
<1> DEFINE e == Hash(n, S)
           F == {r \in S : r.field = f}
           s == Slot(f, n)
           t == [e.buckets EXCEPT ![s] = @ \ F]
           R == OutOf(S, f)
<1>1. HashFind(e, f) = F /\ e.buckets = Table(n, S) /\ Len(e.buckets) = n /\ e.nfields = Cardinality(S)
  BY FindIs, HashIs
<1>2. s \in 1..n
  BY SlotRange
<1>3. t = Table(n, R)
  <2>1. \A b \in 1..n : t[b] = {r \in R : Slot(r.field, n) = b}
    <3> TAKE b \in 1..n
    <3>1. Table(n, S)[b] = {r \in S : Slot(r.field, n) = b}
      BY DEF Table
    <3>2. CASE b = s
      <4>1. t[b] = Table(n, S)[b] \ F
        BY <1>1, <1>2, <3>2 DEF Table
      <4> HIDE DEF t, R
      <4> QED BY <3>1, <3>2, <4>1 DEF OutOf, R
    <3>3. CASE b # s
      <4>1. t[b] = Table(n, S)[b]
        BY <1>1, <1>2, <3>3 DEF Table
      <4> HIDE DEF t, R
      <4> QED BY <3>1, <3>3, <4>1 DEF OutOf, R
    <3> QED BY <3>2, <3>3
  <2>2. t = [b \in 1..n |-> t[b]]
    BY <1>1 DEF Table
  <2> HIDE DEF t, R
  <2> QED BY <2>1, <2>2 DEF Table
<1>4. Cardinality(S) - Cardinality(F) = Cardinality(R)
  BY OutOfKeyed
<1>5. HDelOne(e, f) = HashOf(t, Cardinality(S) - Cardinality(F))
  BY <1>1 DEF HDelOne
<1> HIDE DEF t, R, F, e
<1>6. HDelOne(e, f) = Hash(n, R)
  BY <1>3, <1>4, <1>5 DEF Hash
<1> QED BY <1>6 DEF e, R

-----------------------------------------------------------------------------
(* Commands that work through their arguments one by one.                  *)

LEMMA UpTo ==
    ASSUME NEW N \in Nat, NEW T, 0 \in T, \A i \in 1..N : i - 1 \in T => i \in T
    PROVE  \A i \in 0..N : i \in T
<1> DEFINE U == {i \in Nat : i <= N => i \in T}
<1>1. 0 \in U
  OBVIOUS
<1>2. ASSUME NEW i \in U PROVE i + 1 \in U
  <2>1. SUFFICES ASSUME i + 1 <= N PROVE i + 1 \in T
    OBVIOUS
  <2>2. i \in Nat /\ i <= N /\ i + 1 \in 1..N /\ (i + 1) - 1 = i
    BY <2>1
  <2> QED BY <2>2
<1> HIDE DEF U
<1>3. U = Nat
  BY <1>1, <1>2, NatInduct DEF U
<1> QED BY <1>3 DEF U

\* h goes from a on by N applications of F to its last value.
Iteration(S, a, N, F, h) ==
    /\ Iterates(a, F, N, h)
    /\ h \in [0..N -> S]
    /\ h[0] = a
    /\ \A i \in 1..N : h[i] = F[<<i, h[i - 1]>>]

LEMMA IterationIs ==
    ASSUME NEW S, NEW a \in S, NEW N \in Nat, NEW F,
           \A i \in 1..N, x \in S : F[<<i, x>>] \in S
    PROVE  \E h : Iteration(S, a, N, F, h)
<1>1. PICK h \in [0..N -> S] : Iterates(a, F, N, h)
  BY IterationExists
<1>2. h = [i \in 0..N |-> IF i = 0 THEN a ELSE F[<<i, h[i - 1]>>]]
  BY <1>1 DEF Iterates
<1>3. 0 \in 0..N /\ \A i \in 1..N : i \in 0..N /\ i # 0
  OBVIOUS
<1>4. h[0] = a /\ \A i \in 1..N : h[i] = F[<<i, h[i - 1]>>]
  BY <1>2, <1>3
<1> QED BY <1>1, <1>2, <1>4 DEF Iteration

LEMMA HSetAllIs ==
    ASSUME NEW old \in Hashes, NEW pairs \in Seq(Fields \X Strings), NEW N, N = Len(pairs)
    PROVE  \E h : /\ h \in [0..N -> Hashes] /\ h[0] = old
                  /\ \A i \in 1..N : h[i] = HSetOne(h[i - 1], pairs[i])
                  /\ HSetAll(old, pairs) = h[N]
<1>1. N \in Nat /\ \A i \in 1..N : pairs[i] \in Fields \X Strings
  OBVIOUS
<1>2. \A e \in Hashes, p \in Fields \X Strings : HSetOne(e, p) \in Hashes
  <2> TAKE e \in Hashes, p \in Fields \X Strings
  <2>1. PICK n \in Sizes, S \in Keyed : e = Hash(n, S)
    BY DEF Hashes
  <2>2. PICK f \in Fields, v \in Strings : p = <<f, v>>
    OBVIOUS
  <2>3. PICK m \in Sizes : HSetOne(e, p) = Hash(m, With(S, f, v))
    BY <2>1, <2>2, HSetOneIs
  <2>4. With(S, f, v) \in Keyed
    BY WithKeyed
  <2> QED BY <2>3, <2>4 DEF Hashes
<1> DEFINE F == [q \in (1..N) \X Hashes |-> HSetOne(q[2], pairs[q[1]])]
           Follow(g) == g = [i \in 0..N |-> IF i = 0 THEN old ELSE HSetOne(g[i - 1], pairs[i])]
           h == CHOOSE g : Follow(g)
<1>3. HSetAll(old, pairs) = h[N]
  BY DEF HSetAll
<1>4. \A i \in 1..N, x \in Hashes : F[<<i, x>>] = HSetOne(x, pairs[i])
  OBVIOUS
<1> HIDE DEF F
<1>5. PICK g : Iteration(Hashes, old, N, F, g)
  <2>1. \A i \in 1..N, x \in Hashes : F[<<i, x>>] \in Hashes
    BY <1>1, <1>2, <1>4
  <2> QED BY <1>1, <2>1, IterationIs
<1>6. \A i \in 0..N : i = 0 \/ (i \in 1..N /\ i - 1 \in 0..N)
  BY <1>1
<1>7. Follow(g)
  <2>1. \A i \in 1..N : F[<<i, g[i - 1]>>] = HSetOne(g[i - 1], pairs[i])
    <3> TAKE i \in 1..N
    <3>1. g[i - 1] \in Hashes
      <4>1. g \in [0..N -> Hashes] /\ i - 1 \in 0..N
        BY <1>1, <1>5 DEF Iteration
      <4> HIDE DEF Hashes
      <4> QED BY <4>1
    <3> QED BY <1>4, <3>1
  <2>2. \A i \in 0..N : (IF i = 0 THEN old ELSE F[<<i, g[i - 1]>>]) =
                         (IF i = 0 THEN old ELSE HSetOne(g[i - 1], pairs[i]))
    BY <1>6, <2>1
  <2> QED BY <1>5, <2>2 DEF Iteration, Iterates
<1>8. Follow(h)
  BY <1>7
<1> HIDE DEF h
<1>9. h[0] = old /\ \A i \in 1..N : h[i] = HSetOne(h[i - 1], pairs[i])
  <2>1. 0 \in 0..N /\ \A i \in 1..N : i \in 0..N /\ i # 0
    BY <1>1
  <2> QED BY <1>8, <2>1
<1>10. h \in [0..N -> Hashes]
  <2> DEFINE T == {i \in 0..N : h[i] \in Hashes}
  <2>1. 0 \in T
    BY <1>1, <1>9
  <2>2. \A i \in 1..N : i - 1 \in T => i \in T
    BY <1>1, <1>2, <1>9
  <2> HIDE DEF T
  <2>3. \A i \in 0..N : i \in T
    BY <1>1, <2>1, <2>2, UpTo
  <2>4. h = [i \in 0..N |-> h[i]]
    BY <1>8
  <2> HIDE DEF Follow
  <2> QED BY <2>3, <2>4 DEF T
<1> QED BY <1>3, <1>9, <1>10

-----------------------------------------------------------------------------
(* What is picked from a sequence: the places of a set, in their order.     *)

\* How many places of P come before p.
Ahead(P, p) == Cardinality({q \in P : q < p})

LEMMA PlaceOrder ==
    ASSUME NEW n \in Nat, NEW P \in SUBSET (1..n)
    PROVE  /\ IsFiniteSet(P) /\ Cardinality(P) \in Nat /\ Cardinality(P) <= n
           /\ \A p \in P : Ahead(P, p) \in Nat /\ Ahead(P, p) + 1 \in 1..Cardinality(P)
           /\ \A p \in P, q \in P : p < q => Ahead(P, p) < Ahead(P, q)
<1>1. IsFiniteSet(P) /\ Cardinality(P) \in Nat /\ Cardinality(P) <= n
  <2>1. IsFiniteSet(1..n) /\ Cardinality(1..n) = n
    BY FS_Interval
  <2> QED BY <2>1, FS_Subset, FS_CardinalityType
<1>2. \A p \in P : /\ IsFiniteSet({q \in P : q < p}) /\ Ahead(P, p) \in Nat
                   /\ Cardinality({q \in P : q < p} \cup {p}) = Ahead(P, p) + 1
  <2> TAKE p \in P
  <2> DEFINE L == {q \in P : q < p}
  <2>1. IsFiniteSet(L)
    BY <1>1, FS_Subset
  <2>2. p \notin L
    OBVIOUS
  <2>3. Cardinality(L) = Ahead(P, p)
    BY DEF Ahead
  <2> HIDE DEF L
  <2>4. Cardinality(L) \in Nat /\ Cardinality(L \cup {p}) = Cardinality(L) + 1
    BY <2>1, <2>2, FS_AddElement, FS_CardinalityType
  <2> QED BY <2>1, <2>3, <2>4 DEF L
<1>3. ASSUME NEW p \in P PROVE Ahead(P, p) + 1 <= Cardinality(P)
  <2> DEFINE U == {q \in P : q < p} \cup {p}
  <2>1. U \in SUBSET P /\ Cardinality(U) = Ahead(P, p) + 1
    BY <1>2
  <2> HIDE DEF U
  <2>2. Cardinality(U) <= Cardinality(P)
    BY <1>1, <2>1, FS_Subset
  <2> QED BY <2>1, <2>2
<1>4. ASSUME NEW p \in P, NEW q \in P, p < q
      PROVE  Ahead(P, p) < Ahead(P, q)
  <2> DEFINE U == {x \in P : x < p} \cup {p}
             V == {x \in P : x < q}
  <2>1. U \in SUBSET V
    <3>1. \A x \in P : x < p => x < q
      BY <1>4
    <3> QED BY <1>4, <3>1
  <2>2. Cardinality(U) = Ahead(P, p) + 1 /\ Cardinality(V) = Ahead(P, q) /\ IsFiniteSet(V)
    BY <1>2 DEF Ahead
  <2> HIDE DEF U, V
  <2>3. Cardinality(U) <= Cardinality(V)
    BY <2>1, <2>2, FS_Subset
  <2>4. Ahead(P, p) \in Nat /\ Ahead(P, q) \in Nat
    BY <1>2
  <2> QED BY <2>2, <2>3, <2>4
<1>5. \A p \in P : Ahead(P, p) \in Nat /\ Ahead(P, p) + 1 \in 1..Cardinality(P)
  <2> TAKE p \in P
  <2>1. Ahead(P, p) \in Nat
    BY <1>2
  <2> QED BY <1>1, <1>3, <2>1
<1>6. \A p \in P, q \in P : p < q => Ahead(P, p) < Ahead(P, q)
  BY <1>4
<1> QED BY <1>1, <1>5, <1>6

LEMMA PlaceAt ==
    ASSUME NEW n \in Nat, NEW P \in SUBSET (1..n), NEW i \in 1..Cardinality(P)
    PROVE  \E p \in P : Ahead(P, p) = i - 1
<1> DEFINE c == Cardinality(P)
           f == [p \in P |-> Ahead(P, p) + 1]
<1>1. /\ IsFiniteSet(P) /\ c \in Nat
      /\ \A p \in P : Ahead(P, p) \in Nat /\ Ahead(P, p) + 1 \in 1..c
      /\ \A p \in P, q \in P : p < q => Ahead(P, p) < Ahead(P, q)
  BY PlaceOrder
<1>2. ASSUME NEW p \in P, NEW q \in P, f[p] = f[q]
      PROVE  p = q
  <2>1. Ahead(P, p) = Ahead(P, q)
    BY <1>1, <1>2
  <2>2. ~ (p < q) /\ ~ (q < p)
    BY <1>1, <2>1
  <2>3. p \in Nat /\ q \in Nat
    OBVIOUS
  <2> QED BY <2>2, <2>3
<1>3. IsFiniteSet(1..c) /\ Cardinality(1..c) = c
  BY <1>1, FS_Interval
<1> HIDE DEF f
<1>4. f \in Injection(P, 1..c)
  <2>1. f \in [P -> 1..c]
    BY <1>1 DEF f
  <2> QED BY <1>2, <2>1 DEF Injection, IsInjective
<1>5. f \in Surjection(P, 1..c)
  BY <1>3, <1>4, FS_Injection
<1>6. PICK p \in P : f[p] = i
  BY <1>5 DEF Surjection
<1> QED BY <1>6, PlaceOrder DEF f

LEMMA PickedIs ==
    ASSUME NEW T, NEW s \in Seq(T), NEW P \in SUBSET (DOMAIN s)
    PROVE  /\ Picked(s, P) \in Seq(T)
           /\ Len(Picked(s, P)) = Cardinality(P)
           /\ \A i \in 1..Cardinality(P) :
                 \E p \in P : Ahead(P, p) = i - 1 /\ Picked(s, P)[i] = s[p]
           /\ \A p \in P : Picked(s, P)[Ahead(P, p) + 1] = s[p]
<1> DEFINE c == Cardinality(P)
           Nth(i) == CHOOSE p \in P : Cardinality({q \in P : q < p}) = i - 1
           t == [i \in 1..c |-> s[Nth(i)]]
<1>1. Picked(s, P) = t
  BY DEF Picked
<1>2. Len(s) \in Nat /\ P \in SUBSET (1..Len(s)) /\ \A p \in P : s[p] \in T
  OBVIOUS
<1>3. \A i \in 1..c : Nth(i) \in P /\ Ahead(P, Nth(i)) = i - 1
  <2> TAKE i \in 1..c
  <2>1. \E p \in P : Cardinality({q \in P : q < p}) = i - 1
    BY <1>2, PlaceAt DEF Ahead
  <2> QED BY <2>1 DEF Ahead
<1> HIDE DEF Nth
<1>4. c \in Nat
  BY <1>2, PlaceOrder
<1>5. t \in Seq(T) /\ Len(t) = c
  <2>1. \A i \in 1..c : s[Nth(i)] \in T
    BY <1>2, <1>3
  <2>2. t \in [1..c -> T]
    BY <2>1
  <2> HIDE DEF t, c
  <2> QED BY <1>4, <2>2
<1>6. \A i \in 1..c : t[i] = s[Nth(i)]
  OBVIOUS
<1>7. \A p \in P : Ahead(P, p) \in Nat /\ Ahead(P, p) + 1 \in 1..c
  BY <1>2, PlaceOrder
<1>8. \A p \in P : t[Ahead(P, p) + 1] = s[p]
  <2> TAKE p \in P
  <2> DEFINE q == Nth(Ahead(P, p) + 1)
  <2>1. q \in P /\ Ahead(P, q) = Ahead(P, p)
    BY <1>3, <1>7
  <2>2. ~ (p < q) /\ ~ (q < p)
    BY <1>2, <1>7, <2>1, PlaceOrder
  <2>3. p = q
    BY <1>2, <2>1, <2>2
  <2> QED BY <1>6, <1>7, <2>3
<1> HIDE DEF t
<1> QED BY <1>1, <1>3, <1>5, <1>6, <1>8

LEMMA PickedRange ==
    ASSUME NEW T, NEW s \in Seq(T), NEW P \in SUBSET (DOMAIN s)
    PROVE  Range(Picked(s, P)) = {s[p] : p \in P}
<1> DEFINE t == Picked(s, P)
           c == Cardinality(P)
<1>1. DOMAIN t = 1..c
  BY PickedIs
<1>2. Len(s) \in Nat /\ P \in SUBSET (1..Len(s))
  OBVIOUS
<1>3. \A p \in P : Ahead(P, p) + 1 \in 1..c /\ t[Ahead(P, p) + 1] = s[p]
  BY <1>2, PlaceOrder, PickedIs
<1>4. \A i \in 1..c : \E p \in P : t[i] = s[p]
  BY PickedIs
<1> HIDE DEF t, c
<1> QED BY <1>1, <1>3, <1>4 DEF Range, t

\* Adjacent places are a subsequence.
LEMMA PickedSegment ==
    ASSUME NEW T, NEW s \in Seq(T), NEW a \in Nat \ {0}, NEW b \in Int, b <= Len(s)
    PROVE  Picked(s, a..b) = SubSeq(s, a, b)
<1> DEFINE t == Picked(s, a..b)
           u == SubSeq(s, a, b)
           c == Cardinality(a..b)
<1>1. a..b \in SUBSET (DOMAIN s) /\ Len(s) \in Nat /\ a..b \in SUBSET (1..Len(s))
  OBVIOUS
<1>2. c = IF a <= b THEN b - a + 1 ELSE 0
  BY FS_Interval
<1>3. u \in Seq(T) /\ Len(u) = c /\ \A i \in 1..(b - a + 1) : u[i] = s[a + i - 1]
  <2>1. \A i \in a..b : s[i] \in T
    OBVIOUS
  <2> QED BY <1>2, <2>1, SubSeqProperties
<1>4. \A p \in a..b : Ahead(a..b, p) = p - a
  <2> TAKE p \in a..b
  <2>1. {q \in a..b : q < p} = a..(p - 1)
    OBVIOUS
  <2>2. Cardinality(a..(p - 1)) = p - a
    BY FS_Interval
  <2> QED BY <2>1, <2>2 DEF Ahead
<1>5. t \in Seq(T) /\ Len(t) = c
  BY <1>1, PickedIs
<1>6. \A i \in 1..c : t[i] = u[i]
  <2> TAKE i \in 1..c
  <2>1. PICK p \in a..b : Ahead(a..b, p) = i - 1 /\ t[i] = s[p]
    BY <1>1, PickedIs
  <2>2. p = a + i - 1 /\ i \in 1..(b - a + 1)
    BY <1>2, <1>4, <2>1
  <2> QED BY <1>3, <2>1, <2>2
<1> HIDE DEF t, u, c
<1>7. t = u
  BY <1>3, <1>5, <1>6, SeqEqual
<1> QED BY <1>7 DEF t, u

-----------------------------------------------------------------------------
(* Lists: the walk of LREM.                                                 *)

\* Where the walk over n elements is at its i-th step.
Place(n, count, i) == IF count < 0 THEN n + 1 - i ELSE i

Limit(count) == IF count < 0 THEN -count ELSE count

LEMMA PlaceIs ==
    ASSUME NEW n \in Nat, NEW count \in Int
    PROVE  /\ \A i \in 1..n : Place(n, count, i) \in 1..n
           /\ \A i \in 1..n, j \in 1..n : Place(n, count, i) = Place(n, count, j) => i = j
           /\ \A i \in 1..n : Place(n, count, Place(n, count, i)) = i
           /\ Limit(count) \in Nat
BY DEF Place, Limit

Placed(n, count, X) == {Place(n, count, i) : i \in X}

LEMMA PlacesCount ==
    ASSUME NEW n \in Nat, NEW count \in Int, NEW X \in SUBSET (1..n)
    PROVE  Cardinality(Placed(n, count, X)) = Cardinality(X)
<1> DEFINE Y == Placed(n, count, X)
           f == [i \in X |-> Place(n, count, i)]
<1>1. IsFiniteSet(X)
  BY PlaceOrder
<1>2. \A i \in X, j \in X : f[i] = f[j] => i = j
  BY PlaceIs
<1>3. f \in [X -> Y] /\ \A y \in Y : \E i \in X : f[i] = y
  BY DEF Placed
<1> HIDE DEF f, Y
<1>4. f \in Bijection(X, Y)
  BY <1>2, <1>3 DEF Bijection, Injection, Surjection, IsInjective
<1>5. Cardinality(Y) = Cardinality(X)
  BY <1>1, <1>4, FS_Bijection DEF ExistsBijection
<1> QED BY <1>5 DEF Y

\* The first L of a set of places are those with fewer than L ahead of them.
FirstBefore(W, L, i) == {j \in W : j < i /\ Ahead(W, j) < L}

LEMMA FirstOnes ==
    ASSUME NEW n \in Nat, NEW W \in SUBSET (1..n), NEW L \in Nat, NEW i \in W
    PROVE  Cardinality(FirstBefore(W, L, i)) < L <=> Ahead(W, i) < L
<1> DEFINE D == {j \in W : j < i /\ Ahead(W, j) < L}
           c == Cardinality(W)
<1>1. /\ IsFiniteSet(W) /\ c \in Nat
      /\ \A j \in W : Ahead(W, j) \in Nat /\ Ahead(W, j) + 1 \in 1..c
      /\ \A j \in W, h \in W : j < h => Ahead(W, j) < Ahead(W, h)
  BY PlaceOrder
<1>2. \A j \in W : j \in Nat
  OBVIOUS
<1>3. FirstBefore(W, L, i) = D
  BY DEF FirstBefore
<1>4. CASE Ahead(W, i) < L
  <2>1. \A j \in W : j < i => Ahead(W, j) < L
    <3> SUFFICES ASSUME NEW j \in W, j < i PROVE Ahead(W, j) < L
      OBVIOUS
    <3>1. Ahead(W, j) < Ahead(W, i) /\ Ahead(W, j) \in Nat /\ Ahead(W, i) \in Nat
      BY <1>1
    <3> QED BY <1>4, <3>1
  <2>2. D = {j \in W : j < i}
    BY <2>1
  <2>3. Cardinality(D) = Ahead(W, i)
    BY <2>2 DEF Ahead
  <2> QED BY <1>4, <1>3, <2>3
<1>5. CASE ~ (Ahead(W, i) < L)
  <2> DEFINE f == [j \in D |-> Ahead(W, j) + 1]
  <2>1. \A x \in 1..L : \E j \in D : f[j] = x
    <3> TAKE x \in 1..L
    <3>1. x \in Nat /\ x \in 1..c /\ x - 1 < L
      BY <1>1, <1>5
    <3>2. PICK j \in W : Ahead(W, j) = x - 1
      BY <3>1, PlaceAt
    <3>3. Ahead(W, j) < L /\ Ahead(W, j) < Ahead(W, i)
      BY <1>1, <1>5, <3>1, <3>2
    <3>4. j < i
      <4>1. ~ (i < j) /\ i # j
        BY <1>1, <3>3
      <4> QED BY <1>2, <4>1
    <3>5. j \in D
      BY <3>3, <3>4
    <3>6. f[j] = x
      BY <3>1, <3>2, <3>5
    <3> QED BY <3>5, <3>6
  <2>2. f \in [D -> 1..L]
    <3>1. \A j \in D : Ahead(W, j) + 1 \in 1..L
      BY <1>1
    <3> HIDE DEF D
    <3> QED BY <3>1
  <2>3. IsFiniteSet(D) /\ Cardinality(D) \in Nat
    BY <1>1, FS_Subset, FS_CardinalityType
  <2>4. Cardinality(1..L) = L
    BY FS_Interval
  <2> HIDE DEF D, f
  <2>5. f \in Surjection(D, 1..L)
    BY <2>1, <2>2 DEF Surjection
  <2>6. L <= Cardinality(D)
    BY <2>3, <2>4, <2>5, FS_Surjection
  <2> QED BY <1>5, <1>3, <2>3, <2>6 DEF D
<1> QED BY <1>4, <1>5

\* The steps of the walk that find the value, and those that take it out.
Found(l, count, v) == {i \in 1..Len(l) : l[Place(Len(l), count, i)] = v}

Taken(l, count, v) ==
    {j \in Found(l, count, v) : count = 0 \/ Ahead(Found(l, count, v), j) < Limit(count)}

LEMMA HitsAre ==
    ASSUME NEW T, NEW l \in Seq(T), NEW count \in Int, NEW v
    PROVE  Hits(l, count, v) = Placed(Len(l), count, Taken(l, count, v))
<1> DEFINE n == Len(l)
           W == Found(l, count, v)
           L == Limit(count)
           G == Taken(l, count, v)
           D(i) == {j \in G : j <= i}
           g == [i \in 0..n |-> Placed(n, count, D(i))]
           Step(i, x) == IF l[Place(n, count, i)] = v /\ (L = 0 \/ Cardinality(x) < L)
                         THEN x \cup {Place(n, count, i)} ELSE x
           Follow(h) == h = [i \in 0..n |-> IF i = 0 THEN {} ELSE Step(i, h[i - 1])]
           h == CHOOSE h : Follow(h)
<1>1. Hits(l, count, v) = h[n]
  BY DEF Hits, Place, Limit
<1>2. n \in Nat /\ W \in SUBSET (1..n) /\ L \in Nat /\ (L = 0 <=> count = 0)
  BY PlaceIs DEF Limit, Found
<1>3. /\ G \subseteq W
      /\ \A j \in W : j \in G <=> count = 0 \/ Ahead(W, j) < L
  BY DEF Taken
<1>4. \A i \in 1..n : i \in W <=> l[Place(n, count, i)] = v
  BY DEF Found
<1> HIDE DEF n, W, L, h, G
<1>5. \A j \in G : j \in Int /\ 1 <= j /\ j <= n
  BY <1>2, <1>3
<1>6. ASSUME NEW i \in 1..n
      PROVE  g[i] = Step(i, g[i - 1])
  <2>1. i \in 0..n /\ i - 1 \in 0..n /\ i \in Int
    BY <1>2
  <2>2. /\ D(i - 1) \in SUBSET (1..n)
        /\ count # 0 => D(i - 1) = FirstBefore(W, L, i)
    <3>1. \A j \in G : j <= i - 1 <=> j < i
      BY <1>5, <2>1
    <3>2. D(i - 1) = {j \in G : j < i}
      BY <3>1
    <3>3. D(i - 1) \in SUBSET (1..n)
      BY <1>2, <1>3
    <3> HIDE DEF D
    <3>4. count # 0 => D(i - 1) = FirstBefore(W, L, i)
      BY <1>3, <3>2 DEF FirstBefore
    <3> QED BY <3>3, <3>4
  <2> DEFINE C == D(i - 1)
  <2>3. g[i - 1] = Placed(n, count, C)
    BY <2>1
  <2>4. D(i) = IF i \in G THEN C \cup {i} ELSE C
    <3>1. \A j \in G : j <= i <=> j <= i - 1 \/ j = i
      BY <1>5, <2>1
    <3> QED BY <3>1
  <2>5. g[i] = Placed(n, count, IF i \in G THEN C \cup {i} ELSE C)
    BY <2>1, <2>4
  <2> HIDE DEF g, C, D
  <2>6. Cardinality(g[i - 1]) = Cardinality(C)
    BY <1>2, <2>2, <2>3, PlacesCount DEF C
  <2>7. i \in G <=> i \in W /\ (L = 0 \/ Cardinality(C) < L)
    <3>1. CASE count = 0
      BY <1>2, <1>3, <3>1
    <3>2. CASE i \notin W
      BY <1>3, <3>2
    <3>3. CASE count # 0 /\ i \in W
      <4>1. Cardinality(C) < L <=> Ahead(W, i) < L
        BY <1>2, <2>2, <3>3, FirstOnes DEF C
      <4> QED BY <1>2, <1>3, <3>3, <4>1
    <3> QED BY <3>1, <3>2, <3>3
  <2>8. g[i] = IF i \in G THEN g[i - 1] \cup {Place(n, count, i)} ELSE g[i - 1]
    BY <2>3, <2>5 DEF Placed
  <2> QED BY <1>4, <2>6, <2>7, <2>8
<1>7. g[0] = {}
  <2>1. D(0) = {} /\ 0 \in 0..n
    BY <1>2, <1>5
  <2> QED BY <2>1 DEF Placed
<1>8. \A i \in 0..n : i = 0 \/ (i \in 1..n /\ i - 1 \in 0..n)
  BY <1>2
<1>9. g = [i \in 0..n |-> g[i]]
  OBVIOUS
<1>10. n \in 0..n /\ g[n] = Placed(n, count, G)
  <2>1. D(n) = G /\ n \in 0..n
    BY <1>2, <1>5
  <2> QED BY <2>1
<1> HIDE DEF g, Step
<1>11. Follow(g)
  <2>1. \A i \in 0..n : g[i] = IF i = 0 THEN {} ELSE Step(i, g[i - 1])
    BY <1>6, <1>7, <1>8
  <2> QED BY <1>9, <2>1
<1>12. Follow(h)
  BY <1>11 DEF h
<1>13. \A i \in 0..n : h[i] = IF i = 0 THEN {} ELSE Step(i, h[i - 1])
  BY <1>12
<1> HIDE DEF Follow
<1> DEFINE E == {i \in 0..n : h[i] = g[i]}
<1>14. 0 \in E
  <2>1. 0 \in 0..n
    BY <1>2
  <2> QED BY <1>7, <1>13, <2>1
<1>15. ASSUME NEW i \in 1..n, i - 1 \in E
       PROVE  i \in E
  <2>1. i \in 0..n /\ i # 0
    BY <1>2
  <2>2. h[i] = Step(i, h[i - 1]) /\ h[i - 1] = g[i - 1]
    BY <1>13, <1>15, <2>1
  <2> QED BY <1>6, <2>1, <2>2
<1> HIDE DEF E
<1>16. \A i \in 0..n : i \in E
  BY <1>2, <1>14, <1>15, UpTo
<1> QED BY <1>1, <1>10, <1>16 DEF E, n, G

\* What the abstract store takes out.
Gone(l, count, v) ==
    LET hits == {i \in DOMAIN l : l[i] = v}
    IN  {i \in hits :
            LET sooner == {j \in hits : IF count > 0 THEN j < i ELSE j > i}
            IN  count = 0 \/ Cardinality(sooner) < (IF count < 0 THEN -count ELSE count)}

LEMMA HitsAreGone ==
    ASSUME NEW T, NEW l \in Seq(T), NEW count \in Int, NEW v
    PROVE  /\ Hits(l, count, v) = Gone(l, count, v)
           /\ Hits(l, count, v) \in SUBSET (DOMAIN l)
<1> DEFINE n == Len(l)
           W == Found(l, count, v)
           hits == {i \in DOMAIN l : l[i] = v}
           Sooner(i) == {j \in hits : IF count > 0 THEN j < i ELSE j > i}
           P(i) == Place(n, count, i)
<1>1. n \in Nat /\ DOMAIN l = 1..n
  OBVIOUS
<1>2. /\ \A i \in 1..n : P(i) \in 1..n
      /\ \A i \in 1..n : P(P(i)) = i
  BY <1>1, PlaceIs
<1>3. \A i \in 1..n : P(i) \in W <=> i \in hits
  BY <1>1, <1>2 DEF Found
<1>4. W \in SUBSET (1..n) /\ hits \in SUBSET (1..n)
  BY <1>1 DEF Found
<1>5. ASSUME NEW i \in 1..n, count # 0
      PROVE  Ahead(W, P(i)) = Cardinality(Sooner(i))
  <2> DEFINE X == {q \in W : q < P(i)}
  <2>1. \A j \in 1..n : P(j) < P(i) <=> IF count > 0 THEN j < i ELSE j > i
    BY <1>1, <1>5 DEF Place
  <2>2. Placed(n, count, X) = {P(q) : q \in X}
    BY DEF Placed
  <2>3. {P(q) : q \in X} = Sooner(i)
    <3>1. ASSUME NEW q \in X PROVE P(q) \in Sooner(i)
      <4>1. q \in 1..n /\ P(q) \in 1..n /\ P(P(q)) = q
        BY <1>2, <1>4
      <4>2. P(q) \in hits /\ P(P(q)) < P(i)
        BY <1>3, <4>1
      <4> HIDE DEF P, hits
      <4>3. IF count > 0 THEN P(q) < i ELSE P(q) > i
        BY <2>1, <4>1, <4>2
      <4> QED BY <4>2, <4>3
    <3>2. ASSUME NEW j \in Sooner(i) PROVE \E q \in X : P(q) = j
      <4>1. j \in 1..n /\ P(j) \in 1..n /\ P(P(j)) = j /\ P(j) \in W
        BY <1>1, <1>2, <1>3
      <4>2. P(j) < P(i)
        BY <2>1, <4>1
      <4> HIDE DEF P
      <4> QED BY <4>1, <4>2
    <3> HIDE DEF P, X, Sooner
    <3> QED BY <3>1, <3>2
  <2>4. X \in SUBSET (1..n)
    BY <1>4
  <2>5. Ahead(W, P(i)) = Cardinality(X)
    BY DEF Ahead
  <2> HIDE DEF X, Sooner
  <2>6. Cardinality(Placed(n, count, X)) = Cardinality(X)
    BY <1>1, <2>4, PlacesCount
  <2> QED BY <2>2, <2>3, <2>5, <2>6
<1>6. \A i \in 1..n : P(i) \in Taken(l, count, v) <=> i \in Gone(l, count, v)
  <2> TAKE i \in 1..n
  <2>1. P(i) \in Taken(l, count, v) <=> P(i) \in W /\ (count = 0 \/ Ahead(W, P(i)) < Limit(count))
    BY DEF Taken
  <2>2. i \in Gone(l, count, v) <=> i \in hits /\ (count = 0 \/ Cardinality(Sooner(i)) < Limit(count))
    BY DEF Gone, Limit
  <2> HIDE DEF W, hits, Sooner, P
  <2> QED BY <1>3, <1>5, <2>1, <2>2
<1>7. Hits(l, count, v) = {P(i) : i \in Taken(l, count, v)}
  BY HitsAre DEF Placed
<1>8. Taken(l, count, v) \subseteq 1..n /\ Gone(l, count, v) \subseteq 1..n
  BY <1>1, <1>4 DEF Taken, Gone
<1> HIDE DEF P
<1> QED BY <1>1, <1>2, <1>6, <1>7, <1>8

-----------------------------------------------------------------------------
(* Sorted sets: arrays with distinct members.                               *)

AnyScore == {NaN} \cup Int

ZNodes == [member : Members, score : AnyScore]

Arrays == {a \in Seq(ZNodes) :
              \A i \in DOMAIN a, j \in DOMAIN a : a[i].member = a[j].member => i = j}

Named(a) == {z.member : z \in Range(a)}

LEMMA ArrayIs ==
    ASSUME NEW a \in Arrays
    PROVE  /\ a \in Seq(ZNodes) /\ Len(a) \in Nat /\ DOMAIN a = 1..Len(a)
           /\ Range(a) = {a[i] : i \in 1..Len(a)} /\ Range(a) \subseteq ZNodes
           /\ Named(a) = {a[i].member : i \in 1..Len(a)} /\ Named(a) \subseteq Members
           /\ \A x \in Range(a), y \in Range(a) : x.member = y.member => x = y
           /\ IsFiniteSet(Named(a)) /\ Cardinality(Named(a)) = Len(a)
           /\ MembersOf(ZSetOf(a)) = Named(a)
<1> DEFINE n == Len(a)
<1>1. a \in Seq(ZNodes) /\ n \in Nat /\ DOMAIN a = 1..n
  BY DEF Arrays
<1>2. Range(a) = {a[i] : i \in 1..n} /\ Range(a) \subseteq ZNodes
  BY <1>1 DEF Range
<1>3. Named(a) = {a[i].member : i \in 1..n} /\ Named(a) \subseteq Members
  BY <1>2 DEF Named, ZNodes
<1>4. \A i \in 1..n, j \in 1..n : a[i].member = a[j].member => i = j
  BY <1>1 DEF Arrays
<1>5. \A x \in Range(a), y \in Range(a) : x.member = y.member => x = y
  BY <1>2, <1>4
<1>6. IsFiniteSet(Named(a)) /\ Cardinality(Named(a)) = n
  <2> DEFINE f == [i \in 1..n |-> a[i].member]
  <2>1. f \in [1..n -> Named(a)] /\ \A m \in Named(a) : \E i \in 1..n : f[i] = m
    BY <1>3
  <2>2. \A i \in 1..n, j \in 1..n : f[i] = f[j] => i = j
    BY <1>4
  <2> HIDE DEF f, n
  <2>3. IsFiniteSet(1..n) /\ Cardinality(1..n) = n
    BY <1>1, FS_Interval
  <2>4. f \in Bijection(1..n, Named(a))
    BY <2>1, <2>2 DEF Bijection, Injection, Surjection, IsInjective
  <2> QED BY <2>3, <2>4, FS_Bijection DEF ExistsBijection
<1>7. MembersOf(ZSetOf(a)) = Named(a)
  BY DEF MembersOf, ZSetOf, Named
<1> QED BY <1>1, <1>2, <1>3, <1>5, <1>6, <1>7

LEMMA InsertIs ==
    ASSUME NEW T, NEW s \in Seq(T), NEW pos \in 1..(Len(s) + 1), NEW x \in T
    PROVE  LET t == InsertAt(s, pos, x)
           IN  /\ t \in Seq(T)
               /\ Len(t) = Len(s) + 1
               /\ \A i \in 1..(Len(s) + 1) :
                     t[i] = IF i < pos THEN s[i] ELSE IF i = pos THEN x ELSE s[i - 1]
               /\ Range(t) = Range(s) \cup {x}
<1> DEFINE n == Len(s)
           u == SubSeq(s, 1, pos - 1)
           w == SubSeq(s, pos, n)
           y == <<x>>
           ux == u \o y
           t == InsertAt(s, pos, x)
<1>1. n \in Nat /\ pos \in Int /\ pos >= 1 /\ pos <= n + 1 /\ DOMAIN s = 1..n
      /\ \A i \in 1..n : s[i] \in T
  OBVIOUS
<1>2. u \in Seq(T) /\ Len(u) = pos - 1 /\ \A i \in 1..(pos - 1) : u[i] = s[i]
  <2>1. \A i \in 1..(pos - 1) : s[i] \in T
    BY <1>1
  <2>2. /\ u \in Seq(T) /\ Len(u) = IF 1 <= pos - 1 THEN (pos - 1) - 1 + 1 ELSE 0
        /\ \A i \in 1..((pos - 1) - 1 + 1) : u[i] = s[1 + i - 1]
    BY <1>1, <2>1, SubSeqProperties
  <2> HIDE DEF u
  <2> QED BY <1>1, <2>2
<1>3. w \in Seq(T) /\ Len(w) = n - pos + 1 /\ \A i \in 1..(n - pos + 1) : w[i] = s[pos + i - 1]
  <2>1. \A i \in pos..n : s[i] \in T
    BY <1>1
  <2>2. /\ w \in Seq(T) /\ Len(w) = IF pos <= n THEN n - pos + 1 ELSE 0
        /\ \A i \in 1..(n - pos + 1) : w[i] = s[pos + i - 1]
    BY <1>1, <2>1, SubSeqProperties
  <2> HIDE DEF w
  <2> QED BY <1>1, <2>2
<1>4. t = ux \o w
  BY DEF InsertAt
<1>5. y \in Seq(T) /\ Len(y) = 1 /\ y[1] = x
  OBVIOUS
<1> HIDE DEF u, w, t, n, y
<1>6. /\ ux \in Seq(T) /\ Len(ux) = pos
      /\ \A i \in 1..pos : ux[i] = IF i < pos THEN s[i] ELSE x
  <2>1. /\ ux \in Seq(T) /\ Len(ux) = Len(u) + Len(y)
        /\ \A i \in 1..(Len(u) + Len(y)) : ux[i] = IF i <= Len(u) THEN u[i] ELSE y[i - Len(u)]
    BY <1>2, <1>5, ConcatProperties
  <2> HIDE DEF ux
  <2> QED BY <1>1, <1>2, <1>5, <2>1
<1> HIDE DEF ux
<1>7. t \in Seq(T) /\ Len(t) = n + 1
      /\ \A i \in 1..(n + 1) : t[i] = IF i < pos THEN s[i] ELSE IF i = pos THEN x ELSE s[i - 1]
  <2>1. /\ t \in Seq(T) /\ Len(t) = Len(ux) + Len(w)
        /\ \A i \in 1..(Len(ux) + Len(w)) : t[i] = IF i <= Len(ux) THEN ux[i] ELSE w[i - Len(ux)]
    BY <1>3, <1>4, <1>6, ConcatProperties
  <2>2. Len(t) = n + 1
    BY <1>1, <1>3, <1>6, <2>1
  <2>3. ASSUME NEW i \in 1..(n + 1)
        PROVE  t[i] = IF i < pos THEN s[i] ELSE IF i = pos THEN x ELSE s[i - 1]
    <3>1. t[i] = IF i <= pos THEN ux[i] ELSE w[i - pos]
      BY <1>1, <1>3, <1>6, <2>1
    <3>2. CASE i <= pos
      <4>1. i \in 1..pos
        BY <1>1, <3>2
      <4> QED BY <1>1, <1>6, <3>1, <3>2, <4>1
    <3>3. CASE i > pos
      <4>1. i - pos \in 1..(n - pos + 1) /\ pos + (i - pos) - 1 = i - 1 /\ ~(i <= pos)
        BY <1>1, <3>3
      <4>2. t[i] = s[i - 1]
        BY <1>3, <3>1, <4>1
      <4> QED BY <1>1, <3>3, <4>2
    <3> QED BY <1>1, <3>2, <3>3
  <2> QED BY <2>1, <2>2, <2>3
<1>8. Range(t) = Range(s) \cup {x}
  <2>1. Range(t) = {t[i] : i \in 1..(n + 1)} /\ Range(s) = {s[i] : i \in 1..n}
    <3>1. DOMAIN t = 1..(n + 1)
      BY <1>7
    <3> QED BY <1>1, <3>1 DEF Range
  <2>2. \A i \in 1..(n + 1) : t[i] = x \/ \E j \in 1..n : t[i] = s[j]
    <3> TAKE i \in 1..(n + 1)
    <3>1. CASE i < pos
      BY <1>1, <1>7, <3>1
    <3>2. CASE i = pos
      BY <1>1, <1>7, <3>2
    <3>3. CASE i > pos
      <4>1. i - 1 \in 1..n /\ t[i] = s[i - 1]
        BY <1>1, <1>7, <3>3
      <4> QED BY <4>1
    <3> QED BY <1>1, <3>1, <3>2, <3>3
  <2>3. \A j \in 1..n : \E i \in 1..(n + 1) : t[i] = s[j]
    <3> TAKE j \in 1..n
    <3>1. CASE j < pos
      <4>1. j \in 1..(n + 1) /\ t[j] = s[j]
        BY <1>1, <1>7, <3>1
      <4> QED BY <4>1
    <3>2. CASE j >= pos
      <4>1. j + 1 \in 1..(n + 1) /\ t[j + 1] = s[j]
        <5>1. j + 1 \in 1..(n + 1) /\ ~(j + 1 < pos) /\ j + 1 # pos /\ (j + 1) - 1 = j
          BY <1>1, <3>2
        <5> QED BY <1>7, <5>1
      <4> QED BY <4>1
    <3> QED BY <1>1, <3>1, <3>2
  <2>4. \E i \in 1..(n + 1) : t[i] = x
    <3>1. pos \in 1..(n + 1) /\ t[pos] = x
      BY <1>1, <1>7
    <3> QED BY <3>1
  <2> QED BY <2>1, <2>2, <2>3, <2>4
<1> QED BY <1>7, <1>8 DEF t, n

\* Scores that are numbers, in the order of the array.
PlainNodes == [member : Members, score : Int]

InOrder(a) ==
    /\ a \in Seq(PlainNodes)
    /\ \A i \in DOMAIN a, j \in DOMAIN a : i < j => Before(a[i], a[j])

LEMMA BeforeOrders ==
    ASSUME NEW x \in PlainNodes, NEW y \in PlainNodes
    PROVE  /\ ~ (Before(x, y) /\ Before(y, x))
           /\ x.member # y.member => Before(x, y) \/ Before(y, x)
           /\ \A z \in PlainNodes : Before(x, y) /\ Before(y, z) => Before(x, z)
<1>1. \A z \in PlainNodes : z.score \in Int /\ z.score # NaN /\ z.member \in Members
  BY ObjectsAssumption DEF PlainNodes
<1>2. \A m \in Members : Rank[m] \in Int
  BY ObjectsAssumption
<1>3. \A m, z \in Members : Rank[m] = Rank[z] => m = z
  BY ObjectsAssumption
<1>4. \A u, w \in PlainNodes :
         Before(u, w) <=> u.score < w.score \/ (u.score = w.score /\ Rank[u.member] < Rank[w.member])
  BY <1>1 DEF Before, Lower
<1>5. \A z \in PlainNodes : Rank[z.member] \in Int
  BY <1>1, <1>2
<1>6. ~ (Before(x, y) /\ Before(y, x))
  BY <1>1, <1>4, <1>5
<1>7. x.member # y.member => Before(x, y) \/ Before(y, x)
  BY <1>1, <1>3, <1>4, <1>5
<1>8. \A z \in PlainNodes : Before(x, y) /\ Before(y, z) => Before(x, z)
  BY <1>1, <1>4, <1>5
<1> QED BY <1>6, <1>7, <1>8

LEMMA PlainNode ==
    ASSUME NEW x \in ZNodes
    PROVE  x \in PlainNodes <=> x.score # NaN
BY ObjectsAssumption DEF ZNodes, PlainNodes, AnyScore

LEMMA OthersIs ==
    ASSUME NEW a \in Arrays, NEW ms
    PROVE  LET b == Others(a, ms)
           IN  /\ b \in Arrays
               /\ Range(b) = {z \in Range(a) : z.member \notin ms}
               /\ Named(b) = Named(a) \ ms
               /\ InOrder(a) => InOrder(b)
<1> DEFINE P == {i \in DOMAIN a : a[i].member \notin ms}
           c == Cardinality(P)
           b == Others(a, ms)
<1>1. /\ a \in Seq(ZNodes) /\ Len(a) \in Nat /\ DOMAIN a = 1..Len(a)
      /\ \A i \in DOMAIN a, j \in DOMAIN a : a[i].member = a[j].member => i = j
  BY DEF Arrays
<1>2. P \in SUBSET (DOMAIN a) /\ P \in SUBSET (1..Len(a))
  BY <1>1
<1>3. b = Picked(a, P)
  BY DEF Others
<1>4. \A p \in P : p \in DOMAIN a /\ p \in Nat
  BY <1>1
<1> HIDE DEF b, P
<1>5. /\ b \in Seq(ZNodes) /\ Len(b) = c
      /\ \A i \in 1..c : \E p \in P : Ahead(P, p) = i - 1 /\ b[i] = a[p]
  BY <1>1, <1>2, <1>3, PickedIs
<1>6. Range(b) = {a[p] : p \in P}
  BY <1>1, <1>2, <1>3, PickedRange
<1>7. /\ c \in Nat
      /\ \A p \in P : Ahead(P, p) \in Nat /\ Ahead(P, p) + 1 \in 1..c
      /\ \A p \in P, q \in P : p < q => Ahead(P, p) < Ahead(P, q)
  BY <1>1, <1>2, PlaceOrder
<1>8. Range(b) = {z \in Range(a) : z.member \notin ms}
  BY <1>6 DEF Range, P
<1> HIDE DEF c
<1>9. DOMAIN b = 1..c
  BY <1>5
<1>10. b \in Arrays
  <2>1. ASSUME NEW i \in DOMAIN b, NEW j \in DOMAIN b, b[i].member = b[j].member
        PROVE  i = j
    <3>1. PICK p \in P : Ahead(P, p) = i - 1 /\ b[i] = a[p]
      BY <1>5, <1>9
    <3>2. PICK q \in P : Ahead(P, q) = j - 1 /\ b[j] = a[q]
      BY <1>5, <1>9
    <3>3. p = q
      BY <1>1, <1>4, <2>1, <3>1, <3>2
    <3> QED BY <1>9, <3>1, <3>2, <3>3
  <2> QED BY <1>5, <2>1 DEF Arrays
<1>11. Named(b) = Named(a) \ ms
  BY <1>8 DEF Named
<1>12. ASSUME InOrder(a) PROVE InOrder(b)
  <2>1. b \in Seq(PlainNodes)
    <3>1. \A p \in P : a[p] \in PlainNodes
      BY <1>1, <1>4, <1>12 DEF InOrder
    <3>2. \A i \in 1..c : b[i] \in PlainNodes
      BY <1>5, <3>1
    <3>3. b = [i \in 1..c |-> b[i]]
      BY <1>5, <1>9
    <3>4. b \in [1..c -> PlainNodes]
      BY <3>2, <3>3
    <3> QED BY <1>7, <3>4
  <2>2. ASSUME NEW i \in DOMAIN b, NEW j \in DOMAIN b, i < j
        PROVE  Before(b[i], b[j])
    <3>1. PICK p \in P : Ahead(P, p) = i - 1 /\ b[i] = a[p]
      BY <1>5, <1>9
    <3>2. PICK q \in P : Ahead(P, q) = j - 1 /\ b[j] = a[q]
      BY <1>5, <1>9
    <3>3. p < q
      <4>1. ~ (q < p) /\ p # q
        BY <1>7, <1>9, <2>2, <3>1, <3>2
      <4> QED BY <1>4, <4>1
    <3> QED BY <1>4, <1>12, <3>1, <3>2, <3>3 DEF InOrder
  <2> QED BY <2>1, <2>2 DEF InOrder
<1> QED BY <1>8, <1>10, <1>11, <1>12 DEF b

Scored(m, v) == [member |-> m, score |-> v]

\* Array b is array a with member m at score v.
Puts(a, b, m, v) == Range(b) = {z \in Range(a) : z.member # m} \cup {Scored(m, v)}

LEMMA ZAddOneIs ==
    ASSUME NEW a \in Arrays, NEW m \in Members, NEW v \in AnyScore
    PROVE  \E b \in Arrays :
              /\ ZAddOne(ZSetOf(a), <<m, v>>) = ZSetOf(b)
              /\ Puts(a, b, m, v)
              /\ InOrder(a) /\ v \in Int => InOrder(b)
<1> DEFINE r == Others(a, {m})
           new == Scored(m, v)
           Q == {i \in DOMAIN r : \A j \in 1..i : Before(r[j], new)}
           k == Cardinality(Q)
           pos == k + 1
           b == InsertAt(r, pos, new)
           n == Len(r)
           At(i) == IF i < pos THEN i ELSE i - 1
<1>1. /\ r \in Arrays
      /\ Range(r) = {z \in Range(a) : z.member # m}
      /\ InOrder(a) => InOrder(r)
  <2>1. /\ r \in Arrays
        /\ Range(r) = {z \in Range(a) : z.member \notin {m}}
        /\ InOrder(a) => InOrder(r)
    BY OthersIs
  <2>2. \A z : z.member \notin {m} <=> z.member # m
    OBVIOUS
  <2> HIDE DEF r
  <2> QED BY <2>1, <2>2
<1>2. ZAddOne(ZSetOf(a), <<m, v>>) = ZSetOf(b)
  BY DEF ZAddOne, Scored, ZSetOf
<1>3. /\ new \in ZNodes /\ new.member = m
      /\ v \in Int => new \in PlainNodes
  BY DEF Scored, ZNodes, PlainNodes
<1> HIDE DEF r, new
<1>4. /\ r \in Seq(ZNodes) /\ n \in Nat /\ DOMAIN r = 1..n
      /\ \A i \in 1..n, j \in 1..n : r[i].member = r[j].member => i = j
      /\ \A i \in 1..n : r[i] \in Range(r)
  BY <1>1 DEF Arrays, Range
<1>5. Q \in SUBSET (1..n) /\ k \in Nat /\ k <= n /\ IsFiniteSet(Q)
  <2>1. Q \in SUBSET (1..n)
    BY <1>4
  <2> HIDE DEF Q
  <2> QED BY <1>4, <2>1, PlaceOrder
<1>6. pos \in 1..(n + 1) /\ pos \in Int
  BY <1>4, <1>5
<1> HIDE DEF b, n, k, pos
<1>7. /\ b \in Seq(ZNodes)
      /\ Len(b) = n + 1
      /\ \A i \in 1..(n + 1) :
            b[i] = IF i < pos THEN r[i] ELSE IF i = pos THEN new ELSE r[i - 1]
      /\ Range(b) = Range(r) \cup {new}
  <2>1. new \in ZNodes /\ r \in Seq(ZNodes) /\ pos \in 1..(Len(r) + 1)
    BY <1>3, <1>4, <1>6 DEF n
  <2> QED BY <2>1, InsertIs DEF b, n
<1>8. DOMAIN b = 1..(n + 1)
  BY <1>4, <1>7
<1>9. \A i \in 1..(n + 1) : i # pos => At(i) \in 1..n /\ b[i] = r[At(i)]
  BY <1>4, <1>6, <1>7
<1>10. b[pos] = new
  BY <1>6, <1>7
<1>11. \A i \in 1..n : r[i].member # m
  BY <1>1, <1>4
<1>12. \A i \in 1..(n + 1), j \in 1..(n + 1) :
          i # pos /\ j # pos => (At(i) = At(j) => i = j) /\ (i < j => At(i) < At(j))
  BY <1>4, <1>6
<1> HIDE DEF At
<1>13. b \in Arrays
  <2>1. ASSUME NEW i \in DOMAIN b, NEW j \in DOMAIN b, b[i].member = b[j].member
        PROVE  i = j
    <3>1. CASE i = pos /\ j = pos
      BY <3>1
    <3>2. CASE i # pos /\ j # pos
      BY <1>4, <1>8, <1>9, <1>12, <2>1, <3>2
    <3>3. CASE i = pos /\ j # pos
      BY <1>3, <1>8, <1>9, <1>10, <1>11, <2>1, <3>3
    <3>4. CASE i # pos /\ j = pos
      BY <1>3, <1>8, <1>9, <1>10, <1>11, <2>1, <3>4
    <3> QED BY <3>1, <3>2, <3>3, <3>4
  <2> QED BY <1>7, <2>1 DEF Arrays
<1>14. ASSUME InOrder(a), v \in Int
       PROVE  InOrder(b)
  <2>1. /\ r \in Seq(PlainNodes) /\ new \in PlainNodes
        /\ \A i \in 1..n : r[i] \in PlainNodes
        /\ \A i \in 1..n, j \in 1..n : i < j => Before(r[i], r[j])
    BY <1>1, <1>3, <1>4, <1>14 DEF InOrder
  <2>2. \A i \in Q : i \in 1..k
    <3> TAKE i \in Q
    <3>1. i \in 1..n /\ \A j \in 1..i : Before(r[j], new)
      BY <1>4
    <3>2. 1..i \in SUBSET Q
      <4>1. \A j \in 1..i : j \in DOMAIN r /\ \A h \in 1..j : h \in 1..i
        BY <1>4, <3>1
      <4> QED BY <3>1, <4>1
    <3>3. Cardinality(1..i) = i
      BY <1>4, <3>1, FS_Interval
    <3> HIDE DEF Q
    <3>4. i <= k
      BY <1>5, <3>2, <3>3, FS_Subset DEF k
    <3> QED BY <1>4, <1>5, <3>1, <3>4
  <2>3. Q = 1..k
    <3>1. IsFiniteSet(1..k) /\ Cardinality(1..k) = k
      BY <1>5, FS_Interval
    <3>2. Q \in SUBSET (1..k)
      BY <2>2
    <3> HIDE DEF Q
    <3> QED BY <3>1, <3>2, FS_Subset DEF k
  <2>4. \A i \in 1..n : i < pos => Before(r[i], new)
    <3> TAKE i \in 1..n
    <3> SUFFICES ASSUME i < pos PROVE Before(r[i], new)
      OBVIOUS
    <3>1. i \in 1..k
      BY <1>4, <1>5 DEF pos
    <3>2. i \in 1..i
      BY <1>4
    <3>3. i \in Q
      <4> HIDE DEF Q
      <4> QED BY <2>3, <3>1
    <3> QED BY <3>2, <3>3
  <2>5. pos \in 1..n => Before(new, r[pos])
    <3> SUFFICES ASSUME pos \in 1..n PROVE Before(new, r[pos])
      OBVIOUS
    <3>1. pos \notin Q
      BY <1>5, <2>3 DEF pos
    <3>2. PICK j \in 1..pos : ~ Before(r[j], new)
      BY <1>4, <3>1
    <3>3. j = pos
      BY <1>4, <1>6, <2>4, <3>2
    <3>4. ~ Before(r[pos], new)
      BY <3>2, <3>3
    <3>5. r[pos].member # new.member /\ r[pos] \in PlainNodes
      BY <1>3, <1>11, <2>1
    <3> QED BY <2>1, <3>4, <3>5, BeforeOrders
  <2>6. \A i \in 1..n : pos <= i => Before(new, r[i])
    <3> TAKE i \in 1..n
    <3> SUFFICES ASSUME pos <= i PROVE Before(new, r[i])
      OBVIOUS
    <3>1. pos \in 1..n /\ Before(new, r[pos]) /\ r[pos] \in PlainNodes
      BY <1>4, <1>6, <2>1, <2>5
    <3>2. CASE pos = i
      BY <3>1, <3>2
    <3>3. CASE pos # i
      <4>1. Before(r[pos], r[i])
        BY <1>4, <2>1, <3>1, <3>3
      <4> QED BY <2>1, <3>1, <4>1, BeforeOrders
    <3> QED BY <3>2, <3>3
  <2>7. ASSUME NEW i \in DOMAIN b, NEW j \in DOMAIN b, i < j
        PROVE  Before(b[i], b[j])
    <3>0. i \in 1..(n + 1) /\ j \in 1..(n + 1) /\ i \in Int /\ j \in Int
      BY <1>4, <1>8
    <3>1. CASE i # pos /\ j # pos
      BY <1>9, <1>12, <2>1, <2>7, <3>0, <3>1
    <3>2. CASE i = pos
      <4>1. j # pos /\ At(j) \in 1..n /\ pos <= At(j)
        BY <1>6, <1>9, <2>7, <3>0, <3>2 DEF At
      <4> QED BY <1>9, <1>10, <2>6, <3>0, <3>2, <4>1
    <3>3. CASE j = pos
      <4>1. i # pos /\ At(i) \in 1..n /\ At(i) < pos
        BY <1>6, <1>9, <2>7, <3>0, <3>3 DEF At
      <4> QED BY <1>9, <1>10, <2>4, <3>0, <3>3, <4>1
    <3> QED BY <3>1, <3>2, <3>3
  <2>8. b \in Seq(PlainNodes)
    <3>1. \A i \in 1..(n + 1) : b[i] \in PlainNodes
      BY <1>9, <1>10, <2>1
    <3>2. b = [i \in 1..(n + 1) |-> b[i]]
      BY <1>7, <1>8
    <3>3. b \in [1..(n + 1) -> PlainNodes]
      BY <3>1, <3>2
    <3> QED BY <1>4, <3>3
  <2> QED BY <2>7, <2>8 DEF InOrder
<1> QED BY <1>1, <1>2, <1>7, <1>13, <1>14 DEF new, Puts

-----------------------------------------------------------------------------
(* The functions that hashes and sorted sets stand for.                     *)

\* g with v at x.
At(g, x, v) == [y \in DOMAIN g \cup {x} |-> IF y = x THEN v ELSE g[y]]

\* f goes by all the pairs, one by one, to the last value of g.
Updates(f, pairs, N, g) ==
    /\ N = Len(pairs)
    /\ g = [i \in 0..N |-> g[i]]
    /\ g[0] = f
    /\ \A i \in 1..N : g[i] = At(g[i - 1], pairs[i][1], pairs[i][2])

LEMMA UpdatedIs ==
    ASSUME NEW f, NEW pairs, NEW N \in Nat, NEW g, Updates(f, pairs, N, g)
    PROVE  Store!Updated(f, pairs) = g[N]
<1> DEFINE Follow(h) == h = [i \in 0..N |-> IF i = 0 THEN f
                                            ELSE At(h[i - 1], pairs[i][1], pairs[i][2])]
           h == CHOOSE h : Follow(h)
<1>1. Store!Updated(f, pairs) = h[N]
  BY DEF Store!Updated, At, Updates
<1> HIDE DEF h
<1>2. \A i \in 0..N : i = 0 \/ i \in 1..N
  OBVIOUS
<1>3. Follow(g)
  <2>1. \A i \in 0..N : g[i] = IF i = 0 THEN f ELSE At(g[i - 1], pairs[i][1], pairs[i][2])
    BY <1>2 DEF Updates
  <2> QED BY <2>1 DEF Updates
<1>4. Follow(h)
  BY <1>3 DEF h
<1>5. \A i \in 0..N : h[i] = IF i = 0 THEN f ELSE At(h[i - 1], pairs[i][1], pairs[i][2])
  BY <1>4
<1> HIDE DEF Follow
<1> DEFINE E == {i \in 0..N : h[i] = g[i]}
<1>6. 0 \in E
  <2>1. 0 \in 0..N
    OBVIOUS
  <2> QED BY <1>5, <2>1 DEF Updates
<1>7. ASSUME NEW i \in 1..N, i - 1 \in E
      PROVE  i \in E
  <2>1. i \in 0..N /\ i # 0
    OBVIOUS
  <2>2. h[i] = At(h[i - 1], pairs[i][1], pairs[i][2]) /\ h[i - 1] = g[i - 1]
    BY <1>5, <1>7, <2>1
  <2>3. h[i] = g[i]
    BY <2>2 DEF Updates
  <2> QED BY <2>1, <2>3
<1> HIDE DEF E
<1>8. \A i \in 0..N : i \in E
  BY <1>6, <1>7, UpTo
<1>9. N \in 0..N
  OBVIOUS
<1> QED BY <1>1, <1>8, <1>9 DEF E

MapOf(S) == [f \in {r.field : r \in S} |-> (CHOOSE r \in S : r.field = f).val]

LEMMA MapIs ==
    ASSUME NEW S \in Keyed
    PROVE  /\ DOMAIN MapOf(S) = {r.field : r \in S} /\ DOMAIN MapOf(S) \subseteq Fields
           /\ IsFiniteSet(DOMAIN MapOf(S)) /\ Cardinality(DOMAIN MapOf(S)) = Cardinality(S)
           /\ \A r \in S : MapOf(S)[r.field] = r.val
           /\ \A f \in DOMAIN MapOf(S) : MapOf(S)[f] \in Strings
           /\ DOMAIN MapOf(S) = {} <=> S = {}
<1> DEFINE D == {r.field : r \in S}
<1>1. /\ S \subseteq HashNodes /\ IsFiniteSet(S)
      /\ \A r \in S, q \in S : r.field = q.field => r = q
  BY DEF Keyed
<1>2. DOMAIN MapOf(S) = D
  BY DEF MapOf
<1>3. D \subseteq Fields
  BY <1>1 DEF HashNodes
<1>4. \A r \in S : MapOf(S)[r.field] = r.val
  <2> TAKE r \in S
  <2> DEFINE c == CHOOSE q \in S : q.field = r.field
  <2>1. c \in S /\ c.field = r.field
    OBVIOUS
  <2>2. c = r
    BY <1>1, <2>1
  <2>3. MapOf(S)[r.field] = c.val
    BY DEF MapOf
  <2> HIDE DEF c
  <2> QED BY <2>2, <2>3
<1>5. \A f \in D : MapOf(S)[f] \in Strings
  BY <1>1, <1>4 DEF HashNodes
<1>6. IsFiniteSet(D) /\ Cardinality(D) = Cardinality(S)
  <2> DEFINE h == [r \in S |-> r.field]
  <2>1. h \in [S -> D] /\ (\A d \in D : \E r \in S : h[r] = d) /\ \A r \in S, q \in S : h[r] = h[q] => r = q
    BY <1>1
  <2> HIDE DEF h, D
  <2>2. h \in Bijection(S, D)
    BY <2>1 DEF Bijection, Injection, Surjection, IsInjective
  <2> QED BY <1>1, <2>2, FS_Bijection DEF ExistsBijection
<1> QED BY <1>2, <1>3, <1>4, <1>5, <1>6

LEMMA MapWith ==
    ASSUME NEW S \in Keyed, NEW f \in Fields, NEW v \in Strings
    PROVE  MapOf(With(S, f, v)) = At(MapOf(S), f, v)
<1> DEFINE R == With(S, f, v)
           D == DOMAIN MapOf(S) \cup {f}
<1>1. R \in Keyed /\ {r.field : r \in R} = {r.field : r \in S} \cup {f}
  BY WithKeyed
<1>2. /\ DOMAIN MapOf(S) = {r.field : r \in S} /\ \A r \in S : MapOf(S)[r.field] = r.val
      /\ DOMAIN MapOf(R) = {r.field : r \in R} /\ \A r \in R : MapOf(R)[r.field] = r.val
  BY <1>1, MapIs
<1>3. DOMAIN MapOf(R) = D
  BY <1>1, <1>2
<1>4. R = {r \in S : r.field # f} \cup {Node(f, v)}
  BY DEF With, OutOf
<1>5. Node(f, v).field = f /\ Node(f, v).val = v
  BY DEF Node
<1> HIDE DEF R
<1>6. \A x \in D : MapOf(R)[x] = IF x = f THEN v ELSE MapOf(S)[x]
  <2> TAKE x \in D
  <2>1. CASE x = f
    BY <1>2, <1>4, <1>5, <2>1
  <2>2. CASE x # f
    <3>1. PICK r \in S : r.field = x
      BY <1>2, <2>2
    <3>2. r \in R
      BY <1>4, <2>2, <3>1
    <3> QED BY <1>2, <2>2, <3>1, <3>2
  <2> QED BY <2>1, <2>2
<1>7. MapOf(R) = [x \in D |-> MapOf(R)[x]]
  BY <1>3 DEF MapOf
<1> HIDE DEF D
<1>8. MapOf(R) = [x \in D |-> IF x = f THEN v ELSE MapOf(S)[x]]
  BY <1>6, <1>7
<1> QED BY <1>8 DEF R, D, At

LEMMA MapWithout ==
    ASSUME NEW S \in Keyed, NEW F
    PROVE  LET R == {r \in S : r.field \notin F}
           IN  /\ R \in Keyed
               /\ MapOf(R) = Store!Without(MapOf(S), F)
<1> DEFINE R == {r \in S : r.field \notin F}
           D == DOMAIN MapOf(S) \ F
<1>1. R \in Keyed
  BY FS_Subset DEF Keyed
<1>2. /\ DOMAIN MapOf(S) = {r.field : r \in S} /\ \A r \in S : MapOf(S)[r.field] = r.val
      /\ DOMAIN MapOf(R) = {r.field : r \in R} /\ \A r \in R : MapOf(R)[r.field] = r.val
  BY <1>1, MapIs
<1>3. DOMAIN MapOf(R) = D
  BY <1>2
<1>4. \A x \in D : MapOf(R)[x] = MapOf(S)[x]
  <2> TAKE x \in D
  <2>1. PICK r \in S : r.field = x
    BY <1>2
  <2>2. r \in R
    BY <2>1
  <2> QED BY <1>2, <2>1, <2>2
<1>5. MapOf(R) = [x \in D |-> MapOf(R)[x]]
  BY <1>3 DEF MapOf
<1> HIDE DEF D, R
<1>6. MapOf(R) = [x \in D |-> MapOf(S)[x]]
  BY <1>4, <1>5
<1> QED BY <1>1, <1>6 DEF R, D, Store!Without

ScoresOf(a) == [m \in Named(a) |-> (CHOOSE z \in Range(a) : z.member = m).score]

LEMMA ScoresIs ==
    ASSUME NEW a \in Arrays
    PROVE  /\ DOMAIN ScoresOf(a) = Named(a)
           /\ \A z \in Range(a) : ScoresOf(a)[z.member] = z.score
<1>1. \A x \in Range(a), y \in Range(a) : x.member = y.member => x = y
  BY ArrayIs
<1>2. \A z \in Range(a) : ScoresOf(a)[z.member] = z.score
  <2> TAKE z \in Range(a)
  <2> DEFINE c == CHOOSE y \in Range(a) : y.member = z.member
  <2>1. c \in Range(a) /\ c.member = z.member
    OBVIOUS
  <2>2. c = z
    BY <1>1, <2>1
  <2>3. z.member \in Named(a)
    BY DEF Named
  <2>4. ScoresOf(a)[z.member] = c.score
    BY <2>3 DEF ScoresOf
  <2> HIDE DEF c
  <2> QED BY <2>2, <2>4
<1> QED BY <1>2 DEF ScoresOf

LEMMA ScoresWith ==
    ASSUME NEW a \in Arrays, NEW b \in Arrays, NEW m \in Members, NEW v,
           Puts(a, b, m, v)
    PROVE  /\ Named(b) = Named(a) \cup {m}
           /\ ScoresOf(b) = At(ScoresOf(a), m, v)
<1> DEFINE D == Named(a) \cup {m}
<1>1. Scored(m, v).member = m /\ Scored(m, v).score = v
  BY DEF Scored
<1>0. Range(b) = {z \in Range(a) : z.member # m} \cup {Scored(m, v)}
  BY DEF Puts
<1>2. Named(b) = D
  <2>1. \A z \in Range(a) : z.member = m \/ z \in Range(b)
    BY <1>0
  <2>2. Scored(m, v) \in Range(b)
    BY <1>0
  <2>3. \A z \in Range(b) : z.member = m \/ z \in Range(a)
    BY <1>0, <1>1
  <2> QED BY <1>1, <2>1, <2>2, <2>3 DEF Named
<1>3. /\ DOMAIN ScoresOf(a) = Named(a) /\ \A z \in Range(a) : ScoresOf(a)[z.member] = z.score
      /\ DOMAIN ScoresOf(b) = Named(b) /\ \A z \in Range(b) : ScoresOf(b)[z.member] = z.score
  BY ScoresIs
<1>4. \A x \in D : ScoresOf(b)[x] = IF x = m THEN v ELSE ScoresOf(a)[x]
  <2> TAKE x \in D
  <2>1. CASE x = m
    <3>1. Scored(m, v) \in Range(b)
      BY <1>0
    <3> QED BY <1>1, <1>3, <2>1, <3>1
  <2>2. CASE x # m
    <3>1. PICK z \in Range(a) : z.member = x
      BY <2>2 DEF Named
    <3>2. z \in Range(b)
      BY <1>0, <2>2, <3>1
    <3> QED BY <1>3, <2>2, <3>1, <3>2
  <2> QED BY <2>1, <2>2
<1>5. ScoresOf(b) = [x \in D |-> ScoresOf(b)[x]]
  BY <1>2, <1>3 DEF ScoresOf
<1> HIDE DEF D
<1>6. ScoresOf(b) = [x \in D |-> IF x = m THEN v ELSE ScoresOf(a)[x]]
  BY <1>4, <1>5
<1> QED BY <1>2, <1>3, <1>6 DEF D, At

LEMMA ScoresWithout ==
    ASSUME NEW a \in Arrays, NEW ms
    PROVE  ScoresOf(Others(a, ms)) = Store!Without(ScoresOf(a), ms)
<1> DEFINE b == Others(a, ms)
           D == Named(a) \ ms
<1>1. /\ b \in Arrays
      /\ Range(b) = {z \in Range(a) : z.member \notin ms}
      /\ Named(b) = D
  BY OthersIs
<1> HIDE DEF b
<1>2. /\ DOMAIN ScoresOf(a) = Named(a) /\ \A z \in Range(a) : ScoresOf(a)[z.member] = z.score
      /\ DOMAIN ScoresOf(b) = D /\ \A z \in Range(b) : ScoresOf(b)[z.member] = z.score
  BY <1>1, ScoresIs
<1>3. \A x \in D : ScoresOf(b)[x] = ScoresOf(a)[x]
  <2> TAKE x \in D
  <2>1. PICK z \in Range(a) : z.member = x
    BY DEF Named
  <2>2. z \in Range(b)
    BY <1>1, <2>1
  <2> QED BY <1>2, <2>1, <2>2
<1>4. ScoresOf(b) = [x \in D |-> ScoresOf(b)[x]]
  BY <1>1, <1>2 DEF ScoresOf
<1> HIDE DEF D
<1>5. ScoresOf(b) = [x \in D |-> ScoresOf(a)[x]]
  BY <1>3, <1>4
<1> QED BY <1>2, <1>5 DEF b, D, Store!Without

-----------------------------------------------------------------------------
(* HSET, HDEL and ZADD with all their arguments.                            *)

LEMMA HashesAre ==
    ASSUME NEW x \in Hashes
    PROVE  Len(x.buckets) \in Sizes /\ Nodes(x) \in Keyed /\ x = Hash(Len(x.buckets), Nodes(x))
<1>1. PICK n \in Sizes, S \in Keyed : x = Hash(n, S)
  BY DEF Hashes
<1>2. Len(x.buckets) = n /\ Nodes(x) = S
  BY <1>1, HashIs
<1> QED BY <1>1, <1>2

LEMMA HSetAllDoes ==
    ASSUME NEW n \in Sizes, NEW S \in Keyed,
           NEW pairs \in Seq(Fields \X Strings), pairs # <<>>
    PROVE  \E m \in Sizes, R \in Keyed :
              /\ HSetAll(Hash(n, S), pairs) = Hash(m, R)
              /\ R # {} /\ Grows(n, m)
              /\ MapOf(R) = Store!Updated(MapOf(S), pairs)
              /\ DOMAIN MapOf(S) \subseteq DOMAIN MapOf(R)
<1> DEFINE N == Len(pairs)
           old == Hash(n, S)
<1>1. N \in Nat /\ N >= 1 /\ \A i \in 1..N : pairs[i] \in Fields \X Strings
  BY EmptySeq
<1>2. old \in Hashes /\ Len(old.buckets) = n /\ Nodes(old) = S
  BY HashIs DEF Hashes
<1> HIDE DEF N, old
<1>3. PICK h : /\ h \in [0..N -> Hashes] /\ h[0] = old
               /\ \A i \in 1..N : h[i] = HSetOne(h[i - 1], pairs[i])
               /\ HSetAll(old, pairs) = h[N]
  BY <1>2, HSetAllIs DEF N
<1> DEFINE Size(i) == Len(h[i].buckets)
           Have(i) == Nodes(h[i])
           g == [i \in 0..N |-> MapOf(Have(i))]
<1>4. \A i \in 0..N : Size(i) \in Sizes /\ Have(i) \in Keyed /\ h[i] = Hash(Size(i), Have(i))
  BY <1>3, HashesAre
<1>5. ASSUME NEW i \in 1..N
      PROVE  /\ Grows(Size(i - 1), Size(i))
             /\ Have(i) # {}
             /\ MapOf(Have(i)) = At(MapOf(Have(i - 1)), pairs[i][1], pairs[i][2])
  <2>1. i \in 0..N /\ i - 1 \in 0..N
    BY <1>1
  <2>2. PICK f \in Fields, v \in Strings : pairs[i] = <<f, v>>
    BY <1>1
  <2>3. Size(i - 1) \in Sizes /\ Have(i - 1) \in Keyed /\ h[i - 1] = Hash(Size(i - 1), Have(i - 1))
    BY <1>4, <2>1
  <2>4. h[i] = HSetOne(Hash(Size(i - 1), Have(i - 1)), <<f, v>>)
    BY <1>3, <2>2, <2>3
  <2> DEFINE s == Size(i - 1)
             K == Have(i - 1)
  <2> HIDE DEF s, K
  <2>5. PICK m \in Sizes : h[i] = Hash(m, With(K, f, v)) /\ Grows(s, m)
    BY <2>3, <2>4, HSetOneIs DEF s, K
  <2>6. With(K, f, v) \in Keyed /\ With(K, f, v) # {}
    BY <2>3, WithKeyed DEF K
  <2>7. Size(i) = m /\ Have(i) = With(K, f, v)
    BY <2>5, <2>6, HashIs
  <2>8. MapOf(With(K, f, v)) = At(MapOf(K), f, v)
    BY <2>3, MapWith DEF K
  <2> QED BY <2>2, <2>5, <2>6, <2>7, <2>8 DEF s, K
<1> DEFINE T == {i \in 0..N : /\ Grows(n, Size(i)) /\ (i # 0 => Have(i) # {})
                              /\ DOMAIN MapOf(S) \subseteq DOMAIN MapOf(Have(i))}
<1>6. 0 \in T
  <2>1. Size(0) = n /\ Have(0) = S /\ 0 \in 0..N
    BY <1>1, <1>2, <1>3
  <2> HIDE DEF Size, Have
  <2> QED BY <2>1, GrowsBy
<1>7. ASSUME NEW i \in 1..N, i - 1 \in T
      PROVE  i \in T
  <2>1. i \in 0..N /\ i - 1 \in 0..N
    BY <1>1
  <2>2. Size(i - 1) \in Sizes /\ Size(i) \in Sizes
    BY <1>4, <2>1
  <2>3. Grows(Size(i - 1), Size(i)) /\ Have(i) # {}
    BY <1>5
  <2>4. DOMAIN MapOf(Have(i - 1)) \subseteq DOMAIN MapOf(Have(i))
    <3>1. MapOf(Have(i)) = At(MapOf(Have(i - 1)), pairs[i][1], pairs[i][2])
      BY <1>5
    <3> HIDE DEF Have
    <3> QED BY <3>1 DEF At
  <2> HIDE DEF Size, Have
  <2>5. Grows(n, Size(i - 1)) /\ DOMAIN MapOf(S) \subseteq DOMAIN MapOf(Have(i - 1))
    BY <1>7
  <2>6. Grows(n, Size(i))
    BY <2>2, <2>3, <2>5, GrowsOn
  <2> QED BY <2>1, <2>3, <2>4, <2>5, <2>6
<1> HIDE DEF T
<1>8. \A i \in 0..N : i \in T
  BY <1>1, <1>6, <1>7, UpTo
<1>9. N \in 0..N /\ N # 0 /\ 0 \in 0..N
  BY <1>1
<1>10. MapOf(Have(N)) = Store!Updated(MapOf(S), pairs)
  <2>1. g = [i \in 0..N |-> g[i]] /\ g[0] = MapOf(S) /\ g[N] = MapOf(Have(N))
    BY <1>2, <1>3, <1>9
  <2>2. \A i \in 1..N : g[i] = At(g[i - 1], pairs[i][1], pairs[i][2])
    <3> TAKE i \in 1..N
    <3>1. i \in 0..N /\ i - 1 \in 0..N
      BY <1>1
    <3>2. g[i] = MapOf(Have(i)) /\ g[i - 1] = MapOf(Have(i - 1))
      BY <3>1
    <3> HIDE DEF g, Have
    <3> QED BY <1>5, <3>2
  <2> HIDE DEF g, Have
  <2>3. N = Len(pairs)
    BY DEF N
  <2>4. Updates(MapOf(S), pairs, N, g)
    BY <2>1, <2>2, <2>3 DEF Updates
  <2> QED BY <1>1, <2>1, <2>4, UpdatedIs
<1> DEFINE m == Size(N)
           R == Have(N)
<1>11. m \in Sizes /\ R \in Keyed /\ h[N] = Hash(m, R)
  BY <1>4, <1>9
<1>12. R # {} /\ Grows(n, m) /\ DOMAIN MapOf(S) \subseteq DOMAIN MapOf(R)
  BY <1>8, <1>9 DEF T
<1> HIDE DEF m, R
<1> QED BY <1>3, <1>10, <1>11, <1>12 DEF old, R

LEMMA HDelAllDoes ==
    ASSUME NEW n \in Sizes, NEW S \in Keyed, NEW fields \in Seq(Fields)
    PROVE  HDelAll(Hash(n, S), fields) = Hash(n, {r \in S : r.field \notin ToSet(fields)})
<1> DEFINE N == Len(fields)
           old == Hash(n, S)
           Kept(i) == {r \in S : r.field \notin {fields[j] : j \in 1..i}}
           g == [i \in 0..N |-> Hash(n, Kept(i))]
           Follow(h) == h = [i \in 0..N |-> IF i = 0 THEN old ELSE HDelOne(h[i - 1], fields[i])]
           h == CHOOSE h : Follow(h)
<1>1. N \in Nat /\ DOMAIN fields = 1..N /\ \A i \in 1..N : fields[i] \in Fields
  OBVIOUS
<1>2. HDelAll(old, fields) = h[N]
  BY DEF HDelAll
<1> HIDE DEF h, N, old
<1>3. ASSUME NEW i \in 1..N
      PROVE  g[i] = HDelOne(g[i - 1], fields[i])
  <2>1. i \in 0..N /\ i - 1 \in 0..N
    BY <1>1
  <2>2. Kept(i - 1) \in Keyed
    BY MapWithout
  <2>3. OutOf(Kept(i - 1), fields[i]) = Kept(i)
    <3>1. \A j \in Int : j \in 1..i <=> j \in 1..(i - 1) \/ j = i
      BY <1>1
    <3>2. \A x : x \in {fields[j] : j \in 1..i} <=> x \in {fields[j] : j \in 1..(i - 1)} \/ x = fields[i]
      BY <3>1
    <3> QED BY <3>2 DEF OutOf
  <2>4. HDelOne(Hash(n, Kept(i - 1)), fields[i]) = Hash(n, OutOf(Kept(i - 1), fields[i]))
    BY <1>1, <2>2, HDelOneIs
  <2>5. g[i] = Hash(n, Kept(i)) /\ g[i - 1] = Hash(n, Kept(i - 1))
    BY <2>1
  <2> HIDE DEF Kept, g
  <2> QED BY <2>3, <2>4, <2>5
<1>4. g[0] = old
  <2>1. Kept(0) = S /\ 0 \in 0..N
    BY <1>1
  <2> QED BY <2>1 DEF old
<1>5. g[N] = Hash(n, {r \in S : r.field \notin ToSet(fields)}) /\ N \in 0..N
  <2>1. N \in 0..N /\ {fields[j] : j \in 1..N} = ToSet(fields)
    BY <1>1 DEF ToSet
  <2> QED BY <2>1
<1>6. \A i \in 0..N : i = 0 \/ i \in 1..N
  BY <1>1
<1>7. g = [i \in 0..N |-> g[i]]
  OBVIOUS
<1> HIDE DEF g
<1>8. Follow(g)
  <2>1. \A i \in 0..N : g[i] = IF i = 0 THEN old ELSE HDelOne(g[i - 1], fields[i])
    BY <1>3, <1>4, <1>6
  <2> QED BY <1>7, <2>1
<1>9. Follow(h)
  BY <1>8 DEF h
<1>10. \A i \in 0..N : h[i] = IF i = 0 THEN old ELSE HDelOne(h[i - 1], fields[i])
  BY <1>9
<1> HIDE DEF Follow
<1> DEFINE E == {i \in 0..N : h[i] = g[i]}
<1>11. 0 \in E
  <2>1. 0 \in 0..N
    BY <1>1
  <2> QED BY <1>4, <1>10, <2>1
<1>12. ASSUME NEW i \in 1..N, i - 1 \in E
       PROVE  i \in E
  <2>1. i \in 0..N /\ i # 0
    BY <1>1
  <2>2. h[i] = HDelOne(h[i - 1], fields[i]) /\ h[i - 1] = g[i - 1]
    BY <1>10, <1>12, <2>1
  <2>3. h[i] = g[i]
    BY <1>3, <2>2
  <2> QED BY <2>1, <2>3
<1> HIDE DEF E
<1>13. \A i \in 0..N : i \in E
  BY <1>1, <1>11, <1>12, UpTo
<1>14. h[N] = g[N]
  BY <1>5, <1>13 DEF E
<1> QED BY <1>2, <1>5, <1>14 DEF old

ZSets == {ZSetOf(a) : a \in Arrays}

LEMMA ZAddAllIs ==
    ASSUME NEW old \in ZSets, NEW pairs \in Seq(Members \X AnyScore), NEW N, N = Len(pairs)
    PROVE  \E h : /\ h \in [0..N -> ZSets] /\ h[0] = old
                  /\ \A i \in 1..N : h[i] = ZAddOne(h[i - 1], pairs[i])
                  /\ ZAddAll(old, pairs) = h[N]
<1>1. N \in Nat /\ \A i \in 1..N : pairs[i] \in Members \X AnyScore
  OBVIOUS
<1>2. \A e \in ZSets, p \in Members \X AnyScore : ZAddOne(e, p) \in ZSets
  <2> TAKE e \in ZSets, p \in Members \X AnyScore
  <2>1. PICK a \in Arrays : e = ZSetOf(a)
    BY DEF ZSets
  <2>2. PICK m \in Members, v \in AnyScore : p = <<m, v>>
    OBVIOUS
  <2>3. PICK b \in Arrays : ZAddOne(e, p) = ZSetOf(b)
    BY <2>1, <2>2, ZAddOneIs
  <2> QED BY <2>3 DEF ZSets
<1> DEFINE F == [q \in (1..N) \X ZSets |-> ZAddOne(q[2], pairs[q[1]])]
           Follow(g) == g = [i \in 0..N |-> IF i = 0 THEN old ELSE ZAddOne(g[i - 1], pairs[i])]
           h == CHOOSE g : Follow(g)
<1>3. ZAddAll(old, pairs) = h[N]
  BY DEF ZAddAll
<1>4. \A i \in 1..N, x \in ZSets : F[<<i, x>>] = ZAddOne(x, pairs[i])
  OBVIOUS
<1> HIDE DEF F
<1>5. PICK g : Iteration(ZSets, old, N, F, g)
  <2>1. ASSUME NEW i \in 1..N, NEW x \in ZSets
        PROVE  F[<<i, x>>] \in ZSets
    <3>1. F[<<i, x>>] = ZAddOne(x, pairs[i]) /\ pairs[i] \in Members \X AnyScore
      BY <1>1, <1>4
    <3> QED BY <1>2, <3>1
  <2> QED BY <1>1, <2>1, IterationIs
<1>6. \A i \in 0..N : i = 0 \/ (i \in 1..N /\ i - 1 \in 0..N)
  BY <1>1
<1>7. Follow(g)
  <2>1. \A i \in 1..N : F[<<i, g[i - 1]>>] = ZAddOne(g[i - 1], pairs[i])
    <3> TAKE i \in 1..N
    <3>1. g[i - 1] \in ZSets
      <4>1. g \in [0..N -> ZSets] /\ i - 1 \in 0..N
        BY <1>1, <1>5 DEF Iteration
      <4> HIDE DEF ZSets
      <4> QED BY <4>1
    <3> QED BY <1>4, <3>1
  <2>2. \A i \in 0..N : (IF i = 0 THEN old ELSE F[<<i, g[i - 1]>>]) =
                         (IF i = 0 THEN old ELSE ZAddOne(g[i - 1], pairs[i]))
    BY <1>6, <2>1
  <2> QED BY <1>5, <2>2 DEF Iteration, Iterates
<1>8. Follow(h)
  BY <1>7
<1> HIDE DEF h
<1>9. h[0] = old /\ \A i \in 1..N : h[i] = ZAddOne(h[i - 1], pairs[i])
  <2>1. 0 \in 0..N /\ \A i \in 1..N : i \in 0..N /\ i # 0
    BY <1>1
  <2> QED BY <1>8, <2>1
<1>10. h \in [0..N -> ZSets]
  <2> DEFINE T == {i \in 0..N : h[i] \in ZSets}
  <2>1. 0 \in T
    BY <1>1, <1>9
  <2>2. \A i \in 1..N : i - 1 \in T => i \in T
    BY <1>1, <1>2, <1>9
  <2> HIDE DEF T
  <2>3. \A i \in 0..N : i \in T
    BY <1>1, <2>1, <2>2, UpTo
  <2>4. h = [i \in 0..N |-> h[i]]
    BY <1>8
  <2> HIDE DEF Follow
  <2> QED BY <2>3, <2>4 DEF T
<1> QED BY <1>3, <1>9, <1>10

LEMMA ZAddAllDoes ==
    ASSUME NEW a \in Arrays, NEW pairs \in Seq(Members \X AnyScore), pairs # <<>>
    PROVE  \E b \in Arrays :
              /\ ZAddAll(ZSetOf(a), pairs) = ZSetOf(b)
              /\ b # <<>>
              /\ ScoresOf(b) = Store!Updated(ScoresOf(a), pairs)
              /\ Named(b) = Named(a) \cup {pairs[i][1] : i \in 1..Len(pairs)}
              /\ InOrder(a) /\ (\A i \in 1..Len(pairs) : pairs[i][2] # NaN) => InOrder(b)
<1> DEFINE N == Len(pairs)
           old == ZSetOf(a)
<1>1. N \in Nat /\ N >= 1 /\ \A i \in 1..N : pairs[i] \in Members \X AnyScore
  BY EmptySeq
<1>2. old \in ZSets /\ old.arr = a
  BY DEF ZSets, ZSetOf
<1> HIDE DEF N, old
<1>3. PICK h : /\ h \in [0..N -> ZSets] /\ h[0] = old
               /\ \A i \in 1..N : h[i] = ZAddOne(h[i - 1], pairs[i])
               /\ ZAddAll(old, pairs) = h[N]
  BY <1>2, ZAddAllIs DEF N
<1> DEFINE Arr(i) == h[i].arr
           g == [i \in 0..N |-> ScoresOf(Arr(i))]
           Names(i) == {pairs[j][1] : j \in 1..i}
           Plain(i) == \A j \in 1..i : pairs[j][2] # NaN
<1>4. \A i \in 0..N : Arr(i) \in Arrays /\ h[i] = ZSetOf(Arr(i))
  <2> TAKE i \in 0..N
  <2>1. PICK x \in Arrays : h[i] = ZSetOf(x)
    BY <1>3 DEF ZSets
  <2> QED BY <2>1 DEF ZSetOf
<1>5. ASSUME NEW i \in 1..N
      PROVE  /\ Named(Arr(i)) = Named(Arr(i - 1)) \cup {pairs[i][1]}
             /\ ScoresOf(Arr(i)) = At(ScoresOf(Arr(i - 1)), pairs[i][1], pairs[i][2])
             /\ InOrder(Arr(i - 1)) /\ pairs[i][2] # NaN => InOrder(Arr(i))
  <2>1. i \in 0..N /\ i - 1 \in 0..N
    BY <1>1
  <2>2. PICK m \in Members, v \in AnyScore : pairs[i] = <<m, v>>
    BY <1>1
  <2>3. Arr(i - 1) \in Arrays /\ h[i - 1] = ZSetOf(Arr(i - 1)) /\ Arr(i) \in Arrays
    BY <1>4, <2>1
  <2>4. h[i] = ZAddOne(ZSetOf(Arr(i - 1)), <<m, v>>)
    BY <1>3, <2>2, <2>3
  <2> DEFINE r == Arr(i - 1)
  <2>5. r \in Arrays
    BY <2>3
  <2> HIDE DEF r
  <2>6. PICK b \in Arrays : /\ h[i] = ZSetOf(b)
                            /\ Puts(r, b, m, v)
                            /\ InOrder(r) /\ v \in Int => InOrder(b)
    BY <2>4, <2>5, ZAddOneIs DEF r
  <2>7. Arr(i) = b
    BY <2>6 DEF ZSetOf
  <2>8. Named(b) = Named(r) \cup {m} /\ ScoresOf(b) = At(ScoresOf(r), m, v)
    BY <2>5, <2>6, ScoresWith
  <2>9. v # NaN => v \in Int
    BY DEF AnyScore
  <2> QED BY <2>2, <2>6, <2>7, <2>8, <2>9 DEF r
<1> DEFINE T == {i \in 0..N : /\ Named(Arr(i)) = Named(a) \cup Names(i)
                              /\ InOrder(a) /\ Plain(i) => InOrder(Arr(i))}
<1>6. 0 \in T
  <2>1. Arr(0) = a /\ Names(0) = {} /\ 0 \in 0..N
    BY <1>1, <1>2, <1>3
  <2> HIDE DEF Arr, Names, Plain
  <2> QED BY <2>1
<1>7. ASSUME NEW i \in 1..N, i - 1 \in T
      PROVE  i \in T
  <2>1. i \in 0..N /\ i - 1 \in 0..N
    BY <1>1
  <2>2. \A j \in Int : j \in 1..i <=> j \in 1..(i - 1) \/ j = i
    BY <1>1
  <2>3. Names(i) = Names(i - 1) \cup {pairs[i][1]}
    BY <2>2
  <2>4. Plain(i) => Plain(i - 1) /\ pairs[i][2] # NaN
    BY <2>2
  <2> HIDE DEF Names, Plain, Arr
  <2>5. Named(Arr(i)) = Named(a) \cup Names(i)
    BY <1>5, <1>7, <2>3
  <2>6. InOrder(a) /\ Plain(i) => InOrder(Arr(i))
    BY <1>5, <1>7, <2>4
  <2> QED BY <2>1, <2>5, <2>6
<1> HIDE DEF T
<1>8. \A i \in 0..N : i \in T
  BY <1>1, <1>6, <1>7, UpTo
<1>9. N \in 0..N /\ N # 0 /\ 0 \in 0..N /\ N \in 1..N
  BY <1>1
<1>10. ScoresOf(Arr(N)) = Store!Updated(ScoresOf(a), pairs)
  <2>1. g = [i \in 0..N |-> g[i]] /\ g[0] = ScoresOf(a) /\ g[N] = ScoresOf(Arr(N))
    BY <1>2, <1>3, <1>9
  <2>2. \A i \in 1..N : g[i] = At(g[i - 1], pairs[i][1], pairs[i][2])
    <3> TAKE i \in 1..N
    <3>1. i \in 0..N /\ i - 1 \in 0..N
      BY <1>1
    <3>2. g[i] = ScoresOf(Arr(i)) /\ g[i - 1] = ScoresOf(Arr(i - 1))
      BY <3>1
    <3> HIDE DEF g, Arr
    <3> QED BY <1>5, <3>2
  <2> HIDE DEF g, Arr
  <2>3. N = Len(pairs)
    BY DEF N
  <2>4. Updates(ScoresOf(a), pairs, N, g)
    BY <2>1, <2>2, <2>3 DEF Updates
  <2> QED BY <1>1, <2>1, <2>4, UpdatedIs
<1> DEFINE b == Arr(N)
<1>11. b \in Arrays /\ h[N] = ZSetOf(b)
  BY <1>4, <1>9
<1>12. Named(b) = Named(a) \cup Names(N) /\ (InOrder(a) /\ Plain(N) => InOrder(b))
  BY <1>8, <1>9 DEF T
<1> HIDE DEF b
<1>13. b # <<>>
  <2>1. pairs[N][1] \in Named(b)
    BY <1>9, <1>12
  <2>2. Len(b) # 0
    <3>1. Named(b) = {b[i].member : i \in 1..Len(b)}
      BY <1>11, ArrayIs
    <3>2. PICK i \in 1..Len(b) : TRUE
      BY <2>1, <3>1
    <3> QED BY <3>2
  <2> QED BY <2>2
<1> QED BY <1>3, <1>10, <1>11, <1>12, <1>13 DEF old, b, N

-----------------------------------------------------------------------------
(* The entries of a dictionary, and the values they stand for.              *)

Lists == Seq(Strings)

HashEntries == {Hash(n, S) : n \in Sizes, S \in Keyed \ {{}}}

ListEntries == {ListOf(s) : s \in Lists \ {<<>>}}

ZSetEntries == {ZSetOf(a) : a \in {b \in Arrays : b # <<>> /\ Len(b) <= MaxMembers}}

Entries == {Absent} \cup HashEntries \cup ListEntries \cup ZSetEntries

Types == {"hash", "list", "zset"}

LEMMA EntryIs ==
    ASSUME NEW e \in Entries
    PROVE  /\ e.type \in {"none"} \cup Types
           /\ e.type = "none" => e = Absent
           /\ e.type = "hash" => e \in HashEntries
           /\ e.type = "list" => e \in ListEntries
           /\ e.type = "zset" => e \in ZSetEntries
<1>1. CASE e = Absent
  BY <1>1 DEF Absent, Types
<1>2. CASE e \in HashEntries
  <2>1. e.type = "hash"
    BY <1>2 DEF HashEntries, Hash, HashOf
  <2> QED BY <1>2, <2>1 DEF Types
<1>3. CASE e \in ListEntries
  <2>1. e.type = "list"
    BY <1>3 DEF ListEntries, ListOf
  <2> QED BY <1>3, <2>1 DEF Types
<1>4. CASE e \in ZSetEntries
  <2>1. e.type = "zset"
    BY <1>4 DEF ZSetEntries, ZSetOf
  <2> QED BY <1>4, <2>1 DEF Types
<1> QED BY <1>1, <1>2, <1>3, <1>4 DEF Entries

LEMMA AbsentIs ==
    /\ Absent \in Entries /\ Absent.type = "none" /\ Absent.buckets = <<>> /\ Absent.nfields = 0
    /\ Absent.list = <<>> /\ Absent.arr = <<>> /\ FieldsOf(Absent) = {}
<1>1. /\ Absent \in Entries /\ Absent.type = "none" /\ Absent.buckets = <<>>
      /\ Absent.nfields = 0 /\ Absent.list = <<>> /\ Absent.arr = <<>>
  BY DEF Absent, Entries
<1>2. Range(<<>>) = {}
  BY DEF Range
<1>3. FieldsOf(Absent) = {}
  BY <1>1, <1>2 DEF FieldsOf, Nodes
<1> QED BY <1>1, <1>3

\* The entry of a key that is created, and what it holds.
LEMMA NewIs ==
    /\ {} \in Keyed /\ Buckets0 \in Sizes /\ <<>> \in Arrays
    /\ NewEntry("hash") = Hash(Buckets0, {})
    /\ NewEntry("list") = ListOf(<<>>)
    /\ NewEntry("zset") = ZSetOf(<<>>)
    /\ \A t \in Types : NewEntry(t).type = t
<1>1. {} \in Keyed /\ Buckets0 \in Sizes
  BY FS_EmptySet, ObjectsAssumption DEF Keyed, Sizes
<1>2. <<>> \in Arrays
  BY DEF Arrays
<1>3. NewEntry("hash") = Hash(Buckets0, {})
  <2>1. Table(Buckets0, {}) = [b \in 1..Buckets0 |-> {}]
    BY DEF Table
  <2> QED BY <2>1, FS_EmptySet DEF Hash, NewEntry
<1>4. NewEntry("list") = ListOf(<<>>) /\ NewEntry("zset") = ZSetOf(<<>>)
  BY DEF NewEntry
<1> QED BY <1>1, <1>2, <1>3, <1>4 DEF Types, Hash, HashOf, ListOf, ZSetOf

LEMMA ValueIs ==
    /\ Value(Absent) = Store!None
    /\ \A n \in Sizes, S \in Keyed \ {{}} : Value(Hash(n, S)) = Store!Hash(MapOf(S))
    /\ \A s : s # <<>> => Value(ListOf(s)) = Store!List(s)
    /\ \A a \in Arrays : a # <<>> => Value(ZSetOf(a)) = Store!ZSet(ScoresOf(a))
    /\ \A e \in Entries : Value(e).type = e.type
<1>1. Value(Absent) = Store!None
  BY DEF Value, Absent, Store!None, Store!NoMap
<1>2. ASSUME NEW n \in Sizes, NEW S \in Keyed \ {{}}
      PROVE  Value(Hash(n, S)) = Store!Hash(MapOf(S))
  <2> DEFINE e == Hash(n, S)
  <2>1. e.type = "hash" /\ Nodes(e) = S /\ FieldsOf(e) = {r.field : r \in S}
    BY HashIs
  <2> HIDE DEF e
  <2>2. Value(e) = [type |-> "hash", list |-> <<>>, map |-> MapOf(S)]
    BY <2>1 DEF Value, MapOf
  <2>3. DOMAIN MapOf(S) # {}
    BY MapIs
  <2> QED BY <2>2, <2>3 DEF Store!Hash, e
<1>3. ASSUME NEW s, s # <<>>
      PROVE  Value(ListOf(s)) = Store!List(s)
  <2>1. ListOf(s).type = "list" /\ ListOf(s).list = s
    BY DEF ListOf
  <2>2. Value(ListOf(s)) = [type |-> "list", list |-> s, map |-> [x \in {} |-> 0]]
    BY <2>1 DEF Value
  <2> QED BY <1>3, <2>2 DEF Store!List, Store!NoMap
<1>4. ASSUME NEW a \in Arrays, a # <<>>
      PROVE  Value(ZSetOf(a)) = Store!ZSet(ScoresOf(a))
  <2>1. ZSetOf(a).type = "zset" /\ ZSetOf(a).arr = a /\ MembersOf(ZSetOf(a)) = Named(a)
    BY ArrayIs DEF ZSetOf
  <2>2. Value(ZSetOf(a)) = [type |-> "zset", list |-> <<>>, map |-> ScoresOf(a)]
    BY <2>1 DEF Value, ScoresOf
  <2>3. DOMAIN ScoresOf(a) # {}
    <3>1. Named(a) = {a[i].member : i \in 1..Len(a)} /\ Len(a) \in Nat /\ a \in Seq(ZNodes)
      BY ArrayIs
    <3>2. 1 \in 1..Len(a)
      BY <1>4, <3>1, EmptySeq
    <3> QED BY <3>1, <3>2, ScoresIs
  <2> QED BY <2>2, <2>3 DEF Store!ZSet
<1>5. \A e \in Entries : Value(e).type = e.type
  BY EntryIs DEF Value, Types
<1> QED BY <1>1, <1>2, <1>3, <1>4, <1>5

-----------------------------------------------------------------------------
(* What a command can do to the dictionary.                                 *)

Dict(st) == st \in [Keys -> Entries]

\* Every key has come to nothing or kept its entry.
Loses(st, fin, K) == \A j \in K : fin[j] \in {st[j], Absent}

\* Key k gets entry e, the reply is r, and what the cache loses is lost.
Made(k, e, r) ==
    /\ \/ reply' = r /\ store'[k] = e
       \/ store'[k] = Absent
    /\ Loses(store, store', Keys \ {k})
    /\ store' = [j \in Keys |-> store'[j]]
    /\ scan' = Owed(store')

LEMMA EvictIs ==
    ASSUME NEW st, NEW fin \in MaybeEvict(st)
    PROVE  Loses(st, fin, Keys) /\ fin = [j \in Keys |-> fin[j]]
<1>1. PICK V \in SUBSET Linked(st) : fin = Free(st, V)
  BY DEF MaybeEvict
<1>2. fin = [j \in Keys |-> IF j \in V THEN Absent ELSE st[j]]
  BY <1>1 DEF Free
<1> QED BY <1>2 DEF Loses

LEMMA LinkedIs ==
    ASSUME NEW st, NEW k \in Keys
    PROVE  k \in Linked(st) <=> st[k].type # "none"
BY DEF Linked

LEMMA PutIs ==
    ASSUME NEW st, NEW k \in Keys, NEW e, st = [j \in Keys |-> st[j]]
    PROVE  /\ Put(st, k, e) = [j \in Keys |-> IF j = k THEN e ELSE st[j]]
           /\ Put(st, k, e)[k] = e /\ \A j \in Keys \ {k} : Put(st, k, e)[j] = st[j]
BY DEF Put

LEMMA WriteMakes ==
    ASSUME Dict(store), NEW k \in Keys, NEW type \in Types, NEW e, NEW r,
           store[k].type \in {"none", type} => e.type = type,
           Write(k, type, e, r)
    PROVE  \/ store[k].type \notin {"none", type} /\ Made(k, store[k], Err)
           \/ store[k].type \in {"none", type} /\ Made(k, e, r.kept)
<1>1. store = [j \in Keys |-> store[j]] /\ store[k] \in Entries
  BY DEF Dict
<1>2. type # "none" /\ NewEntry(type).type = type /\ Absent.type = "none"
  BY NewIs, AbsentIs DEF Types
<1>3. CASE store[k].type \notin {"none", type}
  <2>1. store' = store /\ reply' = Err /\ scan' = Owed(store')
    BY <1>3 DEF Write, Answer
  <2> QED BY <1>1, <1>3, <2>1 DEF Made, Loses
<1>4. CASE store[k].type \in {"none", type}
  <2>1. PICK st \in Created(store, k, type) :
           IF k \notin Linked(st) THEN Answer(st, r.gone)
           ELSE \E fin \in MaybeEvict(Put(st, k, e)) :
                   Answer(fin, IF k \in Linked(fin) THEN r.kept ELSE r.evicted)
    BY <1>4 DEF Write
  <2>2. /\ st = [j \in Keys |-> st[j]] /\ Loses(store, st, Keys \ {k})
        /\ k \notin Linked(st) => st[k] = Absent
    <3>1. CASE k \in Linked(store)
      <4>1. st = store
        BY <2>1, <3>1 DEF Created
      <4> QED BY <1>1, <3>1, <4>1 DEF Loses
    <3>2. CASE k \notin Linked(store)
      <4> DEFINE new == NewEntry(type)
                 made == Put(store, k, new)
      <4>1. st \in MaybeEvict(made)
        BY <2>1, <3>2 DEF Created
      <4>2. made[k] = new /\ \A j \in Keys \ {k} : made[j] = store[j]
        BY <1>1, PutIs
      <4> HIDE DEF made, new
      <4>3. Loses(made, st, Keys) /\ st = [j \in Keys |-> st[j]]
        BY <4>1, EvictIs
      <4>4. Loses(store, st, Keys \ {k}) /\ st[k] \in {new, Absent}
        BY <4>2, <4>3 DEF Loses
      <4>5. st[k] = new => k \in Linked(st)
        BY <1>2, LinkedIs DEF new
      <4> QED BY <4>3, <4>4, <4>5
    <3> QED BY <3>1, <3>2
  <2>3. CASE k \notin Linked(st)
    <3>1. store' = st /\ scan' = Owed(store')
      BY <2>1, <2>3 DEF Answer
    <3> QED BY <1>4, <2>2, <2>3, <3>1 DEF Made
  <2>4. CASE k \in Linked(st)
    <3>1. PICK fin \in MaybeEvict(Put(st, k, e)) :
             Answer(fin, IF k \in Linked(fin) THEN r.kept ELSE r.evicted)
      BY <2>1, <2>4
    <3>2. store' = fin /\ scan' = Owed(store')
          /\ reply' = IF k \in Linked(fin) THEN r.kept ELSE r.evicted
      BY <3>1 DEF Answer
    <3> DEFINE put == Put(st, k, e)
    <3>3. put[k] = e /\ \A j \in Keys \ {k} : put[j] = st[j]
      BY <2>2, PutIs
    <3> HIDE DEF put
    <3>4. Loses(put, fin, Keys) /\ fin = [j \in Keys |-> fin[j]]
      BY <3>1, EvictIs DEF put
    <3>5. fin[k] \in {e, Absent} /\ Loses(store, fin, Keys \ {k})
      BY <2>2, <3>3, <3>4 DEF Loses
    <3>6. fin[k] = e => k \in Linked(fin)
      BY <1>2, <1>4, LinkedIs
    <3>7. \/ reply' = r.kept /\ store'[k] = e
          \/ store'[k] = Absent
      BY <3>2, <3>5, <3>6
    <3> QED BY <1>4, <3>2, <3>4, <3>5, <3>7 DEF Made
  <2> QED BY <2>3, <2>4
<1> QED BY <1>3, <1>4

LEMMA TakeOutMakes ==
    ASSUME Dict(store), NEW k \in Keys, NEW type \in Types, NEW e, NEW r, NEW missing,
           TakeOut(k, type, e, r, missing)
    PROVE  \/ store[k] = Absent /\ Made(k, Absent, missing)
           \/ store[k].type \notin {"none", type} /\ Made(k, store[k], Err)
           \/ store[k].type = type /\ Made(k, IF IsEmpty(e) THEN Absent ELSE e, r)
<1>1. store = [j \in Keys |-> store[j]] /\ store[k] \in Entries
  BY DEF Dict
<1>2. CASE k \notin Linked(store)
  <2>1. store' = store /\ reply' = missing /\ scan' = Owed(store')
    BY <1>2 DEF TakeOut, Answer
  <2>2. store[k] = Absent
    BY <1>1, <1>2, LinkedIs, EntryIs
  <2> QED BY <1>1, <2>1, <2>2 DEF Made, Loses
<1>3. CASE k \in Linked(store) /\ store[k].type # type
  <2>1. store' = store /\ reply' = Err /\ scan' = Owed(store')
    BY <1>3 DEF TakeOut, Answer
  <2>2. store[k].type \notin {"none", type}
    BY <1>3, LinkedIs
  <2> QED BY <1>1, <2>1, <2>2 DEF Made, Loses
<1>4. CASE k \in Linked(store) /\ store[k].type = type
  <2>1. store' = Removed(k, e) /\ reply' = r /\ scan' = Owed(store')
    BY <1>4 DEF TakeOut, Answer
  <2> DEFINE d == IF IsEmpty(e) THEN Absent ELSE e
  <2>2. store' = [j \in Keys |-> IF j = k THEN d ELSE store[j]]
    <3>1. CASE IsEmpty(e)
      BY <2>1, <3>1 DEF Removed, Free
    <3>2. CASE ~ IsEmpty(e)
      BY <1>1, <2>1, <3>2, PutIs DEF Removed
    <3> QED BY <3>1, <3>2
  <2> HIDE DEF d
  <2>3. Made(k, d, r)
    BY <2>1, <2>2 DEF Made, Loses
  <2> QED BY <1>4, <2>3 DEF d
<1> QED BY <1>2, <1>3, <1>4

\* A hash that stays a hash has as many buckets or more.
Widens(e, d) == e.type = "hash" /\ d.type = "hash" => Grows(Len(e.buckets), Len(d.buckets))

\* A sorted set that was in order still is, a new one is from the start.
Sorts(e, d) == (e.type = "zset" => InOrder(e.arr)) /\ d.type = "zset" => InOrder(d.arr)

\* What a step does to the entries; the sorted sets in K may lose their order.
Steps(K) ==
    /\ Dict(store')
    /\ \A j \in Keys : Widens(store[j], store'[j])
    /\ \A j \in Keys \ K : Sorts(store[j], store'[j])
    /\ scan' = Owed(store')

LEMMA KeepsIs ==
    ASSUME NEW e \in Entries
    PROVE  Widens(e, e) /\ Sorts(e, e) /\ Widens(e, Absent) /\ Sorts(e, Absent)
<1>1. Widens(e, e)
  <2>1. SUFFICES ASSUME e.type = "hash" PROVE Grows(Len(e.buckets), Len(e.buckets))
    BY DEF Widens
  <2>2. PICK n \in Sizes, S \in Keyed : e = Hash(n, S)
    BY <2>1, EntryIs DEF HashEntries
  <2>3. Len(e.buckets) = n
    BY <2>2, HashIs
  <2> QED BY <2>3, GrowsBy
<1> QED BY <1>1, AbsentIs DEF Widens, Sorts

LEMMA MadeSteps ==
    ASSUME Dict(store), NEW k \in Keys, NEW e \in Entries, NEW r, Made(k, e, r),
           NEW K, Widens(store[k], e), k \in K \/ Sorts(store[k], e)
    PROVE  Steps(K)
<1>1. \A j \in Keys : store[j] \in Entries
  BY DEF Dict
<1>2. store' = [j \in Keys |-> store'[j]] /\ scan' = Owed(store')
  BY DEF Made
<1>3. \A j \in Keys \ {k} : store'[j] \in {store[j], Absent}
  BY DEF Made, Loses
<1>4. store'[k] \in {e, Absent}
  BY DEF Made
<1>5. \A j \in Keys : store'[j] \in Entries
  BY <1>1, <1>3, <1>4, AbsentIs
<1>6. Dict(store')
  BY <1>2, <1>5 DEF Dict
<1>7. \A j \in Keys : Widens(store[j], store'[j])
  BY <1>1, <1>3, <1>4, KeepsIs
<1>8. \A j \in Keys \ K : Sorts(store[j], store'[j])
  BY <1>1, <1>3, <1>4, KeepsIs
<1> QED BY <1>2, <1>6, <1>7, <1>8 DEF Steps

LEMMA MadeBecomes ==
    ASSUME NEW k \in Keys, NEW e, NEW r, Made(k, e, r)
    PROVE  Store!Becomes(k, Value(e), r)
<1>1. \/ reply' = r /\ Value(store'[k]) = Value(e)
      \/ Value(store'[k]) = Store!None
  BY ValueIs DEF Made
<1>2. \A j \in Keys \ {k} : Value(store'[j]) \in {Value(store[j]), Store!None}
  BY ValueIs DEF Made, Loses
<1> QED BY <1>1, <1>2 DEF Store!Becomes

LEMMA MadeRefuses ==
    ASSUME Dict(store), NEW k \in Keys, Made(k, store[k], Err)
    PROVE  Store!Refuse(k) /\ Steps({})
<1>1. store[k] \in Entries
  BY DEF Dict
<1>2. Store!Becomes(k, Value(store[k]), Err)
  BY MadeBecomes
<1>3. Steps({})
  BY <1>1, KeepsIs, MadeSteps
<1> QED BY <1>2, <1>3 DEF Store!Refuse

LEMMA HoldsIs ==
    ASSUME Dict(store), NEW k \in Keys, NEW type
    PROVE  Store!Holds(k, type) <=> store[k].type \in {"none", type}
<1>1. store[k] \in Entries /\ Value(store[k]).type = store[k].type
  BY ValueIs DEF Dict
<1> QED BY <1>1 DEF Store!Holds

-----------------------------------------------------------------------------
(* Each command does to the entries what it may, and to the values what the *)
(* abstract store says.  First the hashes.                                  *)

LEMMA HashHere ==
    ASSUME Dict(store), NEW k \in Keys, store[k].type = "hash"
    PROVE  \E n \in Sizes, S \in Keyed :
              /\ S # {} /\ store[k] = Hash(n, S) /\ Value(store[k]).map = MapOf(S)
              /\ Len(store[k].buckets) = n
<1>1. PICK n \in Sizes, S \in Keyed \ {{}} : store[k] = Hash(n, S)
  BY EntryIs DEF Dict, HashEntries
<1>2. Value(store[k]) = Store!Hash(MapOf(S)) /\ DOMAIN MapOf(S) # {}
  <2>1. DOMAIN MapOf(S) # {}
    BY MapIs
  <2> QED BY <1>1, <2>1, ValueIs
<1>3. Value(store[k]).map = MapOf(S)
  BY <1>2 DEF Store!Hash
<1> QED BY <1>1, <1>3, HashIs

LEMMA HashBase ==
    ASSUME Dict(store), NEW k \in Keys, store[k].type \in {"none", "hash"}
    PROVE  \E n \in Sizes, S \in Keyed :
              /\ Base(k, "hash") = Hash(n, S) /\ Value(store[k]).map = MapOf(S)
              /\ store[k].type = "hash" => store[k] = Hash(n, S) /\ Len(store[k].buckets) = n
<1>1. CASE store[k].type = "none"
  <2>1. store[k] = Absent /\ k \notin Linked(store)
    BY <1>1, EntryIs, LinkedIs DEF Dict
  <2>2. Base(k, "hash") = Hash(Buckets0, {}) /\ Buckets0 \in Sizes /\ {} \in Keyed
    BY <2>1, NewIs DEF Base
  <2>3. MapOf({}) = [x \in {} |-> 0]
    BY DEF MapOf
  <2>4. Value(store[k]).map = MapOf({})
    BY <2>1, <2>3, ValueIs DEF Store!None, Store!NoMap
  <2> QED BY <1>1, <2>2, <2>4
<1>2. CASE store[k].type = "hash"
  <2>1. Base(k, "hash") = store[k]
    BY <1>2, LinkedIs DEF Base
  <2> QED BY <1>2, <2>1, HashHere
<1> QED BY <1>1, <1>2

LEMMA HashMakes ==
    ASSUME Dict(store), NEW k \in Keys, store[k].type \in {"none", "hash"},
           NEW n \in Sizes, store[k].type = "hash" => Len(store[k].buckets) = n,
           NEW m \in Sizes, NEW R \in Keyed, R # {}, Grows(n, m),
           NEW r, Made(k, Hash(m, R), r)
    PROVE  Steps({}) /\ Store!Becomes(k, Store!Hash(MapOf(R)), r)
<1> DEFINE e == Hash(m, R)
<1>1. e \in Entries /\ e.type = "hash" /\ Len(e.buckets) = m
  BY HashIs DEF Entries, HashEntries
<1>2. Value(e) = Store!Hash(MapOf(R))
  BY ValueIs
<1> HIDE DEF e
<1>3. Widens(store[k], e) /\ Sorts(store[k], e)
  BY <1>1 DEF Widens, Sorts
<1>4. Steps({})
  BY <1>1, <1>3, MadeSteps DEF e
<1>5. Store!Becomes(k, Value(e), r)
  BY MadeBecomes DEF e
<1> QED BY <1>2, <1>4, <1>5

LEMMA DifferenceCount ==
    ASSUME NEW A, NEW B, IsFiniteSet(A), B \subseteq A
    PROVE  /\ Cardinality(A \ B) = Cardinality(A) - Cardinality(B)
           /\ Cardinality(A) \in Nat /\ Cardinality(B) \in Nat
<1>1. A \cap B = B
  OBVIOUS
<1>2. Cardinality(A \ B) = Cardinality(A) - Cardinality(A \cap B)
  BY FS_Difference
<1>3. IsFiniteSet(B)
  BY FS_Subset
<1> QED BY <1>1, <1>2, <1>3, FS_CardinalityType

\* The abstract store counts as this module does.
LEMMA SameCardinality ==
    \A S : Store!Cardinality(S) = Cardinality(S)
BY DEF Store!Cardinality, Cardinality, Store!IsFiniteSet, IsFiniteSet

LEMMA HSetDoes ==
    ASSUME Dict(store), NEW k \in Keys,
           NEW pairs \in Seq(Fields \X Strings), pairs # <<>>, HSet(k, pairs)
    PROVE  Steps({}) /\ Store!HSet(k, pairs)
<1> DEFINE old == Base(k, "hash")
           e == HSetAll(old, pairs)
           r == Told(e.nfields - old.nfields, Err)
<1>1. Write(k, "hash", e, r) /\ r.kept = e.nfields - old.nfields /\ "hash" \in Types
  BY DEF HSet, Told, Types
<1> HIDE DEF e, r
<1>2. CASE store[k].type \notin {"none", "hash"}
  <2>1. Made(k, store[k], Err)
    BY <1>1, <1>2, WriteMakes
  <2> QED BY <1>2, <2>1, MadeRefuses, HoldsIs DEF Store!HSet, Store!Wrong
<1>3. CASE store[k].type \in {"none", "hash"}
  <2>1. PICK n \in Sizes, S \in Keyed :
           /\ old = Hash(n, S) /\ Value(store[k]).map = MapOf(S)
           /\ store[k].type = "hash" => store[k] = Hash(n, S) /\ Len(store[k].buckets) = n
    BY <1>3, HashBase
  <2>2. PICK m \in Sizes, R \in Keyed :
           /\ e = Hash(m, R)
           /\ R # {} /\ Grows(n, m)
           /\ MapOf(R) = Store!Updated(MapOf(S), pairs)
           /\ DOMAIN MapOf(S) \subseteq DOMAIN MapOf(R)
    BY <2>1, HSetAllDoes DEF e
  <2>3. e.type = "hash" /\ e.nfields = Cardinality(R) /\ old.nfields = Cardinality(S)
    BY <2>1, <2>2, HashIs
  <2>4. r.kept = Store!Cardinality(DOMAIN MapOf(R) \ DOMAIN MapOf(S))
    <3>1. /\ IsFiniteSet(DOMAIN MapOf(R)) /\ Cardinality(DOMAIN MapOf(R)) = Cardinality(R)
          /\ Cardinality(DOMAIN MapOf(S)) = Cardinality(S)
      BY MapIs
    <3>2. r.kept = Cardinality(DOMAIN MapOf(R) \ DOMAIN MapOf(S))
      BY <1>1, <2>2, <2>3, <3>1, DifferenceCount
    <3> QED BY <3>2, SameCardinality
  <2>5. Made(k, e, r.kept)
    BY <1>1, <1>3, <2>3, WriteMakes
  <2>6. Steps({}) /\ Store!Becomes(k, Store!Hash(MapOf(R)), r.kept)
    BY <1>3, <2>1, <2>2, <2>5, HashMakes
  <2>7. Store!HSet(k, pairs)
    <3> DEFINE map == Value(store[k]).map
               f == Store!Updated(map, pairs)
    <3>1. Store!Holds(k, "hash")
      BY <1>3, HoldsIs
    <3>2. Store!Becomes(k, Store!Hash(f), Store!Cardinality(DOMAIN f \ DOMAIN map))
      BY <2>1, <2>2, <2>4, <2>6
    <3> QED BY <3>1, <3>2 DEF Store!HSet
  <2> QED BY <2>6, <2>7
<1> QED BY <1>2, <1>3

LEMMA AbsentMakes ==
    ASSUME Dict(store), NEW k \in Keys, NEW r, Made(k, Absent, r)
    PROVE  Steps({}) /\ Store!Becomes(k, Store!None, r)
<1>1. Widens(store[k], Absent) /\ Sorts(store[k], Absent)
  BY KeepsIs DEF Dict
<1>2. Steps({})
  BY <1>1, AbsentIs, MadeSteps
<1>3. Store!Becomes(k, Value(Absent), r)
  BY MadeBecomes
<1> QED BY <1>2, <1>3, ValueIs

\* Functions without anything in them.
LEMMA NothingIs ==
    /\ \A f : DOMAIN f = {} => Store!Hash(f) = Store!None /\ Store!ZSet(f) = Store!None
    /\ \A names : DOMAIN Store!Without(Store!None.map, names) = {}
    /\ DOMAIN Store!None.map = {} /\ Store!None.list = <<>> /\ Store!None.type = "none"
    /\ Store!List(<<>>) = Store!None
    /\ Cardinality({}) = 0
BY FS_EmptySet DEF Store!Hash, Store!ZSet, Store!None, Store!NoMap, Store!Without, Store!List

LEMMA HDelDoes ==
    ASSUME Dict(store), NEW k \in Keys, NEW fields \in Seq(Fields), HDel(k, fields)
    PROVE  Steps({}) /\ Store!HDel(k, fields)
<1> DEFINE e == HDelAll(store[k], fields)
           r == store[k].nfields - e.nfields
           map == Value(store[k]).map
           F == ToSet(fields)
           f == Store!Without(map, F)
           lost == Store!Cardinality(DOMAIN map \ DOMAIN f)
<1>1. TakeOut(k, "hash", e, r, 0) /\ "hash" \in Types
  BY DEF HDel, Types
<1>2. Store!Holds(k, "hash") /\ Store!Becomes(k, Store!Hash(f), lost) => Store!HDel(k, fields)
  BY DEF Store!HDel, Store!ToSet, ToSet
<1>3. CASE store[k] = Absent /\ Made(k, Absent, 0)
  <2>1. Steps({}) /\ Store!Becomes(k, Store!None, 0)
    BY <1>3, AbsentMakes
  <2>2. map = Store!None.map
    BY <1>3, ValueIs
  <2>3. DOMAIN f = {} /\ DOMAIN map = {}
    BY <2>2, NothingIs
  <2> HIDE DEF map, f
  <2>4. lost = 0 /\ Store!Hash(f) = Store!None
    <3>1. DOMAIN map \ DOMAIN f = {}
      BY <2>3
    <3> QED BY <2>3, <3>1, NothingIs, SameCardinality
  <2>5. Store!Holds(k, "hash")
    BY <1>3, AbsentIs, HoldsIs
  <2> QED BY <1>2, <2>1, <2>4, <2>5
<1>4. CASE store[k].type \notin {"none", "hash"} /\ Made(k, store[k], Err)
  BY <1>4, MadeRefuses, HoldsIs DEF Store!HDel, Store!Wrong
<1>5. CASE store[k].type = "hash" /\ Made(k, IF IsEmpty(e) THEN Absent ELSE e, r)
  <2>1. PICK n \in Sizes, S \in Keyed :
           /\ S # {} /\ store[k] = Hash(n, S) /\ map = MapOf(S)
           /\ Len(store[k].buckets) = n
    BY <1>5, HashHere
  <2> DEFINE R == {q \in S : q.field \notin F}
  <2>2. e = Hash(n, R)
    BY <2>1, HDelAllDoes
  <2>3. R \in Keyed /\ MapOf(R) = f
    BY <2>1, MapWithout
  <2>4. R \subseteq S
    OBVIOUS
  <2> HIDE DEF R, f, e, map
  <2>5. /\ e.nfields = Cardinality(R) /\ e.list = <<>> /\ e.arr = <<>>
        /\ (R = {} <=> e.nfields = 0) /\ store[k].nfields = Cardinality(S)
    BY <2>1, <2>2, <2>3, HashIs
  <2>6. IsEmpty(e) <=> R = {}
    BY <2>5 DEF IsEmpty
  <2>7. r = lost
    <3>1. /\ IsFiniteSet(DOMAIN map) /\ Cardinality(DOMAIN map) = Cardinality(S)
          /\ Cardinality(DOMAIN f) = Cardinality(R)
          /\ DOMAIN map = {q.field : q \in S} /\ DOMAIN f = {q.field : q \in R}
      BY <2>1, <2>3, MapIs
    <3>2. DOMAIN f \subseteq DOMAIN map
      BY <2>4, <3>1
    <3> DEFINE A == DOMAIN map
               B == DOMAIN f
    <3> HIDE DEF A, B
    <3>4. IsFiniteSet(A) /\ B \subseteq A /\ Cardinality(A) = Cardinality(S) /\ Cardinality(B) = Cardinality(R)
      BY <3>1, <3>2 DEF A, B
    <3>5. Cardinality(A \ B) = Cardinality(A) - Cardinality(B)
      BY <3>4, DifferenceCount
    <3>3. Cardinality(DOMAIN map \ DOMAIN f) = Cardinality(S) - Cardinality(R)
      BY <3>4, <3>5 DEF A, B
    <3> QED BY <2>5, <3>3, SameCardinality
  <2>8. Store!Holds(k, "hash")
    BY <1>5, HoldsIs
  <2>9. Steps({}) /\ Store!Becomes(k, Store!Hash(f), r)
    <3>1. CASE R = {}
      <4>1. Steps({}) /\ Store!Becomes(k, Store!None, r)
        BY <1>5, <2>6, <3>1, AbsentMakes
      <4>2. DOMAIN f = {}
        BY <2>3, <3>1, MapIs
      <4> QED BY <4>1, <4>2, NothingIs
    <3>2. CASE R # {}
      <4>1. Made(k, Hash(n, R), r)
        BY <1>5, <2>2, <2>6, <3>2
      <4> HIDE DEF r
      <4> QED BY <1>5, <2>1, <2>3, <3>2, <4>1, GrowsBy, HashMakes
    <3> QED BY <3>1, <3>2
  <2> HIDE DEF r, lost
  <2> QED BY <1>2, <2>7, <2>8, <2>9
<1> HIDE DEF e, r
<1> QED BY <1>1, <1>3, <1>4, <1>5, TakeOutMakes

LEMMA HIncrByDoes ==
    ASSUME Dict(store), NEW k \in Keys, NEW f \in Fields, NEW by \in Int, HIncrBy(k, f, by)
    PROVE  Steps({}) /\ Store!HIncrBy(k, f, by)
<1> DEFINE Value_(e) == IF HashFind(e, f) = {} THEN 0
                        ELSE (CHOOSE r \in HashFind(e, f) : TRUE).val
           old == IF store[k].type = "hash" THEN Value_(store[k]) ELSE 0
           map == Value(store[k]).map
           was == IF f \in DOMAIN map THEN map[f] ELSE 0
<1>1. IF old \in Text THEN Answer(store, Err)
      ELSE Write(k, "hash", Stored(Base(k, "hash"), f, old + by), Told(old + by, 0))
  BY DEF HIncrBy
<1>2. "hash" \in Types /\ Told(old + by, 0).kept = old + by
  BY DEF Types, Told
<1>3. Answer(store, Err) => Made(k, store[k], Err)
  BY DEF Answer, Made, Loses, Dict
<1> HIDE DEF old
<1>4. CASE store[k].type \notin {"none", "hash"}
  <2>1. Made(k, store[k], Err)
    BY <1>1, <1>2, <1>3, <1>4, WriteMakes
  <2> QED BY <1>4, <2>1, MadeRefuses, HoldsIs DEF Store!HIncrBy, Store!Wrong
<1>5. CASE store[k].type \in {"none", "hash"}
  <2>1. PICK n \in Sizes, S \in Keyed :
           /\ Base(k, "hash") = Hash(n, S) /\ map = MapOf(S)
           /\ store[k].type = "hash" => store[k] = Hash(n, S) /\ Len(store[k].buckets) = n
    BY <1>5, HashBase
  <2>2. Store!Holds(k, "hash")
    BY <1>5, HoldsIs
  <2>3. old = was /\ (old \in Text \/ old \in Int)
    <3>1. CASE store[k].type = "hash"
      <4> DEFINE H == {r \in S : r.field = f}
      <4>1. HashFind(store[k], f) = H
        BY <2>1, <3>1, FindIs
      <4>2. /\ DOMAIN map = {r.field : r \in S} /\ \A r \in S : map[r.field] = r.val
            /\ \A x \in DOMAIN map : map[x] \in Strings
        BY <2>1, MapIs
      <4>3. CASE H = {}
        <5>1. f \notin DOMAIN map
          BY <4>2, <4>3
        <5>2. old = 0
          BY <3>1, <4>1, <4>3 DEF old
        <5> QED BY <5>1, <5>2
      <4>4. CASE H # {}
        <5> DEFINE c == CHOOSE r \in H : TRUE
        <5>1. c \in H
          BY <4>4
        <5>2. old = c.val
          BY <3>1, <4>1, <4>4 DEF old
        <5> HIDE DEF c
        <5>3. f \in DOMAIN map /\ map[f] = c.val
          BY <4>2, <5>1
        <5> QED BY <4>2, <5>2, <5>3 DEF Strings
      <4> QED BY <4>3, <4>4
    <3>2. CASE store[k].type = "none"
      <4>1. store[k] = Absent
        BY <3>2, EntryIs DEF Dict
      <4>2. DOMAIN map = {}
        BY <4>1, ValueIs, NothingIs
      <4> QED BY <3>2, <4>2 DEF old
    <3> QED BY <1>5, <3>1, <3>2
  <2> HIDE DEF was, map
  <2>4. CASE old \in Text
    <3>1. Store!Refuse(k) /\ Steps({})
      BY <1>1, <1>3, <2>4, MadeRefuses
    <3>2. was \in Text
      BY <2>3, <2>4
    <3> QED BY <2>2, <3>1, <3>2 DEF Store!HIncrBy, was, map
  <2>5. CASE old \notin Text
    <3> DEFINE v == old + by
               R == With(S, f, v)
               g == [i \in 0..1 |-> IF i = 0 THEN map ELSE At(map, f, v)]
               one == <<<<f, v>>>>
    <3>1. v \in Int /\ v \in Strings
      BY <2>3, <2>5 DEF Strings
    <3> HIDE DEF v
    <3>2. R \in Keyed /\ R # {} /\ MapOf(R) = At(map, f, v)
      BY <2>1, <3>1, WithKeyed, MapWith
    <3>3. Stored(Hash(n, S), f, v) = Hash(n, R)
      BY <3>1, StoredIs
    <3>4. Store!Updated(map, one) = At(map, f, v)
      <4>1. g = [i \in 0..1 |-> g[i]] /\ g[0] = map /\ g[1] = At(map, f, v)
        OBVIOUS
      <4>2. Len(one) = 1 /\ one[1] = <<f, v>>
        OBVIOUS
      <4>3. \A i \in 1..1 : i = 1 /\ i - 1 = 0
        OBVIOUS
      <4> HIDE DEF g, one
      <4>4. Updates(map, one, 1, g)
        BY <4>1, <4>2, <4>3 DEF Updates
      <4> QED BY <4>1, <4>4, UpdatedIs
    <3>5. Write(k, "hash", Hash(n, R), Told(v, 0)) /\ Told(v, 0).kept = v
      BY <1>1, <2>1, <2>5, <3>3 DEF Told, v
    <3> HIDE DEF R
    <3>6. Hash(n, R).type = "hash"
      BY <3>2, HashIs
    <3>7. Made(k, Hash(n, R), v)
      BY <1>2, <1>5, <3>5, <3>6, WriteMakes
    <3>8. Steps({}) /\ Store!Becomes(k, Store!Hash(MapOf(R)), v)
      BY <1>5, <2>1, <3>2, <3>7, GrowsBy, HashMakes
    <3>9. v = was + by /\ was \notin Text
      BY <2>3, <2>5 DEF v
    <3>10. Store!Becomes(k, Store!Hash(Store!Updated(map, <<<<f, was + by>>>>)), was + by)
      BY <3>2, <3>4, <3>8, <3>9
    <3> QED BY <2>2, <3>8, <3>9, <3>10 DEF Store!HIncrBy, was, map
  <2> QED BY <2>4, <2>5
<1> QED BY <1>4, <1>5

-----------------------------------------------------------------------------
(* The lists.                                                               *)

LEMMA ListIs ==
    ASSUME Dict(store), NEW k \in Keys, store[k].type \in {"none", "list"}
    PROVE  /\ store[k].list \in Lists
           /\ Base(k, "list").list = store[k].list
           /\ Value(store[k]).list = store[k].list
           /\ Value(store[k]).map = Store!NoMap
           /\ store[k].list = <<>> => store[k] = Absent
<1>1. store[k] \in Entries
  BY DEF Dict
<1>2. CASE store[k].type = "none"
  <2>1. store[k] = Absent /\ k \notin Linked(store)
    BY <1>1, <1>2, EntryIs, LinkedIs
  <2>2. Base(k, "list").list = <<>>
    BY <2>1, NewIs DEF Base, ListOf
  <2>3. Absent.list = <<>> /\ Value(Absent).list = <<>> /\ Value(Absent).map = Store!NoMap
    BY AbsentIs, ValueIs DEF Store!None
  <2> QED BY <2>1, <2>2, <2>3 DEF Lists
<1>3. CASE store[k].type = "list"
  <2>1. PICK s \in Lists \ {<<>>} : store[k] = ListOf(s)
    BY <1>1, <1>3, EntryIs DEF ListEntries
  <2>2. Base(k, "list") = store[k]
    BY <1>3, LinkedIs DEF Base
  <2>3. store[k].list = s
    BY <2>1 DEF ListOf
  <2>4. Value(store[k]) = Store!List(s)
    BY <2>1, ValueIs
  <2>5. Value(store[k]).list = s /\ Value(store[k]).map = Store!NoMap
    BY <2>1, <2>4 DEF Store!List
  <2> QED BY <2>1, <2>2, <2>3, <2>5
<1> QED BY <1>2, <1>3

LEMMA ListMakes ==
    ASSUME Dict(store), NEW k \in Keys, NEW s \in Lists,
           NEW r, Made(k, IF s = <<>> THEN Absent ELSE ListOf(s), r)
    PROVE  Steps({}) /\ Store!Becomes(k, Store!List(s), r)
<1>1. CASE s = <<>>
  BY <1>1, AbsentMakes, NothingIs
<1>2. CASE s # <<>>
  <2> DEFINE e == ListOf(s)
  <2>1. e \in Entries /\ e.type = "list"
    BY <1>2 DEF Entries, ListEntries, ListOf
  <2>2. Value(e) = Store!List(s)
    BY <1>2, ValueIs
  <2>3. Made(k, e, r)
    BY <1>2
  <2> HIDE DEF e
  <2>4. Widens(store[k], e) /\ Sorts(store[k], e)
    BY <2>1 DEF Widens, Sorts
  <2>5. Steps({})
    BY <2>1, <2>3, <2>4, MadeSteps
  <2>6. Store!Becomes(k, Value(e), r)
    BY <2>3, MadeBecomes
  <2> QED BY <2>2, <2>5, <2>6
<1> QED BY <1>1, <1>2

\* The abstract store's operators on sequences are those of this module.
LEMMA SameSequences ==
    /\ \A s : /\ Store!Reverse(s) = Reverse(s) /\ Store!Front(s) = Front(s)
              /\ Store!Last(s) = Last(s) /\ Store!ToSet(s) = ToSet(s)
    /\ \A s, P : Store!At(s, P) = Picked(s, P)
<1>1. \A s : /\ Store!Reverse(s) = Reverse(s) /\ Store!Front(s) = Front(s)
             /\ Store!Last(s) = Last(s) /\ Store!ToSet(s) = ToSet(s)
  BY DEF Store!Reverse, Reverse, Store!Front, Front, Store!Last, Last, Store!ToSet, ToSet
<1>2. \A s, P : Store!At(s, P) = Picked(s, P)
  BY DEF Store!At, Picked, Store!Cardinality, Cardinality, Store!IsFiniteSet, IsFiniteSet
<1> QED BY <1>1, <1>2

LEMMA JoinIs ==
    ASSUME NEW T, NEW s \in Seq(T), NEW t \in Seq(T)
    PROVE  s \o t \in Seq(T) /\ Len(s \o t) = Len(s) + Len(t) /\ Len(s) \in Nat /\ Len(t) \in Nat
OBVIOUS

LEMMA PushDoes ==
    ASSUME Dict(store), NEW k \in Keys, NEW left \in BOOLEAN, NEW vals \in Seq(Strings),
           vals # <<>>, Push(k, left, vals)
    PROVE  Steps({}) /\ Store!Push(k, left, vals)
<1> DEFINE l == Base(k, "list").list
           s == IF left THEN Reverse(vals) \o l ELSE l \o vals
           e == ListOf(s)
           r == [kept |-> Len(e.list), evicted |-> Garbage, gone |-> Err]
<1>1. Write(k, "list", e, r) /\ "list" \in Types
  BY DEF Push, Types
<1>2. e.type = "list" /\ e.list = s
  BY DEF ListOf
<1>3. r.kept = Len(s)
  BY <1>2
<1> HIDE DEF e, r
<1>4. CASE store[k].type \notin {"none", "list"}
  <2>1. Made(k, store[k], Err)
    BY <1>1, <1>4, WriteMakes
  <2> QED BY <1>4, <2>1, MadeRefuses, HoldsIs DEF Store!Push, Store!Wrong
<1>5. CASE store[k].type \in {"none", "list"}
  <2>1. l \in Lists /\ l = Value(store[k]).list
    BY <1>5, ListIs
  <2>2. s \in Lists /\ s # <<>>
    <3>1. Reverse(vals) \in Seq(Strings) /\ Len(Reverse(vals)) = Len(vals)
      BY DEF Reverse
    <3>2. Len(vals) \in Nat /\ Len(vals) # 0
      BY EmptySeq
    <3> HIDE DEF l
    <3>3. CASE left
      <4>1. s = Reverse(vals) \o l
        BY <3>3
      <4> HIDE DEF s
      <4> DEFINE w == Reverse(vals)
      <4>4. w \in Seq(Strings) /\ Len(w) = Len(vals) /\ l \in Seq(Strings) /\ s = w \o l
        BY <2>1, <3>1, <4>1 DEF Lists
      <4> HIDE DEF w
      <4>5. w \in Seq(Strings) /\ l \in Seq(Strings)
        BY <4>4
      <4>6. w \o l \in Seq(Strings) /\ Len(w \o l) = Len(w) + Len(l) /\ Len(l) \in Nat
        BY <4>5, JoinIs
      <4>2. s \in Seq(Strings) /\ Len(s) = Len(vals) + Len(l) /\ Len(l) \in Nat
        BY <4>4, <4>6
      <4> HIDE DEF s
      <4>3. Len(s) # 0
        BY <3>2, <4>2
      <4> QED BY <4>2, <4>3 DEF Lists
    <3>4. CASE ~ left
      <4>1. s = l \o vals
        BY <3>4
      <4>2. s \in Seq(Strings) /\ Len(s) = Len(l) + Len(vals) /\ Len(l) \in Nat
        BY <2>1, <4>1, JoinIs DEF Lists
      <4> HIDE DEF s
      <4>3. Len(s) # 0
        BY <3>2, <4>2
      <4> QED BY <4>2, <4>3 DEF Lists
    <3> QED BY <3>3, <3>4
  <2>3. Made(k, e, r.kept)
    BY <1>1, <1>2, <1>5, WriteMakes
  <2> HIDE DEF l
  <2>4. s = IF left THEN Store!Reverse(vals) \o Value(store[k]).list ELSE Value(store[k]).list \o vals
    BY <2>1, SameSequences
  <2>5. Store!Holds(k, "list")
    BY <1>5, HoldsIs
  <2> HIDE DEF s
  <2>6. Made(k, IF s = <<>> THEN Absent ELSE ListOf(s), Len(s))
    BY <1>3, <2>2, <2>3 DEF e
  <2>7. Steps({}) /\ Store!Becomes(k, Store!List(s), Len(s))
    BY <2>2, <2>6, ListMakes
  <2> QED BY <2>4, <2>5, <2>7 DEF Store!Push
<1> QED BY <1>4, <1>5

LEMMA ListTakes ==
    ASSUME Dict(store), NEW k \in Keys, NEW s, NEW r, NEW missing,
           TakeOut(k, "list", ListOf(s), r, missing),
           store[k].type = "list" => s \in Lists
    PROVE  /\ Steps({})
           /\ \/ Store!Wrong(k, "list")
              \/ /\ Store!Holds(k, "list") /\ store[k] = Absent
                 /\ Store!Becomes(k, Store!None, missing)
              \/ /\ Store!Holds(k, "list") /\ store[k].type = "list"
                 /\ Store!Becomes(k, Store!List(s), r)
<1>1. "list" \in Types /\ Absent.type = "none"
  BY AbsentIs DEF Types
<1>2. CASE store[k] = Absent /\ Made(k, Absent, missing)
  BY <1>1, <1>2, AbsentMakes, HoldsIs
<1>3. CASE store[k].type \notin {"none", "list"} /\ Made(k, store[k], Err)
  BY <1>3, MadeRefuses, HoldsIs DEF Store!Wrong
<1>4. CASE store[k].type = "list" /\ Made(k, IF IsEmpty(ListOf(s)) THEN Absent ELSE ListOf(s), r)
  <2>1. IsEmpty(ListOf(s)) <=> s = <<>>
    BY DEF IsEmpty, ListOf
  <2>2. Made(k, IF s = <<>> THEN Absent ELSE ListOf(s), r)
    BY <1>4, <2>1
  <2> QED BY <1>4, <2>2, ListMakes, HoldsIs
<1>5. \/ store[k] = Absent /\ Made(k, Absent, missing)
      \/ store[k].type \notin {"none", "list"} /\ Made(k, store[k], Err)
      \/ store[k].type = "list" /\ Made(k, IF IsEmpty(ListOf(s)) THEN Absent ELSE ListOf(s), r)
  BY <1>1, TakeOutMakes
<1> QED BY <1>2, <1>3, <1>4, <1>5

LEMMA PopDoes ==
    ASSUME Dict(store), NEW k \in Keys, NEW left \in BOOLEAN, Pop(k, left)
    PROVE  Steps({}) /\ Store!Pop(k, left)
<1> DEFINE l == store[k].list
           v == Value(store[k])
           s == IF left THEN Tail(l) ELSE Front(l)
           r == IF left THEN Head(l) ELSE Last(l)
<1>1. TakeOut(k, "list", ListOf(s), r, Nil)
  BY DEF Pop
<1>2. store[k].type = "list" => l \in Lists /\ l # <<>> /\ v.list = l
  BY ListIs, AbsentIs
<1>3. store[k].type = "list" => s \in Lists
  <2>1. SUFFICES ASSUME l \in Lists, l # <<>> PROVE s \in Lists
    BY <1>2
  <2> HIDE DEF l
  <2>2. Tail(l) \in Seq(Strings)
    BY <2>1 DEF Lists
  <2>3. Front(l) \in Seq(Strings)
    BY <2>1, EmptySeq DEF Front, Lists
  <2> QED BY <2>2, <2>3 DEF Lists
<1> HIDE DEF s, r, l
<1>4. /\ Steps({})
      /\ \/ Store!Wrong(k, "list")
         \/ /\ Store!Holds(k, "list") /\ store[k] = Absent
            /\ Store!Becomes(k, Store!None, Nil)
         \/ /\ Store!Holds(k, "list") /\ store[k].type = "list"
            /\ Store!Becomes(k, Store!List(s), r)
  BY <1>1, <1>3, ListTakes
<1>5. CASE Store!Wrong(k, "list")
  BY <1>4, <1>5 DEF Store!Pop
<1>6. CASE Store!Holds(k, "list") /\ store[k] = Absent /\ Store!Becomes(k, Store!None, Nil)
  <2>1. v = Store!None /\ v.list = <<>>
    BY <1>6, ValueIs, NothingIs
  <2>2. Store!Becomes(k, v, Nil)
    BY <1>6, <2>1
  <2> QED BY <1>4, <1>6, <2>1, <2>2 DEF Store!Pop
<1>7. CASE Store!Holds(k, "list") /\ store[k].type = "list" /\ Store!Becomes(k, Store!List(s), r)
  <2>1. v.list = l /\ l # <<>>
    BY <1>2, <1>7
  <2>2. Front(l) = Store!Front(l) /\ Last(l) = Store!Last(l)
    BY SameSequences
  <2>3. CASE left
    <3>1. Store!Becomes(k, Store!List(Tail(l)), Head(l))
      BY <1>7, <2>3 DEF s, r
    <3> QED BY <1>4, <1>7, <2>1, <2>3, <3>1 DEF Store!Pop
  <2>4. CASE ~ left
    <3>1. Store!Becomes(k, Store!List(Store!Front(l)), Store!Last(l))
      BY <1>7, <2>2, <2>4 DEF s, r
    <3> QED BY <1>4, <1>7, <2>1, <2>4, <3>1 DEF Store!Pop
  <2> QED BY <2>3, <2>4
<1> QED BY <1>4, <1>5, <1>6, <1>7

LEMMA LRemDoes ==
    ASSUME Dict(store), NEW k \in Keys, NEW count \in Int, NEW v, LRem(k, count, v)
    PROVE  Steps({}) /\ Store!LRem(k, count, v)
<1> DEFINE l == store[k].list
           H == Hits(l, count, v)
           s == Picked(l, DOMAIN l \ H)
           r == Len(l) - Len(s)
<1>1. TakeOut(k, "list", ListOf(s), r, 0)
  BY DEF LRem
<1>2. store[k].type \in {"none", "list"} => l \in Lists /\ Value(store[k]).list = l
  BY ListIs
<1>3. l \in Lists => /\ H = Gone(l, count, v)
                     /\ s \in Lists
                     /\ r = Cardinality(H)
  <2>1. SUFFICES ASSUME l \in Lists
                 PROVE  H = Gone(l, count, v) /\ s \in Lists /\ r = Cardinality(H)
    OBVIOUS
  <2>2. l \in Seq(Strings) /\ Len(l) \in Nat /\ DOMAIN l = 1..Len(l)
    BY <2>1 DEF Lists
  <2> DEFINE D == DOMAIN l
  <2>3. H = Gone(l, count, v) /\ H \in SUBSET D
    BY <2>2, HitsAreGone
  <2> HIDE DEF l, H
  <2>4. s \in Seq(Strings) /\ Len(s) = Cardinality(D \ H)
    <3>1. D \ H \in SUBSET (DOMAIN l)
      OBVIOUS
    <3> QED BY <2>2, <3>1, PickedIs
  <2>5. IsFiniteSet(D) /\ Cardinality(D) = Len(l)
    <3> DEFINE n == Len(l)
    <3>1. n \in Nat /\ DOMAIN l = 1..n
      BY <2>2
    <3> HIDE DEF n
    <3>2. IsFiniteSet(1..n) /\ Cardinality(1..n) = n
      BY <3>1, FS_Interval
    <3> QED BY <3>1, <3>2 DEF n
  <2> HIDE DEF D, s
  <2>6. Cardinality(D \ H) = Cardinality(D) - Cardinality(H) /\ Cardinality(H) \in Nat
    BY <2>3, <2>5, DifferenceCount
  <2>7. r = Cardinality(H)
    BY <2>2, <2>4, <2>5, <2>6
  <2> QED BY <2>3, <2>4, <2>7 DEF Lists
<1>4. (Store!Holds(k, "list") /\ l \in Lists /\ Store!Becomes(k, Store!List(s), r)) => Store!LRem(k, count, v)
  <2>1. SUFFICES ASSUME Store!Holds(k, "list"), l \in Lists, Store!Becomes(k, Store!List(s), r)
                 PROVE  Store!LRem(k, count, v)
    OBVIOUS
  <2>2. l = Value(store[k]).list
    BY <1>2, <2>1, HoldsIs
  <2> DEFINE G == Gone(l, count, v)
  <2>3. s = Store!At(l, DOMAIN l \ G) /\ r = Store!Cardinality(G)
    BY <1>3, <2>1, SameSequences, SameCardinality
  <2>4. Store!Becomes(k, Store!List(Store!At(l, DOMAIN l \ G)), Store!Cardinality(G))
    BY <2>1, <2>3
  <2> QED BY <2>1, <2>2, <2>4, SameCardinality DEF Store!LRem, Gone
<1>5. l = <<>> /\ l \in Lists => s = <<>> /\ r = 0
  <2>1. SUFFICES ASSUME l = <<>>, l \in Lists PROVE s = <<>> /\ r = 0
    OBVIOUS
  <2> HIDE DEF l
  <2>2. DOMAIN l \ H = {} /\ l \in Seq(Strings) /\ Len(l) = 0
    BY <2>1 DEF Lists
  <2>3. Len(s) = 0 /\ s \in Seq(Strings)
    BY <2>2, FS_EmptySet, PickedIs
  <2> HIDE DEF s
  <2> QED BY <2>2, <2>3, EmptySeq
<1> HIDE DEF s, r, l, H
<1>6. /\ Steps({})
      /\ \/ Store!Wrong(k, "list")
         \/ /\ Store!Holds(k, "list") /\ store[k] = Absent
            /\ Store!Becomes(k, Store!None, 0)
         \/ /\ Store!Holds(k, "list") /\ store[k].type = "list"
            /\ Store!Becomes(k, Store!List(s), r)
  BY <1>1, <1>2, <1>3, ListTakes
<1>7. CASE Store!Wrong(k, "list")
  BY <1>6, <1>7 DEF Store!LRem
<1>8. CASE Store!Holds(k, "list") /\ store[k] = Absent /\ Store!Becomes(k, Store!None, 0)
  <2>1. l = <<>> /\ l \in Lists
    BY <1>8, AbsentIs DEF l, Lists
  <2>2. Store!List(s) = Store!None /\ r = 0
    BY <1>5, <2>1, NothingIs
  <2> QED BY <1>4, <1>6, <1>8, <2>1, <2>2
<1>9. CASE Store!Holds(k, "list") /\ store[k].type = "list" /\ Store!Becomes(k, Store!List(s), r)
  BY <1>2, <1>4, <1>6, <1>9
<1> QED BY <1>6, <1>7, <1>8, <1>9

\* The window of LTRIM, LRANGE and ZRANGE is what lies between the two ends.
LEMMA WindowIs ==
    ASSUME NEW T, NEW s \in Seq(T), NEW start \in Int, NEW stop \in Int,
           NEW w, w = Window(Len(s), start, stop)
    PROVE  /\ SubSeq(s, w.first + 1, w.last + 1) = Picked(s, Places(s, start, stop))
           /\ Places(s, start, stop) \in SUBSET (DOMAIN s)
<1> DEFINE n == Len(s)
           from == IF start < 0 THEN n + start ELSE start
           to == IF stop < 0 THEN n + stop ELSE stop
           a == (IF from < 0 THEN 0 ELSE from) + 1
           b == (IF to >= n THEN n - 1 ELSE to) + 1
           P == {i \in DOMAIN s : from + 1 <= i /\ i <= to + 1}
<1>1. n \in Nat /\ DOMAIN s = 1..n /\ from \in Int /\ to \in Int
  OBVIOUS
<1>2. w.first + 1 = a /\ w.last + 1 = b
  BY DEF Window
<1>3. Places(s, start, stop) = P
  BY <1>1 DEF Places
<1> HIDE DEF from, to, n
<1>4. a \in Nat \ {0} /\ b \in Int /\ b <= n
  BY <1>1
<1>5. P = a..b
  BY <1>1
<1> HIDE DEF a, b, P
<1>6. Picked(s, a..b) = SubSeq(s, a, b)
  BY <1>4, PickedSegment DEF n
<1>7. P \in SUBSET (DOMAIN s)
  BY DEF P
<1> QED BY <1>2, <1>3, <1>5, <1>6, <1>7

LEMMA LTrimDoes ==
    ASSUME Dict(store), NEW k \in Keys, NEW start \in Int, NEW stop \in Int, LTrim(k, start, stop)
    PROVE  Steps({}) /\ Store!LTrim(k, start, stop)
<1> DEFINE l == store[k].list
           w == Window(Len(l), start, stop)
           s == SubSeq(l, w.first + 1, w.last + 1)
           P == Places(l, start, stop)
<1>1. TakeOut(k, "list", ListOf(s), Ok, Ok)
  BY DEF LTrim
<1>2. store[k].type \in {"none", "list"} => l \in Lists /\ Value(store[k]).list = l
  BY ListIs
<1>3. l \in Lists => s = Picked(l, P) /\ P \in SUBSET (DOMAIN l)
  BY WindowIs DEF Lists
<1> HIDE DEF s, w
<1>4. l \in Lists => s \in Lists
  <2> HIDE DEF l, P
  <2> QED BY <1>3, PickedIs DEF Lists
<1>5. (Store!Holds(k, "list") /\ l \in Lists /\ Store!Becomes(k, Store!List(s), Ok)) => Store!LTrim(k, start, stop)
  <2>1. SUFFICES ASSUME Store!Holds(k, "list"), l \in Lists, Store!Becomes(k, Store!List(s), Ok)
                 PROVE  Store!LTrim(k, start, stop)
    OBVIOUS
  <2>2. l = Value(store[k]).list
    BY <1>2, <2>1, HoldsIs
  <2>3. Store!Becomes(k, Store!List(Store!At(l, P)), Ok)
    BY <1>3, <2>1, SameSequences
  <2> QED BY <2>1, <2>2, <2>3 DEF Store!LTrim, Places
<1>6. l = <<>> /\ l \in Lists => s = <<>>
  <2>1. SUFFICES ASSUME l = <<>>, l \in Lists PROVE s = <<>>
    OBVIOUS
  <2> HIDE DEF l, P
  <2>2. P = {} /\ l \in Seq(Strings)
    BY <1>3, <2>1 DEF Lists
  <2>3. s = Picked(l, {}) /\ {} \in SUBSET (DOMAIN l)
    BY <1>3, <2>1, <2>2
  <2>4. Len(s) = 0 /\ s \in Seq(Strings)
    BY <2>2, <2>3, FS_EmptySet, PickedIs
  <2> QED BY <2>4, EmptySeq
<1> HIDE DEF l, P
<1>7. /\ Steps({})
      /\ \/ Store!Wrong(k, "list")
         \/ /\ Store!Holds(k, "list") /\ store[k] = Absent
            /\ Store!Becomes(k, Store!None, Ok)
         \/ /\ Store!Holds(k, "list") /\ store[k].type = "list"
            /\ Store!Becomes(k, Store!List(s), Ok)
  BY <1>1, <1>2, <1>4, ListTakes
<1>8. CASE Store!Wrong(k, "list")
  BY <1>7, <1>8 DEF Store!LTrim
<1>9. CASE Store!Holds(k, "list") /\ store[k] = Absent /\ Store!Becomes(k, Store!None, Ok)
  <2>1. l = <<>> /\ l \in Lists
    BY <1>9, AbsentIs DEF l, Lists
  <2>2. Store!List(s) = Store!None
    BY <1>6, <2>1, NothingIs
  <2> QED BY <1>5, <1>7, <1>9, <2>1, <2>2
<1>10. CASE Store!Holds(k, "list") /\ store[k].type = "list" /\ Store!Becomes(k, Store!List(s), Ok)
  BY <1>2, <1>5, <1>7, <1>10
<1> QED BY <1>7, <1>8, <1>9, <1>10

-----------------------------------------------------------------------------
(* The sorted sets.                                                         *)

LEMMA ZSetBase ==
    ASSUME Dict(store), NEW k \in Keys, store[k].type \in {"none", "zset"}
    PROVE  \E a \in Arrays :
              /\ Base(k, "zset") = ZSetOf(a) /\ Value(store[k]).map = ScoresOf(a)
              /\ Len(a) <= MaxMembers
              /\ store[k].type = "zset" => store[k] = ZSetOf(a) /\ a # <<>>
              /\ store[k].type = "none" => store[k] = Absent /\ a = <<>>
<1>1. store[k] \in Entries
  BY DEF Dict
<1>2. CASE store[k].type = "none"
  <2>1. store[k] = Absent /\ k \notin Linked(store)
    BY <1>1, <1>2, EntryIs, LinkedIs
  <2>2. Base(k, "zset") = ZSetOf(<<>>) /\ <<>> \in Arrays /\ Len(<<>>) <= MaxMembers
    BY <2>1, NewIs, ObjectsAssumption DEF Base
  <2>3. Named(<<>>) = {}
    BY DEF Named, Range
  <2>4. ScoresOf(<<>>) = [x \in {} |-> 0]
    BY <2>3 DEF ScoresOf
  <2>5. Value(store[k]).map = ScoresOf(<<>>)
    BY <2>1, <2>4, ValueIs DEF Store!None, Store!NoMap
  <2> QED BY <1>2, <2>1, <2>2, <2>5
<1>3. CASE store[k].type = "zset"
  <2>1. PICK a \in Arrays : a # <<>> /\ Len(a) <= MaxMembers /\ store[k] = ZSetOf(a)
    BY <1>1, <1>3, EntryIs DEF ZSetEntries
  <2>2. Base(k, "zset") = store[k]
    BY <1>3, LinkedIs DEF Base
  <2>3. Value(store[k]) = Store!ZSet(ScoresOf(a))
    BY <2>1, ValueIs
  <2>4. DOMAIN ScoresOf(a) # {}
    <3>1. Cardinality(Named(a)) = Len(a) /\ a \in Seq(ZNodes) /\ DOMAIN ScoresOf(a) = Named(a)
      BY ArrayIs, ScoresIs
    <3>2. Len(a) # 0
      BY <2>1, <3>1, EmptySeq
    <3> QED BY <3>1, <3>2, FS_EmptySet
  <2>5. Value(store[k]).map = ScoresOf(a)
    BY <2>3, <2>4 DEF Store!ZSet
  <2> QED BY <1>3, <2>1, <2>2, <2>5
<1> QED BY <1>2, <1>3

LEMMA ZSetMakes ==
    ASSUME Dict(store), NEW k \in Keys, NEW b \in Arrays, Len(b) <= MaxMembers,
           NEW K, k \in K \/ Sorts(store[k], ZSetOf(b)),
           NEW r, Made(k, IF b = <<>> THEN Absent ELSE ZSetOf(b), r)
    PROVE  Steps(K) /\ Store!Becomes(k, Store!ZSet(ScoresOf(b)), r)
<1>1. CASE b = <<>>
  <2>1. Steps({}) /\ Store!Becomes(k, Store!None, r)
    BY <1>1, AbsentMakes
  <2>2. DOMAIN ScoresOf(b) = {}
    BY <1>1 DEF ScoresOf, Named, Range
  <2> QED BY <2>1, <2>2, NothingIs DEF Steps
<1>2. CASE b # <<>>
  <2> DEFINE e == ZSetOf(b)
  <2>1. e \in Entries /\ e.type = "zset"
    BY <1>2 DEF Entries, ZSetEntries, ZSetOf
  <2>2. Value(e) = Store!ZSet(ScoresOf(b))
    BY <1>2, ValueIs
  <2>3. Made(k, e, r) /\ (k \in K \/ Sorts(store[k], e))
    BY <1>2
  <2> HIDE DEF e
  <2>4. Widens(store[k], e)
    BY <2>1 DEF Widens
  <2>5. Steps(K)
    BY <2>1, <2>3, <2>4, MadeSteps
  <2>6. Store!Becomes(k, Value(e), r)
    BY <2>3, MadeBecomes
  <2> QED BY <2>2, <2>5, <2>6
<1> QED BY <1>1, <1>2

\* The first elements of the pairs at the given places.
Firsts(pairs, X) == {pairs[i][1] : i \in X}

LEMMA FirstsCount ==
    ASSUME NEW pairs, NEW X, IsFiniteSet(X)
    PROVE  /\ Cardinality(Firsts(pairs, X)) \in Nat /\ Cardinality(X) \in Nat
           /\ Cardinality(Firsts(pairs, X)) <= Cardinality(X)
<1> DEFINE f == [i \in X |-> pairs[i][1]]
           Y == Firsts(pairs, X)
<1>1. f \in Surjection(X, Y)
  BY DEF Surjection, Firsts
<1> HIDE DEF f, Y
<1>2. IsFiniteSet(Y) /\ Cardinality(Y) <= Cardinality(X)
  BY <1>1, FS_Surjection DEF ExistsSurjection
<1> QED BY <1>2, FS_CardinalityType DEF Y

\* The pairs of ZADD that bring a new member.
News(a, pairs) == {i \in DOMAIN pairs : pairs[i][1] \notin Named(a)}

LEMMA ZAddFits ==
    ASSUME NEW a \in Arrays, NEW b \in Arrays, NEW pairs \in Seq(Members \X AnyScore),
           Named(b) = Named(a) \cup Firsts(pairs, 1..Len(pairs))
    PROVE  /\ IsFiniteSet(News(a, pairs)) /\ Cardinality(News(a, pairs)) <= Len(pairs)
           /\ Len(b) - Len(a) = Cardinality(Named(b) \ Named(a))
           /\ Len(b) <= Len(a) + Cardinality(News(a, pairs))
           /\ News(a, pairs) = {} => Len(b) = Len(a)
           /\ Cardinality(News(a, pairs)) \in Nat /\ Len(a) \in Nat /\ Len(b) \in Nat
<1> DEFINE X == News(a, pairs)
           N == Len(pairs)
           A == Named(a)
           B == Named(b)
<1>1. N \in Nat /\ DOMAIN pairs = 1..N /\ X \in SUBSET (1..N)
  BY DEF News
<1> HIDE DEF N
<1>2. IsFiniteSet(X) /\ Cardinality(X) \in Nat /\ Cardinality(X) <= N
  BY <1>1, PlaceOrder
<1>3. IsFiniteSet(B) /\ Cardinality(B) = Len(b) /\ Cardinality(A) = Len(a) /\ Len(a) \in Nat /\ Len(b) \in Nat
  BY ArrayIs
<1>4. A \subseteq B /\ B \ A = Firsts(pairs, X)
  BY <1>1 DEF Firsts, News, N
<1> HIDE DEF A, B, X
<1>5. Cardinality(B \ A) = Cardinality(B) - Cardinality(A)
  BY <1>3, <1>4, DifferenceCount
<1>6. Cardinality(B \ A) <= Cardinality(X)
  BY <1>2, <1>4, FirstsCount
<1>7. X = {} => Cardinality(X) = 0
  BY FS_EmptySet
<1>8. Cardinality(B \ A) \in Nat
  BY <1>2, <1>4, FirstsCount
<1>9. Len(b) - Len(a) = Cardinality(B \ A) /\ Len(b) <= Len(a) + Cardinality(X)
  BY <1>2, <1>3, <1>5, <1>6, <1>8
<1>10. X = {} => Len(b) = Len(a)
  BY <1>3, <1>5, <1>6, <1>7, <1>8
<1> QED BY <1>2, <1>3, <1>9, <1>10 DEF A, B, X, N

\* The keys whose sorted set a ZADD may put out of order.
Spoils(k, pairs) == IF \E i \in DOMAIN pairs : pairs[i][2] = NaN THEN {k} ELSE {}

LEMMA ZAddDoes ==
    ASSUME Dict(store), NEW k \in Keys, NEW pairs \in Seq(Members \X AnyScore),
           Len(pairs) \in 1..MaxMembers, ZAdd(k, pairs)
    PROVE  Steps(Spoils(k, pairs)) /\ Store!ZAdd(k, pairs)
<1> DEFINE old == Base(k, "zset")
           e == ZAddAll(old, pairs)
           r == Told(Len(e.arr) - Len(old.arr), Err)
           map == Value(store[k]).map
           f == Store!Updated(map, pairs)
           news == {i \in DOMAIN pairs : pairs[i][1] \notin DOMAIN map}
           over == Store!Cardinality(DOMAIN map) + Store!Cardinality(news) > MaxMembers
           grown == Store!Cardinality(DOMAIN f \ DOMAIN map)
<1>1. /\ store[k].type = "zset" /\ Oversize(store[k], pairs) => Answer(store, Err)
      /\ ~ (store[k].type = "zset" /\ Oversize(store[k], pairs)) => Write(k, "zset", e, r)
  BY DEF ZAdd
<1>2. /\ r.kept = Len(e.arr) - Len(old.arr) /\ "zset" \in Types
      /\ MaxMembers \in Nat
  BY ObjectsAssumption DEF Told, Types
<1>3. /\ Store!Holds(k, "zset") /\ Store!Becomes(k, Store!ZSet(f), grown) => Store!ZAdd(k, pairs)
      /\ Store!Holds(k, "zset") /\ news # {} /\ over /\ Store!Refuse(k) => Store!ZAdd(k, pairs)
  BY DEF Store!ZAdd
<1>4. Answer(store, Err) => Made(k, store[k], Err)
  BY DEF Answer, Made, Loses, Dict
<1>5. Steps({}) => Steps(Spoils(k, pairs))
  BY DEF Steps
<1> HIDE DEF e, r
<1>6. CASE store[k].type \notin {"none", "zset"}
  <2>1. Made(k, store[k], Err)
    BY <1>1, <1>2, <1>6, WriteMakes
  <2> QED BY <1>5, <1>6, <2>1, MadeRefuses, HoldsIs DEF Store!ZAdd, Store!Wrong
<1>7. CASE store[k].type \in {"none", "zset"}
  <2>1. PICK a \in Arrays :
           /\ old = ZSetOf(a) /\ map = ScoresOf(a)
           /\ Len(a) <= MaxMembers
           /\ store[k].type = "zset" => store[k] = ZSetOf(a) /\ a # <<>>
           /\ store[k].type = "none" => store[k] = Absent /\ a = <<>>
    BY <1>7, ZSetBase
  <2>2. Store!Holds(k, "zset")
    BY <1>7, HoldsIs
  <2>3. DOMAIN map = Named(a) /\ news = News(a, pairs) /\ Cardinality(Named(a)) = Len(a)
    BY <2>1, ScoresIs, ArrayIs DEF News
  <2>4. over <=> Len(a) + Cardinality(News(a, pairs)) > MaxMembers
    BY <2>3, SameCardinality
  <2>5. Oversize(ZSetOf(a), pairs) <=>
           News(a, pairs) # {} /\ Len(a) + Cardinality(News(a, pairs)) > MaxMembers
    <3>1. MembersOf(ZSetOf(a)) = Named(a) /\ ZSetOf(a).arr = a
      BY ArrayIs DEF ZSetOf
    <3> QED BY <3>1 DEF Oversize, News
  <2>6. CASE store[k].type = "zset" /\ Oversize(store[k], pairs)
    <3>1. news # {} /\ over
      BY <2>1, <2>3, <2>4, <2>5, <2>6
    <3> HIDE DEF news, over
    <3>2. Store!Refuse(k) /\ Steps({})
      BY <1>1, <1>4, <2>6, MadeRefuses
    <3> QED BY <1>3, <1>5, <2>2, <3>1, <3>2
  <2>7. CASE ~ (store[k].type = "zset" /\ Oversize(store[k], pairs))
    <3>1. PICK b \in Arrays :
             /\ e = ZSetOf(b)
             /\ b # <<>>
             /\ ScoresOf(b) = Store!Updated(ScoresOf(a), pairs)
             /\ Named(b) = Named(a) \cup {pairs[i][1] : i \in 1..Len(pairs)}
             /\ InOrder(a) /\ (\A i \in 1..Len(pairs) : pairs[i][2] # NaN) => InOrder(b)
      <4>1. pairs # <<>>
        BY EmptySeq
      <4> QED BY <2>1, <4>1, ZAddAllDoes DEF e
    <3>2. /\ Cardinality(News(a, pairs)) <= Len(pairs)
          /\ Len(b) - Len(a) = Cardinality(Named(b) \ Named(a))
          /\ Len(b) <= Len(a) + Cardinality(News(a, pairs))
          /\ News(a, pairs) = {} => Len(b) = Len(a)
          /\ Cardinality(News(a, pairs)) \in Nat /\ Len(a) \in Nat /\ Len(b) \in Nat
      BY <3>1, ZAddFits DEF Firsts
    <3>3. Len(b) <= MaxMembers
      <4>1. CASE store[k].type = "none"
        <5>1. Len(a) = 0
          BY <2>1, <4>1
        <5> QED BY <1>2, <3>2, <5>1
      <4>2. CASE store[k].type = "zset"
        BY <1>2, <2>1, <2>5, <2>7, <3>2, <4>2
      <4> QED BY <1>7, <4>1, <4>2
    <3>4. e.type = "zset" /\ e.arr = b /\ old.arr = a
      BY <2>1, <3>1 DEF ZSetOf
    <3>5. Made(k, e, r.kept)
      BY <1>1, <1>2, <1>7, <2>7, <3>4, WriteMakes
    <3>6. DOMAIN f = Named(b) /\ ScoresOf(b) = f
      BY <2>1, <3>1, ScoresIs
    <3>7. r.kept = grown
      <4>1. r.kept = Cardinality(Named(b) \ Named(a))
        BY <1>2, <3>2, <3>4
      <4> QED BY <2>3, <3>6, <4>1, SameCardinality
    <3>8. k \in Spoils(k, pairs) \/ Sorts(store[k], ZSetOf(b))
      <4>1. SUFFICES ASSUME k \notin Spoils(k, pairs), store[k].type = "zset" => InOrder(store[k].arr)
                     PROVE  InOrder(b)
        BY DEF Sorts, ZSetOf
      <4>2. InOrder(a)
        <5>1. CASE store[k].type = "zset"
          BY <2>1, <4>1, <5>1 DEF ZSetOf
        <5>2. CASE store[k].type = "none"
          BY <2>1, <5>2 DEF InOrder
        <5> QED BY <1>7, <5>1, <5>2
      <4>3. \A i \in 1..Len(pairs) : pairs[i][2] # NaN
        BY <4>1 DEF Spoils
      <4> QED BY <3>1, <4>2, <4>3
    <3>9. Made(k, IF b = <<>> THEN Absent ELSE ZSetOf(b), r.kept)
      BY <3>1, <3>5
    <3>10. Steps(Spoils(k, pairs)) /\ Store!Becomes(k, Store!ZSet(ScoresOf(b)), r.kept)
      BY <3>3, <3>8, <3>9, ZSetMakes
    <3> HIDE DEF f, grown, map
    <3>11. Store!Becomes(k, Store!ZSet(f), grown)
      BY <3>6, <3>7, <3>10
    <3> QED BY <1>3, <2>2, <3>10, <3>11
  <2> QED BY <2>6, <2>7
<1> QED BY <1>6, <1>7

LEMMA ZRemDoes ==
    ASSUME Dict(store), NEW k \in Keys, NEW members \in Seq(Members), ZRem(k, members)
    PROVE  Steps({}) /\ Store!ZRem(k, members)
<1> DEFINE ms == ToSet(members)
           b == Others(store[k].arr, ms)
           e == ZSetOf(b)
           r == Len(store[k].arr) - Len(b)
           map == Value(store[k]).map
           f == Store!Without(map, ms)
           lost == Store!Cardinality(DOMAIN map \ DOMAIN f)
<1>1. TakeOut(k, "zset", e, r, 0) /\ "zset" \in Types
  BY DEF ZRem, Types
<1>2. Store!Holds(k, "zset") /\ Store!Becomes(k, Store!ZSet(f), lost) => Store!ZRem(k, members)
  BY SameSequences DEF Store!ZRem
<1>3. CASE store[k] = Absent /\ Made(k, Absent, 0)
  <2>1. Steps({}) /\ Store!Becomes(k, Store!None, 0)
    BY <1>3, AbsentMakes
  <2>2. map = Store!None.map
    BY <1>3, ValueIs
  <2>3. DOMAIN f = {} /\ DOMAIN map = {}
    BY <2>2, NothingIs
  <2> HIDE DEF map, f
  <2>4. lost = 0 /\ Store!ZSet(f) = Store!None
    <3>1. DOMAIN map \ DOMAIN f = {}
      BY <2>3
    <3> QED BY <2>3, <3>1, NothingIs, SameCardinality
  <2>5. Store!Holds(k, "zset")
    BY <1>3, AbsentIs, HoldsIs
  <2> QED BY <1>2, <2>1, <2>4, <2>5
<1>4. CASE store[k].type \notin {"none", "zset"} /\ Made(k, store[k], Err)
  BY <1>4, MadeRefuses, HoldsIs DEF Store!ZRem, Store!Wrong
<1>5. CASE store[k].type = "zset" /\ Made(k, IF IsEmpty(e) THEN Absent ELSE e, r)
  <2>1. PICK a \in Arrays :
           /\ map = ScoresOf(a) /\ Len(a) <= MaxMembers
           /\ store[k] = ZSetOf(a) /\ a # <<>>
    BY <1>5, ZSetBase
  <2>2. store[k].arr = a
    BY <2>1 DEF ZSetOf
  <2>3. b \in Arrays /\ Named(b) = Named(a) \ ms /\ (InOrder(a) => InOrder(b)) /\ ScoresOf(b) = f
    BY <2>1, <2>2, OthersIs, ScoresWithout
  <2>4. IsEmpty(e) <=> b = <<>>
    BY DEF IsEmpty, ZSetOf
  <2>5. Made(k, IF b = <<>> THEN Absent ELSE ZSetOf(b), r)
    BY <1>5, <2>4
  <2> HIDE DEF b
  <2>6. /\ IsFiniteSet(Named(a)) /\ Cardinality(Named(a)) = Len(a) /\ Len(a) \in Nat
        /\ Cardinality(Named(b)) = Len(b) /\ Len(b) \in Nat
        /\ DOMAIN map = Named(a) /\ DOMAIN ScoresOf(b) = Named(b)
    BY <2>1, <2>3, ArrayIs, ScoresIs
  <2>7. Len(b) = Len(a) - Cardinality(Named(a) \ Named(b))
    <3> DEFINE A == Named(a)
               B == Named(b)
    <3>1. B \subseteq A /\ IsFiniteSet(A) /\ Cardinality(A) = Len(a) /\ Cardinality(B) = Len(b)
      BY <2>3, <2>6
    <3> HIDE DEF A, B
    <3>2. Cardinality(A \ B) = Cardinality(A) - Cardinality(B)
      BY <3>1, DifferenceCount
    <3>3. Len(b) = Len(a) - Cardinality(A \ B)
      BY <2>6, <3>1, <3>2
    <3> QED BY <3>3 DEF A, B
  <2>8. r = Cardinality(Named(a) \ Named(b)) /\ Len(b) <= MaxMembers
    <3> DEFINE c == Cardinality(Named(a) \ Named(b))
    <3>1. c \in Nat
      <4>1. IsFiniteSet(Named(a) \ Named(b))
        BY <2>6, FS_Subset
      <4> QED BY <4>1, FS_CardinalityType
    <3>2. Len(b) = Len(a) - c
      BY <2>7
    <3> HIDE DEF c
    <3>3. Len(a) - Len(b) = c /\ Len(b) <= MaxMembers
      BY <2>1, <2>6, <3>1, <3>2, ObjectsAssumption
    <3> QED BY <2>2, <3>3 DEF c
  <2>9. r = lost
    BY <2>3, <2>6, <2>8, SameCardinality
  <2>10. Sorts(store[k], ZSetOf(b))
    BY <1>5, <2>2, <2>3 DEF Sorts, ZSetOf
  <2>11. Store!Holds(k, "zset")
    BY <1>5, HoldsIs
  <2> HIDE DEF r, lost, f, map
  <2>12. Steps({}) /\ Store!Becomes(k, Store!ZSet(ScoresOf(b)), r)
    BY <2>3, <2>5, <2>8, <2>10, ZSetMakes
  <2> QED BY <1>2, <2>3, <2>9, <2>11, <2>12
<1> HIDE DEF e, r
<1> QED BY <1>1, <1>3, <1>4, <1>5, TakeOutMakes

LEMMA DelDoes ==
    ASSUME Dict(store), NEW k \in Keys, Del(k)
    PROVE  Steps({}) /\ Store!Lose
<1>1. store' = Free(store, {k}) /\ reply' = reply /\ scan' = Owed(store')
  BY DEF Del, Answer
<1>2. store' = [j \in Keys |-> IF j = k THEN Absent ELSE store[j]]
  BY <1>1 DEF Free
<1>3. Made(k, Absent, reply)
  BY <1>1, <1>2 DEF Made, Loses
<1>4. Steps({})
  BY <1>3, AbsentMakes
<1>5. \A j \in Keys : Value(store'[j]) \in {Value(store[j]), Store!None}
  BY <1>2, ValueIs
<1> QED BY <1>1, <1>4, <1>5 DEF Store!Lose

-----------------------------------------------------------------------------
(* The inductive invariant.                                                 *)

\* Outside the tainted keys every sorted set is in order.
Ordered == \A k \in Keys \ tainted : store[k].type = "zset" => InOrder(store[k].arr)

Scans == [key : Keys \cup {Nil}, cursor : Nat, seen : SUBSET Fields,
          owed : SUBSET Fields, done : BOOLEAN]

\* A field that the scan still owes lies before it, in a hash that has it.
ScanOwes ==
    /\ scan \in Scans
    /\ scan.done => scan.owed \subseteq scan.seen
    /\ scan.key # Nil =>
          /\ scan.owed \subseteq FieldsOf(store[scan.key])
          /\ scan.done \/ \A f \in scan.owed : \/ f \in scan.seen
                                               \/ Slot(f, Len(Buckets(scan.key))) > scan.cursor

OInv ==
    /\ Dict(store)
    /\ tainted \subseteq Keys
    /\ Ordered
    /\ ScanOwes

LEMMA FieldsAre ==
    ASSUME NEW e \in Entries
    PROVE  /\ FieldsOf(e) \in SUBSET Fields
           /\ e.type = "hash" => Len(e.buckets) \in Sizes
           /\ e.type # "hash" => FieldsOf(e) = {} /\ Len(e.buckets) = 0
           /\ \A f \in FieldsOf(e) : /\ Slot(f, Len(e.buckets)) \in 1..Len(e.buckets)
                                     /\ f \in {r.field : r \in e.buckets[Slot(f, Len(e.buckets))]}
           /\ \A b \in 1..Len(e.buckets) : {r.field : r \in e.buckets[b]} \subseteq Fields
<1>1. CASE e.type # "hash"
  <2>1. e.buckets = <<>>
    BY <1>1, EntryIs, AbsentIs DEF ListEntries, ZSetEntries, ListOf, ZSetOf, Types
  <2>2. FieldsOf(e) = {} /\ Len(e.buckets) = 0
    BY <2>1 DEF FieldsOf, Nodes, Range
  <2> QED BY <1>1, <2>2
<1>2. CASE e.type = "hash"
  <2>1. PICK n \in Sizes, S \in Keyed : e = Hash(n, S)
    BY <1>2, EntryIs DEF HashEntries
  <2>2. /\ e.buckets = Table(n, S) /\ Len(e.buckets) = n
        /\ FieldsOf(e) = {r.field : r \in S} /\ S \subseteq HashNodes
    BY <2>1, HashIs DEF Keyed
  <2> HIDE DEF Hash
  <2>3. FieldsOf(e) \in SUBSET Fields
    BY <2>2 DEF HashNodes
  <2>4. \A f \in FieldsOf(e) : Slot(f, n) \in 1..n
    BY <2>3, SlotRange
  <2>5. \A b \in 1..n : e.buckets[b] = {r \in S : Slot(r.field, n) = b}
    BY <2>2 DEF Table
  <2>6. \A f \in FieldsOf(e) : f \in {r.field : r \in e.buckets[Slot(f, n)]}
    BY <2>2, <2>4, <2>5
  <2>7. \A b \in 1..n : {r.field : r \in e.buckets[b]} \subseteq Fields
    BY <2>2, <2>5 DEF HashNodes
  <2> QED BY <1>2, <2>2, <2>3, <2>4, <2>6, <2>7
<1> QED BY <1>1, <1>2

LEMMA SlotsAre == \A f \in Fields, n \in Sizes : Slot(f, n) \in Nat /\ Slot(f, n) > 0
<1> SUFFICES ASSUME NEW f \in Fields, NEW n \in Sizes PROVE Slot(f, n) \in Nat /\ Slot(f, n) > 0
  OBVIOUS
<1>1. Slot(f, n) \in 1..n /\ n \in Nat
  BY SlotRange DEF Sizes
<1> QED BY <1>1

\* A command of a client, with what it may spoil and what it implements.
LEMMA CommandDoes ==
    ASSUME Dict(store), NEW k \in Keys,
           \/ /\ \/ \E a \in HSetArgs[k] : HSet(k, a)
                 \/ \E a \in HDelArgs[k] : HDel(k, a)
                 \/ \E a \in HIncrByArgs[k] : HIncrBy(k, a[1], a[2])
                 \/ \E a \in PushArgs[k], left \in BOOLEAN : Push(k, left, a)
                 \/ \E left \in BOOLEAN : Pop(k, left)
                 \/ \E a \in LRemArgs[k] : LRem(k, a[1], a[2])
                 \/ \E a \in LTrimArgs[k] : LTrim(k, a[1], a[2])
                 \/ \E a \in ZRemArgs[k] : ZRem(k, a)
                 \/ Del(k)
              /\ Taint({})
           \/ \E a \in ZAddArgs[k] :
                 ZAdd(k, a) /\ Taint(IF \E i \in DOMAIN a : a[i][2] = NaN THEN {k} ELSE {})
    PROVE  /\ Store!Next
           /\ \E K : Steps(K) /\ Taint(K)
<1>1. ASSUME NEW a \in HSetArgs[k], HSet(k, a) PROVE Steps({}) /\ Store!HSet(k, a)
  <2>1. a \in Seq(Fields \X Strings) /\ a # <<>>
    BY ArgsAssumption DEF Strings
  <2> QED BY <1>1, <2>1, HSetDoes
<1>2. ASSUME NEW a \in HDelArgs[k], HDel(k, a) PROVE Steps({}) /\ Store!HDel(k, a)
  BY <1>2, ArgsAssumption, HDelDoes
<1>3. ASSUME NEW a \in HIncrByArgs[k], HIncrBy(k, a[1], a[2])
      PROVE  Steps({}) /\ Store!HIncrBy(k, a[1], a[2])
  <2>1. a[1] \in Fields /\ a[2] \in Int
    BY ArgsAssumption
  <2> QED BY <1>3, <2>1, HIncrByDoes
<1>4. ASSUME NEW a \in PushArgs[k], NEW left \in BOOLEAN, Push(k, left, a)
      PROVE  Steps({}) /\ Store!Push(k, left, a)
  <2>1. a \in Seq(Strings) /\ a # <<>>
    BY ArgsAssumption DEF Strings
  <2> QED BY <1>4, <2>1, PushDoes
<1>5. ASSUME NEW left \in BOOLEAN, Pop(k, left) PROVE Steps({}) /\ Store!Pop(k, left)
  BY <1>5, PopDoes
<1>6. ASSUME NEW a \in LRemArgs[k], LRem(k, a[1], a[2])
      PROVE  Steps({}) /\ Store!LRem(k, a[1], a[2])
  <2>1. a[1] \in Int
    BY ArgsAssumption
  <2> QED BY <1>6, <2>1, LRemDoes
<1>7. ASSUME NEW a \in LTrimArgs[k], LTrim(k, a[1], a[2])
      PROVE  Steps({}) /\ Store!LTrim(k, a[1], a[2])
  <2>1. a[1] \in Int /\ a[2] \in Int
    BY ArgsAssumption
  <2> QED BY <1>7, <2>1, LTrimDoes
<1>8. ASSUME NEW a \in ZRemArgs[k], ZRem(k, a) PROVE Steps({}) /\ Store!ZRem(k, a)
  BY <1>8, ArgsAssumption, ZRemDoes
<1>9. ASSUME NEW a \in ZAddArgs[k], ZAdd(k, a),
             Taint(IF \E i \in DOMAIN a : a[i][2] = NaN THEN {k} ELSE {})
      PROVE  Store!ZAdd(k, a) /\ \E K : Steps(K) /\ Taint(K)
  <2>1. a \in Seq(Members \X AnyScore) /\ Len(a) \in 1..MaxMembers
    BY ArgsAssumption DEF AnyScore
  <2>2. Steps(Spoils(k, a)) /\ Store!ZAdd(k, a)
    BY <1>9, <2>1, ZAddDoes
  <2>3. Taint(Spoils(k, a))
    BY <1>9 DEF Spoils
  <2> QED BY <2>2, <2>3
<1>10. Del(k) => Steps({}) /\ Store!Lose
  BY DelDoes
<1>11. CASE \E a \in ZAddArgs[k] :
               ZAdd(k, a) /\ Taint(IF \E i \in DOMAIN a : a[i][2] = NaN THEN {k} ELSE {})
  BY <1>9, <1>11 DEF Store!Next
<1>12. CASE Taint({}) /\ \E a \in HSetArgs[k] : HSet(k, a)
  BY <1>1, <1>12 DEF Store!Next
<1>13. CASE Taint({}) /\ \E a \in HDelArgs[k] : HDel(k, a)
  BY <1>2, <1>13 DEF Store!Next
<1>14. CASE Taint({}) /\ \E a \in HIncrByArgs[k] : HIncrBy(k, a[1], a[2])
  BY <1>3, <1>14 DEF Store!Next
<1>15. CASE Taint({}) /\ \E a \in PushArgs[k], left \in BOOLEAN : Push(k, left, a)
  BY <1>4, <1>15 DEF Store!Next
<1>16. CASE Taint({}) /\ \E left \in BOOLEAN : Pop(k, left)
  BY <1>5, <1>16 DEF Store!Next
<1>17. CASE Taint({}) /\ \E a \in LRemArgs[k] : LRem(k, a[1], a[2])
  BY <1>6, <1>17 DEF Store!Next
<1>18. CASE Taint({}) /\ \E a \in LTrimArgs[k] : LTrim(k, a[1], a[2])
  BY <1>7, <1>18 DEF Store!Next
<1>19. CASE Taint({}) /\ \E a \in ZRemArgs[k] : ZRem(k, a)
  BY <1>8, <1>19 DEF Store!Next
<1>20. CASE Taint({}) /\ Del(k)
  BY <1>10, <1>20 DEF Store!Next
<1> QED BY <1>11, <1>12, <1>13, <1>14, <1>15, <1>16, <1>17, <1>18, <1>19, <1>20

\* What a command does to the invariant.
LEMMA StepsKeep ==
    ASSUME OInv, NEW K, Steps(K), Taint(K)
    PROVE  OInv'
<1>1. /\ Dict(store) /\ Dict(store') /\ scan \in Scans
      /\ \A j \in Keys : store[j] \in Entries /\ store'[j] \in Entries
  BY DEF OInv, ScanOwes, Steps, Dict
<1>2. tainted' \subseteq Keys
  BY DEF Taint
<1>3. Ordered'
  <2>1. SUFFICES ASSUME NEW j \in Keys, j \notin tainted', store'[j].type = "zset"
                 PROVE  InOrder(store'[j].arr)
    BY DEF Ordered
  <2>2. j \notin tainted /\ j \notin K
    BY <2>1 DEF Taint
  <2>3. store[j].type = "zset" => InOrder(store[j].arr)
    BY <2>2 DEF OInv, Ordered
  <2>4. Sorts(store[j], store'[j])
    BY <2>2 DEF Steps
  <2> QED BY <2>1, <2>3, <2>4 DEF Sorts
<1>4. ScanOwes'
  <2>1. CASE scan.key = Nil
    <3>1. scan' = scan
      BY <2>1 DEF Steps, Owed
    <3> QED BY <2>1, <3>1 DEF OInv, ScanOwes
  <2>2. CASE scan.key # Nil
    <3> DEFINE k == scan.key
               e == store[k]
               d == store'[k]
    <3>1. k \in Keys /\ scan.cursor \in Nat
      BY <1>1, <2>2 DEF Scans
    <3>2. scan' = [scan EXCEPT !.owed = @ \cap FieldsOf(d)]
      BY <2>2 DEF Steps, Owed
    <3>3. /\ scan' \in Scans /\ scan'.owed = scan.owed \cap FieldsOf(d)
          /\ scan'.key = k /\ scan'.cursor = scan.cursor /\ scan'.seen = scan.seen
          /\ scan'.done = scan.done
      BY <1>1, <3>2 DEF Scans
    <3>4. /\ scan.done => scan.owed \subseteq scan.seen
          /\ scan.owed \subseteq FieldsOf(e)
          /\ scan.done \/ \A f \in scan.owed : \/ f \in scan.seen
                                               \/ Slot(f, Len(e.buckets)) > scan.cursor
      BY <2>2 DEF OInv, ScanOwes, Buckets
    <3>5. ASSUME NEW f \in scan'.owed, Slot(f, Len(e.buckets)) > scan.cursor
          PROVE  Slot(f, Len(d.buckets)) > scan.cursor
      <4>1. e \in Entries /\ d \in Entries /\ f \in FieldsOf(e) /\ f \in FieldsOf(d)
        BY <1>1, <3>1, <3>3, <3>4
      <4> HIDE DEF d, e
      <4>2. e.type = "hash" /\ d.type = "hash" /\ f \in Fields
        BY <4>1, FieldsAre
      <4>3. Widens(e, d)
        BY <3>1 DEF Steps, e, d
      <4>4. Slot(f, Len(e.buckets)) <= Slot(f, Len(d.buckets))
        BY <4>2, <4>3 DEF Widens, Grows
      <4>5. Slot(f, Len(e.buckets)) \in Nat /\ Slot(f, Len(d.buckets)) \in Nat
        <5>1. Len(e.buckets) \in Sizes /\ Len(d.buckets) \in Sizes
          BY <4>1, <4>2, FieldsAre
        <5> QED BY <4>2, <5>1, SlotsAre
      <4> QED BY <3>1, <3>5, <4>4, <4>5
    <3>6. Buckets(scan.key)' = d.buckets
      BY <3>3 DEF Buckets
    <3> HIDE DEF d, e
    <3>7. scan'.owed \subseteq FieldsOf(store'[scan'.key])
      BY <3>3 DEF d
    <3>8. scan'.done => scan'.owed \subseteq scan'.seen
      BY <3>3, <3>4
    <3>9. scan'.done \/ \A f \in scan'.owed : \/ f \in scan'.seen
                                              \/ Slot(f, Len(d.buckets)) > scan'.cursor
      BY <3>3, <3>4, <3>5
    <3> QED BY <3>3, <3>6, <3>7, <3>8, <3>9 DEF ScanOwes
  <2> QED BY <2>1, <2>2
<1> QED BY <1>1, <1>2, <1>3, <1>4 DEF OInv

LEMMA ScanBegins ==
    ASSUME OInv, NEW k \in Keys, HScanBegin(k)
    PROVE  OInv'
<1>1. /\ scan' = ScanAt(k, 0, {}, FieldsOf(store[k]), FALSE)
      /\ store' = store /\ tainted' = tainted /\ store[k].type = "hash" /\ store[k] \in Entries
  BY DEF HScanBegin, OInv, Dict
<1>2. FieldsOf(store[k]) \in SUBSET Fields /\ Len(store[k].buckets) \in Sizes
  BY <1>1, FieldsAre
<1>3. scan' \in Scans /\ scan'.owed = FieldsOf(store[k]) /\ scan'.key = k /\ scan'.cursor = 0
      /\ scan'.done = FALSE
  BY <1>1, <1>2 DEF ScanAt, Scans
<1>4. \A f \in FieldsOf(store[k]) : Slot(f, Len(store[k].buckets)) > 0
  BY <1>2, SlotsAre
<1>5. Buckets(scan.key)' = store[k].buckets
  BY <1>1, <1>3 DEF Buckets
<1>6. ScanOwes'
  BY <1>1, <1>3, <1>4, <1>5 DEF ScanOwes
<1>7. Ordered'
  BY <1>1 DEF OInv, Ordered
<1> QED BY <1>1, <1>6, <1>7 DEF OInv, Dict

LEMMA ScanGoesOn ==
    ASSUME OInv, HScan
    PROVE  OInv'
<1> DEFINE k == scan.key
           e == store[k]
           n == Len(e.buckets)
           c == scan.cursor
           here == {r.field : r \in e.buckets[c + 1]}
<1>1. /\ k # Nil /\ ~ scan.done /\ store' = store /\ tainted' = tainted
      /\ scan' = IF c >= n THEN [scan EXCEPT !.done = TRUE]
                 ELSE ScanAt(k, c + 1, scan.seen \cup here, scan.owed, c + 1 = n)
  BY DEF HScan, HScanTo, Buckets
<1>2. /\ scan \in Scans /\ k \in Keys /\ c \in Nat /\ e \in Entries
      /\ scan.owed \subseteq FieldsOf(e)
      /\ \A f \in scan.owed : f \in scan.seen \/ Slot(f, n) > c
  BY <1>1 DEF OInv, ScanOwes, Scans, Dict, Buckets
<1>3. /\ n \in Nat
      /\ \A f \in FieldsOf(e) : Slot(f, n) \in 1..n /\ f \in {r.field : r \in e.buckets[Slot(f, n)]}
      /\ \A b \in 1..n : {r.field : r \in e.buckets[b]} \subseteq Fields
  BY <1>2, FieldsAre DEF Sizes
<1>4. Buckets(scan.key)' = store[scan'.key].buckets
  BY <1>1 DEF Buckets
<1>5. ScanOwes'
  <2>1. CASE c >= n
    <3>1. /\ scan' \in Scans /\ scan'.done = TRUE /\ scan'.owed = scan.owed
          /\ scan'.seen = scan.seen /\ scan'.key = k
      BY <1>1, <1>2, <2>1 DEF Scans
    <3> HIDE DEF k, e, n, c, here
    <3>2. scan.owed \subseteq scan.seen
      <4>1. SUFFICES ASSUME NEW f \in scan.owed PROVE f \in scan.seen
        OBVIOUS
      <4>2. Slot(f, n) \in 1..n
        BY <1>2, <1>3
      <4> QED BY <1>2, <1>3, <2>1, <4>2
    <3> QED BY <1>1, <1>2, <3>1, <3>2 DEF ScanOwes, e, k
  <2>2. CASE ~ (c >= n)
    <3>1. scan' = ScanAt(k, c + 1, scan.seen \cup here, scan.owed, c + 1 = n)
      BY <1>1, <2>2
    <3>2. c + 1 \in 1..n
      BY <1>2, <1>3, <2>2
    <3>3. here \subseteq Fields
      BY <1>3, <3>2
    <3>4. /\ scan' \in Scans /\ scan'.done = (c + 1 = n) /\ scan'.owed = scan.owed
          /\ scan'.seen = scan.seen \cup here /\ scan'.key = k /\ scan'.cursor = c + 1
      <4>1. scan.seen \in SUBSET Fields /\ scan.owed \in SUBSET Fields
        BY <1>2 DEF Scans
      <4> HIDE DEF here, n, e
      <4> QED BY <1>2, <3>1, <3>3, <4>1 DEF Scans, ScanAt
    <3>5. ASSUME NEW f \in scan.owed PROVE f \in scan.seen \cup here \/ Slot(f, n) > c + 1
      <4>1. f \in scan.seen \/ Slot(f, n) > c
        BY <1>2
      <4>2. Slot(f, n) \in 1..n /\ f \in {r.field : r \in e.buckets[Slot(f, n)]}
        BY <1>2, <1>3
      <4>3. CASE Slot(f, n) = c + 1
        BY <4>2, <4>3
      <4>4. CASE Slot(f, n) # c + 1
        <5> HIDE DEF here, n, e, c
        <5> QED BY <1>2, <1>3, <4>1, <4>2, <4>4
      <4> QED BY <4>3, <4>4
    <3>6. c + 1 = n => scan.owed \subseteq scan.seen \cup here
      <4>1. SUFFICES ASSUME c + 1 = n, NEW f \in scan.owed PROVE f \in scan.seen \cup here
        OBVIOUS
      <4>2. Slot(f, n) \in 1..n
        BY <1>2, <1>3
      <4>3. ~ (Slot(f, n) > c + 1)
        <5> HIDE DEF n, c
        <5> QED BY <1>2, <1>3, <4>1, <4>2
      <4> QED BY <3>5, <4>3
    <3>7. store[scan'.key] = e /\ store'[scan'.key] = e
      BY <1>1, <3>4
    <3>8. scan'.done => scan'.owed \subseteq scan'.seen
      BY <3>4, <3>6
    <3>9. scan'.owed \subseteq FieldsOf(store'[scan'.key])
      BY <1>2, <3>4, <3>7
    <3>10. Len(Buckets(scan.key)') = n
      BY <1>4, <3>7
    <3> HIDE DEF here, n, c, k, e
    <3>11. \A f \in scan'.owed : f \in scan'.seen \/ Slot(f, Len(Buckets(scan.key)')) > scan'.cursor
      BY <3>4, <3>5, <3>10
    <3> QED BY <3>4, <3>8, <3>9, <3>11 DEF ScanOwes
  <2> QED BY <2>1, <2>2
<1>6. Ordered'
  BY <1>1 DEF OInv, Ordered
<1> QED BY <1>1, <1>5, <1>6 DEF OInv, Dict

LEMMA ScanEnds ==
    ASSUME OInv, HScanForget
    PROVE  OInv'
<1>1. scan' = NoScan /\ store' = store /\ tainted' = tainted
  BY DEF HScanForget
<1>2. NoScan \in Scans /\ NoScan.key = Nil /\ NoScan.done = FALSE
  BY DEF NoScan, ScanAt, Scans
<1>3. ScanOwes'
  BY <1>1, <1>2 DEF ScanOwes
<1>4. Ordered'
  BY <1>1 DEF OInv, Ordered
<1> QED BY <1>1, <1>3, <1>4 DEF OInv, Dict

LEMMA OInvInit == OInit => OInv
<1> SUFFICES ASSUME OInit PROVE OInv
  OBVIOUS
<1>1. store = [k \in Keys |-> Absent] /\ scan = NoScan /\ tainted = {}
  BY DEF OInit
<1>2. Dict(store) /\ \A k \in Keys : store[k].type = "none"
  BY <1>1, AbsentIs DEF Dict
<1>3. NoScan \in Scans /\ NoScan.key = Nil /\ NoScan.done = FALSE
  BY DEF NoScan, ScanAt, Scans
<1>4. ScanOwes
  BY <1>1, <1>3 DEF ScanOwes
<1> QED BY <1>1, <1>2, <1>4 DEF OInv, Ordered

LEMMA OInvNext == OInv /\ [ONext]_ovars => OInv'
<1> SUFFICES ASSUME OInv, [ONext]_ovars PROVE OInv'
  OBVIOUS
<1>1. Dict(store)
  BY DEF OInv
<1>2. CASE UNCHANGED ovars
  BY <1>2 DEF ovars, OInv, Dict, Ordered, ScanOwes, Buckets
<1>3. ASSUME NEW k \in Keys, HScanBegin(k) PROVE OInv'
  BY <1>3, ScanBegins
<1>4. CASE HScan
  BY <1>4, ScanGoesOn
<1>5. CASE HScanForget
  BY <1>5, ScanEnds
<1>6. ASSUME \E K : Steps(K) /\ Taint(K) PROVE OInv'
  BY <1>6, StepsKeep
<1> QED BY <1>1, <1>2, <1>3, <1>4, <1>5, <1>6, CommandDoes DEF ONext

LEMMA OInvHolds == OSpec => []OInv
BY OInvInit, OInvNext, PTL DEF OSpec

-----------------------------------------------------------------------------
(* The theorems.                                                            *)

\* An entry is of one of the types, is not empty, counts its fields and stays
\* within the size bar of a sorted set.
LEMMA EntryOK ==
    ASSUME NEW e \in Entries, e.type # "none"
    PROVE  /\ e.type \in {"hash", "list", "zset"}
           /\ ~ IsEmpty(e)
           /\ e.nfields = Cardinality(Nodes(e))
           /\ Len(e.arr) <= MaxMembers
<1>1. CASE e.type = "hash"
  <2>1. PICK n \in Sizes, S \in Keyed \ {{}} : e = Hash(n, S)
    BY <1>1, EntryIs DEF HashEntries
  <2>2. /\ e.nfields = Cardinality(S) /\ Nodes(e) = S /\ e.arr = <<>> /\ Cardinality(S) # 0
    BY <2>1, HashIs
  <2> QED BY <1>1, <2>2, ObjectsAssumption DEF IsEmpty
<1>2. CASE e.type = "list"
  <2>1. PICK s \in Lists \ {<<>>} : e = ListOf(s)
    BY <1>2, EntryIs DEF ListEntries
  <2>2. e.list = s /\ e.buckets = <<>> /\ e.nfields = 0 /\ e.arr = <<>>
    BY <2>1 DEF ListOf
  <2>3. Nodes(e) = {}
    BY <2>2 DEF Nodes, Range
  <2> QED BY <1>2, <2>1, <2>2, <2>3, FS_EmptySet, ObjectsAssumption DEF IsEmpty
<1>3. CASE e.type = "zset"
  <2>1. PICK a \in Arrays : e = ZSetOf(a) /\ a # <<>> /\ Len(a) <= MaxMembers
    BY <1>3, EntryIs DEF ZSetEntries
  <2>2. e.arr = a /\ e.buckets = <<>> /\ e.nfields = 0
    BY <2>1 DEF ZSetOf
  <2>3. Nodes(e) = {}
    BY <2>2 DEF Nodes, Range
  <2> QED BY <1>3, <2>1, <2>2, <2>3, FS_EmptySet DEF IsEmpty
<1> QED BY <1>1, <1>2, <1>3, EntryIs DEF Types

\* No command on a hash, a list or a sorted set leaves an empty object behind,
\* miscounts the fields of a hash, or lets a ZADD past the size bar.
THEOREM ObjectsTyped == OSpec => []OTypeOK
<1>1. OInv => OTypeOK
  <2>1. SUFFICES ASSUME OInv PROVE OTypeOK
    OBVIOUS
  <2>2. \A k \in Linked(store) : store[k] \in Entries /\ store[k].type # "none"
    BY <2>1 DEF Linked, OInv, Dict
  <2> QED BY <2>1, <2>2, EntryOK DEF OTypeOK, OInv
<1> QED BY <1>1, OInvHolds, PTL

\* HSCAN over a hash that grows, shrinks and doubles its table between two
\* calls ends with every field returned that was in the hash all the time,
\* because the bucket of a field never moves behind the cursor.
THEOREM ScanReturnsAll == OSpec => []HScanComplete
<1>1. OInv => HScanComplete
  BY DEF OInv, ScanOwes, HScanComplete
<1> QED BY <1>1, OInvHolds, PTL

\* Every step of the commands in ar_types.c is a step of the abstract store,
\* with the reply it promises, or leaves the values and the reply alone.
THEOREM ObjectsImplement == OSpec => ImplementsTypedStore
<1>1. OInit => Store!Init
  <2>1. SUFFICES ASSUME OInit PROVE Store!Init
    OBVIOUS
  <2>2. \A k \in Keys : Value(store[k]) = Store!None
    BY <2>1, ValueIs DEF OInit
  <2>3. reply = Nil
    BY <2>1 DEF OInit
  <2> QED BY <2>2, <2>3 DEF Store!Init
<1>2. OInv /\ [ONext]_ovars => [Store!Next]_(Store!tvars)
  <2>1. SUFFICES ASSUME OInv, [ONext]_ovars PROVE [Store!Next]_(Store!tvars)
    OBVIOUS
  <2>2. store' = store /\ reply' = reply => UNCHANGED Store!tvars
    BY DEF Store!tvars
  <2>3. HScan \/ HScanForget \/ (\E k \in Keys : HScanBegin(k)) \/ UNCHANGED ovars
        => store' = store /\ reply' = reply
    BY DEF HScan, HScanTo, HScanForget, HScanBegin, ovars
  <2>4. Dict(store)
    BY <2>1 DEF OInv
  <2> QED BY <2>1, <2>2, <2>3, <2>4, CommandDoes DEF ONext
<1> QED BY <1>1, <1>2, OInvHolds, PTL DEF OSpec, ImplementsTypedStore, Store!Spec

-----------------------------------------------------------------------------
(* The reads.                                                               *)

LEMMA HashReads ==
    ASSUME NEW e \in Entries, e.type = "hash", NEW map, map = Value(e).map
    PROVE  /\ \A f \in Fields : HGet(e, f) = IF f \in DOMAIN map THEN map[f] ELSE Nil
           /\ HGetAll(e).announced = Cardinality(HGetAll(e).sent)
           /\ HGetAll(e).sent = {[field |-> f, val |-> map[f]] : f \in DOMAIN map}
<1>1. PICK n \in Sizes, S \in Keyed \ {{}} : e = Hash(n, S)
  BY EntryIs DEF HashEntries
<1>2. map = MapOf(S)
  <2>1. Value(e) = Store!Hash(MapOf(S)) /\ DOMAIN MapOf(S) # {}
    BY <1>1, ValueIs, MapIs
  <2> QED BY <2>1 DEF Store!Hash
<1>3. /\ DOMAIN map = {r.field : r \in S} /\ \A r \in S : map[r.field] = r.val
      /\ S \subseteq HashNodes
  BY <1>2, MapIs DEF Keyed
<1>4. ASSUME NEW f \in Fields PROVE HGet(e, f) = IF f \in DOMAIN map THEN map[f] ELSE Nil
  <2> DEFINE H == {r \in S : r.field = f}
             c == CHOOSE r \in H : TRUE
  <2>1. HashFind(e, f) = H
    BY <1>1, FindIs
  <2>2. CASE H = {}
    <3>1. f \notin DOMAIN map
      BY <1>3, <2>2
    <3> QED BY <2>1, <2>2, <3>1 DEF HGet
  <2>3. CASE H # {}
    <3>1. c \in H
      BY <2>3
    <3>2. HGet(e, f) = c.val
      BY <2>1, <2>3 DEF HGet
    <3> HIDE DEF c
    <3>3. f \in DOMAIN map /\ map[f] = c.val
      BY <1>3, <3>1
    <3> QED BY <3>2, <3>3
  <2> QED BY <2>2, <2>3
<1>5. HGetAll(e).announced = Cardinality(S) /\ HGetAll(e).sent = S
  BY <1>1, HashIs DEF HGetAll
<1>6. S = {[field |-> f, val |-> map[f]] : f \in DOMAIN map}
  <2>1. \A r \in S : r = [field |-> r.field, val |-> map[r.field]] /\ r.field \in DOMAIN map
    BY <1>3 DEF HashNodes
  <2>2. \A f \in DOMAIN map : [field |-> f, val |-> map[f]] \in S
    <3> TAKE f \in DOMAIN map
    <3>1. PICK r \in S : r.field = f
      BY <1>3
    <3> QED BY <2>1, <3>1
  <2> QED BY <2>1, <2>2
<1> QED BY <1>4, <1>5, <1>6

LEMMA IndexIs ==
    ASSUME NEW s \in Seq(Strings), NEW e, e.list = s, NEW i \in Int
    PROVE  IF Places(s, i, i) = {} THEN LIndex(e, i) = Nil
           ELSE <<LIndex(e, i)>> = Picked(s, Places(s, i, i))
<1> DEFINE n == Len(s)
           at == IF i < 0 THEN n + i ELSE i
           P == {p \in DOMAIN s : at + 1 <= p /\ p <= at + 1}
<1>1. n \in Nat /\ DOMAIN s = 1..n /\ at \in Int
  OBVIOUS
<1>2. Places(s, i, i) = P
  BY <1>1 DEF Places
<1>3. LIndex(e, i) = IF at < 0 \/ at >= n THEN Nil ELSE s[at + 1]
  BY DEF LIndex
<1> HIDE DEF at, n
<1>4. CASE at < 0 \/ at >= n
  <2>1. P = {}
    BY <1>1, <1>4
  <2> QED BY <1>2, <1>3, <1>4, <2>1
<1>5. CASE ~ (at < 0 \/ at >= n)
  <2> DEFINE p == at + 1
  <2>1. p \in Nat \ {0} /\ p <= n /\ p \in Int /\ p \in 1..n
    BY <1>1, <1>5
  <2>2. P = p..p /\ P # {}
    BY <1>1, <2>1
  <2> HIDE DEF p, P
  <2>3. Picked(s, p..p) = SubSeq(s, p, p)
    BY <2>1, PickedSegment DEF n
  <2>4. SubSeq(s, p, p) = <<s[p]>>
    <3> DEFINE t == SubSeq(s, p, p)
               u == <<s[p]>>
    <3>1. t \in Seq(Strings) /\ Len(t) = 1 /\ t[1] = s[p]
      BY <2>1 DEF n
    <3>2. u \in Seq(Strings) /\ Len(u) = 1 /\ u[1] = s[p]
      BY <2>1 DEF n
    <3> HIDE DEF t, u
    <3>3. t = u
      BY <3>1, <3>2, SeqEqual
    <3> QED BY <3>3 DEF t, u
  <2> QED BY <1>2, <1>3, <1>5, <2>2, <2>3, <2>4 DEF p
<1> QED BY <1>4, <1>5

\* An array in order is its members sorted by score and name.
LEMMA SortedIs ==
    ASSUME NEW a \in Arrays, InOrder(a)
    PROVE  /\ Sorted(Range(a)) = a
           /\ {[member |-> m, score |-> ScoresOf(a)[m]] : m \in DOMAIN ScoresOf(a)} = Range(a)
<1> DEFINE n == Len(a)
           M == Range(a)
           Preceding(x) == {y \in M : Before(y, x)}
           Nth(i) == CHOOSE x \in M : Cardinality({y \in M : Before(y, x)}) = i - 1
<1>1. /\ a \in Seq(PlainNodes) /\ n \in Nat /\ DOMAIN a = 1..n
      /\ \A i \in 1..n, j \in 1..n : i < j => Before(a[i], a[j])
      /\ \A i \in 1..n, j \in 1..n : a[i].member = a[j].member => i = j
      /\ M = {a[i] : i \in 1..n} /\ M \subseteq ZNodes /\ \A i \in 1..n : a[i] \in PlainNodes
  BY ArrayIs DEF InOrder, Arrays
<1> HIDE DEF n, M
<1>2. \A i \in 1..n, j \in 1..n : Before(a[i], a[j]) <=> i < j
  <2> SUFFICES ASSUME NEW i \in 1..n, NEW j \in 1..n PROVE Before(a[i], a[j]) <=> i < j
    OBVIOUS
  <2>1. ~ (Before(a[i], a[j]) /\ Before(a[j], a[i]))
    BY <1>1, BeforeOrders
  <2>2. i < j \/ i = j \/ j < i
    BY <1>1
  <2>3. i < j => ~ (j < i) /\ i # j
    BY <1>1
  <2>4. j < i => Before(a[j], a[i])
    BY <1>1
  <2>5. i < j => Before(a[i], a[j])
    BY <1>1
  <2>6. j < i => ~ (i < j)
    BY <1>1
  <2> QED BY <2>1, <2>2, <2>3, <2>4, <2>5, <2>6
<1>3. ASSUME NEW T \in SUBSET (1..n)
      PROVE  Cardinality({a[i] : i \in T}) = Cardinality(T)
  <2> DEFINE f == [i \in T |-> a[i]]
             Y == {a[i] : i \in T}
  <2>1. IsFiniteSet(T)
    BY <1>1, PlaceOrder
  <2>2. f \in Bijection(T, Y)
    BY <1>1 DEF Bijection, Injection, Surjection, IsInjective
  <2> HIDE DEF f, Y
  <2>3. Cardinality(Y) = Cardinality(T)
    BY <2>1, <2>2, FS_Bijection DEF ExistsBijection
  <2> QED BY <2>3 DEF Y
<1>4. Cardinality(M) = n
  <2>1. Cardinality({a[i] : i \in 1..n}) = Cardinality(1..n)
    BY <1>3
  <2>2. Cardinality(1..n) = n
    BY <1>1, FS_Interval
  <2> QED BY <1>1, <2>1, <2>2
<1>5. ASSUME NEW j \in 1..n PROVE Cardinality(Preceding(a[j])) = j - 1
  <2>1. 1..(j - 1) \in SUBSET (1..n) /\ \A i \in 1..n : i < j <=> i \in 1..(j - 1)
    BY <1>1
  <2>2. Preceding(a[j]) = {a[i] : i \in 1..(j - 1)}
    BY <1>1, <1>2, <2>1
  <2>3. Cardinality(1..(j - 1)) = j - 1
    BY <1>1, FS_Interval
  <2> HIDE DEF Preceding
  <2> QED BY <1>3, <2>1, <2>2, <2>3
<1>6. ASSUME NEW i \in 1..n PROVE Nth(i) = a[i]
  <2>1. a[i] \in M /\ Cardinality(Preceding(a[i])) = i - 1
    BY <1>1, <1>5
  <2>2. Nth(i) \in M /\ Cardinality(Preceding(Nth(i))) = i - 1
    BY <2>1
  <2> HIDE DEF Nth, Preceding
  <2>3. PICK j \in 1..n : Nth(i) = a[j]
    BY <1>1, <2>2
  <2>4. j - 1 = i - 1
    BY <1>5, <2>2, <2>3
  <2>5. j = i
    BY <1>1, <2>4
  <2> QED BY <2>3, <2>5
<1>7. Sorted(M) = a
  <2>1. Sorted(M) = [i \in 1..n |-> Nth(i)]
    BY <1>4 DEF Sorted
  <2> HIDE DEF Nth
  <2>2. Sorted(M) = [i \in 1..n |-> a[i]]
    BY <1>6, <2>1
  <2> QED BY <1>1, <2>2
<1>8. {[member |-> m, score |-> ScoresOf(a)[m]] : m \in DOMAIN ScoresOf(a)} = M
  <2>1. DOMAIN ScoresOf(a) = {z.member : z \in M} /\ \A z \in M : ScoresOf(a)[z.member] = z.score
    BY ScoresIs DEF Named, M
  <2>2. \A z \in M : z = [member |-> z.member, score |-> ScoresOf(a)[z.member]]
    BY <1>1, <2>1 DEF ZNodes
  <2> QED BY <2>1, <2>2
<1> QED BY <1>7, <1>8 DEF M

LEMMA PartIs ==
    ASSUME NEW T, NEW s \in Seq(T), NEW a \in Nat, NEW b \in Nat, a <= b, b <= Len(s)
    PROVE  LET t == SubSeq(s, a + 1, b)
           IN  /\ t \in Seq(T) /\ Len(t) = b - a
               /\ \A i \in 1..(b - a) : t[i] = s[a + i]
               /\ Range(t) = {s[q] : q \in (a + 1)..b}
<1> DEFINE t == SubSeq(s, a + 1, b)
<1>1. t \in Seq(T) /\ Len(t) = b - a /\ \A i \in 1..(b - a) : t[i] = s[a + i]
  OBVIOUS
<1>2. DOMAIN t = 1..(b - a)
  BY <1>1
<1> HIDE DEF t
<1>3. \A q \in (a + 1)..b : q - a \in 1..(b - a) /\ a + (q - a) = q
  OBVIOUS
<1>4. \A i \in 1..(b - a) : a + i \in (a + 1)..b
  OBVIOUS
<1>5. Range(t) = {t[i] : i \in 1..(b - a)}
  BY <1>2 DEF Range
<1>6. \A q \in (a + 1)..b : s[q] = t[q - a]
  BY <1>1, <1>3
<1>7. Range(t) = {s[q] : q \in (a + 1)..b}
  <2> DEFINE Y == {s[q] : q \in (a + 1)..b}
  <2>1. \A i \in 1..(b - a) : t[i] \in Y
    BY <1>1, <1>4
  <2>2. \A q \in (a + 1)..b : s[q] \in Range(t)
    BY <1>3, <1>5, <1>6
  <2>3. Range(t) \subseteq Y
    <3> HIDE DEF Y
    <3> QED BY <1>5, <2>1
  <2>4. Y \subseteq Range(t)
    BY <2>2
  <2> QED BY <2>3, <2>4
<1> QED BY <1>1, <1>7 DEF t

\* The places that LIMIT off cnt takes of the first n.
Limited(n, off, cnt) == {q \in 1..n : off < q /\ (cnt < 0 \/ q <= off + cnt)}

LEMMA PageIs ==
    ASSUME NEW T, NEW s \in Seq(T), NEW off \in Nat, NEW cnt \in Int
    PROVE  Range(Page(s, off, cnt)) = {s[q] : q \in Limited(Len(s), off, cnt)}
<1> DEFINE n == Len(s)
           skip == IF off > n THEN n ELSE off
           outn == IF cnt < 0 \/ cnt > n - skip THEN n - skip ELSE cnt
           b == skip + outn
<1>1. n \in Nat
  OBVIOUS
<1>2. Page(s, off, cnt) = SubSeq(s, skip + 1, b)
  BY DEF Page
<1> HIDE DEF n
<1>3. skip \in Nat /\ b \in Nat /\ skip <= b /\ b <= n
  BY <1>1
<1>4. (skip + 1)..b = Limited(n, off, cnt)
  <2>1. ASSUME NEW q \in 1..n
        PROVE  q \in (skip + 1)..b <=> off < q /\ (cnt < 0 \/ q <= off + cnt)
    BY <1>1
  <2>2. (skip + 1)..b \subseteq 1..n
    BY <1>1, <1>3
  <2> QED BY <2>1, <2>2 DEF Limited
<1> HIDE DEF skip, b
<1>5. Range(SubSeq(s, skip + 1, b)) = {s[q] : q \in (skip + 1)..b}
  BY <1>3, PartIs DEF n
<1> QED BY <1>2, <1>4, <1>5 DEF n

LEMMA ByScoreIs ==
    ASSUME NEW a \in Arrays, InOrder(a), NEW e, e.arr = a,
           NEW min \in Int, NEW max \in Int, NEW off \in Nat, NEW cnt \in Int
    PROVE  Range(ZRangeByScore(e, min, max, off, cnt)) = Asked(a, min, max, off, cnt)
<1> DEFINE W == {i \in DOMAIN a : ~Lower(a[i].score, min) /\ ~Lower(max, a[i].score)}
           V == {i \in DOMAIN a : min <= a[i].score /\ a[i].score <= max}
           all == Picked(a, W)
           c == Cardinality(W)
           m == IF c > RangeCap THEN RangeCap ELSE c
           some == IF Len(all) > RangeCap THEN SubSeq(all, 1, RangeCap) ELSE all
           L == Limited(m, off, cnt)
           Meant(h) == off <= h /\ h < RangeCap /\ (cnt < 0 \/ h < off + cnt)
<1>1. /\ a \in Seq(PlainNodes) /\ DOMAIN a = 1..Len(a) /\ Len(a) \in Nat
      /\ \A i \in DOMAIN a : a[i].score \in Int
      /\ RangeCap \in Nat /\ NaN \notin Int
  <2>1. a \in Seq(PlainNodes)
    BY DEF InOrder
  <2>2. DOMAIN a = 1..Len(a) /\ Len(a) \in Nat
    BY <2>1
  <2>3. \A i \in DOMAIN a : a[i] \in PlainNodes
    BY <2>1
  <2> QED BY <2>1, <2>2, <2>3, ObjectsAssumption DEF PlainNodes
<1>2. W = V /\ W \in SUBSET (1..Len(a)) /\ W \in SUBSET (DOMAIN a)
  BY <1>1 DEF Lower
<1>3. ZRangeByScore(e, min, max, off, cnt) = Page(some, off, cnt)
  BY DEF ZRangeByScore, Matches
<1>4. Asked(a, min, max, off, cnt) = {a[p] : p \in {i \in V : Meant(Ahead(V, i))}}
  BY DEF Asked, Ahead
<1> HIDE DEF W, V, all, Meant
<1>5. /\ c \in Nat /\ all \in Seq(PlainNodes) /\ Len(all) = c
      /\ \A i \in 1..c : \E p \in W : Ahead(W, p) = i - 1 /\ all[i] = a[p]
      /\ \A p \in W : all[Ahead(W, p) + 1] = a[p] /\ Ahead(W, p) \in Nat /\ Ahead(W, p) + 1 \in 1..c
  <2>1. /\ Picked(a, W) \in Seq(PlainNodes)
        /\ Len(Picked(a, W)) = Cardinality(W)
        /\ \A i \in 1..Cardinality(W) :
              \E p \in W : Ahead(W, p) = i - 1 /\ Picked(a, W)[i] = a[p]
        /\ \A p \in W : Picked(a, W)[Ahead(W, p) + 1] = a[p]
    BY <1>1, <1>2, PickedIs
  <2>2. /\ Cardinality(W) \in Nat
        /\ \A p \in W : Ahead(W, p) \in Nat /\ Ahead(W, p) + 1 \in 1..Cardinality(W)
    BY <1>1, <1>2, PlaceOrder
  <2> QED BY <2>1, <2>2 DEF all
<1> HIDE DEF c
<1>6. m \in Nat /\ m <= c
  BY <1>1, <1>5
<1>7. some \in Seq(PlainNodes) /\ Len(some) = m /\ \A q \in 1..m : some[q] = all[q]
  <2>1. CASE c > RangeCap
    <3>1. some = SubSeq(all, 0 + 1, RangeCap) /\ m = RangeCap
      <4>1. Len(all) > RangeCap /\ 0 + 1 = 1
        BY <1>5, <2>1
      <4>2. some = SubSeq(all, 1, RangeCap) /\ m = RangeCap
        BY <2>1, <4>1
      <4> QED BY <4>1, <4>2
    <3>2. RangeCap <= Len(all) /\ 0 <= RangeCap
      BY <1>1, <1>5, <2>1
    <3>3. /\ SubSeq(all, 0 + 1, RangeCap) \in Seq(PlainNodes)
          /\ Len(SubSeq(all, 0 + 1, RangeCap)) = RangeCap - 0
          /\ \A i \in 1..(RangeCap - 0) : SubSeq(all, 0 + 1, RangeCap)[i] = all[0 + i]
      BY <1>1, <1>5, <3>2, PartIs
    <3> HIDE DEF some, m
    <3>4. \A i \in 1..m : some[i] = all[i]
      BY <1>1, <3>1, <3>3
    <3> QED BY <1>1, <3>1, <3>3, <3>4
  <2>2. CASE ~ (c > RangeCap)
    BY <1>5, <2>2
  <2> QED BY <2>1, <2>2
<1> HIDE DEF some
<1>8. ASSUME NEW h \in 0..(c - 1) PROVE h + 1 \in L <=> Meant(h)
  <2>1. h \in Nat /\ h < c
    BY <1>5
  <2>2. h + 1 \in 1..m <=> h < RangeCap
    <3>1. CASE c > RangeCap
      <4>1. m = RangeCap
        BY <3>1
      <4>2. RangeCap \in Nat
        BY <1>1
      <4> HIDE DEF m
      <4> QED BY <2>1, <4>1, <4>2
    <3>2. CASE ~ (c > RangeCap)
      <4>1. m = c
        BY <3>2
      <4>2. c \in Nat /\ c <= RangeCap /\ RangeCap \in Nat
        BY <1>1, <1>5, <3>2
      <4> HIDE DEF m
      <4> QED BY <2>1, <4>1, <4>2
    <3> QED BY <3>1, <3>2
  <2>3. (off < h + 1 <=> off <= h) /\ (h + 1 <= off + cnt <=> h < off + cnt)
    BY <2>1
  <2> HIDE DEF m
  <2> QED BY <2>2, <2>3 DEF Limited, Meant
<1>9. L \subseteq 1..m /\ 1..m \subseteq 1..c
  BY <1>5, <1>6 DEF Limited
<1> HIDE DEF L, m
<1>10. Range(Page(some, off, cnt)) = {some[q] : q \in L}
  BY <1>7, PageIs DEF L
<1>11. {some[q] : q \in L} = {all[q] : q \in L}
  BY <1>7, <1>9
<1>12. {all[q] : q \in L} = {a[p] : p \in {i \in W : Meant(Ahead(W, i))}}
  <2>1. ASSUME NEW q \in L PROVE \E p \in W : Meant(Ahead(W, p)) /\ all[q] = a[p]
    <3>1. q \in 1..c
      BY <1>9
    <3>2. PICK p \in W : Ahead(W, p) = q - 1 /\ all[q] = a[p]
      BY <1>5, <3>1
    <3>3. q - 1 \in 0..(c - 1) /\ (q - 1) + 1 = q
      BY <1>5, <3>1
    <3>4. Meant(q - 1)
      BY <1>8, <3>3
    <3> QED BY <3>2, <3>4
  <2>2. ASSUME NEW p \in W, Meant(Ahead(W, p)) PROVE \E q \in L : all[q] = a[p]
    <3> DEFINE h == Ahead(W, p)
    <3>1. h \in Nat /\ h + 1 \in 1..c /\ all[h + 1] = a[p]
      BY <1>5
    <3> HIDE DEF h
    <3>2. h \in 0..(c - 1)
      BY <1>5, <3>1
    <3>3. h + 1 \in L
      BY <1>8, <2>2, <3>2 DEF h
    <3> QED BY <3>1, <3>3
  <2> QED BY <2>1, <2>2
<1> QED BY <1>2, <1>3, <1>4, <1>10, <1>11, <1>12

\* Every read tells the truth: HGET and HGETALL about the function a hash
\* stands for, LINDEX and LRANGE about the list, and ZRANGE and ZRANGEBYSCORE,
\* as long as no score was NaN, about the members sorted by score and name.
THEOREM ReadsAreTrue == OSpec => []ReadsTellTruth
<1>1. OInv => ReadsTellTruth
  <2> SUFFICES ASSUME OInv, NEW k \in Keys
               PROVE  LET e == store[k]
                          v == Value(e)
                          sorted == Sorted({[member |-> m, score |-> v.map[m]] : m \in DOMAIN v.map})
                      IN  /\ v.type = "hash" =>
                               /\ \A f \in Fields : HGet(e, f) = IF f \in DOMAIN v.map THEN v.map[f] ELSE Nil
                               /\ HGetAll(e).announced = Cardinality(HGetAll(e).sent)
                               /\ HGetAll(e).sent = {[field |-> f, val |-> v.map[f]] : f \in DOMAIN v.map}
                          /\ v.type = "list" => \A i, j \in Ends :
                               /\ RangeOf(e.list, i, j) = Picked(v.list, Places(v.list, i, j))
                               /\ IF Places(v.list, i, i) = {} THEN LIndex(e, i) = Nil
                                  ELSE <<LIndex(e, i)>> = Picked(v.list, Places(v.list, i, i))
                          /\ v.type = "zset" /\ k \notin tainted =>
                               /\ \A i, j \in Ends : RangeOf(e.arr, i, j) = Picked(sorted, Places(sorted, i, j))
                               /\ \A min, max \in Scores, off \in 0..MaxMembers, cnt \in Ends :
                                     Range(ZRangeByScore(e, min, max, off, cnt)) =
                                         Asked(sorted, min, max, off, cnt)
    BY DEF ReadsTellTruth
  <2> DEFINE e == store[k]
             v == Value(e)
             sorted == Sorted({[member |-> m, score |-> v.map[m]] : m \in DOMAIN v.map})
  <2>1. /\ Dict(store) /\ e \in Entries /\ v.type = e.type
        /\ \A i \in Ends : i \in Int
        /\ \A min \in Scores : min \in Int
        /\ \A off \in 0..MaxMembers : off \in Nat
    BY ValueIs, ObjectsAssumption DEF OInv, Dict, Ends
  <2>2. ASSUME v.type = "hash"
        PROVE  /\ \A f \in Fields : HGet(e, f) = IF f \in DOMAIN v.map THEN v.map[f] ELSE Nil
               /\ HGetAll(e).announced = Cardinality(HGetAll(e).sent)
               /\ HGetAll(e).sent = {[field |-> f, val |-> v.map[f]] : f \in DOMAIN v.map}
    <3> HIDE DEF e
    <3> QED BY <2>1, <2>2, HashReads
  <2>3. ASSUME v.type = "list", NEW i \in Ends, NEW j \in Ends
        PROVE  /\ RangeOf(e.list, i, j) = Picked(v.list, Places(v.list, i, j))
               /\ IF Places(v.list, i, i) = {} THEN LIndex(e, i) = Nil
                  ELSE <<LIndex(e, i)>> = Picked(v.list, Places(v.list, i, i))
    <3> DEFINE s == e.list
    <3>1. s \in Seq(Strings) /\ v.list = s
      BY <2>1, <2>3, ListIs DEF Lists
    <3> HIDE DEF e, v, s
    <3>2. RangeOf(s, i, j) = Picked(s, Places(s, i, j))
      BY <2>1, <3>1, WindowIs DEF RangeOf
    <3>3. IF Places(s, i, i) = {} THEN LIndex(e, i) = Nil
          ELSE <<LIndex(e, i)>> = Picked(s, Places(s, i, i))
      BY <2>1, <3>1, IndexIs DEF s
    <3> QED BY <3>1, <3>2, <3>3 DEF s
  <2>4. ASSUME v.type = "zset", k \notin tainted
        PROVE  /\ \A i, j \in Ends : RangeOf(e.arr, i, j) = Picked(sorted, Places(sorted, i, j))
               /\ \A min, max \in Scores, off \in 0..MaxMembers, cnt \in Ends :
                     Range(ZRangeByScore(e, min, max, off, cnt)) =
                         Asked(sorted, min, max, off, cnt)
    <3>1. PICK a \in Arrays : e = ZSetOf(a) /\ v.map = ScoresOf(a)
      BY <2>1, <2>4, ZSetBase
    <3>2. e.arr = a /\ InOrder(a)
      <4>1. e.arr = a
        BY <3>1 DEF ZSetOf
      <4>2. InOrder(e.arr)
        BY <2>1, <2>4 DEF OInv, Ordered
      <4> QED BY <4>1, <4>2
    <3>3. sorted = a
      BY <3>1, <3>2, SortedIs
    <3>4. a \in Seq(PlainNodes)
      BY <3>2 DEF InOrder
    <3> HIDE DEF e, v, sorted
    <3>5. \A i, j \in Ends : RangeOf(a, i, j) = Picked(a, Places(a, i, j))
      BY <2>1, <3>4, WindowIs DEF RangeOf
    <3>6. \A min, max \in Scores, off \in 0..MaxMembers, cnt \in Ends :
             Range(ZRangeByScore(e, min, max, off, cnt)) = Asked(a, min, max, off, cnt)
      BY <2>1, <3>2, ByScoreIs
    <3> QED BY <3>2, <3>3, <3>5, <3>6
  <2> QED BY <2>2, <2>3, <2>4
<1> QED BY <1>1, OInvHolds, PTL
=============================================================================
