---------------------------- MODULE TablesProofs ----------------------------
(***************************************************************************)
(* Theorems about module Tables: every entry hangs where a lookup searches *)
(* and SCAN misses nothing, for every set of keys, every hash function and *)
(* every size of the tables.                                               *)
(*                                                                         *)
(* A table is determined by the number of its buckets and its entries      *)
(* (Table), and the operations of the code change just these two: the      *)
(* lemmas say how.  Pos is the number SCAN's cursor gives to the bucket of *)
(* an entry.  An operation may move an entry only towards higher numbers,  *)
(* save for the entries it hides from SCAN (Moves): this is what makes an  *)
(* iteration complete, and the lemmas show it of every operation.          *)
(***************************************************************************)
EXTENDS Tables, Integers, FiniteSetTheorems, TLAPS

-----------------------------------------------------------------------------
(* Tables as sizes and sets.                                               *)

\* The table of n buckets that holds the entries S.
Table(n, S) == [b \in 0..(n - 1) |-> {k \in S : Bucket(k, n) = b}]

\* A bucket number is one of the table.
LEMMA BucketRange ==
    ASSUME NEW k \in Keys, NEW n \in Nat \ {0}
    PROVE  Bucket(k, n) \in 0..(n - 1)
  BY TablesAssumption DEF Bucket

\* A remainder does not shrink when the divisor doubles.
LEMMA ModGrows ==
    ASSUME NEW h \in Nat, NEW n \in Nat \ {0}
    PROVE  h % (2 * n) >= h % n
<1> DEFINE q == h \div n
           p == h \div (2 * n)
           r == h % n
           s == h % (2 * n)
<1>1. h = n * q + r /\ q \in Nat /\ r \in 0..(n - 1)
  OBVIOUS
<1>2. 2 * n \in Nat \ {0}
  OBVIOUS
<1>3. \A m \in Nat \ {0} : /\ h = m * (h \div m) + (h % m) /\ h \div m \in Nat
                           /\ h % m \in 0..(m - 1)
  OBVIOUS
<1>4. h = (2 * n) * p + s /\ p \in Nat /\ s \in 0..(2 * n - 1)
  BY <1>2, <1>3
<1> HIDE DEF q, p, r, s
<1>5. SUFFICES ASSUME s < r PROVE FALSE
  BY <1>1, <1>4 DEF r, s
<1>6. s - r = n * (q - 2 * p)
  <2>1. n * (q - 2 * p) = n * q - (2 * n) * p
    BY <1>1, <1>4
  <2> QED BY <1>1, <1>4, <2>1
<1>7. CASE q - 2 * p >= 0
  <2>1. n * (q - 2 * p) >= 0
    BY <1>1, <1>4, <1>7
  <2> QED BY <1>1, <1>4, <1>5, <1>6, <2>1
<1>8. CASE q - 2 * p <= -1
  <2>1. n * (q - 2 * p) <= n * (-1)
    BY <1>1, <1>4, <1>8
  <2> QED BY <1>1, <1>4, <1>5, <1>6, <2>1
<1> QED BY <1>1, <1>4, <1>7, <1>8

\* Doubling moves an entry to a bucket that is not lower.
LEMMA BucketGrows ==
    ASSUME NEW k \in Keys, NEW n \in Nat \ {0}
    PROVE  Bucket(k, 2 * n) >= Bucket(k, n)
<1>1. Hash[k] \in Nat
  BY TablesAssumption
<1> QED BY <1>1, ModGrows DEF Bucket

LEMMA DomainSize ==
    ASSUME NEW n \in Nat, NEW t, DOMAIN t = 0..(n - 1)
    PROVE  Size(t) = n
<1>1. Cardinality(0..(n - 1)) = IF 0 > n - 1 THEN 0 ELSE (n - 1) - 0 + 1
  <2>1. 0 \in Int /\ n - 1 \in Int
    OBVIOUS
  <2> QED BY <2>1, FS_Interval, Zenon
<1> QED BY <1>1 DEF Size

LEMMA TableFacts ==
    ASSUME NEW n \in Nat, NEW S \in SUBSET Keys, n = 0 => S = {}
    PROVE  /\ DOMAIN Table(n, S) = 0..(n - 1)
           /\ Size(Table(n, S)) = n
           /\ Entries(Table(n, S)) = S
<1>1. DOMAIN Table(n, S) = 0..(n - 1)
  BY DEF Table
<1>2. Size(Table(n, S)) = n
  BY <1>1, DomainSize
<1>3. ASSUME NEW k \in S PROVE k \in Entries(Table(n, S))
  <2>1. Bucket(k, n) \in 0..(n - 1)
    BY <1>3, BucketRange
  <2>2. k \in Table(n, S)[Bucket(k, n)]
    BY <1>3, <2>1 DEF Table
  <2> QED BY <1>1, <2>1, <2>2 DEF Entries, Range
<1>4. ASSUME NEW k \in Entries(Table(n, S)) PROVE k \in S
  BY <1>4 DEF Entries, Range, Table
<1> QED BY <1>1, <1>2, <1>3, <1>4

LEMMA NoBucketsFacts ==
    /\ NoBuckets = Table(0, {})
    /\ \A n \in Nat \ {0} : \A S \in SUBSET Keys : Table(n, S) # NoBuckets
<1>1. NoBuckets = Table(0, {})
  BY DEF NoBuckets, Table
<1>2. ASSUME NEW n \in Nat \ {0}, NEW S \in SUBSET Keys PROVE Table(n, S) # NoBuckets
  <2>1. 0 \in DOMAIN Table(n, S)
    BY DEF Table
  <2>2. DOMAIN NoBuckets = {}
    BY DEF NoBuckets
  <2> QED BY <2>1, <2>2
<1> QED BY <1>1, <1>2

-----------------------------------------------------------------------------
(* Well-formed dictionaries.                                               *)

\* The dictionary d has n hot buckets with the entries S and m cold ones with
\* the entries C.
Shape(d, n, S, m, C) ==
    /\ n \in Nat \ {0} /\ m \in Nat /\ S \subseteq Keys /\ C \subseteq Keys
    /\ S \cap C = {} /\ (m = 0 => C = {})
    /\ d.hot = Table(n, S) /\ d.cold = Table(m, C)
    /\ d.layout \in Layouts /\ (d.layout = "flat" <=> m = 0)
    /\ d.at \in [Keys -> Nat]
    /\ d = [layout |-> d.layout, hot |-> d.hot, cold |-> d.cold, at |-> d.at]

Sound(d) == Shape(d, Size(d.hot), Entries(d.hot), Size(d.cold), Entries(d.cold))

\* SCAN's number of the bucket in which an entry hangs.
Pos(d, k) ==
    IF k \in Entries(d.hot) THEN Bucket(k, Size(d.hot))
    ELSE Size(d.hot) + Bucket(k, Size(d.cold))

\* From d to e entries move only towards higher numbers, those in H excepted;
\* every new entry is in H.
Moves(d, e, H) ==
    /\ Linked(e) \subseteq Linked(d) \cup H
    /\ \A k \in Linked(e) \ H : Pos(e, k) >= Pos(d, k)

LEMMA ShapeFacts ==
    ASSUME NEW d, NEW n, NEW S, NEW m, NEW C, Shape(d, n, S, m, C)
    PROVE  /\ Size(d.hot) = n /\ Entries(d.hot) = S
           /\ Size(d.cold) = m /\ Entries(d.cold) = C
           /\ DOMAIN d.hot = 0..(n - 1) /\ DOMAIN d.cold = 0..(m - 1)
           /\ Sound(d) /\ Linked(d) = S \cup C
           /\ n \in Nat \ {0} /\ m \in Nat /\ S \subseteq Keys /\ C \subseteq Keys
           /\ S \cap C = {} /\ (m = 0 => C = {})
<1>1. Size(d.hot) = n /\ Entries(d.hot) = S /\ DOMAIN d.hot = 0..(n - 1)
  BY TableFacts DEF Shape
<1>2. Size(d.cold) = m /\ Entries(d.cold) = C /\ DOMAIN d.cold = 0..(m - 1)
  BY TableFacts DEF Shape
<1>3. Sound(d)
  BY <1>1, <1>2 DEF Sound
<1>4. /\ n \in Nat \ {0} /\ m \in Nat /\ S \subseteq Keys /\ C \subseteq Keys
      /\ S \cap C = {} /\ (m = 0 => C = {})
  BY DEF Shape
<1> QED BY <1>1, <1>2, <1>3, <1>4 DEF Linked

LEMMA SoundShape ==
    ASSUME NEW d, Sound(d)
    PROVE  \E n \in Nat \ {0}, m \in Nat, S \in SUBSET Keys, C \in SUBSET Keys :
              Shape(d, n, S, m, C)
  BY DEF Sound, Shape

\* The entries of one bucket.
LEMMA InBucket ==
    ASSUME NEW d, NEW n, NEW S, NEW m, NEW C, Shape(d, n, S, m, C), NEW b, NEW k
    PROVE  /\ b \in 0..(n - 1) => (k \in d.hot[b] <=> k \in S /\ Bucket(k, n) = b)
           /\ b \in 0..(m - 1) => (k \in d.cold[b] <=> k \in C /\ Bucket(k, m) = b)
  BY DEF Shape, Table

\* A lookup finds what is linked, and only that.
LEMMA LookupFinds ==
    ASSUME NEW d, NEW n, NEW S, NEW m, NEW C, Shape(d, n, S, m, C), NEW k \in Keys
    PROVE  /\ InHot(d, k) <=> k \in S
           /\ InCold(d, k) <=> k \in C
           /\ Finds(d, k) <=> k \in Linked(d)
<1>1. /\ n \in Nat \ {0} /\ m \in Nat /\ Size(d.hot) = n /\ Size(d.cold) = m
      /\ Linked(d) = S \cup C
  BY ShapeFacts
<1>2. InHot(d, k) <=> k \in S
  <2>1. Bucket(k, n) \in 0..(n - 1)
    BY <1>1, BucketRange
  <2>2. k \in d.hot[Bucket(k, n)] <=> k \in S
    BY <2>1, InBucket
  <2> QED BY <1>1, <2>2 DEF InHot
<1>3. InCold(d, k) <=> k \in C
  <2>1. CASE m = 0
    BY <1>1, <2>1 DEF Shape, InCold, Layouts
  <2>2. CASE m # 0
    <3>1. Bucket(k, m) \in 0..(m - 1) /\ d.layout = "hot_cold"
      BY <1>1, <2>2, BucketRange DEF Shape, Layouts
    <3> QED BY <1>1, <3>1, InBucket DEF InCold
  <2> QED BY <2>1, <2>2
<1> QED BY <1>1, <1>2, <1>3 DEF Finds

LEMMA PosRange ==
    ASSUME NEW d, NEW n, NEW S, NEW m, NEW C, Shape(d, n, S, m, C), NEW k \in Linked(d)
    PROVE  /\ k \in Keys /\ Pos(d, k) \in Nat /\ Pos(d, k) < n + m
           /\ k \in S => Pos(d, k) = Bucket(k, n) /\ Pos(d, k) < n
           /\ k \in C => Pos(d, k) = n + Bucket(k, m) /\ Pos(d, k) >= n
<1>1. /\ n \in Nat \ {0} /\ m \in Nat /\ Size(d.hot) = n /\ Size(d.cold) = m
      /\ Linked(d) = S \cup C /\ Entries(d.hot) = S /\ S \subseteq Keys /\ C \subseteq Keys
      /\ S \cap C = {} /\ (m = 0 => C = {})
  BY ShapeFacts
<1>2. CASE k \in S
  <2>1. Bucket(k, n) \in 0..(n - 1) /\ k \notin C
    BY <1>1, <1>2, BucketRange
  <2>2. Pos(d, k) = Bucket(k, n)
    BY <1>1, <1>2 DEF Pos
  <2> QED BY <1>1, <1>2, <2>1, <2>2
<1>3. CASE k \in C
  <2>1. m \in Nat \ {0} /\ k \notin S
    BY <1>1, <1>3
  <2>2. Bucket(k, m) \in 0..(m - 1)
    BY <1>1, <1>3, <2>1, BucketRange
  <2> QED BY <1>1, <1>3, <2>1, <2>2 DEF Pos
<1> QED BY <1>1, <1>2, <1>3

-----------------------------------------------------------------------------
(* What the operations do to one table.                                    *)

LEMMA TableMinus ==
    ASSUME NEW n \in Nat, NEW S, NEW b \in 0..(n - 1), NEW ks, NEW t,
           ks \subseteq Table(n, S)[b],
           t = [c \in 0..(n - 1) |-> t[c]], t[b] = Table(n, S)[b] \ ks,
           \A c \in 0..(n - 1) : c # b => t[c] = Table(n, S)[c]
    PROVE  t = Table(n, S \ ks)
<1>1. ASSUME NEW k \in ks PROVE k \in S /\ Bucket(k, n) = b
  BY <1>1 DEF Table
<1>2. ASSUME NEW c \in 0..(n - 1)
      PROVE  t[c] = {k \in S \ ks : Bucket(k, n) = c}
  <2>1. CASE c = b
    BY <2>1 DEF Table
  <2>2. CASE c # b
    BY <1>1, <2>2 DEF Table
  <2> QED BY <2>1, <2>2
<1> QED BY <1>2 DEF Table

LEMMA TableMinusAll ==
    ASSUME NEW n \in Nat, NEW S, NEW ks
    PROVE  [b \in DOMAIN Table(n, S) |-> Table(n, S)[b] \ ks] = Table(n, S \ ks)
<1>1. \A b \in 0..(n - 1) : Table(n, S)[b] \ ks = {k \in S \ ks : Bucket(k, n) = b}
  BY DEF Table
<1> QED BY <1>1 DEF Table

LEMMA TablePlus ==
    ASSUME NEW n \in Nat, NEW S, NEW ks
    PROVE  [b \in DOMAIN Table(n, S) |-> Table(n, S)[b] \cup {k \in ks : Bucket(k, n) = b}]
              = Table(n, S \cup ks)
<1>1. \A b \in 0..(n - 1) : Table(n, S)[b] \cup {k \in ks : Bucket(k, n) = b}
                            = {k \in S \cup ks : Bucket(k, n) = b}
  BY DEF Table
<1> QED BY <1>1 DEF Table

LEMMA TablePut ==
    ASSUME NEW n \in Nat \ {0}, NEW S \in SUBSET Keys, NEW k \in Keys
    PROVE  Put(Table(n, S), k) = Table(n, S \cup {k})
<1> DEFINE T == Table(n, S)
           c == Bucket(k, n)
           t == [T EXCEPT ![c] = @ \cup {k}]
<1>1. Size(T) = n /\ c \in 0..(n - 1) /\ DOMAIN T = 0..(n - 1)
  BY TableFacts, BucketRange
<1>2. ASSUME NEW b \in 0..(n - 1)
      PROVE  t[b] = {j \in S \cup {k} : Bucket(j, n) = b}
  <2>1. CASE b = c
    BY <1>1, <2>1 DEF Table
  <2>2. CASE b # c
    BY <1>1, <2>2 DEF Table
  <2> QED BY <2>1, <2>2
<1>3. DOMAIN t = 0..(n - 1) /\ t = [b \in DOMAIN t |-> t[b]]
  BY <1>1
<1>4. Put(T, k) = t
  BY <1>1 DEF Put
<1> HIDE DEF t, T
<1> QED BY <1>2, <1>3, <1>4 DEF Table, T

LEMMA TableRehash ==
    ASSUME NEW n \in Nat, NEW S \in SUBSET Keys, n = 0 => S = {}
    PROVE  /\ Rehash(Table(n, S)) = Table(2 * n, S)
           /\ Grown(Table(n, S)) \in {Table(n, S), Table(2 * n, S)}
<1>1. Size(Table(n, S)) = n /\ Entries(Table(n, S)) = S
  BY TableFacts
<1>2. Rehash(Table(n, S)) = Table(2 * n, S)
  BY <1>1 DEF Rehash, Table
<1> QED BY <1>2 DEF Grown

-----------------------------------------------------------------------------
(* What the operations do to the dictionary.                               *)

LEMMA FreeHot ==
    ASSUME NEW d, NEW n, NEW S, NEW m, NEW C, Shape(d, n, S, m, C),
           NEW b \in DOMAIN d.hot, NEW ks \in SUBSET d.hot[b]
    PROVE  Shape(Free(d, "hot", b, ks), n, S \ ks, m, C)
<1> DEFINE e == Free(d, "hot", b, ks)
           at == [k \in Keys |-> IF k \in ks THEN 0 ELSE d.at[k]]
<1>1. [d.hot EXCEPT ![b] = @ \ ks] = Table(n, S \ ks)
  <2>1. DOMAIN d.hot = 0..(n - 1) /\ n \in Nat
    BY ShapeFacts
  <2>2. d.hot = Table(n, S)
    BY DEF Shape
  <2>3. b \in 0..(n - 1) /\ ks \subseteq Table(n, S)[b]
    BY <2>1, <2>2
  <2> DEFINE t == [d.hot EXCEPT ![b] = @ \ ks]
  <2>4. /\ t = [c \in 0..(n - 1) |-> t[c]] /\ t[b] = Table(n, S)[b] \ ks
        /\ \A c \in 0..(n - 1) : c # b => t[c] = Table(n, S)[c]
    BY <2>1, <2>2, <2>3
  <2> HIDE DEF t
  <2>5. t = Table(n, S \ ks)
    BY <2>1, <2>3, <2>4, TableMinus, Zenon
  <2> QED BY <2>5 DEF t
<1>2. at \in [Keys -> Nat]
  BY DEF Shape
<1>3. /\ e.hot = [d.hot EXCEPT ![b] = @ \ ks] /\ e.cold = d.cold /\ e.at = at
      /\ e.layout = d.layout
      /\ e = [layout |-> e.layout, hot |-> e.hot, cold |-> e.cold, at |-> e.at]
  BY DEF Free, Shape
<1> HIDE DEF e, at
<1>4. Shape(e, n, S \ ks, m, C)
  BY <1>1, <1>2, <1>3 DEF Shape
<1> QED BY <1>4 DEF e

LEMMA FreeCold ==
    ASSUME NEW d, NEW n, NEW S, NEW m, NEW C, Shape(d, n, S, m, C),
           NEW b \in DOMAIN d.cold, NEW ks \in SUBSET d.cold[b]
    PROVE  Shape(Free(d, "cold", b, ks), n, S, m, C \ ks)
<1> DEFINE e == Free(d, "cold", b, ks)
           at == [k \in Keys |-> IF k \in ks THEN 0 ELSE d.at[k]]
<1>1. [d.cold EXCEPT ![b] = @ \ ks] = Table(m, C \ ks)
  <2>1. DOMAIN d.cold = 0..(m - 1) /\ m \in Nat
    BY ShapeFacts
  <2>2. d.cold = Table(m, C)
    BY DEF Shape
  <2>3. b \in 0..(m - 1) /\ ks \subseteq Table(m, C)[b]
    BY <2>1, <2>2
  <2> DEFINE t == [d.cold EXCEPT ![b] = @ \ ks]
  <2>4. /\ t = [c \in 0..(m - 1) |-> t[c]] /\ t[b] = Table(m, C)[b] \ ks
        /\ \A c \in 0..(m - 1) : c # b => t[c] = Table(m, C)[c]
    BY <2>1, <2>2, <2>3
  <2> HIDE DEF t
  <2>5. t = Table(m, C \ ks)
    BY <2>1, <2>3, <2>4, TableMinus, Zenon
  <2> QED BY <2>5 DEF t
<1>2. at \in [Keys -> Nat]
  BY DEF Shape
<1>3. /\ e.cold = [d.cold EXCEPT ![b] = @ \ ks] /\ e.hot = d.hot /\ e.at = at
      /\ e.layout = d.layout
      /\ e = [layout |-> e.layout, hot |-> e.hot, cold |-> e.cold, at |-> e.at]
  BY DEF Free, Shape
<1> HIDE DEF e, at
<1>4. Shape(e, n, S, m, C \ ks)
  BY <1>1, <1>2, <1>3 DEF Shape
<1> QED BY <1>4 DEF e

\* ar_entry_set_ex of a new key and of an existing one.
LEMMA PutShape ==
    ASSUME NEW d, NEW n, NEW S, NEW m, NEW C, Shape(d, n, S, m, C),
           NEW k \in Keys, k \notin C, NEW a \in Nat
    PROVE  Shape([d EXCEPT !.hot = Put(@, k), !.at[k] = a], n, S \cup {k}, m, C)
<1> DEFINE e == [d EXCEPT !.hot = Put(@, k), !.at[k] = a]
           h == Put(d.hot, k)
           t == [d.at EXCEPT ![k] = a]
<1>1. Put(d.hot, k) = Table(n, S \cup {k})
  BY TablePut DEF Shape
<1>2. [d.at EXCEPT ![k] = a] \in [Keys -> Nat]
  BY DEF Shape
<1>3. /\ e.cold = d.cold /\ e.hot = h /\ e.at = t /\ e.layout = d.layout
      /\ e = [layout |-> e.layout, hot |-> e.hot, cold |-> e.cold, at |-> e.at]
  <2>1. d = [layout |-> d.layout, hot |-> d.hot, cold |-> d.cold, at |-> d.at]
    BY DEF Shape
  <2>2. e = [d EXCEPT !.hot = h, !.at = t]
    OBVIOUS
  <2> HIDE DEF e, h, t
  <2> QED BY <2>1, <2>2
<1> HIDE DEF e
<1>4. Shape(e, n, S \cup {k}, m, C)
  BY <1>1, <1>2, <1>3 DEF Shape
<1> QED BY <1>4 DEF e

LEMMA AtShape ==
    ASSUME NEW d, NEW n, NEW S, NEW m, NEW C, Shape(d, n, S, m, C),
           NEW k \in Keys, NEW a \in Nat
    PROVE  Shape([d EXCEPT !.at[k] = a], n, S, m, C)
<1> DEFINE e == [d EXCEPT !.at[k] = a]
<1>1. [d.at EXCEPT ![k] = a] \in [Keys -> Nat]
  BY DEF Shape
<1>2. /\ e.cold = d.cold /\ e.hot = d.hot /\ e.at = [d.at EXCEPT ![k] = a]
      /\ e.layout = d.layout
      /\ e = [layout |-> e.layout, hot |-> e.hot, cold |-> e.cold, at |-> e.at]
  BY DEF Shape
<1> HIDE DEF e
<1>3. Shape(e, n, S, m, C)
  BY <1>1, <1>2 DEF Shape
<1> QED BY <1>3 DEF e

LEMMA RehashShape ==
    ASSUME NEW d, NEW n, NEW S, NEW m, NEW C, Shape(d, n, S, m, C)
    PROVE  \E n2 \in {n, 2 * n}, m2 \in {m, 2 * m} :
              Shape(RehashIfNeeded(d), n2, S, m2, C)
<1> DEFINE e == RehashIfNeeded(d)
           h == Grown(d.hot)
           c == IF d.layout = "hot_cold" THEN Grown(d.cold) ELSE d.cold
<1>1. PICK n2 \in {n, 2 * n} : h = Table(n2, S)
  BY TableRehash DEF Shape
<1>2. PICK m2 \in {m, 2 * m} : c = Table(m2, C)
  <2>1. Grown(d.cold) \in {Table(m, C), Table(2 * m, C)}
    BY TableRehash DEF Shape
  <2> QED BY <2>1 DEF Shape
<1>3. n2 \in Nat \ {0} /\ m2 \in Nat /\ (m2 = 0 <=> m = 0)
  BY ShapeFacts
<1>4. /\ e.cold = c /\ e.hot = h /\ e.at = d.at
      /\ e.layout = d.layout
      /\ e = [layout |-> e.layout, hot |-> e.hot, cold |-> e.cold, at |-> e.at]
  <2>1. d = [layout |-> d.layout, hot |-> d.hot, cold |-> d.cold, at |-> d.at]
    BY DEF Shape
  <2>2. e = [d EXCEPT !.hot = h, !.cold = c]
    BY DEF RehashIfNeeded
  <2> HIDE DEF e, h, c
  <2> QED BY <2>1, <2>2
<1> HIDE DEF e, h, c
<1>5. Shape(e, n2, S, m2, C)
  BY <1>1, <1>2, <1>3, <1>4 DEF Shape
<1> QED BY <1>5 DEF e

LEMMA DemoteShape ==
    ASSUME NEW d, NEW n, NEW S, NEW m, NEW C, Shape(d, n, S, m, C),
           NEW ks \in SUBSET S, d.layout # "flat"
    PROVE  Shape(Demote(d, ks), n, S \ ks, m, C \cup ks)
<1> DEFINE e == Demote(d, ks)
           h == [b \in DOMAIN d.hot |-> d.hot[b] \ ks]
           c == [b \in DOMAIN d.cold |->
                    d.cold[b] \cup {k \in ks : Bucket(k, Size(d.cold)) = b}]
<1>1. h = Table(n, S \ ks)
  <2>1. n \in Nat
    BY ShapeFacts
  <2>2. d.hot = Table(n, S)
    BY DEF Shape
  <2>3. [b \in DOMAIN Table(n, S) |-> Table(n, S)[b] \ ks] = Table(n, S \ ks)
    BY <2>1, TableMinusAll
  <2> QED BY <2>2, <2>3, Zenon
<1>2. c = Table(m, C \cup ks)
  <2>1. Size(d.cold) = m /\ m \in Nat
    BY ShapeFacts
  <2>2. d.cold = Table(m, C)
    BY DEF Shape
  <2>3. [b \in DOMAIN Table(m, C) |->
            Table(m, C)[b] \cup {k \in ks : Bucket(k, m) = b}] = Table(m, C \cup ks)
    BY <2>1, TablePlus
  <2> QED BY <2>1, <2>2, <2>3, Zenon
<1>3. /\ e.cold = c /\ e.hot = h /\ e.at = d.at
      /\ e.layout = d.layout
      /\ e = [layout |-> e.layout, hot |-> e.hot, cold |-> e.cold, at |-> e.at]
  <2>1. d = [layout |-> d.layout, hot |-> d.hot, cold |-> d.cold, at |-> d.at]
    BY DEF Shape
  <2>2. e = [d EXCEPT !.hot = h, !.cold = c]
    BY DEF Demote
  <2> HIDE DEF e, h, c
  <2> QED BY <2>1, <2>2
<1> HIDE DEF e, h, c
<1>4. m # 0
  BY DEF Shape
<1>5. Shape(e, n, S \ ks, m, C \cup ks)
  BY <1>1, <1>2, <1>3, <1>4 DEF Shape
<1> QED BY <1>5 DEF e

LEMMA DemotionsShape ==
    ASSUME NEW d, NEW n, NEW S, NEW m, NEW C, Shape(d, n, S, m, C),
           NEW e \in Demotions(d)
    PROVE  \E ks \in SUBSET S : Shape(e, n, S \ ks, m, C \cup ks)
<1>1. Entries(d.hot) = S
  BY ShapeFacts
<1>2. CASE e = d
  <2>1. S \ {} = S /\ C \cup {} = C
    OBVIOUS
  <2> QED BY <1>2, <2>1, Zenon
<1>3. CASE d.layout # "flat" /\ \E ks \in SUBSET Entries(d.hot) : e = Demote(d, ks)
  <2>1. PICK ks \in SUBSET S : e = Demote(d, ks)
    BY <1>1, <1>3
  <2>2. Shape(Demote(d, ks), n, S \ ks, m, C \cup ks)
    BY <1>3, DemoteShape
  <2> QED BY <2>1, <2>2
<1> QED BY <1>2, <1>3 DEF Demotions

LEMMA PromoteShape ==
    ASSUME NEW d, NEW n, NEW S, NEW m, NEW C, Shape(d, n, S, m, C), NEW k \in C
    PROVE  Shape(Promote(d, k), n, S \cup {k}, m, C \ {k})
<1> DEFINE e == Promote(d, k)
           c == [d.cold EXCEPT ![Bucket(k, m)] = @ \ {k}]
           h == Put(d.hot, k)
<1>1. k \in Keys /\ m \in Nat \ {0} /\ Size(d.cold) = m
  BY ShapeFacts
<1>2. Put(d.hot, k) = Table(n, S \cup {k})
  BY <1>1, TablePut DEF Shape
<1>3. c = Table(m, C \ {k})
  <2>1. Bucket(k, m) \in 0..(m - 1)
    BY <1>1, BucketRange
  <2>2. k \in d.cold[Bucket(k, m)] /\ d.cold = Table(m, C)
    BY <2>1 DEF Shape, Table
  <2>3. {k} \subseteq Table(m, C)[Bucket(k, m)]
    BY <2>2
  <2>4. DOMAIN d.cold = 0..(m - 1)
    BY ShapeFacts
  <2>5. /\ c = [b \in 0..(m - 1) |-> c[b]]
        /\ c[Bucket(k, m)] = Table(m, C)[Bucket(k, m)] \ {k}
        /\ \A b \in 0..(m - 1) : b # Bucket(k, m) => c[b] = Table(m, C)[b]
    BY <2>1, <2>2, <2>4
  <2> HIDE DEF c
  <2>6. m \in Nat
    BY <1>1
  <2> QED BY <2>1, <2>3, <2>5, <2>6, TableMinus, Zenon
<1>4. /\ e.cold = c /\ e.hot = h /\ e.at = d.at
      /\ e.layout = d.layout
      /\ e = [layout |-> e.layout, hot |-> e.hot, cold |-> e.cold, at |-> e.at]
  <2>1. d = [layout |-> d.layout, hot |-> d.hot, cold |-> d.cold, at |-> d.at]
    BY DEF Shape
  <2>2. e = [d EXCEPT !.cold = c, !.hot = h]
    BY <1>1 DEF Promote
  <2> HIDE DEF e, h, c
  <2> QED BY <2>1, <2>2
<1> HIDE DEF e, c
<1>5. Shape(e, n, S \cup {k}, m, C \ {k})
  BY <1>1, <1>2, <1>3, <1>4 DEF Shape
<1> QED BY <1>5 DEF e

LEMMA FlatShape ==
    ASSUME NEW d, NEW n, NEW S, NEW m, NEW C, Shape(d, n, S, m, C)
    PROVE  \E n2 \in {n, 2 * n} : Shape(MigrateToFlat(d), n2, S \cup C, 0, {})
<1> DEFINE h == [b \in DOMAIN d.hot |-> d.hot[b] \cup
                    {k \in Entries(d.cold) : Bucket(k, Size(d.hot)) = b}]
           e == [d EXCEPT !.layout = "flat", !.cold = NoBuckets, !.hot = h]
<1>1. h = Table(n, S \cup C)
  <2>1. Size(d.hot) = n /\ n \in Nat /\ Entries(d.cold) = C
    BY ShapeFacts
  <2>2. d.hot = Table(n, S)
    BY DEF Shape
  <2>3. [b \in DOMAIN Table(n, S) |->
            Table(n, S)[b] \cup {k \in C : Bucket(k, n) = b}] = Table(n, S \cup C)
    BY <2>1, TablePlus
  <2> QED BY <2>1, <2>2, <2>3, Zenon
<1>2. /\ e.cold = NoBuckets /\ e.hot = h /\ e.at = d.at /\ e.layout = "flat"
      /\ e = [layout |-> e.layout, hot |-> e.hot, cold |-> e.cold, at |-> e.at]
  <2>1. d = [layout |-> d.layout, hot |-> d.hot, cold |-> d.cold, at |-> d.at]
    BY DEF Shape
  <2>2. e = [d EXCEPT !.layout = "flat", !.cold = NoBuckets, !.hot = h]
    OBVIOUS
  <2> HIDE DEF e, h
  <2> QED BY <2>1, <2>2
<1>3. MigrateToFlat(d) = RehashIfNeeded(e)
  BY DEF MigrateToFlat
<1> HIDE DEF e, h
<1>4. Shape(e, n, S \cup C, 0, {})
  <2>1. e.cold = Table(0, {})
    BY <1>2, NoBucketsFacts
  <2> QED BY <1>1, <1>2, <2>1 DEF Shape, Layouts
<1>5. PICK n2 \in {n, 2 * n}, m2 \in {0, 2 * 0} :
         Shape(RehashIfNeeded(e), n2, S \cup C, m2, {})
  BY <1>4, RehashShape
<1>6. m2 = 0
  OBVIOUS
<1> QED BY <1>3, <1>5, <1>6

LEMMA HotColdShape ==
    ASSUME NEW d, NEW n, NEW S, NEW m, NEW C, Shape(d, n, S, m, C), d.layout = "flat"
    PROVE  \E m2 \in Nat \ {0} : Shape(MigrateToHotCold(d), n, S, m2, {})
<1> DEFINE e == MigrateToHotCold(d)
           m2 == IF n < MinCold THEN MinCold ELSE n
<1>1. Size(d.hot) = n /\ m2 \in Nat \ {0}
  BY ShapeFacts, TablesAssumption
<1>2. NewTable(m2) = Table(m2, {})
  BY DEF NewTable, Table
<1>3. /\ e.cold = NewTable(m2) /\ e.hot = d.hot /\ e.at = d.at /\ e.layout = "hot_cold"
      /\ e = [layout |-> e.layout, hot |-> e.hot, cold |-> e.cold, at |-> e.at]
  <2>1. d = [layout |-> d.layout, hot |-> d.hot, cold |-> d.cold, at |-> d.at]
    BY DEF Shape
  <2>2. e = [d EXCEPT !.layout = "hot_cold", !.cold = NewTable(m2)]
    BY <1>1 DEF MigrateToHotCold
  <2> HIDE DEF e, m2
  <2> QED BY <2>1, <2>2
<1> HIDE DEF e, m2
<1>4. Shape(e, n, S, m2, {})
  BY <1>1, <1>2, <1>3 DEF Shape, Layouts
<1> QED BY <1>1, <1>4 DEF e

\* The bucket with a given number in SCAN's numbering.
LEMMA AtPos ==
    ASSUME NEW d, NEW n, NEW S, NEW m, NEW C, Shape(d, n, S, m, C), NEW i \in Nat
    PROVE  BucketAt(d, i) = {k \in Linked(d) : Pos(d, k) = i}
<1>1. /\ Size(d.hot) = n /\ Size(d.cold) = m /\ DOMAIN d.cold = 0..(m - 1)
      /\ n \in Nat \ {0} /\ m \in Nat /\ Linked(d) = S \cup C /\ S \cap C = {}
      /\ S \subseteq Keys /\ C \subseteq Keys /\ (m = 0 => C = {})
  BY ShapeFacts
<1>2. \A k \in S : Pos(d, k) = Bucket(k, n) /\ Pos(d, k) \in 0..(n - 1)
  BY <1>1, PosRange
<1>3. \A k \in C : /\ Pos(d, k) = n + Bucket(k, m) /\ Pos(d, k) \in n..(n + m - 1)
                   /\ Bucket(k, m) \in 0..(m - 1)
  <2>1. SUFFICES ASSUME NEW k \in C
                 PROVE  /\ Pos(d, k) = n + Bucket(k, m) /\ Pos(d, k) \in n..(n + m - 1)
                        /\ Bucket(k, m) \in 0..(m - 1)
    OBVIOUS
  <2>2. k \in Linked(d) /\ k \in Keys /\ m \in Nat \ {0}
    BY <1>1
  <2>3. Bucket(k, m) \in 0..(m - 1)
    BY <2>2, BucketRange
  <2>4. Pos(d, k) = n + Bucket(k, m) /\ Pos(d, k) >= n /\ Pos(d, k) < n + m
    BY <2>2, PosRange
  <2> QED BY <1>1, <2>3, <2>4
<1>4. CASE i < n
  <2>1. BucketAt(d, i) = d.hot[i] /\ i \in 0..(n - 1)
    BY <1>1, <1>4 DEF BucketAt
  <2>2. \A k : k \in d.hot[i] <=> k \in S /\ Bucket(k, n) = i
    BY <2>1, InBucket
  <2> QED BY <1>1, <1>2, <1>3, <1>4, <2>1, <2>2
<1>5. CASE i >= n /\ i - n \in 0..(m - 1)
  <2>1. BucketAt(d, i) = d.cold[i - n]
    BY <1>1, <1>5 DEF BucketAt
  <2>2. \A k : k \in d.cold[i - n] <=> k \in C /\ Bucket(k, m) = i - n
    BY <1>5, InBucket
  <2> QED BY <1>1, <1>2, <1>3, <1>5, <2>1, <2>2
<1>6. CASE i >= n /\ i - n \notin 0..(m - 1)
  <2>1. BucketAt(d, i) = {}
    BY <1>1, <1>6 DEF BucketAt
  <2> QED BY <1>1, <1>2, <1>3, <1>6, <2>1
<1> QED BY <1>1, <1>4, <1>5, <1>6

\* ar_scan drops the due entries of the buckets it visits.
LEMMA PurgedShape ==
    ASSUME NEW d, NEW n, NEW S, NEW m, NEW C, Shape(d, n, S, m, C),
           NEW from, NEW to, NEW t
    PROVE  \E gone \in SUBSET UNION {BucketAt(d, i) : i \in from..to} :
              /\ gone = {k \in UNION {BucketAt(d, i) : i \in from..to} : Due(d, k, t)}
              /\ Shape(Purged(d, from, to, t), n, S \ gone, m, C \ gone)
<1> DEFINE gone == {k \in UNION {BucketAt(d, i) : i \in from..to} : Due(d, k, t)}
           e == Purged(d, from, to, t)
           h == [b \in DOMAIN d.hot |-> d.hot[b] \ gone]
           c == [b \in DOMAIN d.cold |-> d.cold[b] \ gone]
           at == [k \in Keys |-> IF k \in gone THEN 0 ELSE d.at[k]]
<1>1. d.hot = Table(n, S) /\ d.cold = Table(m, C) /\ n \in Nat /\ m \in Nat
  BY DEF Shape
<1>2. e = [d EXCEPT !.hot = h, !.cold = c, !.at = at]
  BY DEF Purged
<1>3. gone \subseteq UNION {BucketAt(d, i) : i \in from..to}
  OBVIOUS
<1> HIDE DEF e
<1>4. h = Table(n, S \ gone)
  <2> HIDE DEF gone
  <2>1. n \in Nat
    BY <1>1
  <2>2. [b \in DOMAIN Table(n, S) |-> Table(n, S)[b] \ gone] = Table(n, S \ gone)
    BY <2>1, TableMinusAll
  <2> QED BY <1>1, <2>2, Zenon
<1>5. c = Table(m, C \ gone)
  <2> HIDE DEF gone
  <2>1. [b \in DOMAIN Table(m, C) |-> Table(m, C)[b] \ gone] = Table(m, C \ gone)
    BY <1>1, TableMinusAll
  <2> QED BY <1>1, <2>1, Zenon
<1>6. at \in [Keys -> Nat]
  <2> HIDE DEF gone
  <2> QED BY DEF Shape
<1> HIDE DEF h, c, at
<1>7. /\ e.cold = c /\ e.hot = h /\ e.at = at /\ e.layout = d.layout
      /\ e = [layout |-> e.layout, hot |-> e.hot, cold |-> e.cold, at |-> e.at]
  <2>1. d = [layout |-> d.layout, hot |-> d.hot, cold |-> d.cold, at |-> d.at]
    BY DEF Shape
  <2> HIDE DEF gone
  <2> QED BY <1>2, <2>1
<1>8. Shape(e, n, S \ gone, m, C \ gone)
  <2> HIDE DEF gone
  <2> QED BY <1>4, <1>5, <1>6, <1>7 DEF Shape
<1> QED BY <1>3, <1>8 DEF e

-----------------------------------------------------------------------------
(* What the operations do to SCAN's numbering.                             *)

LEMMA MovesBy ==
    ASSUME NEW d, NEW n, NEW S, NEW m, NEW C, NEW e, NEW n2, NEW S2, NEW m2, NEW C2,
           NEW H, Shape(d, n, S, m, C), Shape(e, n2, S2, m2, C2),
           n2 >= n, S2 \cup C2 \subseteq S \cup C \cup H, S2 \ H \subseteq S,
           \A k \in S2 \ H : Bucket(k, n2) >= Bucket(k, n),
           \A k \in (C2 \cap C) \ H : Bucket(k, m2) >= Bucket(k, m)
    PROVE  Moves(d, e, H)
<1>1. /\ n \in Nat \ {0} /\ m \in Nat /\ S \subseteq Keys /\ C \subseteq Keys
      /\ Linked(d) = S \cup C
  BY ShapeFacts
<1>2. /\ n2 \in Nat \ {0} /\ m2 \in Nat /\ S2 \subseteq Keys /\ C2 \subseteq Keys
      /\ Linked(e) = S2 \cup C2
  BY ShapeFacts
<1>3. SUFFICES ASSUME NEW k \in Linked(e) \ H PROVE Pos(e, k) >= Pos(d, k)
  BY <1>1, <1>2 DEF Moves
<1>4. k \in Linked(d) /\ k \in Linked(e) /\ k \notin H
  BY <1>1, <1>2
<1>5. /\ Pos(d, k) \in Nat
      /\ k \in S => Pos(d, k) = Bucket(k, n) /\ Pos(d, k) < n
      /\ k \in C => Pos(d, k) = n + Bucket(k, m) /\ Pos(d, k) >= n
  BY <1>4, PosRange
<1>6. /\ Pos(e, k) \in Nat
      /\ k \in S2 => Pos(e, k) = Bucket(k, n2) /\ Pos(e, k) < n2
      /\ k \in C2 => Pos(e, k) = n2 + Bucket(k, m2) /\ Pos(e, k) >= n2
  BY <1>4, PosRange
<1>7. CASE k \in S2
  BY <1>4, <1>5, <1>6, <1>7
<1>8. CASE k \in C2 /\ k \in S
  BY <1>1, <1>2, <1>5, <1>6, <1>8
<1>9. CASE k \in C2 /\ k \in C
  <2>1. (m = 0 => C = {}) /\ (m2 = 0 => C2 = {})
    BY DEF Shape
  <2>2. k \in Keys /\ m \in Nat \ {0} /\ m2 \in Nat \ {0}
    BY <1>1, <1>2, <1>9, <2>1
  <2>3. Bucket(k, m) \in Nat /\ Bucket(k, m2) \in Nat
    BY <2>2, TablesAssumption DEF Bucket
  <2>4. Bucket(k, m2) >= Bucket(k, m)
    BY <1>4, <1>9
  <2> QED BY <1>1, <1>2, <1>5, <1>6, <1>9, <2>3, <2>4
<1> QED BY <1>1, <1>2, <1>4, <1>7, <1>8, <1>9

LEMMA MovesTrans ==
    ASSUME NEW d, NEW e, NEW f, NEW H, Moves(d, e, H), Moves(e, f, H),
           Sound(d), Sound(e), Sound(f)
    PROVE  Moves(d, f, H)
<1>1. Linked(f) \subseteq Linked(d) \cup H
  BY DEF Moves
<1>2. SUFFICES ASSUME NEW k \in Linked(f) \ H PROVE Pos(f, k) >= Pos(d, k)
  BY <1>1 DEF Moves
<1>3. k \in Linked(e) /\ k \in Linked(d) /\ Pos(f, k) >= Pos(e, k) /\ Pos(e, k) >= Pos(d, k)
  BY DEF Moves
<1>4. Pos(d, k) \in Nat /\ Pos(e, k) \in Nat /\ Pos(f, k) \in Nat
  BY <1>3, PosRange DEF Sound
<1> QED BY <1>3, <1>4

LEMMA StayMoves ==
    ASSUME NEW d, NEW n, NEW S, NEW m, NEW C, NEW e, NEW S2, NEW C2, NEW H,
           Shape(d, n, S, m, C), Shape(e, n, S2, m, C2),
           S2 \cup C2 \subseteq S \cup C \cup H, S2 \ H \subseteq S
    PROVE  Sound(e) /\ Moves(d, e, H)
<1>1. Sound(e) /\ n \in Nat \ {0} /\ S2 \subseteq Keys /\ C2 \subseteq Keys
      /\ m \in Nat /\ (m = 0 => C2 = {})
  BY ShapeFacts
<1>2. \A k \in S2 \ H : Bucket(k, n) >= Bucket(k, n)
  BY <1>1, TablesAssumption DEF Bucket
<1>3. \A k \in (C2 \cap C) \ H : Bucket(k, m) >= Bucket(k, m)
  BY <1>1, TablesAssumption DEF Bucket
<1>4. n >= n
  BY <1>1
<1> QED BY <1>1, <1>2, <1>3, <1>4, MovesBy

LEMMA FreeOk ==
    ASSUME NEW d, Sound(d), NEW tier \in {"hot", "cold"}, NEW b \in DOMAIN d[tier],
           NEW ks \in SUBSET d[tier][b], NEW H
    PROVE  /\ Sound(Free(d, tier, b, ks)) /\ Moves(d, Free(d, tier, b, ks), H)
           /\ Linked(Free(d, tier, b, ks)) = Linked(d) \ ks
<1> DEFINE n == Size(d.hot)
           S == Entries(d.hot)
           m == Size(d.cold)
           C == Entries(d.cold)
           e == Free(d, tier, b, ks)
<1>1. Shape(d, n, S, m, C)
  BY DEF Sound
<1> HIDE DEF n, S, m, C, e
<1>2. CASE tier = "hot"
  <2>1. b \in DOMAIN d.hot /\ ks \in SUBSET d.hot[b] /\ e = Free(d, "hot", b, ks)
    BY <1>2 DEF e
  <2>2. Shape(e, n, S \ ks, m, C)
    BY <1>1, <2>1, FreeHot
  <2>3. ks \cap C = {}
    BY <1>1, <2>1, ShapeFacts, InBucket
  <2>4. Sound(e) /\ Moves(d, e, H)
    <3>1. (S \ ks) \cup C \subseteq S \cup C \cup H /\ (S \ ks) \ H \subseteq S
      OBVIOUS
    <3> QED BY <1>1, <2>2, <3>1, StayMoves
  <2>5. Linked(e) = (S \ ks) \cup C /\ Linked(d) = S \cup C
    BY <1>1, <2>2, ShapeFacts
  <2> QED BY <2>3, <2>4, <2>5 DEF e
<1>3. CASE tier = "cold"
  <2>1. b \in DOMAIN d.cold /\ ks \in SUBSET d.cold[b] /\ e = Free(d, "cold", b, ks)
    BY <1>3 DEF e
  <2>2. Shape(e, n, S, m, C \ ks)
    BY <1>1, <2>1, FreeCold
  <2>3. ks \cap S = {}
    BY <1>1, <2>1, ShapeFacts, InBucket
  <2>4. Sound(e) /\ Moves(d, e, H)
    <3>1. S \cup (C \ ks) \subseteq S \cup C \cup H /\ S \ H \subseteq S
      OBVIOUS
    <3> QED BY <1>1, <2>2, <3>1, StayMoves
  <2>5. Linked(e) = S \cup (C \ ks) /\ Linked(d) = S \cup C
    BY <1>1, <2>2, ShapeFacts
  <2> QED BY <2>3, <2>4, <2>5 DEF e
<1> QED BY <1>2, <1>3

\* Freeing what a lookup finds: DEL, eviction, lazy expiry.
LEMMA FreeFoundOk ==
    ASSUME NEW d, Sound(d), NEW k \in Keys, Finds(d, k), NEW H, NEW e,
           e = IF InHot(d, k) THEN Free(d, "hot", Bucket(k, Size(d.hot)), {k})
               ELSE Free(d, "cold", Bucket(k, Size(d.cold)), {k})
    PROVE  Sound(e) /\ Moves(d, e, H) /\ Linked(e) = Linked(d) \ {k}
<1> DEFINE n == Size(d.hot)
           S == Entries(d.hot)
           m == Size(d.cold)
           C == Entries(d.cold)
<1>1. Shape(d, n, S, m, C)
  BY DEF Sound
<1>2. /\ DOMAIN d.hot = 0..(n - 1) /\ DOMAIN d.cold = 0..(m - 1)
      /\ n \in Nat \ {0} /\ m \in Nat /\ (m = 0 => C = {})
  BY <1>1, ShapeFacts
<1>3. InCold(d, k) <=> k \in C
  BY <1>1, LookupFinds
<1>4. CASE InHot(d, k)
  <2>1. Bucket(k, n) \in DOMAIN d.hot
    BY <1>2, BucketRange
  <2>2. {k} \in SUBSET d.hot[Bucket(k, n)]
    BY <1>4 DEF InHot
  <2>3. e = Free(d, "hot", Bucket(k, n), {k})
    BY <1>4
  <2>4. d["hot"] = d.hot
    OBVIOUS
  <2> HIDE DEF n, S, m, C
  <2>5. /\ Sound(Free(d, "hot", Bucket(k, n), {k}))
        /\ Moves(d, Free(d, "hot", Bucket(k, n), {k}), H)
        /\ Linked(Free(d, "hot", Bucket(k, n), {k})) = Linked(d) \ {k}
    BY <2>1, <2>2, <2>4, FreeOk
  <2> QED BY <2>3, <2>5
<1>5. CASE ~ InHot(d, k)
  <2>1. InCold(d, k) /\ m \in Nat \ {0}
    BY <1>2, <1>3, <1>5 DEF Finds
  <2>2. Bucket(k, m) \in DOMAIN d.cold
    BY <1>2, <2>1, BucketRange
  <2>3. {k} \in SUBSET d.cold[Bucket(k, m)]
    BY <2>1 DEF InCold
  <2>4. e = Free(d, "cold", Bucket(k, m), {k})
    BY <1>5
  <2>5. d["cold"] = d.cold
    OBVIOUS
  <2> HIDE DEF n, S, m, C
  <2> QED BY <2>2, <2>3, <2>4, <2>5, FreeOk
<1> QED BY <1>4, <1>5

LEMMA FindOk ==
    ASSUME NEW d, Sound(d), NEW k \in Keys, NEW H
    PROVE  Sound(Find(d, k)) /\ Moves(d, Find(d, k), H)
<1> DEFINE n == Size(d.hot)
           S == Entries(d.hot)
           m == Size(d.cold)
           C == Entries(d.cold)
<1>1. Shape(d, n, S, m, C)
  BY DEF Sound
<1>2. CASE Due(d, k, now) /\ Finds(d, k)
  <2> DEFINE e == IF InHot(d, k) THEN Free(d, "hot", Bucket(k, Size(d.hot)), {k})
                  ELSE Free(d, "cold", Bucket(k, Size(d.cold)), {k})
  <2>1. Find(d, k) = e
    BY <1>2 DEF Find, Finds
  <2> HIDE DEF e
  <2>2. Sound(e) /\ Moves(d, e, H)
    BY <1>2, FreeFoundOk DEF e
  <2> QED BY <2>1, <2>2
<1>3. CASE ~ (Due(d, k, now) /\ Finds(d, k))
  <2>1. Find(d, k) = d
    BY <1>3 DEF Find, Finds
  <2>2. S \cup C \subseteq S \cup C \cup H /\ S \ H \subseteq S
    OBVIOUS
  <2> HIDE DEF n, S, m, C
  <2> QED BY <1>1, <2>1, <2>2, StayMoves
<1> QED BY <1>2, <1>3

LEMMA DemotionsOk ==
    ASSUME NEW d, Sound(d), NEW e \in Demotions(d), NEW H
    PROVE  Sound(e) /\ Moves(d, e, H)
<1> DEFINE n == Size(d.hot)
           S == Entries(d.hot)
           m == Size(d.cold)
           C == Entries(d.cold)
<1>1. Shape(d, n, S, m, C)
  BY DEF Sound
<1> HIDE DEF n, S, m, C
<1>2. PICK ks \in SUBSET S : Shape(e, n, S \ ks, m, C \cup ks)
  BY <1>1, DemotionsShape
<1>3. (S \ ks) \cup (C \cup ks) \subseteq S \cup C \cup H /\ (S \ ks) \ H \subseteq S
  OBVIOUS
<1> QED BY <1>1, <1>2, <1>3, StayMoves

LEMMA RehashOk ==
    ASSUME NEW d, Sound(d), NEW H
    PROVE  Sound(RehashIfNeeded(d)) /\ Moves(d, RehashIfNeeded(d), H)
<1> DEFINE n == Size(d.hot)
           S == Entries(d.hot)
           m == Size(d.cold)
           C == Entries(d.cold)
           e == RehashIfNeeded(d)
<1>1. Shape(d, n, S, m, C)
  BY DEF Sound
<1> HIDE DEF n, S, m, C, e
<1>2. PICK n2 \in {n, 2 * n}, m2 \in {m, 2 * m} : Shape(e, n2, S, m2, C)
  BY <1>1, RehashShape DEF e
<1>3. /\ n \in Nat \ {0} /\ m \in Nat /\ S \subseteq Keys /\ C \subseteq Keys
      /\ (m = 0 => C = {})
  BY <1>1, ShapeFacts
<1>4. n2 >= n /\ S \cup C \subseteq S \cup C \cup H /\ S \ H \subseteq S
  BY <1>3
<1>5. ASSUME NEW k \in S \ H PROVE Bucket(k, n2) >= Bucket(k, n)
  <2>1. k \in Keys /\ Bucket(k, n) \in Nat
    BY <1>3, TablesAssumption DEF Bucket
  <2>2. Bucket(k, 2 * n) >= Bucket(k, n)
    BY <1>3, <2>1, BucketGrows
  <2> QED BY <2>1, <2>2
<1>6. ASSUME NEW k \in (C \cap C) \ H PROVE Bucket(k, m2) >= Bucket(k, m)
  <2>1. k \in Keys /\ m \in Nat \ {0}
    BY <1>3
  <2>2. Bucket(k, m) \in Nat
    BY <2>1, TablesAssumption DEF Bucket
  <2>3. Bucket(k, 2 * m) >= Bucket(k, m)
    BY <2>1, BucketGrows
  <2> QED BY <2>2, <2>3
<1>7. Moves(d, e, H)
  BY <1>1, <1>2, <1>4, <1>5, <1>6, MovesBy
<1>8. Sound(e)
  BY <1>2, ShapeFacts
<1> QED BY <1>7, <1>8 DEF e

LEMMA PutOk ==
    ASSUME NEW d, Sound(d), NEW k \in Keys, ~ Finds(d, k), NEW a \in Nat, NEW e,
           e = [d EXCEPT !.hot = Put(@, k), !.at[k] = a]
    PROVE  Sound(e) /\ Moves(d, e, {k})
<1> DEFINE n == Size(d.hot)
           S == Entries(d.hot)
           m == Size(d.cold)
           C == Entries(d.cold)
<1>1. Shape(d, n, S, m, C)
  BY DEF Sound
<1> HIDE DEF n, S, m, C
<1>2. k \notin C
  BY <1>1, LookupFinds, ShapeFacts
<1>3. Shape(e, n, S \cup {k}, m, C)
  BY <1>1, <1>2, PutShape
<1>4. /\ (S \cup {k}) \cup C \subseteq S \cup C \cup {k}
      /\ (S \cup {k}) \ {k} \subseteq S
  OBVIOUS
<1> QED BY <1>1, <1>3, <1>4, StayMoves

LEMMA AtOk ==
    ASSUME NEW d, Sound(d), NEW k \in Keys, NEW a \in Nat, NEW H, NEW e,
           e = [d EXCEPT !.at[k] = a]
    PROVE  /\ Sound(e) /\ Moves(d, e, H) /\ (InCold(e, k) <=> InCold(d, k))
<1> DEFINE n == Size(d.hot)
           S == Entries(d.hot)
           m == Size(d.cold)
           C == Entries(d.cold)
<1>1. Shape(d, n, S, m, C)
  BY DEF Sound
<1> HIDE DEF n, S, m, C
<1>2. Shape(e, n, S, m, C)
  BY <1>1, AtShape
<1>3. S \cup C \subseteq S \cup C \cup H /\ S \ H \subseteq S
  OBVIOUS
<1>4. Sound(e) /\ Moves(d, e, H)
  BY <1>1, <1>2, <1>3, StayMoves
<1>5. (InCold(e, k) <=> k \in C) /\ (InCold(d, k) <=> k \in C)
  BY <1>1, <1>2, LookupFinds
<1> QED BY <1>4, <1>5

LEMMA PromoteOk ==
    ASSUME NEW d, Sound(d), NEW k \in Keys, InCold(d, k)
    PROVE  Sound(Promote(d, k)) /\ Moves(d, Promote(d, k), {k})
<1> DEFINE n == Size(d.hot)
           S == Entries(d.hot)
           m == Size(d.cold)
           C == Entries(d.cold)
<1>1. Shape(d, n, S, m, C)
  BY DEF Sound
<1> HIDE DEF n, S, m, C
<1>2. k \in C
  BY <1>1, LookupFinds
<1>3. Shape(Promote(d, k), n, S \cup {k}, m, C \ {k})
  BY <1>1, <1>2, PromoteShape
<1>4. /\ (S \cup {k}) \cup (C \ {k}) \subseteq S \cup C \cup {k}
      /\ (S \cup {k}) \ {k} \subseteq S
  OBVIOUS
<1> QED BY <1>1, <1>3, <1>4, StayMoves

LEMMA FlatOk ==
    ASSUME NEW d, Sound(d)
    PROVE  Sound(MigrateToFlat(d)) /\ Moves(d, MigrateToFlat(d), Entries(d.cold))
<1> DEFINE n == Size(d.hot)
           S == Entries(d.hot)
           m == Size(d.cold)
           C == Entries(d.cold)
           e == MigrateToFlat(d)
<1>1. Shape(d, n, S, m, C)
  BY DEF Sound
<1> HIDE DEF n, S, m, C, e
<1>2. PICK n2 \in {n, 2 * n} : Shape(e, n2, S \cup C, 0, {})
  BY <1>1, FlatShape DEF e
<1>3. n \in Nat \ {0} /\ m \in Nat /\ S \subseteq Keys /\ C \subseteq Keys
  BY <1>1, ShapeFacts
<1>4. n2 >= n /\ (S \cup C) \cup {} \subseteq S \cup C \cup C /\ (S \cup C) \ C \subseteq S
  BY <1>3
<1>5. ASSUME NEW k \in (S \cup C) \ C PROVE Bucket(k, n2) >= Bucket(k, n)
  <2>1. k \in Keys /\ Bucket(k, n) \in Nat
    BY <1>3, TablesAssumption DEF Bucket
  <2>2. Bucket(k, 2 * n) >= Bucket(k, n)
    BY <1>3, <2>1, BucketGrows
  <2> QED BY <2>1, <2>2
<1>6. \A k \in ({} \cap C) \ C : Bucket(k, 0) >= Bucket(k, m)
  OBVIOUS
<1>7. Moves(d, e, C)
  BY <1>1, <1>2, <1>4, <1>5, <1>6, MovesBy
<1>8. Sound(e)
  BY <1>2, ShapeFacts
<1> QED BY <1>7, <1>8 DEF e, C

LEMMA HotColdOk ==
    ASSUME NEW d, Sound(d), d.layout = "flat", NEW H
    PROVE  Sound(MigrateToHotCold(d)) /\ Moves(d, MigrateToHotCold(d), H)
<1> DEFINE n == Size(d.hot)
           S == Entries(d.hot)
           m == Size(d.cold)
           C == Entries(d.cold)
           e == MigrateToHotCold(d)
<1>1. Shape(d, n, S, m, C)
  BY DEF Sound
<1> HIDE DEF n, S, m, C, e
<1>2. PICK m2 \in Nat \ {0} : Shape(e, n, S, m2, {})
  BY <1>1, HotColdShape DEF e
<1>3. n \in Nat \ {0} /\ S \subseteq Keys
  BY <1>1, ShapeFacts
<1>4. n >= n /\ S \cup {} \subseteq S \cup C \cup H /\ S \ H \subseteq S
  BY <1>3
<1>5. \A k \in S \ H : Bucket(k, n) >= Bucket(k, n)
  BY <1>3, TablesAssumption DEF Bucket
<1>6. \A k \in ({} \cap C) \ H : Bucket(k, m2) >= Bucket(k, m)
  OBVIOUS
<1>7. Moves(d, e, H)
  BY <1>1, <1>2, <1>4, <1>5, <1>6, MovesBy
<1>8. Sound(e)
  BY <1>2, ShapeFacts
<1> QED BY <1>7, <1>8 DEF e

-----------------------------------------------------------------------------
(* The inductive invariant.                                                *)

ScanType == [on : BOOLEAN, cursor : Nat, seen : SUBSET Keys, due : SUBSET Keys,
             still : BOOLEAN, missed : SUBSET Keys, twice : SUBSET Keys]

\* The iteration s on the tables d: what it owes and has not returned is not
\* behind the cursor; while nothing moves, what it has returned is.
Ahead(d, s) ==
    /\ s.due \subseteq Linked(d)
    /\ \A k \in s.due \ s.seen : Pos(d, k) >= s.cursor
    /\ s.still => \A k \in s.due \cap s.seen : Pos(d, k) < s.cursor

TablesInv ==
    /\ Sound(tab)
    /\ pass.best \in Keys \cup {NoKey}
    /\ scan \in ScanType
    /\ scan.missed = {} /\ scan.twice = {}
    /\ scan.on => Ahead(tab, scan)

LEMMA InitInv == TInit => TablesInv
<1> SUFFICES ASSUME TInit PROVE TablesInv
  OBVIOUS
<1>1. Sound(tab)
  <2>1. NewTable(InitBuckets) = Table(InitBuckets, {}) /\ NoBuckets = Table(0, {})
    BY NoBucketsFacts DEF NewTable, Table
  <2>2. Shape(tab, InitBuckets, {}, 0, {})
    BY <2>1, TablesAssumption DEF TInit, Shape, Layouts
  <2> QED BY <2>2, ShapeFacts
<1>2. scan \in ScanType /\ scan.missed = {} /\ scan.twice = {} /\ ~ scan.on
  BY DEF TInit, NoScan, ScanType
<1>3. pass.best = NoKey
  BY DEF TInit, NoPass
<1> QED BY <1>1, <1>2, <1>3 DEF TablesInv

-----------------------------------------------------------------------------
(* One call of SCAN.                                                       *)

\* The entries of the buckets from..to are those with such a number.
LEMMA Visited ==
    ASSUME NEW d, NEW n, NEW S, NEW m, NEW C, Shape(d, n, S, m, C),
           NEW from \in Nat, NEW to \in Int
    PROVE  UNION {BucketAt(d, i) : i \in from..to}
              = {k \in Linked(d) : from <= Pos(d, k) /\ Pos(d, k) <= to}
<1>1. \A i \in from..to : BucketAt(d, i) = {k \in Linked(d) : Pos(d, k) = i}
  BY AtPos
<1>2. \A k \in Linked(d) : Pos(d, k) \in Nat
  BY PosRange
<1> QED BY <1>1, <1>2

LEMMA PurgedFacts ==
    ASSUME NEW d, Sound(d), NEW from \in Nat, NEW to \in Int, NEW t, NEW e,
           e = Purged(d, from, to, t)
    PROVE  /\ Sound(e) /\ Linked(e) \subseteq Linked(d)
           /\ Size(e.hot) = Size(d.hot) /\ Size(e.cold) = Size(d.cold)
           /\ \A k \in Linked(e) : Pos(e, k) = Pos(d, k)
           /\ \A k \in Linked(d) : k \notin Linked(e) <=>
                 from <= Pos(d, k) /\ Pos(d, k) <= to /\ Due(d, k, t)
<1> DEFINE n == Size(d.hot)
           S == Entries(d.hot)
           m == Size(d.cold)
           C == Entries(d.cold)
           gone == {k \in UNION {BucketAt(d, i) : i \in from..to} : Due(d, k, t)}
<1>1. Shape(d, n, S, m, C)
  BY DEF Sound
<1> HIDE DEF n, S, m, C
<1>2. Shape(e, n, S \ gone, m, C \ gone)
  <2>1. PICK g \in SUBSET UNION {BucketAt(d, i) : i \in from..to} :
           /\ g = gone /\ Shape(Purged(d, from, to, t), n, S \ g, m, C \ g)
    BY <1>1, PurgedShape
  <2> HIDE DEF gone
  <2> QED BY <2>1
<1>3. UNION {BucketAt(d, i) : i \in from..to}
         = {k \in Linked(d) : from <= Pos(d, k) /\ Pos(d, k) <= to}
  BY <1>1, Visited
<1>4. \A k : k \in gone <=> /\ k \in Linked(d) /\ from <= Pos(d, k) /\ Pos(d, k) <= to
                            /\ Due(d, k, t)
  BY <1>3
<1> HIDE DEF gone
<1>5. /\ Sound(e) /\ Linked(e) = (S \ gone) \cup (C \ gone) /\ Linked(d) = S \cup C
      /\ Size(e.hot) = n /\ Size(e.cold) = m /\ Size(d.hot) = n /\ Size(d.cold) = m
      /\ Entries(d.hot) = S /\ Entries(e.hot) = S \ gone
  BY <1>1, <1>2, ShapeFacts
<1>6. \A k \in Linked(e) : Pos(e, k) = Pos(d, k)
  BY <1>5 DEF Pos
<1> QED BY <1>4, <1>5, <1>6

\* A call of ar_scan returns what it leaves linked in the buckets from the
\* cursor up to the one it answers, and answers 0 only past the last.
LEMMA PageFacts ==
    ASSUME NEW d, Sound(d), NEW cursor \in Nat, NEW count \in Nat, count > 0, NEW t,
           NEW page, page = ScanPage(d, cursor, count, t)
    PROVE  /\ Sound(page.tab) /\ Linked(page.tab) \subseteq Linked(d)
           /\ \A k \in Linked(page.tab) : Pos(page.tab, k) = Pos(d, k)
           /\ page.keys \subseteq Linked(page.tab) /\ page.next \in Nat
           /\ page.next # 0 => page.next > cursor
           /\ \A k \in page.keys : /\ Pos(d, k) >= cursor
                                   /\ page.next # 0 => Pos(d, k) < page.next
           /\ \A k \in Linked(page.tab) \ page.keys :
                 Pos(d, k) >= cursor => page.next # 0 /\ Pos(d, k) >= page.next
<1> DEFINE n == Size(d.hot)
           m == Size(d.cold)
           total == ScanTotal(d)
           to == IF cursor + count > total THEN total - 1 ELSE cursor + count - 1
           e == Purged(d, cursor, to, t)
<1>1. Shape(d, n, Entries(d.hot), m, Entries(d.cold))
  BY DEF Sound
<1>2. n \in Nat \ {0} /\ m \in Nat /\ total = n + m
  BY <1>1, ShapeFacts DEF ScanTotal
<1>3. \A k \in Linked(d) : Pos(d, k) \in Nat /\ Pos(d, k) < total
  BY <1>1, <1>2, PosRange
<1>4. CASE Linked(d) = {} \/ cursor >= total
  <2>1. page.tab = d /\ page.keys = {} /\ page.next = 0
    BY <1>4 DEF ScanPage
  <2> QED BY <1>2, <1>3, <1>4, <2>1
<1>5. CASE ~ (Linked(d) = {} \/ cursor >= total)
  <2>1. /\ page.tab = e /\ page.keys = UNION {BucketAt(e, i) : i \in cursor..to}
        /\ page.next = IF to + 1 >= total THEN 0 ELSE to + 1
    BY <1>5 DEF ScanPage
  <2>2. to \in Nat /\ cursor <= to /\ to < total
    BY <1>2, <1>5
  <2> HIDE DEF to, total, e
  <2>3. /\ Sound(e) /\ Linked(e) \subseteq Linked(d)
        /\ \A k \in Linked(e) : Pos(e, k) = Pos(d, k)
    BY <2>2, PurgedFacts DEF e
  <2>4. page.keys = {k \in Linked(e) : cursor <= Pos(e, k) /\ Pos(e, k) <= to}
    BY <2>1, <2>2, <2>3, Visited DEF Sound
  <2>5. total \in Nat
    BY <1>2
  <2> QED BY <1>3, <2>1, <2>2, <2>3, <2>4, <2>5
<1> QED BY <1>4, <1>5

\* KEYS and DBSIZE see the entries that are not due.
LEMMA KeysFacts ==
    ASSUME NEW d, Sound(d), NEW t
    PROVE  KeysNow(d, t) = {k \in Linked(d) : ~ Due(d, k, t)}
<1> DEFINE n == Size(d.hot)
           m == Size(d.cold)
           total == ScanTotal(d)
           e == Purged(d, 0, total - 1, t)
<1>1. Shape(d, n, Entries(d.hot), m, Entries(d.cold))
  BY DEF Sound
<1>2. n \in Nat \ {0} /\ m \in Nat /\ total = n + m
  BY <1>1, ShapeFacts DEF ScanTotal
<1>3. \A k \in Linked(d) : Pos(d, k) \in Nat /\ Pos(d, k) < total
  BY <1>1, <1>2, PosRange
<1>4. CASE Linked(d) = {}
  BY <1>4 DEF KeysNow, ScanPage
<1>5. CASE Linked(d) # {}
  <2>1. (IF 0 + total > total THEN total - 1 ELSE 0 + total - 1) = total - 1
    BY <1>2
  <2>2. KeysNow(d, t) = UNION {BucketAt(e, i) : i \in 0..(total - 1)}
    BY <1>2, <1>5, <2>1 DEF KeysNow, ScanPage
  <2>3. total - 1 \in Int /\ 0 \in Nat
    BY <1>2
  <2>4. /\ Sound(e) /\ Linked(e) \subseteq Linked(d)
        /\ \A k \in Linked(e) : Pos(e, k) = Pos(d, k)
        /\ \A k \in Linked(d) : k \notin Linked(e) <=>
              0 <= Pos(d, k) /\ Pos(d, k) <= total - 1 /\ Due(d, k, t)
    BY <2>3, PurgedFacts
  <2> HIDE DEF e, total
  <2>5. UNION {BucketAt(e, i) : i \in 0..(total - 1)}
           = {k \in Linked(e) : 0 <= Pos(e, k) /\ Pos(e, k) <= total - 1}
    BY <2>3, <2>4, Visited DEF Sound
  <2>6. total \in Nat
    BY <1>2
  <2> QED BY <1>3, <2>2, <2>4, <2>5, <2>6
<1> QED BY <1>4, <1>5

-----------------------------------------------------------------------------
(* The steps preserve the invariant.                                       *)

\* A step that only moves entries forward, or hides them, keeps an iteration
\* complete.
LEMMA AfterInv ==
    ASSUME TablesInv, NEW d, NEW H, Sound(d), Moves(tab, d, H), After(d, H),
           pass'.best \in Keys \cup {NoKey}
    PROVE  TablesInv'
<1>1. tab' = d /\ scan' = [scan EXCEPT !.due = Owed(d, H), !.seen = @ \cap Owed(d, H),
                                       !.still = (@ /\ StaysPut(d)) \/ ~ scan.on]
  BY DEF After
<1>2. scan \in ScanType /\ Owed(d, H) = (scan.due \cap Linked(d)) \ H
  BY DEF TablesInv, Owed
<1>3. Owed(d, H) \in SUBSET Keys /\ ((scan.still /\ StaysPut(d)) \/ ~ scan.on) \in BOOLEAN
  BY <1>2 DEF ScanType
<1>4. /\ scan' \in ScanType /\ scan'.on = scan.on /\ scan'.cursor = scan.cursor
      /\ scan'.seen = scan.seen \cap Owed(d, H) /\ scan'.due = Owed(d, H)
      /\ scan'.still = ((scan.still /\ StaysPut(d)) \/ ~ scan.on)
      /\ scan'.missed = scan.missed /\ scan'.twice = scan.twice
  <2> DEFINE o == Owed(d, H)
             st == (scan.still /\ StaysPut(d)) \/ ~ scan.on
  <2>1. scan' = [scan EXCEPT !.due = o, !.seen = @ \cap o, !.still = st]
    BY <1>1
  <2>2. o \in SUBSET Keys /\ st \in BOOLEAN /\ scan \in ScanType
    BY <1>2, <1>3
  <2> HIDE DEF o, st
  <2>3. /\ scan' \in ScanType /\ scan'.on = scan.on /\ scan'.cursor = scan.cursor
        /\ scan'.seen = scan.seen \cap o /\ scan'.due = o /\ scan'.still = st
        /\ scan'.missed = scan.missed /\ scan'.twice = scan.twice
    BY <2>1, <2>2 DEF ScanType
  <2> QED BY <2>3 DEF o, st
<1>5. ASSUME scan.on PROVE Ahead(d, scan')
  <2>1. Ahead(tab, scan) /\ Sound(tab)
    BY <1>5 DEF TablesInv
  <2>2. scan'.due \subseteq Linked(d) /\ scan'.due \subseteq scan.due
        /\ scan'.due \subseteq Linked(d) \ H
    BY <1>2, <1>4
  <2>3. \A k \in Linked(tab) : Pos(tab, k) \in Nat
    BY <2>1, PosRange DEF Sound
  <2>4. \A k \in Linked(d) : Pos(d, k) \in Nat
    BY PosRange DEF Sound
  <2>5. scan.due \subseteq Linked(tab) /\ scan.cursor \in Nat
    BY <1>2, <2>1 DEF Ahead, ScanType
  <2>6. ASSUME NEW k \in scan'.due \ scan'.seen PROVE Pos(d, k) >= scan'.cursor
    <3>1. Pos(tab, k) >= scan.cursor
      BY <1>4, <2>1, <2>2 DEF Ahead
    <3>2. Pos(d, k) >= Pos(tab, k)
      BY <2>2 DEF Moves
    <3>3. Pos(d, k) \in Nat /\ Pos(tab, k) \in Nat
      BY <2>2, <2>3, <2>4, <2>5
    <3> QED BY <1>4, <2>5, <3>1, <3>2, <3>3
  <2>7. ASSUME scan'.still, NEW k \in scan'.due \cap scan'.seen
        PROVE  Pos(d, k) < scan'.cursor
    <3>1. scan.still /\ StaysPut(d)
      BY <1>4, <1>5, <2>7
    <3>2. Pos(tab, k) < scan.cursor
      BY <1>4, <2>1, <2>2, <3>1 DEF Ahead
    <3>3. k \in Linked(d) \cap Linked(tab)
      BY <2>2, <2>5
    <3>4. Pos(d, k) = Pos(tab, k)
      BY <3>1, <3>3 DEF StaysPut, Pos, Size
    <3> QED BY <1>4, <3>2, <3>4
  <2> QED BY <2>2, <2>6, <2>7 DEF Ahead
<1> QED BY <1>1, <1>4, <1>5 DEF TablesInv

LEMMA SetNewInv ==
    ASSUME TablesInv, NEW k \in Keys, NEW a \in Nat, SetNew(k, a)
    PROVE  TablesInv'
<1> DEFINE d == Find(tab, k)
           p == [d EXCEPT !.hot = Put(@, k), !.at[k] = a]
<1>1. PICK e \in Demotions(p) : /\ ~ Finds(d, k)
                                     /\ After(RehashIfNeeded(e), {k})
                                     /\ StartPass(RehashIfNeeded(e))
  BY DEF SetNew
<1>2. Sound(tab)
  BY DEF TablesInv
<1>3. Sound(d) /\ Moves(tab, d, {k})
  BY <1>2, FindOk
<1>4. Sound(p) /\ Moves(d, p, {k})
  <2> HIDE DEF d
  <2> QED BY <1>1, <1>3, PutOk
<1> HIDE DEF d, p
<1>5. Sound(e) /\ Moves(p, e, {k})
  BY <1>1, <1>4, DemotionsOk
<1>6. Sound(RehashIfNeeded(e)) /\ Moves(e, RehashIfNeeded(e), {k})
  BY <1>5, RehashOk
<1>7. Moves(tab, p, {k})
  BY <1>2, <1>3, <1>4, MovesTrans
<1>8. Moves(tab, e, {k})
  BY <1>2, <1>4, <1>5, <1>7, MovesTrans
<1>9. Moves(tab, RehashIfNeeded(e), {k})
  BY <1>2, <1>5, <1>6, <1>8, MovesTrans
<1>10. pass'.best \in Keys \cup {NoKey}
  BY <1>1 DEF StartPass, NoPass, TablesInv
<1> QED BY <1>1, <1>6, <1>9, <1>10, AfterInv

LEMMA SetExistingInv ==
    ASSUME TablesInv, NEW k \in Keys, NEW a \in Nat, SetExisting(k, a)
    PROVE  TablesInv'
<1> DEFINE d == [tab EXCEPT !.at[k] = a]
<1>1. Sound(tab)
  BY DEF TablesInv
<1>2. Sound(d) /\ Moves(tab, d, {k}) /\ Moves(tab, d, {})
  BY <1>1, AtOk
<1>3. CASE InCold(d, k)
  <2>1. PICK e \in Demotions(Promote(d, k)) : After(e, {k}) /\ StartPass(e)
    BY <1>3 DEF SetExisting
  <2> HIDE DEF d
  <2>2. Sound(Promote(d, k)) /\ Moves(d, Promote(d, k), {k})
    BY <1>2, <1>3, PromoteOk
  <2>3. Sound(e) /\ Moves(Promote(d, k), e, {k})
    BY <2>1, <2>2, DemotionsOk
  <2>4. Moves(d, e, {k})
    BY <1>2, <2>2, <2>3, MovesTrans
  <2>5. Moves(tab, e, {k})
    BY <1>1, <1>2, <2>3, <2>4, MovesTrans
  <2>6. pass'.best \in Keys \cup {NoKey}
    BY <2>1 DEF StartPass, NoPass, TablesInv
  <2> QED BY <2>1, <2>3, <2>5, <2>6, AfterInv
<1>4. CASE ~ InCold(d, k)
  <2>1. After(d, {}) /\ StartPass(d)
    BY <1>4 DEF SetExisting
  <2> HIDE DEF d
  <2>2. pass'.best \in Keys \cup {NoKey}
    BY <2>1 DEF StartPass, NoPass, TablesInv
  <2> QED BY <1>2, <2>1, <2>2, AfterInv
<1> QED BY <1>3, <1>4

LEMMA GetInv ==
    ASSUME TablesInv, NEW k \in Keys, Get(k)
    PROVE  TablesInv'
<1>1. PICK e \in Demotions(Promote(tab, k)) :
          After(e, {k}) /\ InCold(tab, k) /\ pass' = pass
  BY DEF Get
<1>2. Sound(tab) /\ pass'.best \in Keys \cup {NoKey}
  BY <1>1 DEF TablesInv
<1>3. Sound(Promote(tab, k)) /\ Moves(tab, Promote(tab, k), {k})
  BY <1>1, <1>2, PromoteOk
<1>4. Sound(e) /\ Moves(Promote(tab, k), e, {k})
  BY <1>1, <1>3, DemotionsOk
<1>5. Moves(tab, e, {k})
  BY <1>2, <1>3, <1>4, MovesTrans
<1> QED BY <1>1, <1>2, <1>4, <1>5, AfterInv

LEMMA SetSoftCapInv ==
    ASSUME TablesInv, SetSoftCap
    PROVE  TablesInv'
<1>1. PICK e \in Demotions(tab) : After(e, {}) /\ pass' = pass
  BY DEF SetSoftCap
<1>2. Sound(tab) /\ pass'.best \in Keys \cup {NoKey}
  BY <1>1 DEF TablesInv
<1>3. Sound(e) /\ Moves(tab, e, {})
  BY <1>1, <1>2, DemotionsOk
<1> QED BY <1>1, <1>2, <1>3, AfterInv

LEMMA DelInv ==
    ASSUME TablesInv, NEW k \in Keys, Del(k)
    PROVE  TablesInv'
<1> DEFINE e == IF InHot(tab, k) THEN Free(tab, "hot", Bucket(k, Size(tab.hot)), {k})
                ELSE Free(tab, "cold", Bucket(k, Size(tab.cold)), {k})
<1>1. After(e, {}) /\ Finds(tab, k) /\ pass' = pass
  BY DEF Del
<1>2. Sound(tab) /\ pass'.best \in Keys \cup {NoKey}
  BY <1>1 DEF TablesInv
<1>3. Sound(e) /\ Moves(tab, e, {})
  BY <1>1, <1>2, FreeFoundOk
<1> HIDE DEF e
<1> QED BY <1>1, <1>2, <1>3, AfterInv

LEMMA ExpireInv ==
    ASSUME TablesInv, NEW tier \in {"hot", "cold"}, NEW b \in DOMAIN tab[tier],
           NEW k \in tab[tier][b], ActiveExpire(tier, b, k)
    PROVE  TablesInv'
<1>1. After(Free(tab, tier, b, {k}), {}) /\ pass' = pass
  BY DEF ActiveExpire
<1>2. Sound(tab) /\ pass'.best \in Keys \cup {NoKey} /\ {k} \in SUBSET tab[tier][b]
  BY <1>1 DEF TablesInv
<1>3. Sound(Free(tab, tier, b, {k})) /\ Moves(tab, Free(tab, tier, b, {k}), {})
  BY <1>2, FreeOk
<1> QED BY <1>1, <1>2, <1>3, AfterInv

LEMMA SetLayoutInv ==
    ASSUME TablesInv, SetLayout
    PROVE  TablesInv'
<1>1. Sound(tab) /\ pass'.best \in Keys \cup {NoKey}
  BY DEF TablesInv, SetLayout
<1>2. CASE tab.layout = "flat"
  <2>1. After(MigrateToHotCold(tab), {})
    BY <1>2 DEF SetLayout
  <2>2. Sound(MigrateToHotCold(tab)) /\ Moves(tab, MigrateToHotCold(tab), {})
    BY <1>1, <1>2, HotColdOk
  <2> QED BY <1>1, <2>1, <2>2, AfterInv
<1>3. CASE tab.layout # "flat"
  <2>1. After(MigrateToFlat(tab), Entries(tab.cold))
    BY <1>3 DEF SetLayout
  <2>2. Sound(MigrateToFlat(tab)) /\ Moves(tab, MigrateToFlat(tab), Entries(tab.cold))
    BY <1>1, FlatOk
  <2> QED BY <1>1, <2>1, <2>2, AfterInv
<1> QED BY <1>2, <1>3

LEMMA SampleInv ==
    ASSUME TablesInv, NEW tier \in {"hot", "cold"}, NEW b \in DOMAIN tab[tier],
           SampleBucket(tier, b)
    PROVE  TablesInv'
<1> DEFINE due == {k \in tab[tier][b] : Due(tab, k, now)}
           rest == tab[tier][b] \ due
<1>1. /\ After(Free(tab, tier, b, due), {})
      /\ pass'.best \in {pass.best} \cup rest
  BY DEF SampleBucket
<1>2. due \in SUBSET tab[tier][b] /\ rest \subseteq tab[tier][b]
  OBVIOUS
<1> HIDE DEF due, rest
<1>3. Sound(tab)
  BY DEF TablesInv
<1>4. tab[tier][b] \subseteq Keys
  <2>1. Shape(tab, Size(tab.hot), Entries(tab.hot), Size(tab.cold), Entries(tab.cold))
    BY <1>3 DEF Sound
  <2>2. Entries(tab.hot) \subseteq Keys /\ Entries(tab.cold) \subseteq Keys
    BY <2>1, ShapeFacts
  <2>3. tab[tier][b] \subseteq Entries(tab[tier])
    BY DEF Entries, Range
  <2> QED BY <2>2, <2>3
<1>5. pass'.best \in Keys \cup {NoKey}
  BY <1>1, <1>2, <1>4 DEF TablesInv
<1>6. Sound(Free(tab, tier, b, due)) /\ Moves(tab, Free(tab, tier, b, due), {})
  BY <1>2, <1>3, FreeOk
<1> QED BY <1>1, <1>5, <1>6, AfterInv

\* A step that leaves tables and iteration alone.
LEMMA IdleInv ==
    ASSUME TablesInv, UNCHANGED <<tab, scan>>, pass'.best \in Keys \cup {NoKey}
    PROVE  TablesInv'
  BY DEF TablesInv, Sound, Shape, Ahead, Linked, Pos

LEMMA EvictInv ==
    ASSUME TablesInv, EvictBest
    PROVE  TablesInv'
<1> DEFINE k == pass.best
           e == IF InHot(tab, k) THEN Free(tab, "hot", Bucket(k, Size(tab.hot)), {k})
                ELSE Free(tab, "cold", Bucket(k, Size(tab.cold)), {k})
<1>1. Sound(tab) /\ k \in Keys \cup {NoKey}
  BY DEF TablesInv
<1>2. CASE k = NoKey
  <2>1. UNCHANGED <<tab, scan>> /\ pass'.best = NoKey
    BY <1>2 DEF EvictBest, NoPass
  <2> QED BY <2>1, IdleInv
<1>3. CASE k # NoKey /\ Finds(tab, k)
  <2>1. After(e, {}) /\ pass'.best = NoKey
    BY <1>3 DEF EvictBest, NoPass
  <2> HIDE DEF k
  <2>2. k \in Keys
    BY <1>1, <1>3
  <2>3. Sound(e) /\ Moves(tab, e, {})
    BY <1>1, <1>3, <2>2, FreeFoundOk
  <2> HIDE DEF e
  <2> QED BY <2>1, <2>3, AfterInv
<1>4. CASE k # NoKey /\ ~ Finds(tab, k)
  <2>1. UNCHANGED <<tab, scan>> /\ pass' = pass
    BY <1>4 DEF EvictBest
  <2> QED BY <1>1, <2>1, IdleInv
<1> QED BY <1>2, <1>3, <1>4

\* A call of SCAN: it begins an iteration or goes on with one.
LEMMA ScanInv ==
    ASSUME TablesInv, NEW count \in 1..MaxCount, Scan(count)
    PROVE  TablesInv'
<1> DEFINE begins == ~ scan.on
           owed == IF begins THEN Linked(tab) ELSE scan.due
           seen == IF begins THEN {} ELSE scan.seen
           cursor == IF begins THEN 0 ELSE scan.cursor
           page == ScanPage(tab, cursor, count, now)
           due == owed \cap Linked(page.tab)
           twice == page.keys \cap seen \cap due
           still == begins \/ scan.still
<1>1. /\ tab' = page.tab /\ pass' = pass
      /\ scan' = [on |-> page.next # 0, cursor |-> page.next,
                  seen |-> IF page.next = 0 THEN {} ELSE (seen \cup page.keys) \cap due,
                  due |-> IF page.next = 0 THEN {} ELSE due,
                  still |-> page.next = 0 \/ still,
                  missed |-> IF page.next = 0 THEN due \ (seen \cup page.keys) ELSE {},
                  twice |-> IF still THEN twice ELSE {}]
  BY DEF Scan
<1>2. Sound(tab) /\ scan \in ScanType /\ pass.best \in Keys \cup {NoKey}
  BY DEF TablesInv
<1>3. /\ cursor \in Nat /\ seen \in SUBSET Keys /\ count \in Nat /\ count > 0
      /\ still \in BOOLEAN
  BY <1>2, TablesAssumption DEF ScanType
<1>4. /\ Linked(tab) \subseteq Keys /\ \A k \in Linked(tab) : Pos(tab, k) \in Nat
  <2>1. Shape(tab, Size(tab.hot), Entries(tab.hot), Size(tab.cold), Entries(tab.cold))
    BY <1>2 DEF Sound
  <2> QED BY <2>1, PosRange
<1>5. /\ owed \subseteq Linked(tab)
      /\ \A k \in owed \ seen : Pos(tab, k) >= cursor
      /\ still => \A k \in owed \cap seen : Pos(tab, k) < cursor
  <2>1. CASE begins
    BY <1>4, <2>1
  <2>2. CASE ~ begins
    BY <2>2 DEF TablesInv, Ahead
  <2> QED BY <2>1, <2>2
<1> HIDE DEF owed, seen, cursor, page, still
<1>6. /\ Sound(page.tab) /\ Linked(page.tab) \subseteq Linked(tab)
      /\ \A k \in Linked(page.tab) : Pos(page.tab, k) = Pos(tab, k)
      /\ page.keys \subseteq Linked(page.tab) /\ page.next \in Nat
      /\ page.next # 0 => page.next > cursor
      /\ \A k \in page.keys : /\ Pos(tab, k) >= cursor
                              /\ page.next # 0 => Pos(tab, k) < page.next
      /\ \A k \in Linked(page.tab) \ page.keys :
            Pos(tab, k) >= cursor => page.next # 0 /\ Pos(tab, k) >= page.next
  BY <1>2, <1>3, PageFacts DEF page
<1>7. still => twice = {}
  <2>1. SUFFICES ASSUME still, NEW k \in twice PROVE FALSE
    OBVIOUS
  <2>2. Pos(tab, k) < cursor /\ Pos(tab, k) >= cursor /\ Pos(tab, k) \in Nat
    BY <1>4, <1>5, <1>6, <2>1
  <2> QED BY <1>3, <2>2
<1>8. page.next = 0 => due \ (seen \cup page.keys) = {}
  <2>1. SUFFICES ASSUME page.next = 0, NEW k \in due \ (seen \cup page.keys) PROVE FALSE
    OBVIOUS
  <2>2. Pos(tab, k) >= cursor /\ k \in Linked(page.tab) \ page.keys
    BY <1>5, <2>1
  <2> QED BY <1>6, <2>1, <2>2
<1>9. /\ due \in SUBSET Keys /\ seen \cup page.keys \in SUBSET Keys
  BY <1>3, <1>4, <1>6
<1>10. ASSUME page.next # 0
       PROVE  /\ \A k \in due \ (seen \cup page.keys) : Pos(page.tab, k) >= page.next
              /\ still => \A k \in due \cap (seen \cup page.keys) :
                             Pos(page.tab, k) < page.next
  <2>1. ASSUME NEW k \in due \ (seen \cup page.keys) PROVE Pos(page.tab, k) >= page.next
    BY <1>5, <1>6, <2>1
  <2>2. ASSUME still, NEW k \in due \cap (seen \cup page.keys)
        PROVE  Pos(page.tab, k) < page.next
    <3>1. Pos(page.tab, k) = Pos(tab, k) /\ Pos(tab, k) \in Nat /\ k \in owed
      BY <1>4, <1>6
    <3>2. CASE k \in page.keys
      BY <1>6, <1>10, <3>1, <3>2
    <3>3. CASE k \in seen
      <4>1. Pos(tab, k) < cursor /\ page.next > cursor
        BY <1>5, <1>6, <1>10, <2>2, <3>1, <3>3
      <4> QED BY <1>3, <1>6, <3>1, <4>1
    <3> QED BY <3>2, <3>3
  <2> QED BY <2>1, <2>2
<1> HIDE DEF due, twice
<1>11. /\ scan'.on = (page.next # 0) /\ scan'.cursor = page.next
       /\ scan'.seen = IF page.next = 0 THEN {} ELSE (seen \cup page.keys) \cap due
       /\ scan'.due = IF page.next = 0 THEN {} ELSE due
       /\ scan'.still = (page.next = 0 \/ still)
       /\ scan'.missed = {} /\ scan'.twice = {}
  BY <1>1, <1>7, <1>8
<1>12. scan' \in ScanType
  BY <1>1, <1>3, <1>6, <1>7, <1>8, <1>9 DEF ScanType
<1>13. scan'.on => Ahead(page.tab, scan')
  <2>1. due \subseteq Linked(page.tab)
    BY DEF due
  <2> QED BY <1>10, <1>11, <2>1 DEF Ahead
<1> QED BY <1>1, <1>2, <1>6, <1>11, <1>12, <1>13 DEF TablesInv

LEMMA NextInv ==
    ASSUME TablesInv, [TNext]_tvars
    PROVE  TablesInv'
<1>1. ASSUME NEW k \in Keys, NEW a \in {0, MaxNow}, SetNew(k, a) \/ SetExisting(k, a)
      PROVE  TablesInv'
  <2>1. a \in Nat
    BY TablesAssumption
  <2> QED BY <1>1, <2>1, SetNewInv, SetExistingInv
<1>2. ASSUME NEW k \in Keys, Get(k) \/ Del(k) PROVE TablesInv'
  BY <1>2, GetInv, DelInv
<1>3. ASSUME NEW tier \in {"hot", "cold"}, NEW b \in DOMAIN tab[tier], SampleBucket(tier, b)
      PROVE  TablesInv'
  BY <1>3, SampleInv
<1>4. ASSUME NEW tier \in {"hot", "cold"}, NEW b \in DOMAIN tab[tier],
             NEW k \in tab[tier][b], ActiveExpire(tier, b, k)
      PROVE  TablesInv'
  BY <1>4, ExpireInv
<1>5. ASSUME SetLayout \/ SetSoftCap PROVE TablesInv'
  BY <1>5, SetLayoutInv, SetSoftCapInv
<1>6. ASSUME ScanNext PROVE TablesInv'
  BY <1>6, ScanInv DEF ScanNext
<1>7. ASSUME EvictBest PROVE TablesInv'
  BY <1>7, EvictInv
<1>8. ASSUME Tick \/ UNCHANGED tvars PROVE TablesInv'
  <2>1. UNCHANGED <<tab, scan>> /\ pass'.best \in Keys \cup {NoKey}
    BY <1>8 DEF Tick, tvars, TablesInv
  <2> QED BY <2>1, IdleInv
<1> QED BY <1>1, <1>2, <1>3, <1>4, <1>5, <1>6, <1>7, <1>8 DEF TNext

LEMMA TablesInvariant == TSpec => []TablesInv
<1>1. TablesInv /\ [TNext]_tvars => TablesInv'
  BY NextInv
<1> QED BY <1>1, InitInv, PTL DEF TSpec

-----------------------------------------------------------------------------
(* The theorems.                                                           *)

\* A set of buckets whose members all equal c has at most one.
LEMMA AtMostOne ==
    ASSUME NEW B, NEW c, \A b \in B : b = c
    PROVE  Cardinality(B) \in Nat /\ Cardinality(B) <= 1 /\ (B = {} => Cardinality(B) = 0)
<1>1. CASE B = {}
  BY <1>1, FS_EmptySet
<1>2. CASE B # {}
  <2>1. B = {c}
    BY <1>2
  <2> QED BY <2>1, FS_Singleton
<1> QED BY <1>1, <1>2

LEMMA SoundFindable ==
    ASSUME Sound(tab)
    PROVE  EveryEntryFindable
<1> DEFINE n == Size(tab.hot)
           S == Entries(tab.hot)
           m == Size(tab.cold)
           C == Entries(tab.cold)
<1>1. Shape(tab, n, S, m, C)
  BY DEF Sound
<1> HIDE DEF n, S, m, C
<1>2. /\ n \in Nat \ {0} /\ m \in Nat /\ S \subseteq Keys /\ C \subseteq Keys
      /\ S \cap C = {} /\ Linked(tab) = S \cup C
      /\ DOMAIN tab.hot = 0..(n - 1) /\ DOMAIN tab.cold = 0..(m - 1)
  BY <1>1, ShapeFacts
<1>3. tab.layout = "flat" <=> tab.cold = NoBuckets
  <2>1. tab.cold = Table(m, C) /\ (tab.layout = "flat" <=> m = 0) /\ (m = 0 => C = {})
    BY <1>1 DEF Shape
  <2>2. CASE m = 0
    BY <2>1, <2>2, NoBucketsFacts
  <2>3. CASE m # 0
    <3>1. Table(m, C) # NoBuckets
      BY <1>2, <2>3, NoBucketsFacts
    <3> QED BY <2>1, <2>3, <3>1
  <2> QED BY <2>2, <2>3
<1>4. KeysNow(tab, now) = {k \in Linked(tab) : ~ Due(tab, k, now)}
  BY KeysFacts
<1>5. \A k \in Linked(tab) : Finds(tab, k)
  BY <1>1, <1>2, LookupFinds
<1>6. ASSUME NEW k \in Keys
      PROVE  Cardinality({b \in DOMAIN tab.hot : k \in tab.hot[b]})
             + Cardinality({b \in DOMAIN tab.cold : k \in tab.cold[b]}) <= 1
  <2> DEFINE A == {b \in DOMAIN tab.hot : k \in tab.hot[b]}
             B == {b \in DOMAIN tab.cold : k \in tab.cold[b]}
  <2>1. (\A b \in A : b = Bucket(k, n)) /\ (k \notin S => A = {})
    BY <1>1, <1>2, InBucket
  <2>2. (\A b \in B : b = Bucket(k, m)) /\ (k \notin C => B = {})
    BY <1>1, <1>2, InBucket
  <2> HIDE DEF A, B
  <2>3. Cardinality(A) \in Nat /\ Cardinality(A) <= 1 /\ (A = {} => Cardinality(A) = 0)
    BY <2>1, AtMostOne
  <2>4. Cardinality(B) \in Nat /\ Cardinality(B) <= 1 /\ (B = {} => Cardinality(B) = 0)
    BY <2>2, AtMostOne
  <2>5. k \notin S \/ k \notin C
    BY <1>2
  <2>6. Cardinality(A) + Cardinality(B) <= 1
    BY <2>1, <2>2, <2>3, <2>4, <2>5
  <2> QED BY <2>6 DEF A, B
<1> QED BY <1>3, <1>4, <1>5, <1>6 DEF EveryEntryFindable

\* Whatever the hash function, the sizes and the order of inserts, deletes,
\* promotions, demotions, migrations, sampling passes and ticks of the clock:
\* every entry hangs in the one bucket that find_in_table visits, and KEYS and
\* DBSIZE report exactly the keys a lookup would find.
THEOREM LookupsFind == TSpec => []EveryEntryFindable
<1>1. TablesInv => EveryEntryFindable
  BY SoundFindable DEF TablesInv
<1> QED BY <1>1, TablesInvariant, PTL

\* A SCAN iteration over tables of any size, with any COUNTs and any commands
\* between its calls, misses no key that stayed and was not moved in front of
\* the cursor, and returns none twice while nothing moves.
THEOREM ScanComplete == TSpec => []ScanMissesNothing
<1>1. TablesInv => ScanMissesNothing
  BY DEF TablesInv, ScanMissesNothing
<1> QED BY <1>1, TablesInvariant, PTL
=============================================================================
